# TLA+ verification of the solbot field robot

The repository is the software of a solar field robot: the ESP32 firmware of its
power boards (`src/embedded/`), and a ROS 2 workspace (`src/src/`) with the navigation
stack, the pause manager, the implement and the GNSS driver. This directory holds TLA+
models of the parts whose correctness depends on the order of events, the TLC
configurations that check them and TLAPS proofs about them.

## 1. The system

| Component | State it keeps | Operations | Talks to |
|---|---|---|---|
| Power manager, board v1 (`power.cpp`) | switch, mode, fault and timers of each pack; PV switch, mode and timers; over-temperature; surplus timer | `update` at 10 Hz (measure, protect, smartSwap, discharge, charge), `setPackMode`, `setPvMode`, `resetFaults`, `adoptSwitchStates` | called by the power task and the MQTT handler of `main.cpp` under one lock |
| Board main program and expander driver (`main.cpp`, `hal.cpp`) | shadow register of the expander, last applied switches, e-stop, IMU | break-before-make switching, adoption after a reset, periodic verify, IMU reset pulse | I2C, MQTT |
| Actuator (`actuator.cpp`) | goal, position, duty, latched fault, timers | `control`, `updatePosition`, commands, configuration | control task, MQTT |
| Network (`netcfg.cpp`) | WiFi and MQTT session, portal, configuration in RAM and in flash | joining, portal, subscribing, configuration commands, restart | WiFi, broker, NVS flash |
| PV manager, board v2 (`pv.cpp`, `main.cpp` of v2) | PV switch, off time, mode | `update`, commands | its task, MQTT |
| Field navigator and its nodes (`field_nav`, `field_bt_nodes`) | directed lines, offsets, blackboard, `field_progress.json` | goal, preempt, completion; pick line, turn, headland pose, offset; load and save progress | nav2 behaviour tree server, field files |
| Field trees (`field_nav/behavior_trees`) | running leaf; line, stage, map points on the blackboard | one leaf per leg of a line | action servers, lift and planter services, progress file, `/pause` |
| One-line and GeoJSON-line navigators (`one_line_nav`, `geojson_line_nav`) | the line in one of its directions, blackboard | goal, preempt, completion; their trees | planners, controllers, `/pause` |
| Pause nodes (`pause_bt_nodes`) | last `/pause` heard | guard and wait | `/pause` |
| Pause manager (`pause_manager`) | active conditions, history, emergency stop, suppress list and its file | diagnostic reports, manual pauses, resume, suppress services, staleness and publishing timers | components (`/diagnostic_report`), operator, `/pause`, `/cmd_vel` |
| Planners (`planner`, `universal_rs_planner`) | constraint of the one-line mission, step of the turn | plan | planner server |
| Controllers (`controller`), arc behaviour (`drive_arc`) | path, index, speed limit, PID state; start yaw and time | new path, one control cycle, cancel | controller and behaviour servers |
| Tool slider (`tool_slider`) | last command, row lost, time of the last offset | offset, watchdog, actuator | topics |
| GNSS driver (`ublox_dgnss_node`) | USB connection and transfer queue; parameter cache; two message queues; configuration map | hot plug, transfers, three timers, parameter callback, initialisation | libusb, receiver, topics |
| NTRIP client, fix node | stream and exit flag; covariance and status | stream, reconnect, destructor; three topics | caster, driver |
| Drive, steering, localization | continuous control | | ROS topics |

How they interact: components and the operator report to the pause manager; it
publishes `/pause`; the guards of the trees hear it and halt the running leg. A tree
drives a line leg by leg through planners, controllers and behaviours, and keeps line
and stage on the blackboard and, in the field, in the progress file that the next
mission resumes from. The tool slider, the GNSS driver and the firmware are independent
of all this: they hold the bar on the row, say where the robot is, and keep it powered
while packs, sun, networks, receivers and operators come and go.

What is hard here, and what the models are for:

* one `update` of the power policy runs four phases over shared pack state; a phase
  must not undo what an earlier one decided, and faults of the same pack meet in
  one pass;
* the policy's decisions pass through an expander whose transfers fail, across resets
  of the controller and brown-outs of the expander; commands arrive between the sampling
  and the control loop of an actuator; a configuration is torn by a reset;
* a mission may be paused, cancelled, preempted or killed between any two leaves, with a
  save that is refused, torn or silently lost, and is then resumed from the file;
* controllers meet paths that turn back on themselves, lost transforms, new paths, and
  state that outlives a swath;
* the pause manager clears a condition along five paths, with an emergency stop, a
  bounded history and a persisted suppress list to keep consistent;
* the GNSS driver's thread and timers share a connection, a cache and two queues with a
  receiver that is plugged in and out at any moment.

`PROJECT.json` lists every component with its status, and every hazard with its line.

What makes each component correct, beyond its types:

* *power policy*: a pack latched by an over-current stays open; the loads keep a
  pack while one can feed them; no pack is paralleled across a voltage step; PV never
  charges a full pack, a hot board or through a fault;
* *switches*: the register follows the policy break-before-make and drops nothing
  unasked, although writes fail; *actuator*: it moves only to a goal inside its limits
  that no stop has cancelled, with a position to go by and without a fault; *network*:
  the board can always be talked to and remembers what it acknowledged; *charger*: it
  rests when it must and charges when it may;
* *missions*: no swath is passed over or worked twice, progress never moves back,
  completion is reported only for a worked field, every mission drives its own line and
  stands while it is paused;
* *planners and controllers*: a plan can be driven to its goal, the headland turn joins
  the next swath, a path is followed segment by segment to its end, the tool is brought
  to the line, the bar is held while there is no row;
* *pause manager*: the emergency stop lasts exactly as long as its cause, a pause that
  waits for the operator waits, one that clears itself does not stick, and what is
  suppressed does not pause;
* *GNSS driver*: an attached receiver is read from, it gets its start arguments and what
  the node shows is what the receiver holds, every message is published once and in
  order with the fields it has, and what is begun ends.

## 2. Modules

| Module | Models |
|---|---|
| `PowerManager` | the power policy of board v1 |
| `FieldMission` | what the field trees share: goal, blackboard, progress file, pause topic |
| `FieldHw` | the robot's tree `field_nav_hw.xml`; extends `FieldMission` |
| `FieldSim` | the simulator's tree `field_nav_sim.xml`; extends `FieldMission` |
| `FieldOrder` | abstract specification: lines worked in order, completion only when all are |
| `FieldLines` | `field_navigator.cpp` and the nodes that pick lines: files, goals, preemption, legs |
| `OneLine` | the one-line mission: navigator, nodes, tree, constraint topic |
| `LineNav` | the GeoJSON-line mission: navigator, tree for the robot, both pause nodes |
| `Planners` | Reeds-Shepp, universal Reeds-Shepp and straight-line planner |
| `SwathTurn` | the three-part headland turn planner |
| `RsController` | `rs_path_controller.cpp` |
| `ToolFollower` | tool line follower and its heir for arcs |
| `DriveArc` | the arc behaviour |
| `ToolSlider` | slider controller, simulated actuator and detector |
| `PauseManager` | `pause_manager.py` |
| `Switches` | power task, expander driver, IMU reset |
| `Actuator` | `actuator.cpp` with the control task and its commands |
| `BoardNet` | `netcfg.cpp` with the commands of `main.cpp` |
| `BoardV2` | `pv.cpp` with its task and commands |
| `GnssUsb` | `usb.cpp` with the two callers of the initialisation in the node |
| `GnssParams` | parameter cache, initialisation, parameter timer and callback |
| `GnssFrames` | queues, timers and published messages |
| `GnssStart` | device family, configuration files, start arguments, choice of a receiver |
| `GnssClients` | NTRIP client and fix node |
| `UbxDecode` | layouts of the decoders |
| `MCPower`, `MCPause`, `MCNavigation`, `MCDevices` | constants of TLC runs; the last two compose parts that share no state |
| `PowerProofs`, `FieldProofs`, `FieldSimProofs`, `PauseProofs`, `GnssProofs`, `NavigationProofs`, `BoardProofs`, `DevicesProofs` | theorems |

Operators named `Mut...` are deliberate bugs, each next to the definition it breaks;
no specification uses them. Each shows that a property fails when the code is wrong.
A variable described as "not a variable of the code" is history that a property needs.

### PowerManager

An action `Update` is one call of `PowerManager::update` under the firmware's lock,
on a nondeterministic sample of voltages, currents, sun and temperature. `Protected`,
`Swapped`, `Discharged` and `PvCharge` are its phases, each a function of the sample
and of what the phase before handed on. The loop of `protect()` is kept where its
order shows: `PvSeenBy` (a pack sees the PV switch as earlier packs left it),
`UvTrips` (the "last pack" counts those not yet opened), `FaultProtected` (a later
test overwrites the fault of an earlier). `SetPackMode`, `SetPvMode`, `ResetFaults`
are the MQTT commands; `Restart` is an ESP32 reset after which the policy adopts the
switch positions that the expander kept.

Abstractions: voltages and currents are integers on the scale of the constants;
the PV current and the temperature are classes; a timestamp is an age in updates that
stops one past its limit, because the code only asks whether the limit is exceeded;
SOC, amp-hours, auto-zero and reports are left out. `meas` is the last sample and
`tripped` a history variable. An open switch reads no current and a closed PV switch
hides the sun, as in `measure()`.

### Switches, Actuator, BoardNet, BoardV2

`Switches` takes the policy as any choice of packs and follows it through the power
task: open, close, IMU pulse, verify, one action per register write. A transfer may fail
while the bus is bad, and a write that failed may have reached the register; the
expander keeps its latch over an ESP32 reset and loses it in a brown-out. The control
task's side of the IMU is there because the reset line shares the shadow register;
`imuAge` may be `Ahead`, when an event is stamped after the cycle took its time.

`Actuator` is one cycle in two actions, since the control task takes the time, reads the
converters for milliseconds and then runs the loop under the lock: commands, the e-stop
and a new configuration fall in between. Positions and duties are small integers.

`BoardNet` splits a command into the steps between which the board may reset or enter
`mqtt.loop()` again: working copy, flash key by key, answer, restart. A configuration is
torn by a reset between two keys. `BoardV2` keeps the two pins apart from the manager's
decision, as the task writes them from copies after it released the lock.

### FieldMission, FieldHw, FieldSim

`node` is the leaf that is running; one action per leaf that lasts several ticks,
including everything the tree does in the same tick afterwards. "tick" is the start of
a pass over the reactive sequence, "halt" the pause branch while `StopPlanter` is
called, "wait" the wait for the end of the pause. `line`, `stage` and `map` are the
blackboard: `map` is the line the map points belong to, so that a leg driven along
stale points is visible. `turn_direction` is written with the line by every node, so
it is a function of it (`CheckSkipTurn`).

`file` is `field_progress.json`: absent, saved, or torn. `SaveResults` says what
`SaveFieldProgress` may do: succeed, be refused (the file cannot be opened), report
success on a full disk and leave a torn file, or die between truncating and writing.
The constant `Faults` chooses which of these, and of failing coordinate conversions
and planter calls, may happen. Cancel and crash are `Stop`; a service call that was
under way may have been carried out or not (`Interrupted`).

Outside the repository and modelled from its use: the action servers and the lift and
planter services (they succeed, fail, or are halted), and the nav2 tree server
(cancel, halt). Not modelled here: the handbrake, and the RS planner's constraint topic.

History variables: `worked` and `from`, the lines worked in this pass over the field
and where it started; `slipped`, the mission took "Field complete" because moving on
failed; `hopPaused`, a pause halted a hop.

### FieldLines, OneLine, LineNav

These three follow one navigator plugin each, with the nodes of its tree, a goal that
preempts a running one, and files that do not load. `FieldLines` keeps lines as records
and the end of a swath as a grid pose, and runs the legs of a line in the order of the
trees. `OneLine` keeps the line in one of its two directions, once as geo points and once
as map points, and the constraint topic with its two messages in flight. `LineNav`
includes the `/pause` messages that a node receives only when it ticks, and those
published before it subscribed. `TrimPathToClosest` has no source in the repository: it
leaves any non-empty end of the line.

### Planners, SwathTurn, RsController, ToolFollower, DriveArc, ToolSlider

Continuous quantities become grids chosen so that the code's case distinctions are kept
exactly. A Reeds-Shepp word is a sequence of typed, signed segments whose arcs turn by a
quarter per step, so every interpolated pose is a lattice point; the headland turn lives
on a hexagonal lattice, because its arcs are of 60 and 120 degrees; the controllers'
robot moves along a line of waypoints. What OMPL returns is an input. A control cycle is
one action, with the lost transform, the new path, the cancel and the speed limit between
cycles. `simulateArc` and `arcPathIntersection` are called from no live code and are left
out, as is `tool_rpp_controller.cpp`, which changes only the pose it hands to nav2's controller.

### PauseManager

One action per callback of the node, which runs on a single thread. A condition is
its id with severity, `auto_clearable` and the age of its last report; a history entry
keeps its id and whether it still says "active". `Cleared` is `clear_condition` with
the history entry and the emergency stop recomputed. Writing the suppress file may
fail (old list stays) or be cut (it then reads as empty); `Restart` loads it. Texts,
times of history entries and the read-only history query are left out. The history
variable `asked` is the request that the last step served and the ids its caller asked to
end: without it, a late "ok" that ends one pause looks like a resume that names that pause
alone, and `HighWaits` could not tell them apart.

### GnssUsb, GnssParams, GnssFrames, GnssStart, GnssClients, UbxDecode

The driver is cut along its locks. `GnssUsb` has the thread of libusb's events (hot plug,
transfer callbacks) and the init timer, which meet in `devh_` and `attached_`: `HotArrived`
sets the one, `HotAttached` the other, and the timer's two steps fall in between.
`attached` starts with either value, since the constructor gives it none. `flaws` records
outcomes after which the code promises nothing more (see Observations).

`GnssParams` has a cache entry as [value, source, status, send]; the wire, the receiver's
RAM layer (which another receiver brings with it), and the answers waiting in the queue,
which survive an unplug. Updating the cache and setting the parameter, which calls the
parameter callback, are two steps; so are sending a batch and marking it.

`GnssFrames` has the two queues and timers, each outside its loop, handling or popping; a
message is its name and number of blocks, and the operators `Velocities` ... `Ports` say what
each group of publishing functions publishes. `UbxDecode` says where the decoders
read: the offset and width of every field of every message, with no behaviour, for every
count, version, key length or flag in the payload that a decoder looks at. The sizes of the
payloads are not taken from the decoders: they are the receiver's, header and blocks
(`BlockPayloads`, external). SPARTN keys
follow all their infos and have each its own length; ESF-MEAS has a calibration time or not;
SEC-SIG has blocks in its version 2 only. Where `numMeas` stands within the flags of ESF-MEAS is
taken from the decoder. `GnssStart` is the constructor up to the first receiver. The receiver, libusb,
curl and the caster are modelled from their use.

## 3. Runs

| Run | Bounds | Shows |
|---|---|---|
| `power_discharge` | 2 packs, voltages below critical / at it / under UV / healthy, discharge over-current, modes auto and off | `OcFaultOpen`, `BusServed`, `JoinNear` |
| `power_charge` | 2 packs, low and full, charge over-current / surplus / idle, PV current normal / over / reversed, hot / warm / cool, smart swap on, PV auto and off | `PvGuarded` |
| `power_oc_latch` | as charge, with over-voltage, without swap | `OcTripLatches` is violated |
| `power_pv_resume` | the same | `PvResumes` is violated |
| `field_hw` | 3 lines, every fault | `NoSwathSkipped`, `TurnsClear`, `NotWorkedTwice`, `ProgressAdvances`, `ImplementsOrder`, `MissionEnds` |
| `field_hw_complete` | 3 lines, failing conversions | `CompletedMeansWorked` is violated |
| `field_sim` | 4 lines, failing saves and conversions | `OrderUnlessHopPaused`, `DrivesItsLine`, `MissionEnds` |
| `field_sim_advance` | 3 lines, no fault but a pause | `NoDoubleAdvance` is violated |
| `pause` | 2 component conditions of all severities, 1 operator, exact and wildcard patterns, staleness after one tick, history of 3 | `EmergencyMatches`, `HistoryTruthful`, `SuppressedStaysOut`, `HighWaits`, `SelfClearingClears` |
| `pause_suppress` | the same | `SuppressedNeverPauses` is violated |
| `navigation` | nine parts, see below; 157,000 states | `PlansReachGoalOrMirror`, `SwathsAlternate`, `DrivesOwnLine`, `FieldLinesOK`, `TurnJoins`, `FollowsSegments`, `ArcIsDriven`, `BarHolds`, `ToolIsSteered` |
| `devices` | nine parts, see below; 317,000 states | `DrivesSafely`, `SwitchesObey`, `KeepsInTouch`, `ChargerFollows`, `GnssReads`, `GnssParamsOK`, `GnssFramesOK`, `GnssDataOK`, `GnssTasksEnd` |

The last two runs compose parts that share no state. The variable `part` says which of
them a behaviour is of; the others stand still in one state. Nothing is lost by it, since
a property of one part cannot depend on steps of another, and each property is stated in
the module of its part.

What the parts of `navigation` are asked, and their bounds:

| Part | Property | Bounds |
|---|---|---|
| planners | `PlansReachGoalOrMirror`: a plan is driven step by step to its goal, heading included, except that a word turned round to start forward leads to the goal's mirror image, from where the goal is appended; it starts forward where that was asked for, and a straight one is evenly spaced | every word of at most 3 segments of at most 2 steps; leadout 1 |
| headland turn | `TurnJoins`: an undisturbed turn brings the robot round, one radius aside, and its last arc ends where the next swath's lead-in begins | every pose of the swath within 2 cells of a hexagonal lattice; the robot off its plan after any part |
| Reeds-Shepp controller | `FollowsSegments`: it aims within one segment, drives to its cusp, steers back to the path, keeps the limit, and arrives | paths of at most 4 poses, limits none / lower / higher / percentage |
| arc behaviour | `ArcIsDriven`: a finished arc swept its angle, the robot stands after it, and every run ends | half turn of 5 parts, time allowance 6 cycles |
| tool bar | `BarHolds`: while there is no row the bar keeps the last command, comes to rest there, and the listeners are told | limit 1, topics of depth 2 |
| one-line mission | `SwathsAlternate`: a swath begins where the robot stands and is the last one in the other direction, unless a goal came in between | 2 lines |
| tool follower | `ToolIsSteered`: the first cycles of a swath are calm whatever the last one left behind, and a tool off the line is steered to it | swaths of 3 poses, straight and bent |
| GeoJSON-line mission | `DrivesOwnLine`: it drives the goal's line, joins it on the line only, and stands while it has heard of a pause | files of 3, 1 and no points |
| field lines | `FieldLinesOK`: the nodes look up lines that exist, with their side of the turn and offset, and the headland pose lies ahead of the swath's end, on the side of the turn | 5 field files: three lines, two that do not end, one that breaks off, empty, missing |

And of `devices`:

| Part | Property | Bounds |
|---|---|---|
| actuator | `DrivesSafely`: duty only with a goal in the limits, a position, no fault and no e-stop | positions 0 to 4, both orders of the limits |
| switches | `SwitchesObey`: the shadow is true, no pack is dropped unasked, none joins one that is to leave, in the end the packs are the ones wanted, and an IMU that is still served is let out of its reset | 2 packs, verify every other cycle |
| network | `KeepsInTouch`: what was acknowledged is saved, commands are heard on a session, no configuration strands the board, a portal asked for opens | 2 settings, every reset between two keys |
| charger of board v2 | `ChargerFollows`: it rests its off time in auto mode, and the pin follows a battery that stays in or out of the charging range | voltages to 4, off time 2, valid and invalid limits |
| USB | `GnssReads`: while a receiver is served a read is outstanding, and one that stays plugged in is served in the end | 3 plug events waiting, 1 write in flight |
| parameters | `GnssParamsOK`: start arguments reach the receiver; what is shown is what it holds | 2 items, 2 connections, 1 set or 1 refusal a behaviour |
| queues | `GnssFramesOK`: every message is published once, in order | 2 transfers and 1 poll of a message of each group |
| start, decoders, fix node | `GnssDataOK`: the driver starts configured and opens the receiver meant; every field lies in its message, whatever its counts and lengths, but for NAV-DOP and ESF-MEAS; a fix says no more than its sources | file contents valid / incomplete / unreadable, 4 device lists |
| parameters and clients | `GnssTasksEnd`: a fetch ends, a destructor returns | as above; 3 blocks of corrections |

Why the bounds are enough for what they are asked. The power policy relates packs
pairwise (join, anchor, last pack) and a pack to PV, so two packs show each
interaction, and the theorems cover any number. Timers of one update distinguish "not
running", "running" and "over the limit". Three lines give a first, a middle and a
last one; four let a double advance land inside the field. A history of three
entries is trimmed while conditions are open. Three segments are the fewest in which a
direction changes twice, so that one cusp follows another. Two transfers are the fewest
in which the stream thread adds to a queue that a timer is working on, and two
connections the fewest in which a receiver comes back as another. A behaviour has one
runtime set or one refused message because each of them alone changes an entry for good:
together they multiply states and add no guard of the code.

What the bounds leave out: in `power_charge` no pack is under-voltage, so that an
under-voltage pack joining while the bus is charging is covered by the proof of
`OcFaultOpen` only, and `JoinNear` is checked without the smart swap (with a pack held on
by hand the swap does parallel across a step, see section 5). Internal resistance is 0 in
the runs. Grids abstract angles and lengths: nothing is said about rounding. `devices`
does not check for deadlock, because some of its parts do stop: the driver after a
shutdown or a start that fails, a client after its destructor.

Fairness. `FieldHw` and `FieldSim` assume `WF_vars(Tree)`: the tree server ticks a
running tree in a loop, and the action and service clients time out, so a running
leaf returns, with success or failure. No fairness is given to goals, pauses, cancels
or crashes; `MissionEnds` is conditional on the pauses being over. `PauseManager`
assumes weak fairness of time and of the one-second staleness timer, both of which
the executor serves forever. `navigation` assumes it of the controller server's cycle
(`RsFair`), the behaviour server's cycle (`ArcTask`) and the timers and subscriptions of the
tool bar's nodes. `devices` assumes it of the firmware's tasks, which FreeRTOS runs
periodically, of the driver's timers and event thread while the driver is up, and of the
NTRIP stream; here `WF(FirstTask)` and `WF(SecondTask)` stand for all parts, as only one of
them moves. One assumption is about the world: while the client streams, the caster
sends (`WriteCallback`); without it the destructor waits forever. No fairness is given to
plugging, commands, faults or resets. The firmware's control task, which looks after the IMU,
is among those tasks. The power specification is safety only.

### What the violations show

* `OcTripLatches`: an over-current and an over-voltage of one pack in one update leave
  the over-voltage fault, under which the pack is usable and is closed again at once;
  the host test says "OC fault must latch" (`test_logic.cpp:218`).
* `PvResumes`: the over-voltage fault of a connected pack is never cleared, and PV stays
  off below the voltage the README says it is "back on" at (line 169).
* `CompletedMeansWorked`: a failed save or conversion in "Move to next line" falls
  through to "Field complete": the progress file is deleted and success reported.
  `ImplementsOrder` excludes exactly these missions (`slipped`).
* `NoDoubleAdvance`: the line index advances before the stage does, so a pause in the hop
  repeats the turn and skips a swath, the bug the tree's comment says is avoided.
  `OrderUnlessHopPaused` shows that nothing else in this tree skips one.
* `SuppressedNeverPauses`: adding a wildcard clears no active condition, against
  `ManageSuppressedConditions.srv:2`.

## 4. Proofs

`PowerProofs`, for any number of packs, limits and inputs satisfying the named
assumptions of `PowerManager`:

* `PolicyTypeOK`, `PolicyOcFaultOpen` from the inductive invariant
  `IInv == TypeOK /\ OcFaultOpen`. The argument follows the update: each phase maps a
  state in which latched packs are open to another (`ProtectedPhase`, `SwappedPhase`,
  `DischargedPhase`), so it does not matter that discharge() closes switches after
  protect() opened some.
* `PolicyPvGuarded`: an action property from the type invariant: whatever charge()
  leaves closed was left closed by protect() or was open before.

* `PolicyBusServed`, an action property: the phases hand a number of on-bus packs on, and
  only `protect()` and `discharge()` can make it zero; each does so only when every
  pack that the policy may use is tripped, latched or empty.
* `PolicyJoinNear`, for the board's configuration (`SmartSwap = FALSE`): the packs that join
  in one update are near the anchor, which is on the bus and has the greatest voltage of
  the packs that are, however many there are.

`FieldProofs`, for any number of lines and any set of faults, from the inductive
invariant `Inv`. `NoSwathSkipped` alone is not inductive. It needs `LeafFitsStage` (the
running leaf is one the stage allows, and map points belong to the line),
`RaisedAtTurn` (wherever the stage is "turn" - on the blackboard, or in the file a later
mission resumes from - the implement is up and the planter not simply on) and `FileLags`
(the file is never ahead of the blackboard of a running mission, so a resume continues
where a mission was or before). From it:
`HwTypeOK`, `HwNoSwathSkipped`, `HwTurnsClear`, `HwNotWorkedTwice`,
`HwProgressAdvances`, and `HwImplementsOrder`: every step of the robot's tree maps to a
step of `FieldOrder` or a stutter under
`reported <- outcome = "succeeded" /\ ~slipped`.

`FieldSimProofs`, for any number of lines and any set of faults: `SimTypeOK`,
`SimKeepsOrder` and `SimDrivesItsLine`, from `Inv`. The order of the lines is not inductive
alone: `LegFitsStage` says which leg runs at which stage, that its points are the line's, and
that the last line has no arc, so the leg after it always has a line to lead to.

`PauseProofs`, for any components, ids, patterns and length of the history: `TypeCorrect`,
`StopMatches`, `HistoryIsTruthful`, `SuppressionHolds` and `HighPausesWait`, from `Inv`. The last is stated
of requests: only one whose caller named the id, or a restart, ends a pause of severity HIGH, and
a resume ends no CRITICAL one. One call can clear several conditions, which the model does with a fold over the active ones,
each step of which is the code's `_clear_condition`. The provers cannot instantiate
an induction theorem; the proof takes the least number of steps after which a part of
the invariant fails, from the well-foundedness of the naturals, and refutes it.

`GnssProofs` proves five parts of the driver and its clients, each of its own specification
(in the run they are parts of `devices`), and the types of each.

* `FramesPassOn`, for any transfers and queues of any length. What is published says
  nothing of what is queued; `FramesInv` adds that each queue holds transfers of its
  form in the order of arrival (`Orderly`), that what was passed on came before
  what waits (`Behind`), and that each message of its own is in one of the two places
  (`Accounted`). A transfer of several frames may be dropped, as its checksum is
  compared with another frame's; it never stands for another.
* `ParamsAgree`, for any receivers, parameters and start arguments. `Mirrors` speaks only
  of the time when nothing is under way; `ParamsInv` follows a value on its way. A
  request for an item's default is followed by one for its RAM layer (`RamLast`); the last
  fresh answer about it is the RAM layer's unless another is due (`AnswersRight`); so is
  what the cache shows, unless its receiver left (`CacheRight`, `GoneIsStale`). A start
  argument that no user has changed stays marked as the user's, so nothing asks
  for it, the timer does not collect it, and only its value is ever sent
  (`KeepsArg`). Items a user has changed, or whose request was refused, are exempt,
  as in the property.

* `ReadsOn`, the safety part of `GnssReads`: a receiver that is attached and was asked for
  data has a read outstanding. `StillToAsk` is what the init timer or a hot plug has still
  to do; a read that failed is put in again by its callback or the device is gone.
* `StartIsConfigured` and `FixesJoin`, two parts of `GnssDataOK`: what the driver starts with,
  and what a fix is joined from, whatever the files and the order of the topics.
* `FramesTyped`, `ParamsTyped`, `ConnectionTyped`, `StartTyped`, `ClientsTyped`: the types and the
  bounds they state. `ConnectionTyped` shows that no more than two reads are ever outstanding:
  `ReadsBounded` counts, beside those that are, the ones that the init timer, a hot plug or
  a callback is still to ask for. A receiver that is gone without being closed leaves its reads
  uncounted; there are no more than four. `ParamsTyped` needs that the lowest byte of a value is
  a value (`ParamsAssumption`), as that is what an answer of the device is truncated to.

`NavigationProofs` proves nine parts of `navigation`, each of its own specification.

* `MissionAlternates`, for any lines and turn sides. `SwathsAlternate` speaks of the swath
  only; `MissionInv` adds what the turn works with: what is driven next begins where the
  robot stands (`StartsHere`), geo points and map points agree until a goal preempts
  (`SamePoints`), and from the end of a swath they are that swath turned round (`TurnedRound`).
* `LineDrivesOwnLine`, for any files. `LineInv` says where what is driven comes from: the map
  points are the line of the accepted goal, in its direction and not that of a goal that
  preempts, and the trimmed path is an end of them (`GoalsPoints`). An approach that runs is
  not complete (`NotYetApproached`), so one that is aborted cannot go on to the line.
* `LinesFound` (`FieldLinesInv`), for any lines and offsets files and any preemption.
* `TurnReachesLeadIn` (`TurnInv`), for any poses and offsets on the model's grid of
  headings: where each lookup of the turn's tree has put what the next one reads.
* `ToolComesToLine` (`ToolInv`), for any swaths, clamps and gains with
  `KpNear`, `KpMid`, `KpFar` positive. Without a proportional part the claim is false, as the
  integral alone may command nothing.
* `ArcSwept` (`ArcInv`), `BarStays` (`SliderInv`), `PathIsFollowed` (`RsInv`): the safety
  parts of `ArcIsDriven`, `BarHolds` and `FollowsSegments`. The path of a Reeds-Shepp plan has
  any number of steps ahead and back, and what the segmentation and the closest point
  compute along it are recursive functions: `PathIsFollowed` takes the least index at
  which a claim about them fails and refutes it. For this the model counts the steps
  before a waypoint with `Cardinality` and not with a fold.
* `PlansLeadThere`, for words of any number of segments of any length, with a leadout of at
  least a step (with none, a word that begins in reverse may be driven so although forward was
  asked for). The planners' loops are recursive functions. `ListsOn` and `ListsOnce` prove, again
  from the least counterexample, that such a function exists and is the only one, from which
  `PosesGoOn`, `WordLeads` and `WordIsDriven` say what it lists. A path is connected because each
  segment goes on from where the one before ended (`Continues`), and arrives because a leadout
  driven back and forth ends where it began (`Retraces`). A word turned round leads to the mirror
  image of its goal: so does each step (`MirroredStep`), each segment and the word
  (`NegatedLeads`); `GapDriven` says what appending the goal makes of it.
* `NavTyped`: `NavTypeOK`, for all values of the constants. `PlansTyped`, `TurnTyped`,
  `RsTyped`, `ArcTyped`, `SliderTyped`, `OneLineTyped`, `ToolTyped` and `LineTyped` give the types
  of the parts; as in `devices`, a behaviour of the whole is a behaviour of each
  (`NavPartsRun`). The types are not inductive: what an arc has swept is bounded by the cycles
  that have passed (`ArcTypeInv`), each part of the turn leads two radii further at most
  (`TurnTypeInv`, `ArcStaysAround`), a target lies on its path because the segment's end does
  (`RsTypeInv`), the index of the tool's controller moves with the closest segment
  (`ClosestOnSwath`), and the constraint topic holds one message of a publisher at most, of two
  publishers (`TopicKept`).

The types of `ToolFollower` claimed a bound on the integral for `Ki = 0`, where the code has
none; the bound is now `ki_clamp / ki` where `ki` is positive, as in the code. `Publish` takes the
publisher's waiting message out by its index, as the prover cannot expand `SelectSeq`.

The attempt to prove `ToolComesToLine` found an error of the model: a quotient of negative
numbers was written `-(-a \div b)`, which the grammar reads as `-(-(a \div b))`, so it rounded
down where the code truncates. `Quot` now parenthesises.

`BoardProofs` proves the safety parts of four properties of `devices`, each of the part's own
specification, and the types of each part (`SwitchesTyped`, `NetworkTyped`, `ChargerTyped`,
`ActStaysTyped`).

* `SwitchesSafe`, of `SwitchesObey`, for any transfers that fail and any resets. `SwInv` says that a driver
  that reports ok has its shadow in the register, what a sequence in progress has
  still to write, and which switches are connected while one waits to open.
* `NetRemembers`, of `KeepsInTouch`, for any settings and topics. `NetInv` relates what is
  acknowledged to what is in flash, and what the broker holds to what the board subscribes to.
* `ChargerRests`, of `ChargerFollows`, for any thresholds: `CountsRest` says that the timer
  counts from the last opening whatever opened the switch.
* `ActDrivesSafely`, for any limits, gains, deadband, slew rate and timeouts. `SafeInv` is the
  types, the order of the limits and the three parts of `DrivesSafely` that speak of one state.
  That a blind actuator stops is not inductive: `BlindInv` follows it through the cycles without a
  reading. It stands and stays so, or the slew limit has let the duty grow for fewer
  cycles than it needs to `pwm_min`, or the stall timer runs and will trip.

`DevicesProofs` joins the parts. In a run of all, a step of one leaves the variables of the
others alone, so a behaviour of the whole is a behaviour of each part (`PartsRun`), and what is
proved of a part holds of `devices`.

* `DecodersStayInside`: the decoders read the fields of a message apart and inside its payload,
  with any number of blocks and keys of any lengths; `nav_dop` reads 2 bytes past it, and
  `esf_meas` 4 unless a calibration time ends the message. Every header tiles up to its first block
  and every block its stride (`SinglesFit`, `BlocksFit`), so that the fields tile what the receiver
  sends (`BlocksTile`); each key begins where the one before it ends (`KeysTile`).
* `DataFits`: `GnssDataOK`, from this, `StartIsConfigured` and `FixesJoin`.
* `DevicesTyped`: `DevTypeOK`, from the types of the nine parts.

The attempt to prove `DecodersStayInside` found that `UNION S \ T`, as `Beyond` was written, is
read by the two tools in two ways; it is parenthesised now.

Where a property joins safety with liveness, the theorem states the safety part by the name
the model gives it.

Only model-checked: liveness, which is beyond the prover: `MissionEnds`, `SelfClearingClears`,
`GnssTasksEnd`, and the temporal parts of other properties (`GetsServed`, `PvFollows`,
`BarComesToRest`, `ArcEnds`, `RsArrives`, `NtripStops`, `SwitchesFollow`,
`NeverStranded`). Every invariant of the passing runs is stated by a theorem.

## 5. Observations

Behaviours that came up while the code was translated. Most are kept in the models as they
are; the properties either hold in spite of them or name them as an exception.

GNSS driver and clients:

* `attached_` has no initial value (`usb.hpp:145`). If it starts out true, the first hot
  plug is taken for a repetition.
* The first hot plug races with the init timer, which sees `devh_` while `open_device` still
  runs: its transfers are dropped without a word, the timer cancels itself, and the
  receiver is never read. The same follows when `open_device` fails after setting `devh_`.
  An unplug between the timer's test and `init_async` shuts the node down.
  These are `flaws`, excluded in `GetsServed`. `ERROR` is never reached from `CONNECTING`
  (`usb.cpp:250-262` throws first), against `usb_device_state.md:50`.
* X20P: `open_device` overwrites the serial number with that of a UART it looked at
  (`usb.cpp:329-336`) and then refuses the UART, so with no serial asked for and a UART
  listed first the main receiver is not opened.
* A parameter set at run time whose source is the device, or that has no value yet, is
  stored as loaded and never sent; what was set at run time is reset at detach; a set
  between sending and marking is marked sent; a batch's failed conversions are marked too;
  an answer of the device overwrites a pending value; values of the device are
  truncated to a byte (`ubx_cfg.hpp:94`).
* The front of a queue is read without the lock that pushing takes
  (`ublox_dgnss_node.cpp:1815`); `rtcm_callback` resizes its message and then appends,
  which leaves leading zeros (line 1386); `mon_comms` indexes the port's messages by the port's index
  (line 2436); two frames of one transfer are told apart by their checksums. NAV-DOP is
  read 2 bytes past its end, and ESF-MEAS 4 when it has no calibration time, as a measurement of 4 bytes
  is read as 8 (`DecodesInside` states both).
* The NTRIP client looks at its exit flag between transfers and when data come, so a silent
  caster blocks the destructor; the fix node never forgets a covariance; the family of a
  custom configuration file is not compared with `DEVICE_FAMILY`.

Navigation:

* The field and one-line navigators never accept the goal that preempts, or ignore that its
  line does not load, and drive on with what is left (`onPreempt`); the field's index is reset under
  a running leg.
* The one-line mission's planner constraint survives a turn whose plan failed (one-line
  `bt_nodes.cpp:282`), so that the next approach is planned with it: TLC finds it in nine
  steps when asked that an approach be planned without a constraint.
* `SetSwathLateralOffset` sets a parameter the controller does not declare; the approach
  navigator sets `planner_id` where its tree reads `approach_planner_id`; cancelled
  approach, swath and arc actions return success; `turn_side` is not used by the
  turn planner, whose reverse poses have their yaw turned round; a percentage limit is not
  divided by 100 in either controller; nobody subscribes to `/tool_slider/row_lost`; the
  arc behaviour leaves the robot moving when the transform is lost, and does not complete
  arcs beyond half a turn.
* "Negating lengths produces a path that traverses the identical arcs forward-first, also
  connecting start→goal" (`reeds_shepp_planner.cpp:412-413`): it does not. The negated word leads to
  the goal's mirror image, as far behind the start as the goal is ahead, and the planner then appends the goal itself, however
  far away (line 467), so the last step of the path may be longer than any other. A word
  that starts in reverse is turned round whenever forward is asked for. `PlansReachGoalOrMirror`
  and the theorem `PlansLeadThere` state exactly this.
* A cancel or crash leaves the planter on and the implement down; a failed lift leaves the
  handbrake on; `/pause` is volatile, so a pause published before a tree subscribed is missed.

Firmware:

* PV mode "on" closes the switch again after a reverse current (`power.cpp:281`); mode "off"
  does not restart the off time (line 265); the smart swap opens only packs in auto mode
  and so parallels across a step with a pack held on by hand (line 321).
* The difference of unsigned times makes an IMU whose event is stamped after the cycle's
  time look old, and resets it while it works (`main.cpp:204`); an IMU not found at boot is not
  retried, and an ESP32 reset within the pulse on the IMU's reset line adopts the line as it is:
  that IMU is not found and stays in reset, the exception of `SwitchesFollow`. A
  brown-out of the expander, or a failed read in `begin()`, opens packs at the next verify.
* A toggled motor direction is not saved; a stream of commands clears a latched stall again
  and again; a sensor fault overwrites a latched one; the portal is left by a restart only.
  Board v2's off time is not honoured before the first automatic charge and after manual
  mode (README of v2, line 103).
* The main program's `diag()` forgets the edge of an e-stop when publishing it fails.

## 6. Not modelled, and the plan

Left out for good: the drive node and its steering (continuous; the reporting mixin it
inherits from is not in the repository), localization, simulation and launch files, loggers,
hardware designs. Left out as adding no state of interest: texts and logging, telemetry, LEDs,
the portal's pages and beacon, the driver's reset services and the scaling of its fields,
functions that nothing calls, the line progress nodes that no tree uses, and the
approach, run-swath and planner-test wrappers, which set one blackboard and start one
action. The generic field tree `field_nav.xml` is the robot's tree without its services;
`FieldHw` covers its control but for a `StopPlanter` that may fail.

What the plan has left:

1. Composition of reporter, pause manager, `/pause` delivery and a tree's guard, with the
   abstract specification "the robot moves only if no condition is active".
2. The handbrake in `FieldMission`, and the generic tree as a variant.
