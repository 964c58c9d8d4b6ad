------------------------------- MODULE BoardV2 ------------------------------
(***************************************************************************)
(* Board v2: the task that switches the photovoltaic charger, its manager, *)
(* and the commands that change its mode and limits.  (The board's         *)
(* actuators and network task are those of board v1, file by file.)        *)
(*                                                                         *)
(* Voltages are integers, rising; a configuration is a record of limits.   *)
(* Time is counted in updates of the charger's task.                       *)
(***************************************************************************)
EXTENDS Integers

CONSTANTS
    TopV,               \* the highest bus voltage
    PvConfigs,          \* limits [valid, on, full]: plausible above valid, on
                        \*   below on, off at full
    MinOff              \* cfg.min_off_s in updates

ASSUME BoardV2Assumption ==
    /\ {TopV, MinOff} \subseteq Nat \ {0}
    /\ PvConfigs \subseteq [valid : Nat, on : Nat, full : Nat]
    /\ \A c \in PvConfigs : c.valid < c.on /\ c.on <= c.full

VARIABLES
    pvMode, mirror, pvCfg, pvFlash,     \* PvManager: mode, ssr2_mode, cfg; saved cfg
    pvOn, ssr2On, everOn, sinceOff,
    bus, measured,                      \* filtered voltage; the task has measured
    ssr1, ssr2,                         \* the pins
    pvTask,                             \* "update", "pin1", "pin2"
    rest                                \* history: updates since pvOn fell

pvManager == <<pvMode, mirror, pvCfg, pvOn, ssr2On, everOn, sinceOff>>
v2Vars == <<pvManager, pvFlash, bus, measured, ssr1, ssr2, pvTask, rest>>

PvMode == {"auto", "on", "off"}
Ssr2Mode == {"mirror", "on", "off"}
Volts == 0 .. TopV
Aged(n, limit) == IF n > limit THEN n ELSE n + 1

V2Boot ==
    /\ pvMode' = "auto" /\ mirror' = "mirror" /\ pvCfg' = pvFlash
    /\ pvOn' = FALSE /\ ssr2On' = FALSE /\ everOn' = FALSE /\ sinceOff' = MinOff + 1
    /\ bus' = 0 /\ measured' = FALSE /\ ssr1' = FALSE /\ ssr2' = FALSE /\ pvTask' = "update"
    /\ rest' = MinOff + 1
    /\ UNCHANGED pvFlash

V2Init ==
    /\ pvMode = "auto" /\ mirror = "mirror" /\ pvCfg \in PvConfigs /\ pvFlash = pvCfg
    /\ pvOn = FALSE /\ ssr2On = FALSE /\ everOn = FALSE /\ sinceOff = MinOff + 1
    /\ bus = 0 /\ measured = FALSE /\ ssr1 = FALSE /\ ssr2 = FALSE /\ pvTask = "update"
    /\ rest = MinOff + 1

-----------------------------------------------------------------------------
(* PvManager::update at the filtered voltage b.                            *)
\* Mutant: compared with the wrong limit.
MutPlausible(b) == b > pvCfg.on
Plausible(b) == b > pvCfg.valid

\* Mutant: the time of opening is not taken.
MutOffStamp(age) == age
OffStamp(age) == IF pvOn THEN 0 ELSE age

Rested(age) == ~everOn \/ age >= MinOff

PvUpdate(b) ==
    LET age == Aged(sinceOff, MinOff)
        opens == pvMode = "off" \/ ~Plausible(b) \/ b >= pvCfg.full
        closes == /\ ~opens /\ ~pvOn /\ b < pvCfg.on
                  /\ pvMode = "on" \/ Rested(age)
    IN  /\ pvOn' = (~opens /\ (pvOn \/ closes))
        /\ everOn' = (everOn \/ (closes /\ pvMode = "auto"))
        /\ sinceOff' = IF opens THEN OffStamp(age) ELSE age
        /\ ssr2On' = IF mirror = "mirror" THEN pvOn' ELSE mirror = "on"
        /\ rest' = IF pvOn' THEN 0 ELSE IF pvOn THEN 0 ELSE Aged(rest, MinOff)

\* The filter: from the old value towards the sample, to the sample at first.
\* Mutant: a filter that overshoots.
MutFiltered(sample) == {2 * sample - bus}
Filtered(sample) ==
    IF ~measured THEN {sample}
    ELSE {b \in Volts : (bus < sample /\ bus < b /\ b <= sample)
                        \/ (sample <= b /\ b < bus) \/ (b = bus /\ sample = bus)}

PvTaskUpdate ==
    /\ pvTask = "update" /\ pvTask' = "pin1" /\ measured' = TRUE
    /\ \E sample \in Volts : \E b \in Filtered(sample) : bus' = b /\ PvUpdate(b)
    /\ UNCHANGED <<pvMode, mirror, pvCfg, pvFlash, ssr1, ssr2>>

\* The positions were copied under the lock.
PvTaskPins ==
    /\ \/ pvTask = "pin1" /\ pvTask' = "pin2" /\ ssr1' = pvOn /\ UNCHANGED ssr2
       \/ pvTask = "pin2" /\ pvTask' = "update" /\ ssr2' = ssr2On /\ UNCHANGED ssr1
    /\ UNCHANGED <<pvManager, pvFlash, bus, measured, rest>>

-----------------------------------------------------------------------------
(* power/cmd and power/config.                                             *)
PvCommand ==
    /\ pvMode' \in PvMode /\ mirror' \in Ssr2Mode
    /\ UNCHANGED <<pvCfg, pvFlash, pvOn, ssr2On, everOn, sinceOff, bus, measured, ssr1, ssr2,
                   pvTask, rest>>

PvConfigure ==
    /\ pvCfg' \in PvConfigs
    /\ UNCHANGED <<pvMode, mirror, pvFlash, pvOn, ssr2On, everOn, sinceOff, bus, measured,
                   ssr1, ssr2, pvTask, rest>>

SavePv ==
    /\ pvFlash # pvCfg /\ pvFlash' = pvCfg
    /\ UNCHANGED <<pvManager, bus, measured, ssr1, ssr2, pvTask, rest>>

-----------------------------------------------------------------------------
V2Task == PvTaskUpdate \/ PvTaskPins
V2Next == V2Task \/ PvCommand \/ PvConfigure \/ SavePv \/ V2Boot

-----------------------------------------------------------------------------
V2TypeOK ==
    /\ pvMode \in PvMode /\ mirror \in Ssr2Mode /\ {pvCfg, pvFlash} \subseteq PvConfigs
    /\ {pvOn, ssr2On, everOn, measured, ssr1, ssr2} \subseteq BOOLEAN
    /\ {sinceOff, rest} \subseteq 0 .. MinOff + 1 /\ bus \in Volts
    /\ pvTask \in {"update", "pin1", "pin2"}

\* README of board v2: "with a 30 s minimum off-time".  Once it has charged by
\* itself, the charger in mode auto stays off for MinOff updates whatever
\* opened it: the limit, a lost sense wire, a command or new limits.
PvRests == [][everOn /\ ~pvOn /\ pvOn' /\ pvMode = "auto" => rest >= MinOff - 1]_v2Vars

\* The pin follows: it charges a battery that stays in the charging range, and
\* never one that cannot be measured or that it was told not to charge.
PvFollows ==
    /\ <>[](measured /\ pvMode = "auto" /\ pvCfg.valid < bus /\ bus < pvCfg.on) => <>[]ssr1
    /\ <>[](measured /\ (pvMode = "off" \/ bus <= pvCfg.valid)) => <>[]~ssr1

\* The charger rests when it must and charges when it may.
ChargerFollows == PvRests /\ PvFollows
=============================================================================
