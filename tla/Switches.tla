------------------------------ MODULE Switches ------------------------------
(***************************************************************************)
(* How board v1 applies the policy's switch positions: the power task, the *)
(* driver of the TCA9535 expander with its shadow register, and the IMU    *)
(* whose reset line hangs on the same register.  The policy is any choice  *)
(* of packs (PowerManager says which).                                     *)
(*                                                                         *)
(* Every I2C transfer may fail while the bus is bad; a write that failed   *)
(* may still have reached the register.  The expander keeps its latch when *)
(* the ESP32 resets and loses it when its supply drops.                    *)
(***************************************************************************)
EXTENDS Integers, FiniteSets

CONSTANTS NPack,
          VerifyCycles,     \* power cycles between two verifications
          ImuCycles         \* silence after which the IMU is reset, in cycles

ASSUME SwitchesAssumption == {NPack, VerifyCycles, ImuCycles} \subseteq Nat \ {0}

VARIABLES
    latch, driven,          \* the expander: output latch, outputs configured
    out, ok,                \* Tca9535::out_, ok_
    want,                   \* positions of the last update
    first,                  \* the policy's next update only measures
    task, k,                \* power task: next step, pack it is at
    sinceVerify,
    busBad,                 \* environment: transfers of bus B may fail
    imuOk, imuAge, retry, resetReq,
    lost,                   \* history: the expander lost its supply, or begin()
                            \*   its readings, and was not rewritten since
    asked                   \* history: packs an update did not want since the
                            \*   last one that could be applied

imuVars == <<imuOk, imuAge, retry, resetReq>>
swVars == <<latch, driven, out, ok, want, first, task, k, sinceVerify, busBad, imuVars, lost, asked>>

ImuRst == 0                 \* the register's bits: 0, and the packs
BatEn == 1 .. NPack
Bits == {ImuRst} \cup BatEn
Ahead == -1                 \* an IMU event stamped after the cycle's time
Connected == IF driven THEN latch \cap BatEn ELSE {}

SwInit ==
    /\ latch = Bits /\ driven = FALSE /\ out = {} /\ ok = FALSE
    /\ want = {} /\ first = TRUE /\ task = "boot" /\ k = 1 /\ sinceVerify = 0
    /\ busBad \in BOOLEAN /\ imuOk = FALSE /\ imuAge = 0 /\ retry = "never"
    /\ resetReq = FALSE /\ lost = FALSE /\ asked = {}

-----------------------------------------------------------------------------
(* The driver.  A result: what the register holds, and what was returned.  *)
Transfers == IF busBad THEN {TRUE, FALSE} ELSE {TRUE}
WriteReg(n) ==
    {[latch |-> n, ok |-> TRUE]}
      \cup (IF busBad THEN {[latch |-> x, ok |-> FALSE] : x \in {latch, n}} ELSE {})

\* REG_OUT, then REG_CFG.
Rewrite(n) ==
    /\ \E w \in WriteReg(n), c \in Transfers, reached \in BOOLEAN :
          /\ latch' = w.latch
          /\ driven' = (driven \/ (w.ok /\ (c \/ reached)))
          /\ ok' = (w.ok /\ c)
          /\ lost' = (lost /\ ~(w.ok /\ c))
    /\ out' = n

\* set(): n is the shadow with the bit changed.
SetBits(n) ==
    IF n = out /\ ok THEN UNCHANGED <<out, ok, latch>>
    ELSE out' = n /\ \E w \in WriteReg(n) : latch' = w.latch /\ ok' = w.ok

\* Mutant: the read-back is compared with nothing.
MutVerify(readable) == ok' = readable /\ UNCHANGED <<latch, driven, out, lost>>

Verify(readable) ==
    IF ~readable THEN ok' = FALSE /\ UNCHANGED <<latch, driven, out, lost>>
    ELSE IF ~driven \/ latch # out THEN Rewrite(out)
    ELSE ok' = TRUE /\ lost' = FALSE /\ UNCHANGED <<latch, driven, out>>

-----------------------------------------------------------------------------
(* setup(): begin() adopts an expander whose outputs are configured; one   *)
(* that cannot be read is left as it is, with an empty shadow.             *)
\* Mutant: begin() always starts from the defaults.
MutAtBoot == {ImuRst}
AtBoot == IF driven THEN latch ELSE {ImuRst}

Boot ==
    /\ task = "boot" /\ task' = "update"
    /\ \/ /\ Rewrite(AtBoot)
          /\ want' = IF driven /\ ok' THEN latch \cap BatEn ELSE {}
       \/ /\ busBad /\ out' = {} /\ ok' = FALSE /\ want' = {} /\ lost' = TRUE
          /\ UNCHANGED <<latch, driven>>
    /\ imuOk' \in (IF driven /\ ImuRst \notin latch THEN {FALSE} ELSE BOOLEAN)
    /\ asked' = {}
    /\ UNCHANGED <<first, k, sinceVerify, busBad, imuAge, retry, resetReq>>

\* pm.update() and, if the driver is ok, the first loop of applySwitches().
Update ==
    /\ task = "update"
    /\ IF first THEN UNCHANGED want ELSE want' \in SUBSET BatEn
    /\ first' = FALSE /\ k' = 1
    /\ asked' = (IF ok THEN {} ELSE asked) \cup (BatEn \ want')
    /\ task' = IF ok THEN "open" ELSE "imu"
    /\ sinceVerify' = IF sinceVerify = VerifyCycles THEN VerifyCycles ELSE sinceVerify + 1
    /\ UNCHANGED <<latch, driven, out, ok, busBad, imuVars, lost>>

\* Mutant: the loop's index is not set back.
MutNextPack(done) == k' = k + 1 /\ task' = IF k = NPack THEN done ELSE task
NextPack(done) == IF k = NPack THEN k' = 1 /\ task' = done ELSE k' = k + 1 /\ task' = task

\* Mutant: packs are closed in the same pass in which others are opened.
MutOpenPack ==
    /\ task = "open" /\ NextPack("imu")
    /\ SetBits(IF k \in want THEN out \cup {k} ELSE out \ {k})
    /\ UNCHANGED <<driven, want, first, sinceVerify, busBad, imuVars, lost, asked>>

OpenPack ==
    /\ task = "open"
    /\ IF k \in want THEN UNCHANGED <<out, ok, latch>> ELSE SetBits(out \ {k})
    /\ NextPack(IF want \subseteq out' THEN "imu" ELSE "close")
    /\ UNCHANGED <<driven, want, first, sinceVerify, busBad, imuVars, lost, asked>>

\* The second loop, 3 ms later.
ClosePack ==
    /\ task = "close"
    /\ IF k \in want THEN SetBits(out \cup {k}) ELSE UNCHANGED <<out, ok, latch>>
    /\ NextPack("imu")
    /\ UNCHANGED <<driven, want, first, sinceVerify, busBad, imuVars, lost, asked>>

\* The IMU's reset pulse, when the control task asked for it.
PulseLow ==
    /\ task = "imu"
    /\ IF resetReq
       THEN resetReq' = FALSE /\ task' = "pulse" /\ SetBits(out \ {ImuRst})
       ELSE task' = "verify" /\ UNCHANGED <<resetReq, out, ok, latch>>
    /\ UNCHANGED <<driven, want, first, k, sinceVerify, busBad, imuOk, imuAge, retry, lost, asked>>

PulseHigh ==
    /\ task = "pulse" /\ task' = "verify" /\ SetBits(out \cup {ImuRst})
    /\ UNCHANGED <<driven, want, first, k, sinceVerify, busBad, imuVars, lost, asked>>

VerifyDue ==
    /\ task = "verify"
    /\ IF sinceVerify = VerifyCycles
       THEN sinceVerify' = 0 /\ task' = "led" /\ \E readable \in Transfers : Verify(readable)
       ELSE task' = "update" /\ UNCHANGED <<sinceVerify, latch, driven, out, ok, lost>>
    /\ UNCHANGED <<want, first, k, busBad, imuVars, asked>>

\* The power LED's bit (not modelled) may change, and the register is
\* written; it is written as well if the last transfer failed.
BlinkLed ==
    /\ task = "led" /\ task' = "update"
    /\ \/ SetBits(out)
       \/ \E w \in WriteReg(out) : latch' = w.latch /\ ok' = w.ok /\ UNCHANGED out
    /\ UNCHANGED <<driven, want, first, k, sinceVerify, busBad, imuVars, lost, asked>>

-----------------------------------------------------------------------------
(* The control task's IMU service, one 20 ms cycle.  Events are stamped by *)
(* their own clock reading, after the cycle's.  An IMU that was not found  *)
(* at boot is never tried again.                                           *)
ImuAlive == ~driven \/ ImuRst \in latch

Heard(events) == IF events THEN {0, Ahead} ELSE {IF imuAge > ImuCycles THEN imuAge ELSE imuAge + 1}

ImuService ==
    /\ task # "boot" /\ imuOk
    /\ \E events \in (IF ImuAlive THEN BOOLEAN ELSE {FALSE}) : \E age \in Heard(events) :
          /\ imuAge' = age
          /\ IF age = Ahead \/ age > ImuCycles
             THEN imuOk' = FALSE /\ resetReq' = TRUE /\ retry' = "waiting"
             ELSE UNCHANGED <<imuOk, resetReq, retry>>
    /\ UNCHANGED <<latch, driven, out, ok, want, first, task, k, sinceVerify, busBad, lost, asked>>

ImuRetry ==
    /\ task # "boot" /\ ~imuOk /\ retry = "waiting"
    /\ imuOk' \in (IF ImuAlive THEN BOOLEAN ELSE {FALSE})
    /\ retry' = IF imuOk' THEN "never" ELSE "waiting"
    /\ imuAge' = 0
    /\ UNCHANGED <<latch, driven, out, ok, want, first, task, k, sinceVerify, busBad, resetReq, lost, asked>>

-----------------------------------------------------------------------------
(* The surroundings.                                                       *)
Esp32Reset ==
    /\ task # "boot" /\ task' = "boot"
    /\ out' = {} /\ ok' = FALSE /\ want' = {} /\ first' = TRUE /\ k' = 1 /\ sinceVerify' = 0
    /\ imuOk' = FALSE /\ imuAge' = 0 /\ retry' = "never" /\ resetReq' = FALSE
    /\ UNCHANGED <<latch, driven, busBad, lost, asked>>

ExpanderBrownout ==
    /\ latch' = Bits /\ driven' = FALSE /\ lost' = TRUE
    /\ UNCHANGED <<out, ok, want, first, task, k, sinceVerify, busBad, imuVars, asked>>

BusChanges ==
    /\ busBad' = ~busBad
    /\ UNCHANGED <<latch, driven, out, ok, want, first, task, k, sinceVerify, imuVars, lost, asked>>

PowerTask == Boot \/ Update \/ OpenPack \/ ClosePack \/ PulseLow \/ PulseHigh \/ VerifyDue \/ BlinkLed
ControlTask == ImuService \/ ImuRetry
SwNext == PowerTask \/ ControlTask \/ Esp32Reset \/ ExpanderBrownout \/ BusChanges

-----------------------------------------------------------------------------
SwTypeOK ==
    /\ {latch, out} \subseteq SUBSET Bits /\ {want, asked} \subseteq SUBSET BatEn
    /\ {driven, ok, first, busBad, imuOk, resetReq, lost} \subseteq BOOLEAN
    /\ task \in {"boot", "update", "open", "close", "imu", "pulse", "verify", "led"}
    /\ k \in BatEn /\ sinceVerify \in 0 .. VerifyCycles
    /\ imuAge \in Ahead .. ImuCycles + 1 /\ retry \in {"never", "waiting"}

\* Whatever transfers failed before, the driver reports ok only while the
\* register holds what its shadow says, unless the expander lost its supply
\* since the register was last verified.
ShadowTrue == ok /\ ~lost => latch = out

\* The driver never drops a pack by itself: across resets of the ESP32, failed
\* transfers and repairs a connected pack is opened only if an update since the
\* last one that reached the driver did not want it, unless the expander lost
\* its supply or could not be read at boot.
DropsOnlyUnwanted ==
    [][~lost /\ ~lost' => Connected \ Connected' \subseteq asked]_swVars

\* Break before make: whichever writes fail, a pass that closes packs never
\* connects one while a pack that is not wanted stays connected.
BreaksBeforeMaking ==
    [][~(Connected' \subseteq Connected) /\ task \in {"open", "close"}
         => Connected' \subseteq want]_swVars

\* Once transfers succeed and nothing is reset any more, the packs that are
\* connected are again and again the ones the policy wants; and an IMU that the
\* firmware found, or still looks for, is let out of its reset.  One that was not
\* found at boot is given up, and stays in reset if the ESP32 was reset during the
\* pulse and adopted the line as it was.
Quiet == <>[](~busBad) /\ <>[][~Esp32Reset /\ ~ExpanderBrownout]_swVars
ImuServed == imuOk \/ retry = "waiting"
SwitchesFollow ==
    Quiet => []<>(Connected = want) /\ ([]<>ImuServed => []<>ImuAlive)

\* The switches obey the policy and nothing else: through resets, brown-outs and
\* failed transfers the shadow is true, no pack is dropped unasked, none joins
\* one that is to leave, and in the end the packs are the ones that are wanted and
\* an IMU that is not given up is out of reset.
SwitchesObey == []ShadowTrue /\ DropsOnlyUnwanted /\ BreaksBeforeMaking /\ SwitchesFollow
=============================================================================
