----------------------------- MODULE BoardProofs -----------------------------
(***************************************************************************)
(* The safety of the boards' switches, network task, charger and actuator, *)
(* for any number of packs, any settings, limits, gains and timeouts, and  *)
(* any transfers, messages and writes that fail.                           *)
(*                                                                         *)
(* The switches' three properties speak of the register; SwInv adds what   *)
(* each pass knows of it.  A driver that reports ok and an expander that   *)
(* drives its outputs agree; what a rewrite of the shadow would open has   *)
(* been asked for; the first pass only takes packs out of the shadow, so   *)
(* that the register holds at least those; and when the second pass        *)
(* begins, no pack of the shadow is unwanted.                              *)
(*                                                                         *)
(* The network's two speak of what was acknowledged and of what a session  *)
(* hears; NetInv adds what the job that is under way still has to do.      *)
(*                                                                         *)
(* Three parts of the actuator's DrivesSafely are inductive together with  *)
(* the types and the order of the limits: SafeInv.  That a blind actuator  *)
(* stops is not: BlindInv follows it through the cycles without a reading. *)
(* It either stands and stays so, or the slew limit lets the duty grow by  *)
(* Slew a cycle, for fewer than Ramp cycles, or the duty has reached       *)
(* pwm_min and the stall timer runs, and then it trips.                    *)
(***************************************************************************)
EXTENDS Actuator, Switches, BoardNet, BoardV2, TLAPS

-----------------------------------------------------------------------------
(* The switches. *)

\* The switches alone; safety needs no fairness.
SwSpec == SwInit /\ [][SwNext]_swVars

SwShape ==
    /\ latch \in SUBSET Bits /\ out \in SUBSET Bits /\ want \in SUBSET BatEn
    /\ driven \in BOOLEAN /\ ok \in BOOLEAN /\ lost \in BOOLEAN
    /\ task \in {"boot", "update", "open", "close", "imu", "pulse", "verify", "led"}
    /\ k \in BatEn

\* What drives its outputs holds what a driver that is ok believes.
DrivenTrue == driven /\ ok => latch = out

\* A rewrite of the shadow opens no pack that no update has asked to open.
ShadowOpensAsked == ~lost /\ driven /\ task # "boot" => (latch \cap BatEn) \ out \subseteq asked

\* The packs that a pass opens have been asked for.
PassOpensAsked == task \in {"open", "close"} => BatEn \ want \subseteq asked

\* The first pass takes packs out of the shadow, from the first on.
OpensInOrder ==
    task = "open" => /\ driven => out \cap BatEn \subseteq latch
                     /\ \A j \in out \cap BatEn : j < k => j \in want

\* The second pass begins when none is left that is not wanted.
ClosesWanted == task = "close" => out \cap BatEn \subseteq want

SwInv ==
    /\ SwShape /\ ShadowTrue /\ DrivenTrue /\ ShadowOpensAsked
    /\ PassOpensAsked /\ OpensInOrder /\ ClosesWanted

\* What the two action properties ask of a step.
DropsAsked == ~lost /\ ~lost' => Connected \ Connected' \subseteq asked
MakesWanted == ~(Connected' \subseteq Connected) /\ task \in {"open", "close"} => Connected' \subseteq want

\* What a step has to show.
Kept == SwInv' /\ DropsAsked /\ MakesWanted

-----------------------------------------------------------------------------
\* The packs are numbered from 1, and the IMU's bit is none of theirs.
LEMMA PackNumbers ==
    /\ NPack \in Nat \ {0} /\ BatEn = 1 .. NPack /\ BatEn \subseteq Bits
    /\ ImuRst \in Bits /\ ImuRst \notin BatEn
BY SwitchesAssumption DEF BatEn, Bits, ImuRst

\* A transfer leaves the register as it was or writes it, and the latter if it
\* was acknowledged.
LEMMA Written ==
    ASSUME NEW n, NEW w \in WriteReg(n)
    PROVE  /\ w.latch = n \/ (w.latch = latch /\ ~w.ok)
           /\ w.ok \in BOOLEAN
<1>1. \/ w = [latch |-> n, ok |-> TRUE]
      \/ \E x \in {latch, n} : w = [latch |-> x, ok |-> FALSE]
  BY Zenon DEF WriteReg
<1>2. CASE w = [latch |-> n, ok |-> TRUE]
  <2>1. w.latch = n /\ w.ok = TRUE
    BY <1>2, Zenon
  <2> QED  BY <2>1, Zenon
<1>3. CASE \E x \in {latch, n} : w = [latch |-> x, ok |-> FALSE]
  <2>1. PICK x \in {latch, n} : w = [latch |-> x, ok |-> FALSE]
    BY <1>3
  <2>2. w.latch = x /\ w.ok = FALSE
    BY <2>1, Zenon
  <2> QED  BY <2>2, Zenon
<1> QED  BY <1>1, <1>2, <1>3

\* What set() leaves: the shadow changes, the register may follow.
LEMMA BitsSet ==
    ASSUME SwShape, DrivenTrue, NEW n \in SUBSET Bits, SetBits(n)
    PROVE  /\ out' = n /\ latch' \in {latch, n} /\ ok' \in BOOLEAN
           /\ ok' => latch' = n \/ (n = out /\ ok /\ latch' = latch)
<1>1. CASE n = out /\ ok
  BY <1>1 DEF SetBits, SwShape
<1>2. CASE ~(n = out /\ ok)
  <2>1. out' = n /\ \E w \in WriteReg(n) : latch' = w.latch /\ ok' = w.ok
    BY <1>2 DEF SetBits
  <2> QED  BY <2>1, Written
<1> QED  BY <1>1, <1>2

\* What a rewrite leaves.
LEMMA Rewritten ==
    ASSUME SwShape, NEW n \in SUBSET Bits, Rewrite(n)
    PROVE  /\ out' = n /\ latch' \in {latch, n}
           /\ ok' \in BOOLEAN /\ driven' \in BOOLEAN /\ lost' \in BOOLEAN
           /\ ok' => latch' = n
           /\ lost => lost' \/ ok'
           /\ lost' => lost
           /\ driven' => driven \/ latch' = n
           /\ driven => driven'
<1>1. PICK w \in WriteReg(n), c \in Transfers, reached \in BOOLEAN :
        /\ latch' = w.latch
        /\ driven' = (driven \/ (w.ok /\ (c \/ reached)))
        /\ ok' = (w.ok /\ c)
        /\ lost' = (lost /\ ~(w.ok /\ c))
  BY DEF Rewrite
<1>2. out' = n
  BY DEF Rewrite
<1>3. /\ w.latch = n \/ (w.latch = latch /\ ~w.ok)
      /\ w.ok \in BOOLEAN
  BY Written
<1>4. latch' \in {latch, n} /\ (w.ok => latch' = n)
  BY <1>1, <1>3
<1>5. (ok' => w.ok) /\ (driven' => driven \/ w.ok) /\ (driven => driven')
  BY <1>1
<1>6. (lost => lost' \/ ok') /\ (lost' => lost)
  BY <1>1
<1>7. ok' \in BOOLEAN /\ driven' \in BOOLEAN /\ lost' \in BOOLEAN
  BY <1>1
<1> QED  BY <1>2, <1>4, <1>5, <1>6, <1>7

-----------------------------------------------------------------------------
LEMMA SwStart == SwInit => SwInv
<1> SUFFICES ASSUME SwInit PROVE SwInv
  OBVIOUS
<1>1. SwShape
  <2>1. latch = Bits /\ out = {} /\ want = {} /\ task = "boot" /\ k = 1 /\ ~driven /\ ~ok /\ ~lost
    BY DEF SwInit
  <2>2. driven \in BOOLEAN /\ ok \in BOOLEAN /\ lost \in BOOLEAN
    BY Zenon DEF SwInit
  <2>3. k \in BatEn
    BY <2>1, PackNumbers
  <2> QED  BY <2>1, <2>2, <2>3 DEF SwShape
<1> QED
  BY <1>1 DEF SwInit, SwInv, ShadowTrue, DrivenTrue, ShadowOpensAsked, PassOpensAsked, OpensInOrder, ClosesWanted

\* Nothing is written, and the pass goes on or another part of the cycle begins.
LEMMA NothingWritten ==
    ASSUME SwInv, UNCHANGED <<latch, out, ok, driven, lost>>,
           want' \in SUBSET BatEn, k' \in BatEn,
           task' \in {"boot", "update", "imu", "pulse", "verify", "led"} \/ UNCHANGED <<task, want, k>>,
           asked' = asked, task # "boot" \/ UNCHANGED task
    PROVE  Kept
<1>1. SwShape'
  BY DEF SwInv, SwShape
<1>2. ShadowTrue' /\ DrivenTrue' /\ ShadowOpensAsked' /\ PassOpensAsked' /\ OpensInOrder' /\ ClosesWanted'
  BY DEF SwInv, ShadowTrue, DrivenTrue, ShadowOpensAsked, PassOpensAsked, OpensInOrder, ClosesWanted
<1>3. Connected' = Connected
  BY DEF Connected
<1> QED  BY <1>1, <1>2, <1>3 DEF Kept, SwInv, DropsAsked, MakesWanted

\* The expander is written outside the passes: nothing but the shadow.
LEMMA ShadowWritten ==
    ASSUME SwInv, task \notin {"boot", "open", "close"}, task' \in {"update", "imu", "pulse", "verify", "led"},
           UNCHANGED <<want, k, asked>>,
           out' \in SUBSET Bits, out' \cap BatEn = out \cap BatEn, latch' \in {latch, out'},
           ok' \in BOOLEAN, driven' \in BOOLEAN, lost' \in BOOLEAN,
           ok' /\ (driven' \/ ~lost') => latch' = out',
           lost /\ ~lost' => latch' = out',
           driven' => driven \/ latch' = out', driven => driven'
    PROVE  Kept
<1>1. SwShape'
  BY DEF SwInv, SwShape
<1>2. ShadowTrue' /\ DrivenTrue'
  BY DEF ShadowTrue, DrivenTrue
<1>3. ~lost /\ driven => (latch \cap BatEn) \ out \subseteq asked
  BY DEF SwInv, ShadowOpensAsked
<1>4. ShadowOpensAsked'
  BY <1>3 DEF ShadowOpensAsked, SwInv, SwShape
<1>5. PassOpensAsked' /\ OpensInOrder' /\ ClosesWanted' /\ MakesWanted
  BY DEF PassOpensAsked, OpensInOrder, ClosesWanted, MakesWanted
<1>6. DropsAsked
  BY <1>3 DEF DropsAsked, Connected
<1> QED  BY <1>1, <1>2, <1>4, <1>5, <1>6 DEF Kept, SwInv

\* Start: what the expander drives is adopted.
LEMMA BootKeeps ==
    ASSUME SwInv, Boot
    PROVE  Kept
<1>1. SwShape /\ task = "boot" /\ task' = "update" /\ k' = k /\ asked' = {}
  BY DEF SwInv, Boot
<1>2. CASE Rewrite(AtBoot) /\ want' = IF driven /\ ok' THEN latch \cap BatEn ELSE {}
  <2>1. AtBoot \in SUBSET Bits
    BY <1>1, PackNumbers DEF AtBoot, SwShape
  <2>2. /\ out' = AtBoot /\ latch' \in {latch, AtBoot}
        /\ ok' \in BOOLEAN /\ driven' \in BOOLEAN /\ lost' \in BOOLEAN
        /\ ok' => latch' = AtBoot
        /\ driven' => driven \/ latch' = AtBoot
        /\ driven => driven'
    BY <1>1, <1>2, <2>1, Rewritten
  <2>3. driven' => latch' = out'
    BY <2>2 DEF AtBoot
  <2>4. SwShape'
    BY <1>1, <1>2, <2>1, <2>2 DEF SwShape
  <2>5. ShadowTrue' /\ DrivenTrue' /\ ShadowOpensAsked'
    BY <2>2, <2>3 DEF ShadowTrue, DrivenTrue, ShadowOpensAsked
  <2>6. PassOpensAsked' /\ OpensInOrder' /\ ClosesWanted' /\ MakesWanted
    BY <1>1 DEF PassOpensAsked, OpensInOrder, ClosesWanted, MakesWanted
  <2>7. DropsAsked
    BY <2>2, <2>3 DEF DropsAsked, Connected, AtBoot
  <2> QED  BY <2>4, <2>5, <2>6, <2>7 DEF Kept, SwInv
<1>3. CASE out' = {} /\ ok' = FALSE /\ want' = {} /\ lost' = TRUE /\ UNCHANGED <<latch, driven>>
  <2>1. SwShape'
    <3>1. ok' \in BOOLEAN /\ lost' \in BOOLEAN
      BY <1>3, Zenon
    <3> QED  BY <1>1, <1>3, <3>1 DEF SwShape
  <2>2. ~ok' /\ lost'
    BY <1>3
  <2>3. ShadowTrue' /\ DrivenTrue' /\ ShadowOpensAsked' /\ DropsAsked
    BY <2>2 DEF ShadowTrue, DrivenTrue, ShadowOpensAsked, DropsAsked
  <2>4. PassOpensAsked' /\ OpensInOrder' /\ ClosesWanted' /\ MakesWanted
    BY <1>1 DEF PassOpensAsked, OpensInOrder, ClosesWanted, MakesWanted
  <2> QED  BY <2>1, <2>3, <2>4 DEF Kept, SwInv
<1> QED  BY <1>2, <1>3 DEF Boot

\* An update that the driver can apply is asked for from here on.
LEMMA UpdateKeeps ==
    ASSUME SwInv, Update
    PROVE  Kept
<1>1. /\ SwShape /\ task = "update" /\ k' = 1 /\ want' \in SUBSET BatEn
      /\ UNCHANGED <<latch, driven, out, ok, lost>>
      /\ asked' = (IF ok THEN {} ELSE asked) \cup (BatEn \ want')
      /\ task' = IF ok THEN "open" ELSE "imu"
  BY DEF SwInv, SwShape, Update
<1>2. SwShape'
  <2>1. k' \in BatEn /\ task' \in {"open", "imu"}
    BY <1>1, PackNumbers
  <2> QED  BY <1>1, <2>1 DEF SwShape
<1>3. ShadowTrue' /\ DrivenTrue'
  BY <1>1 DEF SwInv, ShadowTrue, DrivenTrue
<1>4. ShadowOpensAsked'
  <2>1. CASE ok
    BY <1>1, <2>1 DEF ShadowOpensAsked, SwInv, DrivenTrue
  <2>2. CASE ~ok
    BY <1>1, <2>2 DEF ShadowOpensAsked, SwInv
  <2> QED  BY <2>1, <2>2
<1>5. PassOpensAsked' /\ ClosesWanted'
  BY <1>1 DEF PassOpensAsked, ClosesWanted
<1>6. OpensInOrder'
  <2>1. task' = "open" /\ driven' => latch' = out'
    BY <1>1 DEF SwInv, DrivenTrue
  <2>2. \A j \in BatEn : ~(j < k')
    BY <1>1, PackNumbers
  <2> QED  BY <2>1, <2>2 DEF OpensInOrder
<1>7. DropsAsked /\ MakesWanted
  BY <1>1 DEF DropsAsked, MakesWanted, Connected
<1> QED  BY <1>2, <1>3, <1>4, <1>5, <1>6, <1>7 DEF Kept, SwInv

\* The first pass opens what is not wanted.
LEMMA OpenKeeps ==
    ASSUME SwInv, OpenPack
    PROVE  Kept
<1>1. /\ SwShape /\ DrivenTrue /\ ShadowTrue /\ task = "open" /\ k \in BatEn
      /\ UNCHANGED <<driven, want, lost, asked>>
      /\ NextPack(IF want \subseteq out' THEN "imu" ELSE "close")
      /\ IF k \in want THEN UNCHANGED <<out, ok, latch>> ELSE SetBits(out \ {k})
  BY DEF SwInv, SwShape, OpenPack
<1>2. /\ out' \in SUBSET Bits /\ latch' \in {latch, out'} /\ ok' \in BOOLEAN
      /\ out' = IF k \in want THEN out ELSE out \ {k}
      /\ ok' => latch' = out' \/ (out' = out /\ ok /\ latch' = latch)
  <2>1. CASE k \in want
    BY <1>1, <2>1 DEF SwShape
  <2>2. CASE k \notin want
    <3>1. out \ {k} \in SUBSET Bits
      BY <1>1 DEF SwShape
    <3> QED  BY <1>1, <2>2, <3>1, BitsSet
  <2> QED  BY <2>1, <2>2
<1>3. /\ ~lost /\ driven => (latch \cap BatEn) \ out \subseteq asked
      /\ BatEn \ want \subseteq asked
      /\ driven => out \cap BatEn \subseteq latch
      /\ \A j \in out \cap BatEn : j < k => j \in want
  BY <1>1 DEF SwInv, ShadowOpensAsked, PassOpensAsked, OpensInOrder
<1>4. /\ k' \in BatEn
      /\ \/ k = NPack /\ task' \in {"imu", "close"}
         \/ k # NPack /\ k' = k + 1 /\ task' = "open"
  BY <1>1, PackNumbers DEF NextPack
<1>5. SwShape'
  BY <1>1, <1>2, <1>4 DEF SwShape
<1>6. ShadowTrue' /\ DrivenTrue'
  BY <1>1, <1>2 DEF ShadowTrue, DrivenTrue
<1>7. ShadowOpensAsked'
  BY <1>1, <1>2, <1>3 DEF ShadowOpensAsked
<1>8. PassOpensAsked'
  BY <1>1, <1>3 DEF PassOpensAsked
<1>9. \A j \in out' \cap BatEn : j < k \/ j = k => j \in want
  BY <1>2, <1>3
<1>10. OpensInOrder'
  <2>1. driven => out' \cap BatEn \subseteq latch'
    BY <1>2, <1>3
  <2>2. ASSUME task' = "open", NEW j \in out' \cap BatEn, j < k' PROVE j \in want
    <3>1. k' = k + 1 /\ j \in Nat /\ k \in Nat
      BY <1>1, <1>4, <2>2, PackNumbers
    <3>2. j < k \/ j = k
      BY <2>2, <3>1
    <3> QED  BY <1>9, <3>2
  <2> QED  BY <1>1, <2>1, <2>2 DEF OpensInOrder
<1>11. ClosesWanted'
  <2> SUFFICES ASSUME task' = "close", NEW j \in out' \cap BatEn PROVE j \in want
    BY <1>1 DEF ClosesWanted
  <2>1. k = NPack
    BY <1>4
  <2>2. j < k \/ j = k
    BY <2>1, PackNumbers
  <2> QED  BY <1>9, <2>2
<1>12. DropsAsked /\ MakesWanted
  <2>1. DropsAsked
    BY <1>1, <1>2, <1>3 DEF DropsAsked, Connected
  <2>2. MakesWanted
    BY <1>1, <1>2, <1>3 DEF MakesWanted, Connected
  <2> QED  BY <2>1, <2>2
<1> QED  BY <1>5, <1>6, <1>7, <1>8, <1>10, <1>11, <1>12 DEF Kept, SwInv

\* The second pass connects packs once no other is left.
LEMMA CloseKeeps ==
    ASSUME SwInv, ClosePack
    PROVE  Kept
<1>1. /\ SwShape /\ DrivenTrue /\ ShadowTrue /\ task = "close" /\ k \in BatEn
      /\ UNCHANGED <<driven, want, lost, asked>> /\ NextPack("imu")
      /\ IF k \in want THEN SetBits(out \cup {k}) ELSE UNCHANGED <<out, ok, latch>>
  BY DEF SwInv, SwShape, ClosePack
<1>2. /\ out' \in SUBSET Bits /\ latch' \in {latch, out'} /\ ok' \in BOOLEAN
      /\ out' = IF k \in want THEN out \cup {k} ELSE out
      /\ ok' => latch' = out' \/ (out' = out /\ ok /\ latch' = latch)
  <2>1. CASE k \notin want
    BY <1>1, <2>1 DEF SwShape
  <2>2. CASE k \in want
    <3>1. out \cup {k} \in SUBSET Bits
      BY <1>1, PackNumbers DEF SwShape
    <3> QED  BY <1>1, <2>2, <3>1, BitsSet
  <2> QED  BY <2>1, <2>2
<1>3. /\ ~lost /\ driven => (latch \cap BatEn) \ out \subseteq asked
      /\ BatEn \ want \subseteq asked /\ out \cap BatEn \subseteq want
  BY <1>1 DEF SwInv, ShadowOpensAsked, PassOpensAsked, ClosesWanted
<1>4. k' \in BatEn /\ task' \in {"close", "imu"}
  BY <1>1, PackNumbers DEF NextPack
<1>5. SwShape'
  BY <1>1, <1>2, <1>4 DEF SwShape
<1>6. ShadowTrue' /\ DrivenTrue'
  BY <1>1, <1>2 DEF ShadowTrue, DrivenTrue
<1>7. ShadowOpensAsked'
  BY <1>1, <1>2, <1>3 DEF ShadowOpensAsked
<1>8. PassOpensAsked' /\ OpensInOrder' /\ ClosesWanted'
  BY <1>1, <1>2, <1>3, <1>4 DEF PassOpensAsked, OpensInOrder, ClosesWanted
<1>9. DropsAsked
  BY <1>1, <1>2, <1>3 DEF DropsAsked, Connected
<1>10. MakesWanted
  BY <1>1, <1>2, <1>3 DEF MakesWanted, Connected
<1> QED  BY <1>5, <1>6, <1>7, <1>8, <1>9, <1>10 DEF Kept, SwInv

\* The IMU's reset line is another bit of the register.
LEMMA PulseKeeps ==
    ASSUME SwInv, PulseLow \/ PulseHigh
    PROVE  Kept
<1>1. /\ SwShape /\ DrivenTrue /\ ShadowTrue /\ task \in {"imu", "pulse"} /\ task' \in {"pulse", "verify"}
      /\ UNCHANGED <<driven, want, k, lost, asked>>
      /\ \/ UNCHANGED <<out, ok, latch>>
         \/ \E n \in {out \ {ImuRst}, out \cup {ImuRst}} : SetBits(n)
  BY DEF SwInv, PulseLow, PulseHigh
<1>2. CASE UNCHANGED <<out, ok, latch>>
  <2>1. want' \in SUBSET BatEn /\ k' \in BatEn
    BY <1>1 DEF SwShape
  <2> QED  BY <1>1, <1>2, <2>1, NothingWritten
<1>3. CASE \E n \in {out \ {ImuRst}, out \cup {ImuRst}} : SetBits(n)
  <2>1. PICK n \in {out \ {ImuRst}, out \cup {ImuRst}} : SetBits(n)
    BY <1>3
  <2>2. n \in SUBSET Bits /\ n \cap BatEn = out \cap BatEn
    BY <1>1, PackNumbers DEF SwShape
  <2>3. /\ out' = n /\ latch' \in {latch, n} /\ ok' \in BOOLEAN
        /\ ok' => latch' = n \/ (n = out /\ ok /\ latch' = latch)
    BY <1>1, <2>1, <2>2, BitsSet
  <2>4. ok' /\ (driven' \/ ~lost') => latch' = out'
    BY <1>1, <2>3 DEF DrivenTrue, ShadowTrue
  <2>5. latch' \in {latch, out'} /\ out' \in SUBSET Bits /\ out' \cap BatEn = out \cap BatEn
    BY <2>2, <2>3
  <2>6. /\ driven' \in BOOLEAN /\ lost' \in BOOLEAN
        /\ lost /\ ~lost' => latch' = out'
        /\ driven' => driven \/ latch' = out'
        /\ driven => driven'
    BY <1>1 DEF SwShape
  <2> QED  BY <1>1, <2>3, <2>4, <2>5, <2>6, ShadowWritten
<1> QED  BY <1>1, <1>2, <1>3

\* The verification and the power LED write the shadow as it is.
LEMMA RepairKeeps ==
    ASSUME SwInv, VerifyDue \/ BlinkLed
    PROVE  Kept
<1>1. /\ SwShape /\ DrivenTrue /\ ShadowTrue /\ task \in {"verify", "led"} /\ task' \in {"led", "update"}
      /\ UNCHANGED <<want, k, asked>> /\ out \in SUBSET Bits /\ want' \in SUBSET BatEn /\ k' \in BatEn
  BY DEF SwInv, SwShape, VerifyDue, BlinkLed
<1>2. CASE UNCHANGED <<latch, driven, out, ok, lost>>
  BY <1>1, <1>2, NothingWritten
<1>3. CASE ok' = FALSE /\ UNCHANGED <<latch, driven, out, lost>>
  <2>1. ok' \in BOOLEAN /\ ~ok'
    BY <1>3, Zenon
  <2> QED  BY <1>1, <1>3, <2>1, ShadowWritten DEF SwShape
<1>4. CASE Rewrite(out)
  <2>1. /\ out' = out /\ latch' \in {latch, out}
        /\ ok' \in BOOLEAN /\ driven' \in BOOLEAN /\ lost' \in BOOLEAN
        /\ ok' => latch' = out
        /\ lost => lost' \/ ok'
        /\ driven' => driven \/ latch' = out
        /\ driven => driven'
    BY <1>1, <1>4, Rewritten
  <2> QED  BY <1>1, <2>1, ShadowWritten
<1>5. CASE ok' = TRUE /\ lost' = FALSE /\ UNCHANGED <<latch, driven, out>> /\ latch = out
  <2>1. ok' \in BOOLEAN /\ lost' \in BOOLEAN /\ ~lost'
    BY <1>5, Zenon
  <2> QED  BY <1>1, <1>5, <2>1, ShadowWritten DEF SwShape
<1>6. CASE SetBits(out) /\ UNCHANGED <<driven, lost>>
  <2>1. /\ out' = out /\ latch' \in {latch, out} /\ ok' \in BOOLEAN
        /\ ok' => latch' = out \/ (ok /\ latch' = latch)
    BY <1>1, <1>6, BitsSet
  <2>2. ok' /\ (driven' \/ ~lost') => latch' = out'
    BY <1>1, <1>6, <2>1 DEF DrivenTrue, ShadowTrue
  <2> QED  BY <1>1, <1>6, <2>1, <2>2, ShadowWritten DEF SwShape
<1>7. CASE /\ \E w \in WriteReg(out) : latch' = w.latch /\ ok' = w.ok
           /\ UNCHANGED <<out, driven, lost>>
  <2>1. /\ out' = out /\ latch' \in {latch, out} /\ ok' \in BOOLEAN /\ (ok' => latch' = out)
    BY <1>7, Written
  <2> QED  BY <1>1, <1>7, <2>1, ShadowWritten DEF SwShape
<1>8. CASE VerifyDue
  <2>1. \/ UNCHANGED <<latch, driven, out, ok, lost>>
        \/ \E readable \in Transfers : Verify(readable)
    BY <1>8 DEF VerifyDue
  <2>2. ASSUME NEW readable, Verify(readable) PROVE Kept
    BY <1>3, <1>4, <1>5, <2>2 DEF Verify
  <2> QED  BY <1>2, <2>1, <2>2
<1>9. CASE BlinkLed
  BY <1>6, <1>7, <1>9 DEF BlinkLed
<1> QED  BY <1>8, <1>9

\* Neither the control task nor the bus touches the register; a reset loses what
\* the ESP32 knew, a brown-out what the expander held.
LEMMA WorldKeeps ==
    ASSUME SwInv, ControlTask \/ BusChanges \/ Esp32Reset \/ ExpanderBrownout \/ UNCHANGED swVars
    PROVE  Kept
<1>1. SwShape
  BY DEF SwInv
<1>2. CASE ControlTask \/ BusChanges \/ UNCHANGED swVars
  <2>1. UNCHANGED <<latch, driven, out, ok, want, task, k, lost, asked>>
    BY <1>2 DEF ControlTask, ImuService, ImuRetry, BusChanges, swVars
  <2>2. want' \in SUBSET BatEn /\ k' \in BatEn
    BY <1>1, <2>1 DEF SwShape
  <2> QED  BY <2>1, <2>2, NothingWritten
<1>3. CASE Esp32Reset
  <2>1. /\ task' = "boot" /\ out' = {} /\ ok' = FALSE /\ want' = {} /\ k' = 1
        /\ UNCHANGED <<latch, driven, lost, asked>>
    BY <1>3 DEF Esp32Reset
  <2>2. ~ok' /\ ok' \in BOOLEAN /\ k' \in BatEn
    <3>1. ~ok' /\ ok' \in BOOLEAN
      BY <2>1, Zenon
    <3> QED  BY <2>1, <3>1, PackNumbers
  <2>3. SwShape'
    BY <1>1, <2>1, <2>2 DEF SwShape
  <2>4. /\ ShadowTrue' /\ DrivenTrue' /\ ShadowOpensAsked' /\ PassOpensAsked'
        /\ OpensInOrder' /\ ClosesWanted'
    BY <2>1, <2>2 DEF ShadowTrue, DrivenTrue, ShadowOpensAsked, PassOpensAsked, OpensInOrder, ClosesWanted
  <2>5. Connected' = Connected
    BY <2>1 DEF Connected
  <2> QED  BY <2>3, <2>4, <2>5 DEF Kept, SwInv, DropsAsked, MakesWanted
<1>4. CASE ExpanderBrownout
  <2>1. /\ latch' = Bits /\ driven' = FALSE /\ lost' = TRUE
        /\ UNCHANGED <<out, ok, want, task, k, asked>>
    BY <1>4 DEF ExpanderBrownout
  <2>2. ~driven' /\ lost' /\ driven' \in BOOLEAN /\ lost' \in BOOLEAN
    BY <2>1, Zenon
  <2>3. SwShape'
    BY <1>1, <2>1, <2>2 DEF SwShape
  <2>4. ShadowTrue' /\ DrivenTrue' /\ ShadowOpensAsked'
    BY <2>2 DEF ShadowTrue, DrivenTrue, ShadowOpensAsked
  <2>5. PassOpensAsked' /\ OpensInOrder' /\ ClosesWanted'
    BY <2>1, <2>2 DEF SwInv, PassOpensAsked, OpensInOrder, ClosesWanted
  <2>6. Connected' = {}
    BY <2>2 DEF Connected
  <2> QED  BY <2>2, <2>3, <2>4, <2>5, <2>6 DEF Kept, SwInv, DropsAsked, MakesWanted
<1> QED  BY <1>2, <1>3, <1>4

LEMMA SwStep == SwInv /\ [SwNext]_swVars => Kept
BY BootKeeps, UpdateKeeps, OpenKeeps, CloseKeeps, PulseKeeps, RepairKeeps, WorldKeeps
DEF SwNext, PowerTask

\* Whichever transfers fail and whatever resets or loses its supply: the driver
\* is not ok while the register differs from its shadow, no pack is dropped
\* unasked, and none is connected while one that is to leave still is.
THEOREM SwitchesSafe == SwSpec => []ShadowTrue /\ DropsOnlyUnwanted /\ BreaksBeforeMaking
<1>1. SwInv /\ [SwNext]_swVars => SwInv'
  BY SwStep DEF Kept
<1>2. SwInv => ShadowTrue
  BY DEF SwInv
<1>3. SwInv /\ [SwNext]_swVars => [DropsAsked]_swVars /\ [MakesWanted]_swVars
  BY SwStep DEF Kept
<1> QED
  BY <1>1, <1>2, <1>3, SwStart, PTL DEF SwSpec, DropsOnlyUnwanted, BreaksBeforeMaking, DropsAsked, MakesWanted

\* The types of what SwShape leaves out.
SwRest ==
    /\ asked \in SUBSET BatEn /\ first \in BOOLEAN /\ busBad \in BOOLEAN
    /\ imuOk \in BOOLEAN /\ resetReq \in BOOLEAN /\ retry \in {"never", "waiting"}
    /\ sinceVerify \in 0 .. VerifyCycles /\ imuAge \in Ahead .. ImuCycles + 1

\* They are kept by a task that boots, acts, verifies or looks after the IMU.
LEMMA SwRestStep ==
    ASSUME SwShape, SwShape', SwRest, [SwNext]_swVars
    PROVE  SwRest'
<1>0. VerifyCycles \in Nat /\ ImuCycles \in Nat /\ Ahead = -1
  BY SwitchesAssumption DEF Ahead
<1>1. CASE Boot
  <2>1. imuOk' \in (IF driven /\ ImuRst \notin latch THEN {FALSE} ELSE BOOLEAN)
    BY <1>1, Zenon DEF Boot
  <2>2. imuOk' \in BOOLEAN
    BY <2>1, Zenon
  <2> QED  BY <1>1, <2>2 DEF Boot, SwRest
<1>2. CASE Update
  <2>1. first' \in BOOLEAN
    BY <1>2, Zenon DEF Update
  <2>2. UNCHANGED <<busBad, imuVars>> /\ asked' = (IF ok THEN {} ELSE asked) \cup (BatEn \ want')
    BY <1>2, Zenon DEF Update
  <2>3. asked' \in SUBSET BatEn
    BY <2>2 DEF SwRest
  <2>4. sinceVerify' \in 0 .. VerifyCycles
    BY <1>0, <1>2 DEF Update, SwRest
  <2> QED  BY <2>1, <2>2, <2>3, <2>4 DEF SwRest, imuVars
<1>3. CASE OpenPack \/ ClosePack \/ PulseHigh \/ BlinkLed
  BY <1>3 DEF OpenPack, ClosePack, PulseHigh, BlinkLed, SwRest, imuVars
<1>4. CASE PulseLow
  <2>1. resetReq' \in BOOLEAN
    BY <1>4 DEF PulseLow, SwRest
  <2> QED  BY <1>4, <2>1 DEF PulseLow, SwRest
<1>5. CASE VerifyDue
  BY <1>0, <1>5 DEF VerifyDue, SwRest, imuVars
<1>6. CASE ImuService
  <2>1. PICK events \in BOOLEAN : \E age \in Heard(events) :
          /\ imuAge' = age
          /\ IF age = Ahead \/ age > ImuCycles
             THEN imuOk' = FALSE /\ resetReq' = TRUE /\ retry' = "waiting"
             ELSE UNCHANGED <<imuOk, resetReq, retry>>
    BY <1>6 DEF ImuService
  <2>2. imuAge' \in Heard(events)
    BY <2>1
  <2>3. imuAge' \in Ahead .. ImuCycles + 1
    BY <1>0, <2>2 DEF Heard, SwRest
  <2>4. imuOk' \in BOOLEAN /\ resetReq' \in BOOLEAN /\ retry' \in {"never", "waiting"}
    BY <2>1 DEF SwRest
  <2> QED  BY <1>6, <2>3, <2>4 DEF ImuService, SwRest
<1>7. CASE ImuRetry
  <2>1. imuOk' \in (IF ImuAlive THEN BOOLEAN ELSE {FALSE})
    BY <1>7, Zenon DEF ImuRetry
  <2>2. imuOk' \in BOOLEAN
    BY <2>1, Zenon
  <2> QED  BY <1>0, <1>7, <2>2 DEF ImuRetry, SwRest
<1>8. CASE Esp32Reset
  <2>1. first' \in BOOLEAN /\ imuOk' \in BOOLEAN /\ resetReq' \in BOOLEAN
    BY <1>8, Zenon DEF Esp32Reset
  <2> QED  BY <1>0, <1>8, <2>1 DEF Esp32Reset, SwRest
<1>9. CASE ExpanderBrownout
  BY <1>9 DEF ExpanderBrownout, SwRest, imuVars
<1>10. CASE BusChanges
  BY <1>10 DEF BusChanges, SwRest, imuVars
<1>11. CASE UNCHANGED swVars
  BY <1>11 DEF swVars, imuVars, SwRest
<1> QED
  BY <1>1, <1>2, <1>3, <1>4, <1>5, <1>6, <1>7, <1>8, <1>9, <1>10, <1>11 DEF SwNext, PowerTask, ControlTask

\* The registers, the policy's choices, the power task and the IMU's timers keep
\* their types and bounds, whatever fails or is reset and when.
THEOREM SwitchesTyped == SwSpec => []SwTypeOK
<1>1. SwInit => SwRest
  <2> SUFFICES ASSUME SwInit PROVE SwRest
    OBVIOUS
  <2>1. first \in BOOLEAN /\ imuOk \in BOOLEAN /\ resetReq \in BOOLEAN /\ busBad \in BOOLEAN
    BY Zenon DEF SwInit
  <2> QED  BY <2>1, SwitchesAssumption DEF SwInit, SwRest, Ahead
<1>2. SwInv /\ SwRest /\ [SwNext]_swVars => SwInv' /\ SwRest'
  BY SwStep, SwRestStep DEF Kept, SwInv
<1>3. SwInv /\ SwRest => SwTypeOK
  <2> SUFFICES ASSUME SwInv, SwRest PROVE SwTypeOK
    OBVIOUS
  <2>1. SwShape
    BY DEF SwInv
  <2> QED  BY <2>1, Zenon DEF SwShape, SwRest, SwTypeOK
<1> QED  BY <1>1, <1>2, <1>3, SwStart, PTL DEF SwSpec

-----------------------------------------------------------------------------
(* The network task. *)

\* The network task alone; safety needs no fairness.
NetSpec == NetInit /\ [][NetNext]_netVars

\* What a job consists of.
JobStep == Fields \cup Topics \cup {"ack", "restart"}

\* A setting that is still to be saved belongs to the job and is not
\* acknowledged.
SavesItsOwn ==
    \A i \in 1 .. Len(job.todo) :
        job.todo[i] \in Fields => job.todo[i] \in job.of /\ acked[job.todo[i]] = None

\* What is to be acknowledged is in the flash or is saved before.
SavesBeforeAck ==
    \A i \in 1 .. Len(job.todo) : job.todo[i] = "ack" =>
        /\ \A f \in job.of : flash[f] = ram[f] \/ \E j \in 1 .. i - 1 : job.todo[j] = f
        /\ \A j \in i .. Len(job.todo) : job.todo[j] \notin Fields

\* A session hears what it has subscribed to, and the job subscribes to the rest.
HearsOrSubscribes == session => \A t \in Topics : t \in subs \/ \E i \in 1 .. Len(job.todo) : job.todo[i] = t

NetInv ==
    /\ DOMAIN flash = Fields /\ job.todo \in Seq(JobStep) /\ job.of \subseteq Fields /\ subs \subseteq Topics
    /\ SavesItsOwn /\ SavesBeforeAck /\ HearsOrSubscribes /\ AckedIsSaved

-----------------------------------------------------------------------------
\* The parts of a job.
LEMMA JobParts ==
    ASSUME NEW of, NEW todo, NEW nested
    PROVE  /\ Job(of, todo, nested).of = of /\ Job(of, todo, nested).todo = todo
           /\ Idle.of = {} /\ Idle.todo = <<>>
<1>1. Job(of, todo, nested).of = of /\ Job(of, todo, nested).todo = todo
  BY Zenon DEF Job
<1>2. Idle = [of |-> {}, todo |-> <<>>, nested |-> FALSE]
  BY Zenon DEF Idle, Job
<1>3. Idle.of = {} /\ Idle.todo = <<>>
  BY ONLY <1>2, Zenon
<1> QED  BY <1>1, <1>3

\* A job that is idle leaves nothing to do.
LEMMA IdleKeeps ==
    ASSUME job' = Idle
    PROVE  /\ job'.of = {} /\ job'.todo = <<>> /\ job'.todo \in Seq(JobStep) /\ Len(job'.todo) = 0
           /\ SavesItsOwn' /\ SavesBeforeAck'
<1>1. job'.of = {} /\ job'.todo = <<>>
  BY JobParts
<1>2. job'.todo \in Seq(JobStep) /\ Len(job'.todo) = 0
  BY <1>1
<1> QED  BY <1>1, <1>2 DEF SavesItsOwn, SavesBeforeAck

\* What a command asks of a job.
Commanded(of, s) == (of = NetFields /\ s = NetTodo) \/ \E f \in BoardFields : of = {f} /\ s = BoardTodo(f)

\* A command's steps, and the restart after them.
LEMMA Todo ==
    ASSUME NEW of, NEW s, NEW t, t \in {s, s \o <<"restart">>},
           Commanded(of, s)
    PROVE  /\ of \subseteq Fields /\ t \in Seq(JobStep)
           /\ \A i \in 1 .. Len(t) : t[i] \in Fields => t[i] \in of
           /\ \A i \in 1 .. Len(t) : t[i] = "ack" =>
                /\ \A f \in of : \E j \in 1 .. i - 1 : t[j] = f
                /\ \A j \in i .. Len(t) : t[j] \notin Fields
<1>1. /\ of \subseteq Fields /\ s \in Seq(JobStep)
      /\ \A i \in 1 .. Len(s) : s[i] \in Fields => s[i] \in of
      /\ \A i \in 1 .. Len(s) : s[i] = "ack" =>
           /\ \A f \in of : \E j \in 1 .. i - 1 : s[j] = f
           /\ \A j \in i .. Len(s) : s[j] \notin Fields
  <2>1. CASE of = NetFields /\ s = NetTodo
    <3>1. s = <<"wifi", "broker", "ack", "restart">> /\ of = {"wifi", "broker"}
      BY <2>1 DEF NetTodo, NetFields
    <3>2. s \in Seq(JobStep)
      BY <3>1 DEF JobStep, Fields, NetFields
    <3>3. /\ Len(s) = 4 /\ s[1] = "wifi" /\ s[2] = "broker" /\ s[3] = "ack" /\ s[4] = "restart"
          /\ \A i \in 1 .. 4 : i = 1 \/ i = 2 \/ i = 3 \/ i = 4
      BY <3>1
    <3>4. of \subseteq Fields /\ "ack" \notin Fields /\ "restart" \notin Fields
      BY <3>1 DEF Fields, NetFields, BoardFields
    <3>5. \A i \in 1 .. Len(s) : s[i] \in Fields => s[i] \in of
      BY <3>1, <3>3, <3>4
    <3>6. \A i \in 1 .. Len(s) : s[i] = "ack" =>
           /\ \A f \in of : \E j \in 1 .. i - 1 : s[j] = f
           /\ \A j \in i .. Len(s) : s[j] \notin Fields
      <4> SUFFICES ASSUME NEW i \in 1 .. Len(s), s[i] = "ack"
                   PROVE  /\ \A f \in of : \E j \in 1 .. i - 1 : s[j] = f
                          /\ \A j \in i .. Len(s) : s[j] \notin Fields
        OBVIOUS
      <4>1. i = 3
        BY <3>3
      <4>2. \A f \in of : \E j \in 1 .. 2 : s[j] = f
        BY <3>1, <3>3
      <4>3. \A j \in 3 .. 4 : s[j] \notin Fields
        BY <3>3, <3>4
      <4> QED  BY <3>3, <4>1, <4>2, <4>3
    <3> QED  BY <3>2, <3>4, <3>5, <3>6
  <2>2. CASE \E f \in BoardFields : of = {f} /\ s = BoardTodo(f)
    <3>1. PICK f \in BoardFields : of = {f} /\ s = <<f, "ack">>
      BY <2>2 DEF BoardTodo
    <3>2. f \in Fields /\ f # "ack" /\ "ack" \notin Fields
      BY DEF Fields, BoardFields, NetFields
    <3>3. s \in Seq(JobStep)
      BY <3>1, <3>2 DEF JobStep
    <3>4. Len(s) = 2 /\ s[1] = f /\ s[2] = "ack" /\ \A i \in 1 .. 2 : i = 1 \/ i = 2
      BY <3>1
    <3> QED  BY <3>1, <3>2, <3>3, <3>4
  <2> QED  BY <2>1, <2>2 DEF Commanded
<1>2. CASE t = s
  BY <1>1, <1>2
<1>3. CASE t = s \o <<"restart">>
  <2>1. Len(s) \in Nat /\ t \in Seq(JobStep) /\ Len(t) = Len(s) + 1
    <3>1. <<"restart">> \in Seq(JobStep)
      BY DEF JobStep
    <3> QED  BY <1>1, <1>3, <3>1
  <2>2. (\A i \in 1 .. Len(s) : t[i] = s[i]) /\ t[Len(s) + 1] = "restart"
    BY <1>1, <1>3
  <2>3. "restart" \notin Fields /\ "restart" # "ack"
    BY DEF Fields, BoardFields, NetFields
  <2>4. \A i \in 1 .. Len(t) : i \in 1 .. Len(s) \/ i = Len(s) + 1
    BY <2>1
  <2>5. \A i \in 1 .. Len(t) : t[i] \in Fields => t[i] \in of
    BY <1>1, <2>2, <2>3, <2>4
  <2>6. \A i \in 1 .. Len(t) : t[i] = "ack" =>
           /\ \A f \in of : \E j \in 1 .. i - 1 : t[j] = f
           /\ \A j \in i .. Len(t) : t[j] \notin Fields
    <3> SUFFICES ASSUME NEW i \in 1 .. Len(t), t[i] = "ack"
                 PROVE  /\ \A f \in of : \E j \in 1 .. i - 1 : t[j] = f
                        /\ \A j \in i .. Len(t) : t[j] \notin Fields
      OBVIOUS
    <3>1. i \in 1 .. Len(s) /\ s[i] = "ack"
      BY <2>2, <2>3, <2>4
    <3>2. \A f \in of : \E j \in 1 .. i - 1 : t[j] = f
      <4>1. \A j \in 1 .. i - 1 : j \in 1 .. Len(s)
        BY <2>1, <3>1
      <4> QED  BY <1>1, <2>2, <3>1, <4>1
    <3>3. \A j \in i .. Len(t) : t[j] \notin Fields
      <4>1. \A j \in i .. Len(t) : (j \in i .. Len(s) /\ j \in 1 .. Len(s)) \/ j = Len(s) + 1
        BY <2>1, <3>1
      <4> QED  BY <1>1, <2>2, <2>3, <3>1, <4>1
    <3> QED  BY <3>2, <3>3
  <2> QED  BY <1>1, <2>1, <2>5, <2>6
<1> QED  BY <1>2, <1>3

LEMMA NetStart == NetInit => NetInv
<1> SUFFICES ASSUME NetInit PROVE NetInv
  OBVIOUS
<1>1. /\ job = Idle /\ ~session /\ subs = {} /\ acked = [f \in Fields |-> None] /\ DOMAIN flash = Fields
  BY DEF NetInit
<1>2. job.of = {} /\ job.todo = <<>>
  BY <1>1, JobParts
<1>3. job.todo \in Seq(JobStep) /\ Len(job.todo) = 0
  BY <1>2
<1> QED  BY <1>1, <1>2, <1>3 DEF NetInv, SavesItsOwn, SavesBeforeAck, HearsOrSubscribes, AckedIsSaved

\* The board starts again from its flash.
LEMMA ResetKeeps == NetInv /\ Reset => NetInv'
<1> SUFFICES ASSUME NetInv, Reset PROVE NetInv'
  OBVIOUS
<1>1. job' = Idle /\ ~session' /\ subs' = {} /\ UNCHANGED <<flash, acked>>
  BY DEF Reset
<1> QED  BY <1>1, IdleKeeps DEF NetInv, HearsOrSubscribes, AckedIsSaved

\* Where a command is taken, every topic has been subscribed.
LEMMA HearsAll ==
    ASSUME NetInv, job = Idle \/ Nesting
    PROVE  /\ session => subs = Topics
           /\ \A i \in 1 .. Len(job.todo) : job.todo[i] \notin Fields /\ job.todo[i] # "ack"
<1>1. job.todo = <<>> \/ job.todo = <<"restart">>
  BY JobParts DEF Nesting
<1>2. \A i \in 1 .. Len(job.todo) : job.todo[i] = "restart"
  BY <1>1
<1>3. "restart" \notin Fields /\ "restart" \notin Topics /\ "restart" # "ack"
  BY DEF Fields, BoardFields, NetFields, Topics
<1> QED  BY <1>2, <1>3 DEF NetInv, HearsOrSubscribes

\* A command that is taken.
LEMMA AcceptKeeps ==
    ASSUME NetInv, job = Idle \/ Nesting, NEW new, NEW of, NEW s, Accept(new, of, s),
           Commanded(of, s)
    PROVE  NetInv'
<1> DEFINE t == IF Nesting THEN s \o <<"restart">> ELSE s
<1>1. /\ job' = Job(of, t, Nesting) /\ acked' = [f \in Fields |-> IF f \in of THEN None ELSE acked[f]]
      /\ UNCHANGED <<session, subs, flash>>
  BY DEF Accept
<1>2. job'.of = of /\ job'.todo = t
  BY <1>1, JobParts
<1>3. t \in {s, s \o <<"restart">>}
  OBVIOUS
<1> HIDE DEF t
<1>4. /\ of \subseteq Fields /\ t \in Seq(JobStep)
      /\ \A i \in 1 .. Len(t) : t[i] \in Fields => t[i] \in of
      /\ \A i \in 1 .. Len(t) : t[i] = "ack" =>
           /\ \A f \in of : \E j \in 1 .. i - 1 : t[j] = f
           /\ \A j \in i .. Len(t) : t[j] \notin Fields
  BY <1>3, Todo
<1>5. SavesItsOwn'
  BY <1>1, <1>2, <1>4 DEF SavesItsOwn
<1>6. SavesBeforeAck'
  BY <1>2, <1>4 DEF SavesBeforeAck
<1>7. HearsOrSubscribes'
  BY <1>1, HearsAll DEF HearsOrSubscribes
<1>8. AckedIsSaved'
  BY <1>1 DEF AckedIsSaved, NetInv
<1> QED  BY <1>1, <1>2, <1>4, <1>5, <1>6, <1>7, <1>8 DEF NetInv

LEMMA CommandsKeep == NetInv /\ Commands => NetInv'
<1> SUFFICES ASSUME NetInv, Commands PROVE NetInv'
  OBVIOUS
<1>1. CASE ConfigTopic
  <2>1. PICK c \in ApplyJson : Accept(c, NetFields, NetTodo)
    BY <1>1 DEF ConfigTopic
  <2>2. job = Idle \/ Nesting
    BY <1>1 DEF ConfigTopic, Receiving
  <2> QED  BY <2>1, <2>2, AcceptKeeps DEF Commanded
<1>2. CASE PortalSave
  <2>1. PICK c \in ApplyJson : Accept(c, NetFields, NetTodo)
    BY <1>2 DEF PortalSave
  <2>2. job = Idle \/ Nesting
    BY <1>2 DEF PortalSave
  <2> QED  BY <2>1, <2>2, AcceptKeeps DEF Commanded
<1>3. CASE BoardConfig
  <2>1. PICK f \in BoardFields, v \in Settings : Accept([ram EXCEPT ![f] = v], {f}, BoardTodo(f))
    BY <1>3 DEF BoardConfig
  <2>2. job = Idle \/ Nesting
    BY <1>3 DEF BoardConfig, Receiving
  <2> DEFINE new == [ram EXCEPT ![f] = v]
  <2>3. Accept(new, {f}, BoardTodo(f))
    BY <2>1
  <2> HIDE DEF new
  <2> QED  BY <2>2, <2>3, AcceptKeeps DEF Commanded
<1>4. CASE EnterApTopic \/ MotorDirection
  <2>1. job = Idle \/ Nesting
    BY <1>4 DEF EnterApTopic, MotorDirection, Receiving
  <2>2. job' = Job(job.of, job.todo, Nesting) /\ UNCHANGED <<session, subs, flash, acked>>
    BY <1>4 DEF EnterApTopic, MotorDirection
  <2>3. job'.of = job.of /\ job'.todo = job.todo
    BY <2>2, JobParts
  <2>4. \A i \in 1 .. Len(job.todo) : job.todo[i] \notin Fields /\ job.todo[i] # "ack"
    BY <2>1, HearsAll
  <2>5. SavesItsOwn' /\ SavesBeforeAck'
    BY <2>3, <2>4 DEF SavesItsOwn, SavesBeforeAck
  <2>6. HearsOrSubscribes' /\ AckedIsSaved'
    BY <2>2, <2>3 DEF HearsOrSubscribes, AckedIsSaved, NetInv
  <2> QED  BY <2>2, <2>3, <2>5, <2>6 DEF NetInv
<1> QED  BY <1>1, <1>2, <1>3, <1>4 DEF Commands

\* What is left of a job when its first step is done.
LEMMA StepDone ==
    ASSUME NetInv, NEW s, Step(s), job' = Done
    PROVE  /\ job'.of \subseteq job.of /\ (job'.todo # <<>> => job'.of = job.of)
           /\ job'.todo \in Seq(JobStep) /\ Len(job.todo) \in Nat \ {0} /\ job.todo[1] = s
           /\ Len(job'.todo) = Len(job.todo) - 1
           /\ \A i \in 1 .. Len(job'.todo) : job'.todo[i] = job.todo[i + 1]
<1> DEFINE t == job.todo
           u == job'.todo
<1>1. t \in Seq(JobStep) /\ t # <<>> /\ Head(t) = s
  BY DEF NetInv, Step
<1>2. Len(t) \in Nat \ {0} /\ t[1] = s
  BY <1>1
<1>3. CASE Len(t) = 1
  <2>1. job'.of = {} /\ u = <<>>
    BY <1>3, JobParts DEF Done
  <2> HIDE DEF t, u
  <2>2. u \in Seq(JobStep) /\ Len(u) = 0
    BY <2>1
  <2> QED  BY <1>2, <1>3, <2>1, <2>2 DEF t, u
<1>4. CASE Len(t) # 1
  <2>1. job'.of = job.of /\ u = Tail(t)
    BY <1>4, JobParts DEF Done
  <2> HIDE DEF t, u
  <2>2. /\ Tail(t) \in Seq(JobStep) /\ Len(Tail(t)) = Len(t) - 1
        /\ \A i \in 1 .. Len(Tail(t)) : Tail(t)[i] = t[i + 1]
    BY <1>1, <1>2
  <2> QED  BY <1>2, <2>1, <2>2 DEF t, u
<1> QED  BY <1>3, <1>4

\* What a step that leaves ram, and what has been saved, alone leaves to do.
LEMMA StepKeeps ==
    ASSUME NetInv, NEW s, Step(s), job' = Done, UNCHANGED ram, DOMAIN flash' = Fields,
           subs' \subseteq Topics, session' = session,
           \A f \in Fields : flash'[f] = flash[f] \/ (f = s /\ flash'[f] = ram[f]),
           s \in Fields => flash'[s] = ram[s],
           s \in Topics /\ session => s \in subs', subs \subseteq subs',
           AckedIsSaved',
           \A i \in 1 .. Len(job'.todo) : job'.todo[i] \in Fields => acked'[job'.todo[i]] = acked[job'.todo[i]]
    PROVE  NetInv'
<1> DEFINE t == job.todo
           u == job'.todo
           n == Len(t)
           m == Len(u)
<1>1. /\ job'.of \subseteq job.of /\ (u # <<>> => job'.of = job.of)
      /\ u \in Seq(JobStep) /\ n \in Nat \ {0} /\ t[1] = s /\ m = n - 1
      /\ \A i \in 1 .. m : u[i] = t[i + 1]
  BY StepDone
<1>2. /\ job.of \subseteq Fields
      /\ \A i \in 1 .. n : t[i] \in Fields => t[i] \in job.of /\ acked[t[i]] = None
      /\ \A i \in 1 .. n : t[i] = "ack" =>
           /\ \A f \in job.of : flash[f] = ram[f] \/ \E j \in 1 .. i - 1 : t[j] = f
           /\ \A j \in i .. n : t[j] \notin Fields
      /\ session => \A p \in Topics : p \in subs \/ \E i \in 1 .. n : t[i] = p
  BY DEF NetInv, SavesItsOwn, SavesBeforeAck, HearsOrSubscribes
<1>3. \A i \in 1 .. m : u[i] \in Fields => acked'[u[i]] = acked[u[i]]
  OBVIOUS
<1>4. m # 0 => u # <<>>
  OBVIOUS
<1> HIDE DEF t, u, n, m
<1>5. \A i \in 1 .. m : i + 1 \in 1 .. n
  BY <1>1
<1>6. \A i \in 1 .. m : u[i] \in Fields => u[i] \in job'.of /\ acked'[u[i]] = None
  BY <1>1, <1>2, <1>3, <1>4, <1>5
<1>7. \A j \in 1 .. n : j = 1 \/ (j - 1 \in 1 .. m /\ u[j - 1] = t[j])
  BY <1>1
<1>8. \A i \in 1 .. m : u[i] = "ack" =>
           /\ \A f \in job'.of : flash'[f] = ram'[f] \/ \E j \in 1 .. i - 1 : u[j] = f
           /\ \A j \in i .. m : u[j] \notin Fields
  <2> SUFFICES ASSUME NEW i \in 1 .. m, u[i] = "ack"
               PROVE  /\ \A f \in job'.of : flash'[f] = ram'[f] \/ \E j \in 1 .. i - 1 : u[j] = f
                      /\ \A j \in i .. m : u[j] \notin Fields
    OBVIOUS
  <2>1. i + 1 \in 1 .. n /\ t[i + 1] = "ack"
    BY <1>1, <1>5
  <2>2. ASSUME NEW f \in job'.of PROVE flash'[f] = ram'[f] \/ \E j \in 1 .. i - 1 : u[j] = f
    <3>1. f \in job.of /\ f \in Fields
      BY <1>1, <1>2
    <3>2. CASE flash[f] = ram[f]
      BY <3>1, <3>2
    <3>3. CASE flash[f] # ram[f]
      <4>1. PICK j \in 1 .. (i + 1) - 1 : t[j] = f
        BY <1>2, <2>1, <3>1, <3>3
      <4>2. CASE j = 1
        <5>1. f = s
          BY <1>1, <4>1, <4>2
        <5> QED  BY <3>1, <5>1
      <4>3. CASE j # 1
        <5>1. j \in 1 .. n /\ j - 1 \in 1 .. i - 1
          BY <1>1, <2>1, <4>1, <4>3
        <5>2. u[j - 1] = f
          BY <1>7, <4>1, <4>3, <5>1
        <5> QED  BY <5>1, <5>2
      <4> QED  BY <4>2, <4>3
    <3> QED  BY <3>2, <3>3
  <2>3. ASSUME NEW j \in i .. m PROVE u[j] \notin Fields
    <3>1. j + 1 \in i + 1 .. n /\ j \in 1 .. m
      BY <1>1, <2>1
    <3> QED  BY <1>1, <1>2, <2>1, <3>1
  <2> QED  BY <2>2, <2>3
<1>9. session' => \A p \in Topics : p \in subs' \/ \E i \in 1 .. m : u[i] = p
  <2> SUFFICES ASSUME session, NEW p \in Topics PROVE p \in subs' \/ \E i \in 1 .. m : u[i] = p
    OBVIOUS
  <2>1. CASE p \in subs
    BY <2>1
  <2>2. CASE p \notin subs
    <3>1. PICK i \in 1 .. n : t[i] = p
      BY <1>2, <2>2
    <3>2. CASE i = 1
      BY <1>1, <3>1, <3>2
    <3>3. CASE i # 1
      BY <1>7, <3>1, <3>3
    <3> QED  BY <3>2, <3>3
  <2> QED  BY <2>1, <2>2
<1>10. SavesItsOwn'
  BY <1>6 DEF SavesItsOwn, u, m
<1>11. SavesBeforeAck'
  BY <1>8 DEF SavesBeforeAck, u, m
<1>12. HearsOrSubscribes'
  BY <1>9 DEF HearsOrSubscribes, u, m
<1>13. job'.todo \in Seq(JobStep) /\ job'.of \subseteq Fields
  BY <1>1, <1>2 DEF u
<1> QED  BY <1>10, <1>11, <1>12, <1>13 DEF NetInv

LEMMA StepsKeep == NetInv /\ (Subscribe \/ Save \/ Ack) => NetInv'
<1> SUFFICES ASSUME NetInv, Subscribe \/ Save \/ Ack PROVE NetInv'
  OBVIOUS
<1>1. \A f \in Fields : f \notin Topics /\ f # "ack"
  BY DEF Fields, NetFields, BoardFields, Topics
<1>2. "ack" \notin Topics
  BY DEF Topics
<1>3. DOMAIN flash = Fields /\ subs \subseteq Topics /\ AckedIsSaved
  BY DEF NetInv
<1>4. CASE Subscribe
  <2>1. PICK t \in Topics : /\ Step(t) /\ job' = Done /\ subs' = IF session THEN subs \cup {t} ELSE subs
                            /\ UNCHANGED <<session, ram, flash, acked>>
    BY <1>4 DEF Subscribe
  <2>2. AckedIsSaved'
    BY <1>3, <2>1 DEF AckedIsSaved
  <2> QED  BY <1>1, <1>3, <2>1, <2>2, StepKeeps
<1>5. CASE Save
  <2>1. PICK g \in Fields : /\ Step(g) /\ job' = Done /\ flash' = [flash EXCEPT ![g] = ram[g]]
                            /\ UNCHANGED <<session, subs, ram, acked>>
    BY <1>5 DEF Save
  <2>2. /\ DOMAIN flash' = Fields /\ flash'[g] = ram[g]
        /\ \A f \in Fields : f # g => flash'[f] = flash[f]
    BY <1>3, <2>1
  <2>3. acked[g] = None
    <3>1. Len(job.todo) \in Nat \ {0} /\ job.todo[1] = g
      BY <2>1, StepDone
    <3> QED  BY <3>1 DEF NetInv, SavesItsOwn
  <2>4. AckedIsSaved'
    BY <1>3, <2>1, <2>2, <2>3 DEF AckedIsSaved
  <2> QED  BY <1>1, <1>3, <2>1, <2>2, <2>4, StepKeeps
<1>6. CASE Ack
  <2>1. /\ Step("ack") /\ job' = Done /\ acked' = [f \in Fields |-> IF f \in job.of THEN ram[f] ELSE acked[f]]
        /\ UNCHANGED <<session, subs, ram, flash>>
    BY <1>6 DEF Ack
  <2>2. /\ Len(job.todo) \in Nat \ {0} /\ job.todo[1] = "ack" /\ Len(job'.todo) = Len(job.todo) - 1
        /\ \A i \in 1 .. Len(job'.todo) : job'.todo[i] = job.todo[i + 1]
    BY <2>1, StepDone
  <2>3. /\ \A f \in job.of : flash[f] = ram[f] \/ \E j \in 1 .. 1 - 1 : job.todo[j] = f
        /\ \A j \in 1 .. Len(job.todo) : job.todo[j] \notin Fields
    BY <2>2 DEF NetInv, SavesBeforeAck
  <2>4. \A f \in job.of : flash[f] = ram[f]
    BY <2>3
  <2>5. AckedIsSaved'
    BY <1>3, <2>1, <2>4 DEF AckedIsSaved
  <2>6. \A i \in 1 .. Len(job'.todo) : job'.todo[i] \notin Fields
    <3>1. \A i \in 1 .. Len(job'.todo) : i + 1 \in 1 .. Len(job.todo)
      BY <2>2
    <3> QED  BY <2>2, <2>3, <3>1
  <2> QED  BY <1>1, <1>2, <1>3, <2>1, <2>5, <2>6, StepKeeps
<1> QED  BY <1>4, <1>5, <1>6

LEMMA NetStep == NetInv /\ [NetNext]_netVars => NetInv'
<1> SUFFICES ASSUME NetInv, [NetNext]_netVars PROVE NetInv'
  OBVIOUS
<1> USE DEF NetInv, SavesItsOwn, SavesBeforeAck, HearsOrSubscribes, AckedIsSaved
<1>1. CASE Join \/ HttpEnterAp \/ UNCHANGED netVars
  <2>1. UNCHANGED <<session, subs, ram, flash, job, acked>>
    BY <1>1 DEF Join, HttpEnterAp, netVars
  <2> QED  BY <2>1
<1>2. CASE EnterAp \/ SessionLost \/ EnvChanges
  <2>1. UNCHANGED <<ram, flash, job, acked>> /\ (UNCHANGED <<session, subs>> \/ (~session' /\ subs' = {}))
    BY <1>2 DEF EnterAp, SessionLost, EnvChanges
  <2> QED  BY <2>1
<1>3. CASE TryReconnect
  <2>1. /\ job' = Job({}, SubscribeTodo, FALSE) /\ UNCHANGED <<subs, flash, ram, acked>>
    BY <1>3, Zenon DEF TryReconnect
  <2>2. job'.of = {} /\ job'.todo = <<"netcfg", "main">>
    <3>1. /\ Job({}, SubscribeTodo, FALSE).of = {}
          /\ Job({}, SubscribeTodo, FALSE).todo = SubscribeTodo
      BY Zenon DEF Job
    <3> QED  BY ONLY <2>1, <3>1, Zenon DEF SubscribeTodo
  <2>3. /\ job'.todo \in Seq(JobStep) /\ Len(job'.todo) = 2
        /\ job'.todo[1] = "netcfg" /\ job'.todo[2] = "main"
        /\ \A i \in 1 .. 2 : i = 1 \/ i = 2
    BY <2>2 DEF JobStep, Topics
  <2>4. Topics = {"netcfg", "main"} /\ "netcfg" \notin Fields /\ "main" \notin Fields
    BY DEF Topics, Fields, NetFields, BoardFields
  <2>5. SavesItsOwn' /\ SavesBeforeAck'
    BY ONLY <2>3, <2>4 DEF SavesItsOwn, SavesBeforeAck
  <2>6. HearsOrSubscribes'
    BY ONLY <2>3, <2>4 DEF HearsOrSubscribes
  <2>7. flash' = flash /\ subs' = subs /\ acked' = acked
    BY ONLY <2>1, Zenon
  <2>8. AckedIsSaved'
    BY <2>7
  <2> QED  BY <2>2, <2>3, <2>5, <2>6, <2>7, <2>8
<1>4. CASE Subscribe \/ Save \/ Ack
  BY <1>4, StepsKeep
<1>5. CASE Restart \/ Reset
  BY <1>5, ResetKeeps DEF Restart
<1>6. CASE Commands
  BY <1>6, CommandsKeep
<1> QED  BY <1>1, <1>2, <1>3, <1>4, <1>5, <1>6 DEF NetNext, Task

\* Wherever the board is reset and whatever it is told in between: what it has
\* acknowledged is in the flash, and while it is connected with nothing in hand it
\* hears every topic.
THEOREM NetRemembers == NetSpec => [](AckedIsSaved /\ HearsCommands)
<1>1. NetInv => AckedIsSaved /\ HearsCommands
  <2> SUFFICES ASSUME NetInv, session, job = Idle PROVE subs = Topics
    BY DEF NetInv, HearsCommands
  <2> QED  BY HearsAll
<1> QED  BY NetStart, NetStep, <1>1, PTL DEF NetSpec

\* What each field may hold, and what may have been acknowledged of it.
NetValues ==
    /\ \A c \in {ram, flash} : DOMAIN c = Fields /\ \A f \in Fields : c[f] \in Values(f)
    /\ \A f \in Fields : acked[f] \in Values(f) \cup {None}

NetFlags ==
    /\ netMode \in {"joining", "sta", "ap"}
    /\ wifiUp \in BOOLEAN /\ brokerUp \in BOOLEAN /\ session \in BOOLEAN
    /\ apPending \in BOOLEAN /\ job.nested \in BOOLEAN

\* A command sets fields to values of theirs.
LEMMA CommandValues ==
    ASSUME NetValues, NEW c, NEW of, NEW todo, Accept(c, of, todo),
           DOMAIN c = Fields, \A f \in Fields : c[f] \in Values(f)
    PROVE  NetValues'
<1>1. /\ ram' = c /\ flash' = flash
      /\ acked' = [f \in Fields |-> IF f \in of THEN None ELSE acked[f]]
  BY DEF Accept
<1> QED  BY <1>1 DEF NetValues

\* Every step moves values between the flash, the RAM and what was acknowledged.
LEMMA NetValuesStep ==
    ASSUME NetValues, [NetNext]_netVars
    PROVE  NetValues'
<1>0. /\ "wifi" \in Fields /\ "broker" \in Fields /\ "act" \in Fields /\ BoardFields \subseteq Fields
      /\ \A f \in Fields : Values(f) = IF f \in {"wifi", "broker"} THEN Reach ELSE Settings
      /\ \A f \in BoardFields : f \notin {"wifi", "broker"}
  BY DEF Fields, NetFields, BoardFields, Values
<1>1. CASE \/ Join \/ HttpEnterAp \/ EnterAp \/ TryReconnect \/ Subscribe \/ EnterApTopic
           \/ SessionLost \/ EnvChanges \/ UNCHANGED netVars
  <2>1. UNCHANGED <<ram, flash, acked>>
    BY <1>1 DEF Join, HttpEnterAp, EnterAp, TryReconnect, Subscribe, EnterApTopic, SessionLost, EnvChanges, netVars
  <2> QED  BY <2>1 DEF NetValues
<1>2. CASE Save
  <2>1. PICK f \in Fields : flash' = [flash EXCEPT ![f] = ram[f]] /\ UNCHANGED <<ram, acked>>
    BY <1>2 DEF Save
  <2> QED  BY <2>1 DEF NetValues
<1>3. CASE Ack
  <2>1. /\ acked' = [f \in Fields |-> IF f \in job.of THEN ram[f] ELSE acked[f]]
        /\ UNCHANGED <<ram, flash>>
    BY <1>3 DEF Ack
  <2> QED  BY <2>1 DEF NetValues
<1>4. CASE Restart \/ Reset
  <2>1. ram' = flash /\ UNCHANGED <<flash, acked>>
    BY <1>4 DEF Restart, Reset
  <2> QED  BY <2>1 DEF NetValues
<1>5. CASE ConfigTopic \/ PortalSave
  <2>1. PICK w \in Reach, b \in Reach : Accept([ram EXCEPT !.wifi = w, !.broker = b], NetFields, NetTodo)
    <3>1. PICK new \in ApplyJson : Accept(new, NetFields, NetTodo)
      BY <1>5, Zenon DEF ConfigTopic, PortalSave
    <3>2. PICK w \in Reach, b \in Reach : new = WithNet(w, b)
      BY DEF ApplyJson
    <3> QED  BY <3>1, <3>2, Zenon DEF WithNet
  <2> DEFINE c == [ram EXCEPT !.wifi = w, !.broker = b]
  <2>2. DOMAIN c = Fields /\ \A f \in Fields : c[f] = IF f = "wifi" THEN w ELSE IF f = "broker" THEN b ELSE ram[f]
    BY <1>0 DEF NetValues
  <2>3. \A f \in Fields : ram[f] \in Values(f)
    BY DEF NetValues
  <2> HIDE DEF c
  <2>4. \A f \in Fields : c[f] \in Values(f)
    BY <1>0, <2>2, <2>3
  <2> QED  BY <2>1, <2>2, <2>4, CommandValues DEF c
<1>6. CASE BoardConfig
  <2>1. PICK g \in BoardFields, v \in Settings : Accept([ram EXCEPT ![g] = v], {g}, BoardTodo(g))
    BY <1>6 DEF BoardConfig
  <2> DEFINE c == [ram EXCEPT ![g] = v]
  <2>2. DOMAIN c = Fields /\ \A f \in Fields : c[f] = IF f = g THEN v ELSE ram[f]
    BY <1>0 DEF NetValues
  <2>3. \A f \in Fields : ram[f] \in Values(f)
    BY DEF NetValues
  <2> HIDE DEF c
  <2>4. \A f \in Fields : c[f] \in Values(f)
    BY <1>0, <2>2, <2>3
  <2> QED  BY <2>1, <2>2, <2>4, CommandValues DEF c
<1>7. CASE MotorDirection
  <2>1. PICK v \in Settings : ram' = [ram EXCEPT !.act = v] /\ UNCHANGED <<flash, acked>>
    BY <1>7 DEF MotorDirection
  <2>2. DOMAIN ram' = Fields /\ \A f \in Fields : ram'[f] = IF f = "act" THEN v ELSE ram[f]
    BY <1>0, <2>1 DEF NetValues
  <2>3. Values("act") = Settings
    BY <1>0
  <2>4. \A f \in Fields : ram'[f] \in Values(f)
    BY <2>2, <2>3 DEF NetValues
  <2> QED  BY <2>1, <2>2, <2>4 DEF NetValues
<1> QED
  BY <1>1, <1>2, <1>3, <1>4, <1>5, <1>6, <1>7 DEF NetNext, Task, Commands

\* A job says whether it runs inside another.
LEMMA NestedPart ==
    ASSUME NEW of, NEW todo, NEW nested \in BOOLEAN
    PROVE  Job(of, todo, nested).nested \in BOOLEAN
BY Zenon DEF Job

\* The mode, the links and the kind of a job are what they should be.
LEMMA NetFlagsStep ==
    ASSUME NetFlags, [NetNext]_netVars
    PROVE  NetFlags'
<1>0. Nesting \in BOOLEAN /\ FALSE \in BOOLEAN /\ Idle.nested \in BOOLEAN
  BY NestedPart, Zenon DEF Nesting, Idle
<1>1. CASE Join \/ HttpEnterAp \/ EnterAp \/ SessionLost
  BY <1>1, Zenon DEF Join, HttpEnterAp, EnterAp, SessionLost, NetFlags
<1>2. CASE EnvChanges
  BY <1>2, Zenon DEF EnvChanges, NetFlags
<1>3. CASE TryReconnect
  <2>1. job'.nested \in BOOLEAN
    BY <1>0, <1>3, NestedPart, Zenon DEF TryReconnect
  <2>2. session' \in BOOLEAN
    BY <1>3, Zenon DEF TryReconnect
  <2>3. UNCHANGED <<netMode, wifiUp, brokerUp, apPending>>
    BY <1>3, Zenon DEF TryReconnect
  <2> QED  BY <2>1, <2>2, <2>3 DEF NetFlags
<1>4. CASE Subscribe \/ Save \/ Ack
  <2>1. job' = Done /\ UNCHANGED <<netMode, wifiUp, brokerUp, session, apPending>>
    BY <1>4, Zenon DEF Subscribe, Save, Ack
  <2>2. job'.nested \in BOOLEAN
    BY <1>0, <2>1, NestedPart, Zenon DEF Done, NetFlags
  <2> QED  BY <2>1, <2>2 DEF NetFlags
<1>5. CASE Restart \/ Reset
  <2>1. job'.nested \in BOOLEAN
    BY <1>0, <1>5, Zenon DEF Restart, Reset
  <2>2. session' \in BOOLEAN /\ apPending' \in BOOLEAN
    BY <1>5, Zenon DEF Restart, Reset
  <2>3. netMode' = "joining" /\ UNCHANGED <<wifiUp, brokerUp>>
    BY <1>5, Zenon DEF Restart, Reset
  <2> QED  BY <2>1, <2>2, <2>3 DEF NetFlags
<1>6. CASE ConfigTopic \/ PortalSave \/ BoardConfig
  <2>1. \E of, todo : job' = Job(of, todo, Nesting)
    BY <1>6, Zenon DEF ConfigTopic, PortalSave, BoardConfig, Accept
  <2>2. UNCHANGED <<netMode, wifiUp, brokerUp, session, apPending>>
    BY <1>6, Zenon DEF ConfigTopic, PortalSave, BoardConfig, Accept
  <2>3. job'.nested \in BOOLEAN
    BY <1>0, <2>1, NestedPart, Zenon
  <2> QED  BY <2>2, <2>3 DEF NetFlags
<1>7. CASE EnterApTopic \/ MotorDirection
  <2>1. job'.nested \in BOOLEAN
    BY <1>0, <1>7, NestedPart, Zenon DEF EnterApTopic, MotorDirection
  <2>2. apPending' \in BOOLEAN
    BY <1>7, Zenon DEF EnterApTopic, MotorDirection, NetFlags
  <2>3. UNCHANGED <<netMode, wifiUp, brokerUp, session>>
    BY <1>7, Zenon DEF EnterApTopic, MotorDirection
  <2> QED  BY <2>1, <2>2, <2>3 DEF NetFlags
<1>8. CASE UNCHANGED netVars
  BY <1>8 DEF netVars, NetFlags
<1> QED
  BY <1>1, <1>2, <1>3, <1>4, <1>5, <1>6, <1>7, <1>8 DEF NetNext, Task, Commands

\* The network task keeps its types, and each field of the flash holds a value
\* of its kind, wherever the board is reset.
THEOREM NetworkTyped == NetSpec => []NetTypeOK
<1>1. NetInit => NetValues /\ NetFlags
  <2> SUFFICES ASSUME NetInit PROVE NetValues /\ NetFlags
    OBVIOUS
  <2>1. job.nested \in BOOLEAN
    BY NestedPart, Zenon DEF NetInit, Idle
  <2>2. wifiUp \in BOOLEAN /\ brokerUp \in BOOLEAN /\ session \in BOOLEAN /\ apPending \in BOOLEAN
    BY Zenon DEF NetInit
  <2>3. NetValues
    BY DEF NetInit, NetValues
  <2> QED  BY <2>1, <2>2, <2>3 DEF NetInit, NetFlags
<1>2. NetInv /\ NetValues /\ NetFlags => NetTypeOK
  <2> SUFFICES ASSUME NetInv, NetValues, NetFlags PROVE NetTypeOK
    OBVIOUS
  <2>1. \A n \in 1 .. Len(job.todo) : job.todo[n] \in Fields \cup Topics \cup {"ack", "restart"}
    BY DEF NetInv, JobStep
  <2>2. \A f \in Fields : {ram[f], flash[f]} \subseteq Values(f) /\ acked[f] \in Values(f) \cup {None}
    BY DEF NetValues
  <2>3. {wifiUp, brokerUp, session, apPending, job.nested} \subseteq BOOLEAN
    BY Zenon DEF NetFlags
  <2> QED  BY <2>1, <2>2, <2>3, Zenon DEF NetInv, NetFlags, NetTypeOK
<1> QED  BY <1>1, <1>2, NetStart, NetStep, NetValuesStep, NetFlagsStep, PTL DEF NetSpec

-----------------------------------------------------------------------------
(* The charge switch of board v2. *)

\* The charger alone; safety needs no fairness.
ChargerSpec == V2Init /\ [][V2Next]_v2Vars

\* While the charger is off, its own count of updates since it opened is the
\* true one, whatever opened it.
CountsRest ==
    /\ pvOn \in BOOLEAN /\ sinceOff \in Nat /\ rest \in Nat
    /\ ~pvOn => rest = sinceOff

\* What the action property asks of a step.
RestsFirst == everOn /\ ~pvOn /\ pvOn' /\ pvMode = "auto" => rest >= MinOff - 1

LEMMA ChargerStep == CountsRest /\ [V2Next]_v2Vars => CountsRest' /\ RestsFirst
<1> SUFFICES ASSUME CountsRest, [V2Next]_v2Vars PROVE CountsRest' /\ RestsFirst
  OBVIOUS
<1> USE BoardV2Assumption
<1>1. CASE PvTaskUpdate
  <2>1. PICK b : PvUpdate(b)
    BY <1>1 DEF PvTaskUpdate
  <2>2. pvOn' \in BOOLEAN
    BY <2>1, Zenon DEF PvUpdate
  <2> DEFINE age == Aged(sinceOff, MinOff)
  <2>3. age \in Nat /\ age <= sinceOff + 1
    BY DEF CountsRest, Aged
  <2>4. sinceOff' \in {age, OffStamp(age)}
    BY <2>1 DEF PvUpdate
  <2>5. sinceOff' \in Nat
    BY <2>3, <2>4 DEF OffStamp
  <2>6. rest' = IF pvOn' THEN 0 ELSE IF pvOn THEN 0 ELSE Aged(rest, MinOff)
    BY <2>1 DEF PvUpdate
  <2>7. rest' \in Nat
    BY <2>6 DEF Aged, CountsRest
  <2>8. ~pvOn' => rest' = sinceOff'
    <3> SUFFICES ASSUME ~pvOn' PROVE rest' = sinceOff'
      OBVIOUS
    <3>1. CASE pvOn
      <4>1. sinceOff' = OffStamp(age)
        BY <2>1, <3>1 DEF PvUpdate
      <4> QED  BY <4>1, <3>1, <2>6 DEF OffStamp
    <3>2. CASE ~pvOn
      <4>1. sinceOff' = age
        BY <2>4, <3>2 DEF OffStamp
      <4> QED  BY <4>1, <3>2, <2>6 DEF CountsRest
    <3> QED  BY <3>1, <3>2
  <2>9. RestsFirst
    <3> SUFFICES ASSUME everOn, ~pvOn, pvOn', pvMode = "auto" PROVE rest >= MinOff - 1
      BY DEF RestsFirst
    <3>1. Rested(age)
      BY <2>1 DEF PvUpdate
    <3> QED  BY <3>1, <2>3 DEF Rested, CountsRest
  <2> QED  BY <2>2, <2>5, <2>7, <2>8, <2>9 DEF CountsRest
<1>2. CASE V2Boot
  <2>1. pvOn' \in BOOLEAN /\ ~pvOn'
    BY <1>2, Zenon DEF V2Boot
  <2>2. sinceOff' = MinOff + 1 /\ rest' = MinOff + 1
    BY <1>2 DEF V2Boot
  <2> QED  BY <2>1, <2>2 DEF CountsRest, RestsFirst
<1>3. CASE PvTaskPins \/ PvCommand \/ PvConfigure \/ SavePv \/ UNCHANGED v2Vars
  <2>1. UNCHANGED <<pvOn, sinceOff, rest>>
    BY <1>3 DEF PvTaskPins, PvCommand, PvConfigure, SavePv, v2Vars, pvManager
  <2> QED  BY <2>1 DEF CountsRest, RestsFirst
<1> QED  BY <1>1, <1>2, <1>3 DEF V2Next, V2Task

\* Board v2's charger, once it has charged by itself, stays off for MinOff
\* updates before it charges by itself again, whatever opened it.  This is the
\* safety part of ChargerFollows.
THEOREM ChargerRests == ChargerSpec => PvRests
<1>1. V2Init => CountsRest
  <2> SUFFICES ASSUME V2Init PROVE CountsRest
    OBVIOUS
  <2>1. pvOn \in BOOLEAN
    BY Zenon DEF V2Init
  <2>2. sinceOff = MinOff + 1 /\ rest = MinOff + 1
    BY DEF V2Init
  <2> QED  BY <2>1, <2>2, BoardV2Assumption DEF CountsRest
<1>2. CountsRest /\ [V2Next]_v2Vars => CountsRest'
  BY ChargerStep
<1>3. CountsRest /\ [V2Next]_v2Vars => [everOn /\ ~pvOn /\ pvOn' /\ pvMode = "auto" => rest >= MinOff - 1]_v2Vars
  BY ChargerStep DEF RestsFirst
<1> QED  BY <1>1, <1>2, <1>3, PTL DEF ChargerSpec, PvRests

\* What the charger measures, is told and decides keeps its type.
LEMMA V2Typed == V2TypeOK /\ [V2Next]_v2Vars => V2TypeOK'
<1> SUFFICES ASSUME V2TypeOK, [V2Next]_v2Vars PROVE V2TypeOK'
  OBVIOUS
<1> USE BoardV2Assumption
<1> DEFINE Typed ==
    /\ pvMode \in PvMode /\ mirror \in Ssr2Mode /\ pvCfg \in PvConfigs /\ pvFlash \in PvConfigs
    /\ pvOn \in BOOLEAN /\ ssr2On \in BOOLEAN /\ everOn \in BOOLEAN /\ measured \in BOOLEAN
    /\ ssr1 \in BOOLEAN /\ ssr2 \in BOOLEAN
    /\ sinceOff \in 0 .. MinOff + 1 /\ rest \in 0 .. MinOff + 1 /\ bus \in Volts
    /\ pvTask \in {"update", "pin1", "pin2"}
<1>a. Typed
  BY Zenon DEF V2TypeOK
<1>b. SUFFICES Typed'
  BY Zenon DEF V2TypeOK
<1>1. CASE PvTaskUpdate
  <2>1. PICK b \in Volts : bus' = b /\ PvUpdate(b)
    BY <1>1 DEF PvTaskUpdate, Filtered
  <2>2. Aged(sinceOff, MinOff) \in 0 .. MinOff + 1 /\ Aged(rest, MinOff) \in 0 .. MinOff + 1
    BY <1>a DEF Aged
  <2>3. pvOn' \in BOOLEAN /\ everOn' \in BOOLEAN /\ ssr2On' \in BOOLEAN
    BY <2>1, <1>a DEF PvUpdate, Ssr2Mode
  <2>4. sinceOff' \in 0 .. MinOff + 1 /\ rest' \in 0 .. MinOff + 1
    BY <2>1, <2>2 DEF PvUpdate, OffStamp
  <2> QED  BY <1>1, <2>1, <2>3, <2>4, <1>a DEF PvTaskUpdate, V2TypeOK
<1>2. CASE PvTaskPins
  BY <1>2, <1>a DEF PvTaskPins, pvManager
<1>3. CASE PvCommand \/ PvConfigure \/ SavePv
  BY <1>3, <1>a DEF PvCommand, PvConfigure, SavePv, pvManager
<1>4. CASE V2Boot
  <2>1. /\ pvOn' \in BOOLEAN /\ ssr2On' \in BOOLEAN /\ everOn' \in BOOLEAN /\ measured' \in BOOLEAN
        /\ ssr1' \in BOOLEAN /\ ssr2' \in BOOLEAN
    BY <1>4, Zenon DEF V2Boot
  <2> QED  BY <1>4, <1>a, <2>1 DEF V2Boot, PvMode, Ssr2Mode, Volts
<1>5. CASE UNCHANGED v2Vars
  BY <1>5, <1>a DEF v2Vars, pvManager
<1> QED  BY <1>1, <1>2, <1>3, <1>4, <1>5 DEF V2Next, V2Task

\* The charger's configurations, modes, voltage and timers keep their types.
THEOREM ChargerTyped == ChargerSpec => []V2TypeOK
<1>1. V2Init => V2TypeOK
  <2> SUFFICES ASSUME V2Init PROVE V2TypeOK
    OBVIOUS
  <2>1. {pvOn, ssr2On, everOn, measured, ssr1, ssr2} \subseteq BOOLEAN
    BY Zenon DEF V2Init
  <2> QED  BY <2>1, BoardV2Assumption DEF V2Init, V2TypeOK, PvMode, Ssr2Mode, Volts
<1> QED  BY <1>1, V2Typed, PTL DEF ChargerSpec

-----------------------------------------------------------------------------
(* The actuator. *)

\* The actuator alone; safety needs no fairness.
ActSpec == ActInit /\ [][ActNext]_actVars

\* What a cycle may have read.
Readings == [r : Positions, valid : BOOLEAN, held : BOOLEAN, goal : Positions,
             inDeadband : BOOLEAN, fault : Motion \cup {"none", "sensor"},
             ref : Positions, age : 0 .. StallCycles + 1]

\* fromJson swapped them.
LimitsSorted == limits[1] <= limits[2]

-----------------------------------------------------------------------------
\* Max and Min of the community modules, for the pairs the code compares.
LEMMA MaxOfTwo ==
    ASSUME NEW a \in Int, NEW b \in Int
    PROVE  Max({a, b}) = IF a >= b THEN a ELSE b
<1>1. CASE a >= b
  <2>1. \A x \in {a, b} : (\A y \in {a, b} : x >= y) => x = a
    BY <1>1
  <2> QED  BY <1>1, <2>1 DEF Max
<1>2. CASE ~(a >= b)
  <2>1. \A x \in {a, b} : (\A y \in {a, b} : x >= y) => x = b
    BY <1>2
  <2>2. \A y \in {a, b} : b >= y
    BY <1>2
  <2> QED  BY <1>2, <2>1, <2>2 DEF Max
<1> QED  BY <1>1, <1>2

LEMMA MinOfTwo ==
    ASSUME NEW a \in Int, NEW b \in Int
    PROVE  Min({a, b}) = IF a <= b THEN a ELSE b
<1>1. CASE a <= b
  <2>1. \A x \in {a, b} : (\A y \in {a, b} : x <= y) => x = a
    BY <1>1
  <2> QED  BY <1>1, <2>1 DEF Min
<1>2. CASE ~(a <= b)
  <2>1. \A x \in {a, b} : (\A y \in {a, b} : x <= y) => x = b
    BY <1>2
  <2>2. \A y \in {a, b} : b <= y
    BY <1>2
  <2> QED  BY <1>2, <2>1, <2>2 DEF Min
<1> QED  BY <1>1, <1>2

\* clampGoal(): in the limits, and the nearest such position.
LEMMA Clamped ==
    ASSUME NEW x \in Positions, ActTypeOK, LimitsSorted
    PROVE  /\ ClampGoal(x) \in Positions
           /\ limits[1] <= ClampGoal(x) /\ ClampGoal(x) <= limits[2]
           /\ x < limits[1] => ClampGoal(x) = limits[1]
           /\ x > limits[2] => ClampGoal(x) = limits[2]
           /\ limits[1] <= x /\ x <= limits[2] => ClampGoal(x) = x
<1>1. x \in Int /\ limits[1] \in Int /\ limits[2] \in Int /\ limits \in Positions \X Positions
  BY ActuatorAssumption DEF ActTypeOK, Positions
<1>2. Min({limits[2], x}) = IF limits[2] <= x THEN limits[2] ELSE x
  BY <1>1, MinOfTwo
<1>3. ClampGoal(x) = IF limits[1] >= Min({limits[2], x}) THEN limits[1] ELSE Min({limits[2], x})
  BY <1>1, <1>2, MaxOfTwo DEF ClampGoal
<1> QED  BY <1>1, <1>2, <1>3 DEF LimitsSorted

\* A configuration's limits come out in order.
LEMMA SortedLimits ==
    ASSUME NEW l \in Limits
    PROVE  Sorted(l) \in Positions \X Positions /\ Sorted(l)[1] <= Sorted(l)[2]
<1>1. l \in Positions \X Positions /\ l[1] \in Int /\ l[2] \in Int
  BY ActuatorAssumption DEF Positions
<1> QED  BY <1>1 DEF Sorted

\* Kept apart: products of unknowns are hard for the solver in company.
LEMMA ProductNat ==
    ASSUME NEW a \in Nat, NEW b \in Nat
    PROVE  a * b \in Nat
OBVIOUS

\* Outside the deadband the duty asked for is at least pwm_min.
LEMMA MagnitudeRange ==
    ASSUME NEW e \in Int, Abs(e) >= Deadband
    PROVE  Magnitude(e) \in PwmMin .. PwmMax
<1>1. Abs(e) - Deadband \in Nat
  BY ActuatorAssumption DEF Abs
<1>2. (Abs(e) - Deadband) * Gain \in Nat
  BY <1>1, ProductNat, ActuatorAssumption
<1> DEFINE q == (Abs(e) - Deadband) * Gain
<1>3. PwmMin + q \in Int /\ PwmMin + q >= PwmMin
  BY <1>2, ActuatorAssumption
<1> HIDE DEF q
<1>4. Min({PwmMax, PwmMin + q}) \in PwmMin .. PwmMax
  BY <1>3, MinOfTwo, ActuatorAssumption
<1> QED  BY <1>4 DEF Magnitude, q

\* A duty that grew by Slew for c cycles and is below pwm_min: c is below Ramp.
LEMMA RampCycles ==
    ASSUME NEW c \in Nat, c * Slew < PwmMin
    PROVE  /\ (PwmMin + Slew - 1) \div Slew \in Nat
           /\ c < (PwmMin + Slew - 1) \div Slew
<1> DEFINE C == (PwmMin + Slew - 1) \div Slew
<1>1. C \in Int /\ C * Slew > PwmMin - 1
  BY ActuatorAssumption
<1>2. c < C
  BY <1>1, ActuatorAssumption
<1> QED  BY <1>1, <1>2

\* No target duty exceeds pwm_max, in either direction.
LEMMA TargetRange ==
    ASSUME ActTypeOK, NEW s \in Readings, NEW inside \in BOOLEAN,
           inside \/ Abs(s.goal - s.r) >= Deadband
    PROVE  Target(s, inside) \in -PwmMax .. PwmMax
<1>1. s.r \in Int /\ s.goal \in Int /\ s.goal - s.r \in Int
  BY ActuatorAssumption DEF Readings, Positions
<1>2. CASE inside
  BY <1>2, ActuatorAssumption DEF Target
<1>3. CASE ~inside
  <2>1. Magnitude(s.goal - s.r) \in PwmMin .. PwmMax
    BY <1>1, <1>3, MagnitudeRange
  <2>2. PwmMin \in Nat /\ PwmMax \in Nat
    BY ActuatorAssumption
  <2> QED  BY <2>1, <2>2, <1>3 DEF Target
<1> QED  BY <1>2, <1>3

\* Nor does what the slew limit makes of it.
LEMMA SlewedRange ==
    ASSUME ActTypeOK, NEW t \in -PwmMax .. PwmMax
    PROVE  Slewed(t) \in -PwmMax .. PwmMax
<1> DEFINE from == IF duty * t < 0 THEN 0 ELSE duty
<1>1. PwmMax \in Nat /\ Slew \in Nat /\ duty \in -PwmMax .. PwmMax
  BY ActuatorAssumption DEF ActTypeOK
<1>2. from \in -PwmMax .. PwmMax
  BY <1>1
<1>3. Slewed(t) = IF Abs(t) <= Abs(from) THEN t
        ELSE IF t > from THEN Min({t, from + Slew}) ELSE Max({t, from - Slew})
  BY DEF Slewed
<1> HIDE DEF from
<1>4. /\ Min({t, from + Slew}) = IF t <= from + Slew THEN t ELSE from + Slew
      /\ Max({t, from - Slew}) = IF t >= from - Slew THEN t ELSE from - Slew
  BY <1>1, <1>2, MinOfTwo, MaxOfTwo
<1> QED  BY <1>1, <1>2, <1>3, <1>4

\* The inductive part that looks at one state's goal, fault and limits.
SafeInv == ActTypeOK /\ LimitsSorted /\ GoalWithinLimits /\ StopForgetsGoal /\ FaultStops

\* A reading is typed and its goal in the limits, once there is a position;
\* the first position makes it hold.
LEMMA ReadingShape ==
    ASSUME ActTypeOK, LimitsSorted, GoalWithinLimits,
           NEW s, s = NoReading \/ \E x \in Positions : s = Reading(x)
    PROVE  /\ s \in Readings
           /\ s.valid => limits[1] <= s.goal /\ s.goal <= limits[2]
           /\ s.valid /\ ~valid => s.held
           /\ valid => s.valid
<1>1. CASE s = NoReading
  BY <1>1 DEF NoReading, Readings, ActTypeOK, GoalWithinLimits
<1>2. ASSUME NEW x \in Positions, s = Reading(x)
      PROVE  /\ s \in Readings
             /\ s.valid => limits[1] <= s.goal /\ s.goal <= limits[2]
             /\ s.valid /\ ~valid => s.held
             /\ valid => s.valid
  <2>1. /\ ClampGoal(x) \in Positions
        /\ limits[1] <= ClampGoal(x) /\ ClampGoal(x) <= limits[2]
    BY Clamped
  <2>2. 0 \in 0 .. StallCycles + 1
    BY ActuatorAssumption
  <2> QED  BY <1>2, <2>1, <2>2 DEF Reading, Readings, ActTypeOK, GoalWithinLimits, Motion
<1> QED  BY <1>1, <1>2

\* One run of control() on any reading.
LEMMA DrivenStep ==
    ASSUME ActTypeOK, LimitsSorted, NEW s \in Readings,
           limits[1] <= s.goal, s.goal <= limits[2],
           NEW got \in BOOLEAN, NEW over \in BOOLEAN, NEW allowed \in BOOLEAN,
           Driven(s, got, over, allowed)
    PROVE  /\ goal' \in Positions /\ limits[1] <= goal' /\ goal' <= limits[2]
           /\ inDeadband' \in BOOLEAN /\ pending' \in BOOLEAN
           /\ ocAge' \in Off .. OcCycles + 1
           /\ stallRef' \in Positions /\ stallAge' \in 0 .. StallCycles + 1
           /\ fault' \in Motion \cup {"none", "sensor"}
           /\ duty' \in -PwmMax .. PwmMax
           /\ fault' # "none" => duty' = 0
           /\ origin' \in {"hold", origin}
           /\ ~allowed \/ s.held => origin' = "hold"
<1> DEFINE held == Holds(allowed)
           g == IF held THEN ClampGoal(s.r) ELSE s.goal
           t == [s EXCEPT !.goal = g]
           was == held \/ s.inDeadband
           runs == allowed /\ s.fault = "none"
           inside == IF runs THEN Abs(t.goal - t.r) < (IF was THEN 2 ELSE 1) * Deadband ELSE was
           d == Slewed(IF runs THEN Target(t, inside) ELSE 0)
           oc == IF d # 0 /\ over THEN IF ocAge = Off THEN 0 ELSE ocAge ELSE Off
           stalls == StallRuns(d, s, got)
           tripped == IF stalls /\ s.age > StallCycles THEN "stall"
                      ELSE IF oc > OcCycles THEN "overcurrent" ELSE s.fault
<1>1. /\ goal' = t.goal /\ inDeadband' = inside
      /\ pending' = (pending /\ ~(allowed /\ TimedOut))
      /\ ocAge' = oc
      /\ stallRef' = (IF stalls THEN s.ref ELSE s.r)
      /\ stallAge' = (IF stalls THEN s.age ELSE 0)
      /\ fault' = tripped /\ duty' = DutyOf(tripped, d)
      /\ origin' = (IF held \/ s.held THEN "hold" ELSE origin)
  BY DEF Driven
<1>2. /\ s.r \in Positions /\ s.goal \in Positions /\ s.ref \in Positions
      /\ s.inDeadband \in BOOLEAN /\ s.fault \in Motion \cup {"none", "sensor"}
      /\ s.age \in 0 .. StallCycles + 1
  BY DEF Readings
<1>3. /\ ClampGoal(s.r) \in Positions
      /\ limits[1] <= ClampGoal(s.r) /\ ClampGoal(s.r) <= limits[2]
  BY <1>2, Clamped
<1>4. /\ t \in Readings /\ t.r = s.r
      /\ t.goal \in Positions /\ limits[1] <= t.goal /\ t.goal <= limits[2]
  <2>1. g \in Positions /\ limits[1] <= g /\ g <= limits[2]
    BY <1>2, <1>3
  <2> HIDE DEF g
  <2> QED  BY <2>1 DEF Readings
<1>5. held \in BOOLEAN /\ was \in BOOLEAN /\ runs \in BOOLEAN
  BY <1>2 DEF Holds, TimedOut
<1>6. inside \in BOOLEAN /\ (runs => inside \/ Abs(t.goal - t.r) >= Deadband)
  <2>1. t.goal - t.r \in Int /\ Deadband \in Nat
    BY <1>2, <1>4, ActuatorAssumption DEF Positions
  <2> HIDE DEF t, was, runs
  <2>2. 1 * Deadband = Deadband /\ 2 * Deadband >= Deadband
    BY <2>1
  <2>3. inside \in BOOLEAN
    <3>1. CASE runs
      BY <2>1, <3>1 DEF Abs
    <3>2. CASE ~runs
      BY <3>2, <1>5
    <3> QED  BY <3>1, <3>2
  <2>4. ASSUME runs, ~inside
        PROVE  Abs(t.goal - t.r) >= Deadband
    BY <2>1, <2>2, <2>4, <1>5 DEF Abs
  <2> QED  BY <2>3, <2>4
<1>7. d \in -PwmMax .. PwmMax
  <2> HIDE DEF t, runs, inside
  <2>1. 0 \in -PwmMax .. PwmMax
    BY ActuatorAssumption
  <2>2. (IF runs THEN Target(t, inside) ELSE 0) \in -PwmMax .. PwmMax
    BY <2>1, <1>4, <1>6, TargetRange
  <2> QED  BY <2>2, SlewedRange
<1>8. oc \in Off .. OcCycles + 1
  <2> HIDE DEF d
  <2> QED  BY <1>7, ActuatorAssumption DEF ActTypeOK, Off
<1>9. stalls \in BOOLEAN
  BY DEF StallRuns
<1> HIDE DEF held, t, was, runs, inside, d, oc, stalls
<1>10. tripped \in Motion \cup {"none", "sensor"}
  BY <1>2 DEF Motion
<1>11. 0 \in 0 .. StallCycles + 1 /\ 0 \in -PwmMax .. PwmMax
  BY ActuatorAssumption
<1>12. /\ duty' \in -PwmMax .. PwmMax
       /\ fault' # "none" => duty' = 0
  BY <1>1, <1>7, <1>11 DEF DutyOf
<1>13. /\ origin' \in {"hold", origin}
       /\ ~allowed \/ s.held => origin' = "hold"
  BY <1>1 DEF held, Holds
<1>14. pending' \in BOOLEAN
  BY <1>1 DEF ActTypeOK
<1> QED  BY <1>1, <1>2, <1>4, <1>6, <1>8, <1>9, <1>10, <1>11, <1>12, <1>13, <1>14

-----------------------------------------------------------------------------
\* The bound on blind cycles is a number.
LEMMA LimitIsNat == BlindLimit \in Nat
<1>1. 0 * Slew < PwmMin
  BY ActuatorAssumption
<1>2. (PwmMin + Slew - 1) \div Slew \in Nat
  BY <1>1, RampCycles
<1> QED  BY <1>2, ActuatorAssumption DEF BlindLimit

\* Every boot is safe.
LEMMA SafeInit == ActInit => SafeInv
<1> SUFFICES ASSUME ActInit PROVE SafeInv
  OBVIOUS
<1>1. PICK l \in Limits : limits = Sorted(l)
  BY DEF ActInit
<1>2. limits \in Positions \X Positions /\ limits[1] <= limits[2]
  BY <1>1, SortedLimits
<1>3. /\ 0 \in Positions /\ 0 \in -PwmMax .. PwmMax /\ 0 \in 0 .. StallCycles + 1
      /\ CmdCycles + 1 \in Later .. CmdCycles + 1 /\ Off \in Off .. OcCycles + 1
      /\ 0 \in 0 .. BlindLimit + 1
  BY LimitIsNat, ActuatorAssumption DEF Positions, Later, Off
<1>4. ActTypeOK
  BY <1>2, <1>3 DEF ActInit, ActTypeOK, Motion
<1> QED  BY <1>2, <1>4 DEF ActInit, SafeInv, LimitsSorted, GoalWithinLimits, StopForgetsGoal, FaultStops

\* Every command keeps the goal in the limits, old or new.
LEMMA SafeCommand ==
    ASSUME SafeInv, Command
    PROVE  SafeInv'
<1> USE DEF SafeInv
<1>0. /\ 0 \in 0 .. BlindLimit + 1
      /\ 0 \in Later .. CmdCycles + 1 /\ Later \in Later .. CmdCycles + 1
  BY LimitIsNat, ActuatorAssumption DEF Later
<1>1. ASSUME NEW x \in Positions, SetGoalRatio(x)
      PROVE  SafeInv'
  <2>1. goal' \in Positions /\ limits[1] <= goal' /\ goal' <= limits[2]
    BY <1>1, Clamped DEF SetGoalRatio
  <2>2. cmdAge' \in Later .. CmdCycles + 1
    BY <1>0, <1>1 DEF SetGoalRatio
  <2>3. ActTypeOK'
    BY <1>0, <1>1, <2>1, <2>2 DEF SetGoalRatio, ActTypeOK, actConfig, actTimers, Motion
  <2> QED
    BY <1>1, <2>1, <2>3 DEF SetGoalRatio, LimitsSorted, GoalWithinLimits, StopForgetsGoal,
       FaultStops, actConfig, actTimers
<1>2. ASSUME ResetFault
      PROVE  SafeInv'
  <2>1. r \in Positions
    BY DEF ActTypeOK
  <2>2. goal' \in Positions /\ limits[1] <= goal' /\ goal' <= limits[2]
    BY <1>2, <2>1, Clamped DEF ResetFault, HoldAt
  <2>3. ActTypeOK'
    BY <1>0, <1>2, <2>2 DEF ResetFault, HoldAt, ActTypeOK, actConfig, actTimers, Motion
  <2> QED
    BY <1>2, <2>2, <2>3 DEF ResetFault, HoldAt, LimitsSorted, GoalWithinLimits, StopForgetsGoal,
       FaultStops, actConfig, actTimers
<1>3. ASSUME NEW l \in Limits, NEW e \in BOOLEAN, Configure(l, e)
      PROVE  SafeInv'
  <2>1. limits' \in Positions \X Positions /\ limits'[1] <= limits'[2]
    BY <1>3, SortedLimits DEF Configure
  <2>2. r \in Int /\ limits'[1] \in Int /\ limits'[2] \in Int
    BY <2>1, ActuatorAssumption DEF ActTypeOK, Positions
  <2>3. Min({limits'[2], r}) = IF limits'[2] <= r THEN limits'[2] ELSE r
    BY <2>2, MinOfTwo
  <2>4. goal' = IF limits'[1] >= Min({limits'[2], r}) THEN limits'[1] ELSE Min({limits'[2], r})
    BY <1>3, <2>2, <2>3, MaxOfTwo DEF Configure
  <2>5. goal' \in Positions /\ limits'[1] <= goal' /\ goal' <= limits'[2]
    BY <2>1, <2>2, <2>3, <2>4 DEF ActTypeOK
  <2>6. ActTypeOK'
    BY <1>0, <1>3, <2>1, <2>5 DEF Configure, ActTypeOK, actTimers
  <2> QED
    BY <1>3, <2>1, <2>5, <2>6 DEF Configure, LimitsSorted, GoalWithinLimits, StopForgetsGoal,
       FaultStops, actTimers
<1>4. ASSUME Reverse
      PROVE  SafeInv'
  <2>1. ActTypeOK'
    BY <1>0, <1>4 DEF Reverse, ActTypeOK, actTimers
  <2> QED
    BY <1>4, <2>1 DEF Reverse, LimitsSorted, GoalWithinLimits, StopForgetsGoal, FaultStops, actTimers
<1> QED  BY <1>1, <1>2, <1>3, <1>4 DEF Command

\* Time alone changes no goal.
LEMMA SafeTakeTime ==
    ASSUME SafeInv, TakeTime
    PROVE  SafeInv'
<1> USE DEF SafeInv
<1>1. /\ cmdAge' \in Later .. CmdCycles + 1 /\ ocAge' \in Off .. OcCycles + 1
      /\ stallAge' \in 0 .. StallCycles + 1
  BY ActuatorAssumption DEF TakeTime, Older, ActTypeOK, Later, Off
<1>2. ActTypeOK'
  BY <1>1 DEF TakeTime, ActTypeOK, actConfig
<1> QED
  BY <1>2 DEF TakeTime, LimitsSorted, GoalWithinLimits, StopForgetsGoal, FaultStops, actConfig

\* A cycle, with a reading or without.
LEMMA SafeControl ==
    ASSUME SafeInv, NEW s, s = NoReading \/ \E x \in Positions : s = Reading(x),
           NEW got \in BOOLEAN, NEW over \in BOOLEAN, NEW allowed \in BOOLEAN,
           Control(s, got, over, allowed)
    PROVE  SafeInv'
<1> USE DEF SafeInv
<1>1. /\ s \in Readings
      /\ s.valid => limits[1] <= s.goal /\ s.goal <= limits[2]
      /\ s.valid /\ ~valid => s.held
      /\ valid => s.valid
  BY ReadingShape
<1>2. /\ s.r \in Positions /\ s.goal \in Positions /\ s.ref \in Positions
      /\ s.valid \in BOOLEAN /\ s.held \in BOOLEAN
      /\ s.inDeadband \in BOOLEAN /\ s.fault \in Motion \cup {"none", "sensor"}
      /\ s.age \in 0 .. StallCycles + 1
  BY <1>1 DEF Readings
<1>3. /\ r' = s.r /\ valid' = s.valid /\ cycle' = "idle"
      /\ UNCHANGED <<invert, enabled, limits, cmdAge>>
      /\ stopped' = (stopped \/ ~allowed)
  BY DEF Control, actConfig
<1>4. blind' \in 0 .. BlindLimit + 1
  BY LimitIsNat DEF Control, ActTypeOK
<1>5. CASE enabled /\ s.valid
  <2>1. Driven(s, got, over, allowed)
    BY <1>5 DEF Control
  <2>2. /\ goal' \in Positions /\ limits[1] <= goal' /\ goal' <= limits[2]
        /\ inDeadband' \in BOOLEAN /\ pending' \in BOOLEAN
        /\ ocAge' \in Off .. OcCycles + 1
        /\ stallRef' \in Positions /\ stallAge' \in 0 .. StallCycles + 1
        /\ fault' \in Motion \cup {"none", "sensor"}
        /\ duty' \in -PwmMax .. PwmMax
        /\ fault' # "none" => duty' = 0
        /\ origin' \in {"hold", origin}
        /\ ~allowed \/ s.held => origin' = "hold"
    BY <1>1, <1>5, <2>1, DrivenStep
  <2>3. ActTypeOK'
    BY <1>2, <1>3, <1>4, <2>2 DEF ActTypeOK
  <2>4. StopForgetsGoal'
    BY <1>1, <1>3, <1>5, <2>2 DEF StopForgetsGoal
  <2> QED
    BY <1>3, <2>2, <2>3, <2>4 DEF LimitsSorted, GoalWithinLimits, FaultStops
<1>6. CASE ~(enabled /\ s.valid)
  <2>1. /\ goal' = s.goal /\ inDeadband' = s.inDeadband /\ fault' = s.fault /\ duty' = 0
        /\ stallRef' = s.ref /\ stallAge' = s.age
        /\ origin' = (IF s.held THEN "hold" ELSE origin)
        /\ UNCHANGED <<pending, ocAge>>
    BY <1>6 DEF Control
  <2>2. 0 \in -PwmMax .. PwmMax
    BY ActuatorAssumption
  <2>3. ActTypeOK'
    BY <1>2, <1>3, <1>4, <2>1, <2>2 DEF ActTypeOK
  <2> QED
    BY <1>1, <1>3, <1>6, <2>1, <2>3 DEF LimitsSorted, GoalWithinLimits, StopForgetsGoal, FaultStops
<1> QED  BY <1>5, <1>6

\* SafeInv is inductive.
LEMMA SafeStep ==
    ASSUME SafeInv, [ActNext]_actVars
    PROVE  SafeInv'
<1>1. CASE Command
  BY <1>1, SafeCommand
<1>2. CASE TakeTime
  BY <1>2, SafeTakeTime
<1>3. CASE RunLoop
  <2>1. PICK over \in BOOLEAN, allowed \in BOOLEAN :
          \/ enabled /\ \E x \in Positions : Control(Reading(x), TRUE, over, allowed)
          \/ Control(NoReading, FALSE, over, allowed)
    BY <1>3 DEF RunLoop
  <2> QED  BY <2>1, SafeControl
<1>4. CASE UNCHANGED actVars
  BY <1>4 DEF actVars, actConfig, actTimers, SafeInv, ActTypeOK, LimitsSorted, GoalWithinLimits,
     StopForgetsGoal, FaultStops
<1> QED  BY <1>1, <1>2, <1>3, <1>4 DEF ActNext

-----------------------------------------------------------------------------
\* Cycles from standstill to pwm_min.
Ramp == (PwmMin + Slew - 1) \div Slew

\* No duty, and without a reading or a command there will be none: control()
\* does not drive, or is inside the deadband, whose hysteresis keeps it there.
StandsStill ==
    /\ duty = 0
    /\ \/ ~enabled \/ ~valid \/ fault # "none"
       \/ inDeadband /\ Abs(goal - r) < 2 * Deadband

\* The duty drives to the goal.
Toward ==
    /\ duty # 0 /\ goal # r
    /\ (duty > 0) <=> ((goal > r) <=> ~invert)

\* Every blind cycle added Slew.
Ramps == Toward /\ Abs(duty) < PwmMin /\ blind * Slew <= Abs(duty)

\* The duty is one at which the stall timer runs, and it has run in all blind
\* cycles but the first ones; in mid-cycle it is one ahead.
MidCycle == IF cycle = "sampled" THEN 1 ELSE 0
Stalls ==
    /\ Toward /\ Abs(duty) >= PwmMin
    /\ Abs(r - stallRef) <= StallDelta
    /\ stallAge <= StallCycles + MidCycle /\ blind + MidCycle - Ramp <= stallAge

\* Where an actuator without a reading can be.
BlindInv == blind > 0 => StandsStill \/ Ramps \/ Stalls

\* Ramp and the bound on blind cycles.
LEMMA RampIsNat == Ramp \in Nat /\ Ramp > 0 /\ BlindLimit = StallCycles + Ramp + 1
<1>1. 0 * Slew < PwmMin
  BY ActuatorAssumption
<1> QED  BY <1>1, RampCycles, ActuatorAssumption DEF Ramp, BlindLimit

\* Beyond the bound only standing still is left.
LEMMA BlindMeansStops == SafeInv /\ BlindInv => BlindStops
<1> SUFFICES ASSUME SafeInv, BlindInv, blind > BlindLimit PROVE duty = 0
  BY DEF BlindStops
<1>1. blind \in Nat /\ blind > 0 /\ stallAge \in Nat
  BY LimitIsNat, ActuatorAssumption DEF SafeInv, ActTypeOK
<1>2. CASE StandsStill
  BY <1>2 DEF StandsStill
<1>3. CASE Ramps
  <2>1. blind * Slew < PwmMin
    <3>1. blind * Slew \in Int /\ Abs(duty) \in Int
      BY <1>1, ActuatorAssumption DEF SafeInv, ActTypeOK, Abs
    <3> HIDE DEF Abs
    <3> QED  BY <1>3, <3>1, ActuatorAssumption DEF Ramps
  <2>2. blind < Ramp
    BY <1>1, <2>1, RampCycles DEF Ramp
  <2> QED  BY <1>1, <2>2, RampIsNat, ActuatorAssumption
<1>4. CASE Stalls
  BY <1>1, <1>4, RampIsNat, ActuatorAssumption DEF Stalls, MidCycle
<1> QED  BY <1>1, <1>2, <1>3, <1>4 DEF BlindInv

\* The slew limit reaches its target, or gains Slew on the way to it.
LEMMA SlewGrows ==
    ASSUME NEW t \in Int, t # 0, duty \in Int,
           NEW d, d = Slewed(t)
    PROVE  /\ d \in Int /\ d # 0 /\ ((d > 0) <=> (t > 0))
           /\ \/ Abs(d) = Abs(t)
              \/ Abs(d) >= Slew /\ (((duty > 0) <=> (t > 0)) /\ duty # 0 => Abs(d) = Abs(duty) + Slew)
<1> DEFINE from == IF duty * t < 0 THEN 0 ELSE duty
<1>1. Slew \in Nat \ {0}
  BY ActuatorAssumption
<1>2. /\ from \in Int
      /\ t > 0 => from >= 0
      /\ t < 0 => from <= 0
      /\ ((duty > 0) <=> (t > 0)) /\ duty # 0 => from = duty
  <2>1. duty * t < 0 <=> (duty < 0 /\ t > 0) \/ (duty > 0 /\ t < 0)
    OBVIOUS
  <2> QED  BY <2>1
<1>3. d = IF Abs(t) <= Abs(from) THEN t
        ELSE IF t > from THEN Min({t, from + Slew}) ELSE Max({t, from - Slew})
  BY DEF Slewed
<1> HIDE DEF from
<1>4. /\ Min({t, from + Slew}) = IF t <= from + Slew THEN t ELSE from + Slew
      /\ Max({t, from - Slew}) = IF t >= from - Slew THEN t ELSE from - Slew
  BY <1>1, <1>2, MinOfTwo, MaxOfTwo
<1>5. CASE t > 0
  BY <1>1, <1>2, <1>3, <1>4, <1>5 DEF Abs
<1>6. CASE t < 0
  BY <1>1, <1>2, <1>3, <1>4, <1>6 DEF Abs
<1> QED  BY <1>5, <1>6

\* A hold moves the goal nearer to the position, never across it.
LEMMA NearerGoal ==
    ASSUME SafeInv, valid
    PROVE  /\ Abs(ClampGoal(r) - r) <= Abs(goal - r)
           /\ ClampGoal(r) # r => goal # r /\ ((ClampGoal(r) > r) <=> (goal > r))
<1>1. /\ r \in Int /\ goal \in Int /\ limits[1] \in Int /\ limits[2] \in Int
      /\ limits[1] <= goal /\ goal <= limits[2]
  BY ActuatorAssumption DEF SafeInv, ActTypeOK, Positions, GoalWithinLimits
<1>2. /\ ClampGoal(r) \in Int
      /\ r < limits[1] => ClampGoal(r) = limits[1]
      /\ r > limits[2] => ClampGoal(r) = limits[2]
      /\ limits[1] <= r /\ r <= limits[2] => ClampGoal(r) = r
  BY <1>1, Clamped, ActuatorAssumption DEF SafeInv, ActTypeOK, Positions
<1> QED  BY <1>1, <1>2 DEF Abs

\* Outside the deadband the target drives to the goal with at least pwm_min.
LEMMA TargetToward ==
    ASSUME SafeInv, NEW s \in Readings, s.r = r, s.goal # r,
           limits[1] <= s.goal, s.goal <= limits[2], Abs(s.goal - r) >= Deadband,
           NEW inside, ~inside, NEW t, t = Target(s, inside)
    PROVE  /\ t \in Int /\ t # 0 /\ Abs(t) >= PwmMin
           /\ (t > 0) <=> ((s.goal > r) <=> ~invert)
<1>1. /\ r \in Int /\ s.goal \in Int /\ limits[1] \in Int /\ limits[2] \in Int
      /\ invert \in BOOLEAN
  BY ActuatorAssumption DEF SafeInv, ActTypeOK, Positions, Readings
<1> DEFINE err == s.goal - s.r
           m == Magnitude(err)
<1>2. err \in Int /\ err # 0 /\ ((err > 0) <=> (s.goal > r))
  BY <1>1
<1>3. m \in PwmMin .. PwmMax /\ PwmMin \in Nat \ {0} /\ PwmMax \in Nat
  BY <1>2, MagnitudeRange, ActuatorAssumption
<1>4. ~((err > 0 /\ s.r > limits[2]) \/ (err < 0 /\ s.r < limits[1]))
  BY <1>1
<1>5. t = (IF err > 0 THEN 1 ELSE -1) * (IF invert THEN -1 ELSE 1) * m
  BY <1>4 DEF Target
<1> HIDE DEF m, err
<1>6. CASE err > 0 /\ ~invert
  <2>1. t = m
    BY <1>2, <1>3, <1>5, <1>6
  <2> QED  BY <1>1, <1>2, <1>3, <1>6, <2>1 DEF Abs
<1>7. CASE err > 0 /\ invert
  <2>1. t = -m
    BY <1>2, <1>3, <1>5, <1>7
  <2> QED  BY <1>1, <1>2, <1>3, <1>7, <2>1 DEF Abs
<1>8. CASE ~(err > 0) /\ ~invert
  <2>1. t = -m
    BY <1>2, <1>3, <1>5, <1>8
  <2> QED  BY <1>1, <1>2, <1>3, <1>8, <2>1 DEF Abs
<1>9. CASE ~(err > 0) /\ invert
  <2>1. t = m
    BY <1>2, <1>3, <1>5, <1>9
  <2> QED  BY <1>1, <1>2, <1>3, <1>9, <2>1 DEF Abs
<1> QED  BY <1>6, <1>7, <1>8, <1>9

\* One run of control() without a reading, in closed loop.
LEMMA BlindCycle ==
    ASSUME SafeInv, BlindInv, NEW over \in BOOLEAN,
           enabled, valid, cycle = "sampled", cycle' = "idle", r' = r, valid' = valid,
           UNCHANGED <<invert, enabled>>, blind' = blind + 1 \/ (blind > 0 /\ duty = 0),
           Driven(NoReading, FALSE, over, TRUE)
    PROVE  StandsStill' \/ Ramps' \/ Stalls'
<1> DEFINE s == NoReading
           held == Holds(TRUE)
           g == IF held THEN ClampGoal(r) ELSE goal
           t == [s EXCEPT !.goal = g]
           was == held \/ s.inDeadband
           runs == TRUE /\ s.fault = "none"
           inside == IF runs THEN Abs(t.goal - t.r) < (IF was THEN 2 ELSE 1) * Deadband ELSE was
           d == Slewed(IF runs THEN Target(t, inside) ELSE 0)
           oc == IF d # 0 /\ over THEN IF ocAge = Off THEN 0 ELSE ocAge ELSE Off
           stalls == StallRuns(d, s, FALSE)
           tripped == IF stalls /\ s.age > StallCycles THEN "stall"
                      ELSE IF oc > OcCycles THEN "overcurrent" ELSE s.fault
<1>1. /\ s.r = r /\ s.goal = goal /\ s.ref = stallRef /\ s.age = stallAge
      /\ s.inDeadband = inDeadband /\ s.fault = fault
      /\ s.valid = valid
  BY DEF NoReading
<1>2. /\ goal' = t.goal /\ inDeadband' = inside
      /\ stallRef' = (IF stalls THEN s.ref ELSE s.r)
      /\ stallAge' = (IF stalls THEN s.age ELSE 0)
      /\ fault' = tripped /\ duty' = DutyOf(tripped, d)
  BY <1>1 DEF Driven
<1>3. /\ r \in Int /\ goal \in Int /\ stallRef \in Int /\ duty \in Int /\ blind \in Nat
      /\ stallAge \in Nat /\ inDeadband \in BOOLEAN /\ invert \in BOOLEAN
      /\ limits[1] <= goal /\ goal <= limits[2]
  BY LimitIsNat, ActuatorAssumption DEF SafeInv, ActTypeOK, Positions, GoalWithinLimits
<1>4. /\ s \in Readings
      /\ ClampGoal(r) \in Positions /\ limits[1] <= ClampGoal(r) /\ ClampGoal(r) <= limits[2]
  BY ReadingShape, Clamped DEF SafeInv, ActTypeOK
<1>5. /\ t \in Readings /\ t.r = r /\ t.goal = g
      /\ g \in Int /\ limits[1] <= g /\ g <= limits[2]
      /\ Abs(g - r) <= Abs(goal - r)
      /\ g # r => goal # r /\ ((g > r) <=> (goal > r))
  <2>1. /\ g \in Positions /\ g \in Int /\ limits[1] <= g /\ g <= limits[2]
        /\ Abs(g - r) <= Abs(goal - r)
        /\ g # r => goal # r /\ ((g > r) <=> (goal > r))
    <3>1. ClampGoal(r) \in Int /\ goal \in Positions
      BY <1>4, ActuatorAssumption DEF SafeInv, ActTypeOK, Positions
    <3>2. CASE held
      BY <1>4, <3>1, <3>2, NearerGoal
    <3>3. CASE ~held
      <4>1. g = goal
        BY <3>3
      <4>2. Abs(goal - r) \in Int
        BY <1>3 DEF Abs
      <4> HIDE DEF g
      <4> QED  BY <1>3, <3>1, <4>1, <4>2
    <3> QED  BY <3>2, <3>3
  <2> HIDE DEF g, s
  <2> QED  BY <1>1, <1>4, <2>1 DEF Readings
<1> HIDE DEF s, t, g, held
<1>6. goal' = g /\ held \in BOOLEAN
  BY <1>2, <1>5 DEF held, Holds, TimedOut
\* A cycle that trips, or finds a fault, cuts the duty.
<1>7. CASE fault' # "none"
  BY <1>2, <1>7 DEF StandsStill, DutyOf
<1>8. CASE fault' = "none"
  <2>1. fault = "none" /\ runs /\ ~(stalls /\ stallAge > StallCycles) /\ duty' = d
    BY <1>1, <1>2, <1>8 DEF DutyOf
  <2>2. inside <=> (Abs(g - r) < (IF held \/ inDeadband THEN 2 ELSE 1) * Deadband)
    BY <1>1, <1>5, <2>1
  <2>3. d = Slewed(Target(t, inside))
    BY <2>1
  <2>4. stalls <=> (Abs(d) >= PwmMin /\ Abs(r - stallRef) <= StallDelta)
    BY <1>1 DEF StallRuns
  <2>5. /\ 2 * Deadband \in Int /\ Deadband \in Nat \ {0} /\ Slew \in Nat \ {0} /\ PwmMin \in Nat \ {0}
        /\ StallCycles \in Nat /\ StallDelta \in Nat /\ 2 * Deadband >= Deadband /\ 1 * Deadband = Deadband
    BY ActuatorAssumption
  <2> HIDE DEF inside, d, stalls, runs, tripped, was, oc
  <2>6. CASE inside
    <3>1. Target(t, inside) = 0
      BY <2>6 DEF Target
    <3>2. d = 0
      BY <1>3, <2>3, <3>1 DEF Slewed, Abs
    <3>3. Abs(g - r) < 2 * Deadband
      BY <1>3, <1>5, <2>2, <2>5, <2>6 DEF Abs
    <3> QED  BY <1>2, <1>6, <2>1, <2>6, <3>2, <3>3 DEF StandsStill, Abs
  <2>7. CASE ~inside
    <3>1. Abs(g - r) >= Deadband /\ g # r
      BY <1>3, <1>5, <1>6, <2>2, <2>5, <2>7 DEF Abs
    <3>2. /\ Target(t, inside) \in Int /\ Target(t, inside) # 0
          /\ Abs(Target(t, inside)) >= PwmMin
          /\ (Target(t, inside) > 0) <=> ((g > r) <=> ~invert)
      BY <1>5, <2>7, <3>1, TargetToward
    <3>3. /\ d \in Int /\ d # 0 /\ ((d > 0) <=> ((g > r) <=> ~invert))
          /\ \/ Abs(d) >= PwmMin
             \/ /\ Abs(d) >= Slew
                /\ ((duty > 0) <=> (d > 0)) /\ duty # 0 => Abs(d) = Abs(duty) + Slew
      BY <1>3, <2>3, <3>2, SlewGrows
    <3>4. Toward'
      BY <1>6, <2>1, <3>1, <3>3 DEF Toward
    <3>5. ~StandsStill
      BY <1>3, <1>5, <1>6, <2>1, <2>2, <2>5, <2>7 DEF StandsStill, Abs
    <3>6. blind > 0 => Ramps \/ Stalls
      BY <1>3, <3>5 DEF BlindInv
    <3>7. /\ blind > 0 => Toward /\ ((duty > 0) <=> (d > 0)) /\ duty # 0
          /\ blind' = blind + 1
      BY <1>5, <3>1, <3>3, <3>6 DEF Ramps, Stalls, Toward
    <3>8. CASE Abs(d) < PwmMin
      <4>1. Abs(d) \in Int /\ Abs(duty) \in Int /\ Abs(duty) >= 0
        BY <1>3, <3>3 DEF Abs
      <4> HIDE DEF Abs
      <4>2. Abs(d) >= Slew /\ (blind > 0 => Abs(d) = Abs(duty) + Slew)
        BY <2>5, <3>3, <3>7, <3>8, <4>1
      <4>3. (blind + 1) * Slew = blind * Slew + Slew /\ blind * Slew \in Int
        BY <1>3, <2>5
      <4>4. CASE blind = 0
        BY <1>3, <2>1, <2>5, <3>4, <3>7, <3>8, <4>1, <4>2, <4>3, <4>4 DEF Ramps
      <4>5. CASE blind > 0
        <5>1. Ramps
          BY <2>5, <3>6, <3>8, <4>1, <4>2, <4>5 DEF Stalls
        <5> QED  BY <2>1, <2>5, <3>4, <3>7, <3>8, <4>1, <4>2, <4>3, <4>5, <5>1 DEF Ramps
      <4> QED  BY <1>3, <4>4, <4>5
    <3>9. CASE Abs(d) >= PwmMin
      <4>1. /\ stallRef' = (IF stalls THEN stallRef ELSE r)
            /\ stallAge' = (IF stalls THEN stallAge ELSE 0)
        BY <1>1, <1>2
      <4>2. Abs(r' - stallRef') <= StallDelta
        BY <1>3, <2>4, <2>5, <4>1 DEF Abs
      <4>3. stallAge' \in Nat /\ stallAge' <= StallCycles
        BY <1>3, <2>1, <2>5, <4>1
      <4>4. blind + 1 - Ramp <= stallAge'
        <5>1. CASE blind = 0
          BY <4>3, <5>1, RampIsNat
        <5>2. CASE blind > 0 /\ Ramps
          <6>1. Abs(duty) \in Int /\ blind * Slew \in Int
            BY <1>3, <2>5 DEF Abs
          <6> HIDE DEF Abs
          <6>2. blind * Slew < PwmMin
            BY <2>5, <5>2, <6>1 DEF Ramps
          <6>3. blind < Ramp
            BY <1>3, <6>2, RampCycles DEF Ramp
          <6> QED  BY <1>3, <2>5, <4>3, <6>3, RampIsNat
        <5>3. CASE blind > 0 /\ Stalls
          <6>1. stalls
            BY <2>4, <3>9, <5>3 DEF Stalls
          <6> QED  BY <4>1, <5>3, <6>1 DEF Stalls, MidCycle
        <5> QED  BY <1>3, <3>6, <5>1, <5>2, <5>3
      <4> QED
        BY <1>3, <2>1, <2>5, <3>4, <3>7, <3>9, <4>2, <4>3, <4>4, RampIsNat DEF Stalls, MidCycle
    <3> QED
      <4>1. Abs(d) \in Int
        BY <3>3 DEF Abs
      <4> HIDE DEF Abs
      <4> QED  BY <2>5, <3>8, <3>9, <4>1
  <2> QED  BY <2>6, <2>7
<1> QED  BY <1>7, <1>8

\* BlindInv is inductive relative to SafeInv.
LEMMA BlindStep ==
    ASSUME SafeInv, BlindInv, [ActNext]_actVars
    PROVE  BlindInv'
<1>1. CASE Command
  <2>1. blind' = 0
    BY <1>1 DEF Command, SetGoalRatio, ResetFault, Configure, Reverse
  <2> QED  BY <2>1 DEF BlindInv
<1>2. CASE TakeTime
  <2>1. /\ cycle = "idle" /\ cycle' = "sampled" /\ stallAge' = Older(stallAge, StallCycles)
        /\ UNCHANGED <<r, valid, goal, duty, fault, inDeadband, invert, enabled, stallRef, blind>>
    BY <1>2 DEF TakeTime, actConfig
  <2>2. stallAge \in Nat /\ StallCycles \in Nat /\ blind \in Nat
    BY LimitIsNat, ActuatorAssumption DEF SafeInv, ActTypeOK
  <2>3. StandsStill => StandsStill'
    BY <2>1 DEF StandsStill, Abs
  <2>4. Toward => Toward'
    BY <2>1 DEF Toward
  <2>5. Ramps => Ramps'
    BY <2>1, <2>4 DEF Ramps, Abs
  <2>6. ASSUME Stalls PROVE Stalls'
    <3>1. stallAge <= StallCycles /\ blind - Ramp <= stallAge
      BY <2>1, <2>2, <2>6, RampIsNat DEF Stalls, MidCycle
    <3>2. stallAge' = stallAge + 1
      BY <2>1, <2>2, <3>1 DEF Older
    <3>3. stallAge' <= StallCycles + 1 /\ blind + 1 - Ramp <= stallAge'
      BY <2>2, <3>1, <3>2, RampIsNat
    <3>4. Toward' /\ Abs(duty') >= PwmMin /\ Abs(r' - stallRef') <= StallDelta
      BY <2>1, <2>4, <2>6 DEF Stalls
    <3> QED  BY <2>1, <3>3, <3>4 DEF Stalls, MidCycle
  <2> QED  BY <2>1, <2>3, <2>5, <2>6 DEF BlindInv
<1>3. CASE RunLoop
  <2>1. PICK over \in BOOLEAN, allowed \in BOOLEAN :
          \/ enabled /\ \E x \in Positions : Control(Reading(x), TRUE, over, allowed)
          \/ Control(NoReading, FALSE, over, allowed)
    BY <1>3 DEF RunLoop
  <2>2. CASE \E x \in Positions : Control(Reading(x), TRUE, over, allowed)
    <3>1. blind' = 0
      BY <2>2 DEF Control
    <3> QED  BY <3>1 DEF BlindInv
  <2>3. CASE Control(NoReading, FALSE, over, allowed)
    <3>1. /\ cycle = "sampled" /\ cycle' = "idle" /\ r' = r /\ valid' = valid
          /\ UNCHANGED <<invert, enabled>>
          /\ blind' = (IF ~allowed THEN 0 ELSE IF blind > BlindLimit THEN blind ELSE blind + 1)
      BY <2>3 DEF Control, NoReading, actConfig
    <3>2. CASE ~allowed
      BY <3>1, <3>2 DEF BlindInv
    <3>3. CASE allowed /\ ~(enabled /\ valid)
      <4>1. duty' = 0 /\ ~(enabled' /\ valid')
        BY <2>3, <3>1, <3>3 DEF Control, NoReading
      <4> QED  BY <4>1 DEF BlindInv, StandsStill
    <3>4. CASE allowed /\ enabled /\ valid
      <4>1. Driven(NoReading, FALSE, over, allowed)
        BY <2>3, <3>4 DEF Control, NoReading
      <4>2. CASE blind <= BlindLimit
        <5>1. blind' = blind + 1
          BY <3>1, <3>4, <4>2, LimitIsNat DEF SafeInv, ActTypeOK
        <5> QED  BY <3>1, <3>4, <4>1, <5>1, BlindCycle DEF BlindInv
      <4>3. CASE blind > BlindLimit
        <5>1. blind > 0 /\ duty = 0
          BY <4>3, BlindMeansStops, LimitIsNat DEF BlindStops, SafeInv, ActTypeOK
        <5> QED  BY <3>1, <3>4, <4>1, <5>1, BlindCycle DEF BlindInv
      <4> QED  BY <4>2, <4>3, LimitIsNat DEF SafeInv, ActTypeOK
    <3> QED  BY <3>2, <3>3, <3>4
  <2> QED  BY <2>1, <2>2, <2>3
<1>4. CASE UNCHANGED actVars
  BY <1>4 DEF actVars, actConfig, actTimers, BlindInv, StandsStill, Ramps, Stalls, Toward, MidCycle, Abs
<1> QED  BY <1>1, <1>2, <1>3, <1>4 DEF ActNext

-----------------------------------------------------------------------------
\* At boot no cycle has been blind.
LEMMA InvInit == ActInit => SafeInv /\ BlindInv
<1> SUFFICES ASSUME ActInit PROVE BlindInv
  BY SafeInit
<1> QED  BY DEF ActInit, BlindInv

\* What control(), the commands and the configuration compute stays in range,
\* whatever the configuration in flash, the readings and the order of events:
\* no duty beyond the PWM's, no goal off the scale, no timer beyond its limit.
THEOREM ActStaysTyped == ActSpec => []ActTypeOK
<1>1. SafeInv /\ BlindInv /\ [ActNext]_actVars => (SafeInv /\ BlindInv)'
  BY SafeStep, BlindStep
<1>2. SafeInv => ActTypeOK
  BY DEF SafeInv
<1> QED  BY InvInit, <1>1, <1>2, PTL DEF ActSpec

\* For any limits, gains and timeouts, an actuator moves only to a goal inside
\* its limits that no stop has cancelled, with a position to go by, and
\* without a fault (control(), actuator.cpp).
THEOREM ActDrivesSafely == ActSpec => []DrivesSafely
<1>1. SafeInv /\ BlindInv /\ [ActNext]_actVars => (SafeInv /\ BlindInv)'
  BY SafeStep, BlindStep
<1>2. SafeInv /\ BlindInv => DrivesSafely
  BY BlindMeansStops DEF SafeInv, DrivesSafely
<1> QED  BY InvInit, <1>1, <1>2, PTL DEF ActSpec
=============================================================================
