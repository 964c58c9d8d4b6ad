----------------------------- MODULE UbxDecode ------------------------------
(***************************************************************************)
(* Where the GNSS driver's decoders look in the payload of a UBX message:  *)
(* the offset and the width of every field they read, of as many blocks as *)
(* a count, a length or a version in the payload says; and the sizes of    *)
(* the payloads that the receiver sends.  The layout of a class that a     *)
(* decoder copies is the one of the build (enums of one byte, 64 bit       *)
(* fields in 8 bytes).                                                     *)
(***************************************************************************)
EXTENDS Naturals, FiniteSets

CONSTANTS
    MaxBlocks,   \* bound on the blocks of a message
    KeyLengths   \* lengths of a SPARTN key, in bytes

ASSUME DecodeAssumption == MaxBlocks \in Nat /\ KeyLengths \subseteq Nat

\* n fields of a width, each a step further than the one before.
Columns(at, step, width, n) == {<<at + step * i, width>> : i \in 0 .. n - 1}
Run(at, width, n) == Columns(at, width, width, n)

\* The header, the byte of it that counts the blocks, where the first block begins,
\* how far the next one is, and the fields of one.
Layout(fixed, count, base, stride, block) ==
    [fixed |-> fixed, count |-> count, base |-> base, stride |-> stride, block |-> block]

\* buf_offset() for every field, of the header and of n blocks.
Reads(layout, n) ==
    layout.fixed \union {<<layout.base + layout.stride * i + f[1], f[2]>> : i \in 0 .. n - 1, f \in layout.block}

-----------------------------------------------------------------------------
(* Messages of one size. *)

NavClock == Run(0, 4, 5)
NavCov == Run(0, 4, 1) \union Run(4, 1, 3) \union Run(16, 4, 12)
NavEoe == Run(0, 4, 1)
NavHpPosEcef == Run(0, 1, 1) \union Run(4, 4, 4) \union Run(20, 1, 4) \union Run(24, 4, 1)
NavHpPosLlh == Columns(0, 3, 1, 2) \union Run(4, 4, 5) \union Run(24, 1, 4) \union Run(28, 4, 2)
NavOdo == Run(0, 1, 1) \union Run(4, 4, 4)
NavPosEcef == Run(0, 4, 5)
NavPosLlh == Run(0, 4, 7)
NavPvt == Run(0, 4, 1) \union Run(4, 2, 1) \union Run(6, 1, 6) \union Run(12, 4, 2) \union Run(20, 1, 4)
          \union Run(24, 4, 13) \union Run(76, 2, 1) \union Run(78, 1, 1) \union Run(84, 4, 1) \union Run(88, 2, 2)
NavRelPosNed == Run(0, 1, 1) \union Run(2, 2, 1) \union Run(4, 4, 6) \union Run(32, 1, 4)
                \union Run(36, 4, 5) \union Run(60, 4, 1)
NavStatus == Run(0, 4, 1) \union Run(4, 1, 4) \union Run(8, 4, 2)
NavSvin == Run(0, 1, 1) \union Run(4, 4, 5) \union Run(24, 1, 3) \union Run(28, 4, 2) \union Run(36, 1, 2)
NavTimeUtc == Run(0, 4, 3) \union Run(12, 2, 1) \union Run(14, 1, 6)
NavVelEcef == Run(0, 4, 5)
NavVelNed == Run(0, 4, 9)
RxmCor == Run(0, 1, 4) \union Run(4, 4, 1) \union Run(8, 2, 2)
RxmRtcm == Run(0, 1, 2) \union Run(2, 2, 3)
RxmSpartn == Run(0, 1, 2) \union Run(2, 2, 1) \union Run(4, 1, 2) \union Run(6, 2, 1)
SecUniqid == Run(0, 1, 1) \union Run(4, 1, 5)

\* The seven values have two bytes: four are read, and two of them kept.
NavDop == Run(0, 4, 1) \union Columns(4, 2, 4, 7)

-----------------------------------------------------------------------------
(* Messages with as many blocks as a byte of the header says. *)

MonComms == Layout(Run(0, 1, 3) \union Run(4, 1, 4), 1, 8, 40,
                   Run(0, 2, 2) \union Run(4, 4, 1) \union Run(8, 1, 2) \union Run(10, 2, 1) \union Run(12, 4, 1)
                   \union Run(16, 1, 2) \union Run(18, 2, 5) \union Run(36, 4, 1))
NavOrb == Layout(Run(0, 4, 1) \union Run(4, 1, 2), 5, 8, 6, Run(0, 1, 6))
NavSat == Layout(Run(0, 4, 1) \union Run(4, 1, 2), 5, 8, 12,
                 Run(0, 1, 4) \union Run(4, 2, 2) \union Run(8, 4, 1))
NavSig == Layout(Run(0, 4, 1) \union Run(4, 1, 2), 5, 8, 16,
                 Run(0, 1, 4) \union Run(4, 2, 1) \union Run(6, 1, 4) \union Run(10, 2, 1))
RxmMeasx == Layout(Run(0, 1, 1) \union Run(4, 4, 3) \union Run(20, 4, 1) \union Run(24, 2, 3)
                   \union Run(32, 2, 1) \union Run(34, 1, 2), 34, 44, 24,
                   Run(0, 1, 4) \union Run(4, 4, 2) \union Run(12, 2, 2) \union Run(16, 4, 1) \union Run(20, 1, 2))
RxmRawx == Layout(Run(0, 8, 1) \union Run(8, 2, 1) \union Run(10, 1, 4), 11, 16, 32,
                  Run(0, 8, 2) \union Run(16, 4, 1) \union Run(20, 1, 4) \union Run(24, 2, 1) \union Run(26, 1, 5))
SecSigLog == Layout(Run(0, 1, 2), 1, 8, 8, Run(0, 4, 1) \union Run(4, 1, 2))
EsfStatus == Layout(Run(0, 4, 1) \union Run(4, 1, 3) \union Run(12, 1, 1) \union Run(15, 1, 1), 15, 16, 4, Run(0, 4, 1))

-----------------------------------------------------------------------------
(* Messages with a form of their own. *)

\* The extensions are strings that end inside their 30 bytes; they are read one
\* after the other as long as the next one begins inside the payload.
MonVer(size) == {<<0, 30>>, <<30, 10>>} \union {<<40 + 30 * i, 30>> : i \in {j \in 0 .. size : 40 + 30 * j < size}}

\* Version 1 has a flag byte more and no frequencies; there is no frequency before
\* version 2 either.
SecSig(version, n) ==
    Run(0, 1, 2) \union (IF version = 1 THEN Run(2, 1, 1) ELSE {})
    \union (IF version >= 2 THEN Run(3, 1, 1) \union Run(4, 4, n) ELSE {})

\* Both the flags and a measurement take eight bytes in the build.  The
\* calibration time follows the measurements if the flags say that there is one.
EsfMeas(n, tag) ==
    Run(0, 4, 1) \union {<<4, 8>>} \union Run(6, 2, 1) \union Columns(8, 4, 8, n)
    \union (IF tag THEN {<<8 + 4 * n, 4>>} ELSE {})

\* The bytes of the keys before one, of which lengths[j] belong to the jth.
KeyBytes(lengths, i) == UNION {{j} \X (1 .. lengths[j]) : j \in 1 .. i - 1}

\* Mutant: the offset is not advanced by the length of the key just read.
MutKeyAt(lengths, n, i) == 4 + 8 * n

\* The information on all the keys comes first, then key by key, as many bytes of
\* each as its information says.
KeyAt(lengths, n, i) == 4 + 8 * n + Cardinality(KeyBytes(lengths, i))

KeyInfos(n) ==
    UNION {Columns(4, 8, 1, n), Columns(5, 8, 1, n), Columns(6, 8, 2, n), Columns(8, 8, 4, n)}

RxmSpartnKey(n, lengths) ==
    Run(0, 1, 4) \union KeyInfos(n) \union {<<KeyAt(lengths, n, i), lengths[i]>> : i \in 1 .. n}

-----------------------------------------------------------------------------
(* The receiver's payloads. *)

Singles == [nav_clock |-> NavClock, nav_cov |-> NavCov, nav_dop |-> NavDop, nav_eoe |-> NavEoe,
            nav_hp_pos_ecef |-> NavHpPosEcef, nav_hp_pos_llh |-> NavHpPosLlh, nav_odo |-> NavOdo,
            nav_pos_ecef |-> NavPosEcef, nav_pos_llh |-> NavPosLlh, nav_pvt |-> NavPvt,
            nav_rel_pos_ned |-> NavRelPosNed, nav_status |-> NavStatus, nav_svin |-> NavSvin,
            nav_time_utc |-> NavTimeUtc, nav_vel_ecef |-> NavVelEcef, nav_vel_ned |-> NavVelNed,
            sec_uniqid |-> SecUniqid, rxm_cor |-> RxmCor, rxm_rtcm |-> RxmRtcm, rxm_spartn |-> RxmSpartn]

SizeOf == [nav_clock |-> 20, nav_cov |-> 64, nav_dop |-> 18, nav_eoe |-> 4, nav_hp_pos_ecef |-> 28,
           nav_hp_pos_llh |-> 36, nav_odo |-> 20, nav_pos_ecef |-> 20, nav_pos_llh |-> 28, nav_pvt |-> 92,
           nav_rel_pos_ned |-> 64, nav_status |-> 16, nav_svin |-> 40, nav_time_utc |-> 20,
           nav_vel_ecef |-> 20, nav_vel_ned |-> 36, sec_uniqid |-> 9, rxm_cor |-> 12, rxm_rtcm |-> 8,
           rxm_spartn |-> 8]

BlockMessages == [mon_comms |-> MonComms, nav_orb |-> NavOrb, nav_sat |-> NavSat, nav_sig |-> NavSig,
              rxm_measx |-> RxmMeasx, rxm_rawx |-> RxmRawx, sec_sig_log |-> SecSigLog, esf_status |-> EsfStatus]

\* The size of the header and of a block, and the byte that counts the blocks.
Payload(header, block, count) == [header |-> header, block |-> block, count |-> count]
BlockPayloads == [mon_comms |-> Payload(8, 40, 1), nav_orb |-> Payload(8, 6, 5), nav_sat |-> Payload(8, 12, 5),
         nav_sig |-> Payload(8, 16, 5), rxm_measx |-> Payload(44, 24, 34), rxm_rawx |-> Payload(16, 32, 11),
         sec_sig_log |-> Payload(8, 8, 1), esf_status |-> Payload(16, 4, 15)]

\* What a byte of the header may hold when n blocks are sent.
ByteOf(m, n, at) == IF at = BlockPayloads[m].count THEN {n} ELSE 0 .. MaxBlocks

-----------------------------------------------------------------------------
Span(field) == field[1] .. field[1] + field[2] - 1
Beyond(fields, size) == (UNION {Span(f) : f \in fields}) \ (0 .. size - 1)

InsideApart(fields, size) ==
    /\ Beyond(fields, size) = {}
    /\ \A f, g \in fields : f # g => Span(f) \intersect Span(g) = {}

\* The seventh dilution of precision alone is read past its message.
SinglesInside ==
    /\ \A m \in DOMAIN Singles \ {"nav_dop"} : InsideApart(Singles[m], SizeOf[m])
    /\ Beyond(Singles["nav_dop"], SizeOf["nav_dop"]) = {18, 19}

\* However many blocks are sent, no more are read, where they were put.
BlocksInside ==
    \A m \in DOMAIN BlockMessages, n \in 0 .. MaxBlocks : \A c \in ByteOf(m, n, BlockMessages[m].count) :
        InsideApart(Reads(BlockMessages[m], c), BlockPayloads[m].header + BlockPayloads[m].block * n)

\* Messages whose length, version or lengths of keys say what is in them.
FormsInside ==
    /\ \A n \in 0 .. MaxBlocks : InsideApart(MonVer(40 + 30 * n), 40 + 30 * n)
    /\ InsideApart(SecSig(1, 0), 12)
    /\ \A n \in 0 .. MaxBlocks : InsideApart(SecSig(2, n), 4 + 4 * n)
    /\ \A n \in 0 .. MaxBlocks : \A lengths \in [1 .. n -> KeyLengths] :
           InsideApart(RxmSpartnKey(n, lengths), 4 + 8 * n + Cardinality(KeyBytes(lengths, n + 1)))

\* A measurement of four bytes, or the flags, are read as eight, and the last of
\* them past the message, unless a calibration time follows them.
MeasInside ==
    \A n \in 0 .. MaxBlocks : /\ Beyond(EsfMeas(n, TRUE), 12 + 4 * n) = {}
                              /\ Beyond(EsfMeas(n, FALSE), 8 + 4 * n) = 8 + 4 * n .. 11 + 4 * n

\* For every message, whatever it counts and says of itself, the fields lie apart
\* and inside the payload; the dilution of precision, and external measurements
\* without a calibration time, are read past it by what their fields are too wide.
DecodesInside == SinglesInside /\ BlocksInside /\ FormsInside /\ MeasInside
=============================================================================
