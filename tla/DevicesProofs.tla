---------------------------- MODULE DevicesProofs ----------------------------
(***************************************************************************)
(* The firmware's and the GNSS driver's parts as they run together, for    *)
(* every value of the constants.                                           *)
(*                                                                         *)
(* The decoders' layouts are a question of arithmetic: Tiled says that     *)
(* fields lie one after the other in a range, and a message whose header   *)
(* tiles up to its first block and whose block tiles its stride tiles its  *)
(* payload, whatever the number of blocks.  A key begins where the bytes   *)
(* of the keys before it end, and these are counted as a set: one key      *)
(* further there are its bytes more.                                       *)
(*                                                                         *)
(* A behaviour of all the parts is one of each: what BoardProofs and       *)
(* GnssProofs say of a part's own specification, its types among it, holds *)
(* of Spec.                                                                *)
(***************************************************************************)
EXTENDS MCDevices, BoardProofs, GnssProofs, FiniteSetTheorems

-----------------------------------------------------------------------------
(* The decoders. *)

\* Fields that lie in lo .. hi - 1, none on another.
Tiled(fs, lo, hi) ==
    /\ \A f \in fs : f \in Nat \X Nat /\ lo <= f[1] /\ f[1] + f[2] <= hi
    /\ \A f, g \in fs : f # g => f[1] + f[2] <= g[1] \/ g[1] + g[2] <= f[1]

\* Fields that tile the payload lie apart and inside it.
LEMMA TiledSpans ==
    ASSUME NEW fs, NEW size \in Nat, Tiled(fs, 0, size)
    PROVE  InsideApart(fs, size)
<1>1. \A f \in fs : Span(f) \subseteq 0 .. size - 1
  BY DEF Span, Tiled
<1>2. \A f, g \in fs : f # g => Span(f) \intersect Span(g) = {}
  BY DEF Span, Tiled
<1> QED  BY <1>1, <1>2 DEF InsideApart, Beyond

LEMMA IntegersCompare == \A i, j \in Int : i < j \/ j < i \/ i = j
OBVIOUS

\* The fields of n blocks.
Blocks(base, stride, block, n) == {<<base + stride * i + f[1], f[2]>> : i \in 0 .. n - 1, f \in block}

\* A header up to the first block, and a block that its stride holds, tile with
\* any number of blocks.
LEMMA BlocksTile ==
    ASSUME NEW fixed, NEW base \in Nat, NEW stride \in Nat, NEW block, NEW n \in Nat,
           Tiled(fixed, 0, base), Tiled(block, 0, stride)
    PROVE  Tiled(fixed \union Blocks(base, stride, block, n), 0, base + stride * n)
<1> DEFINE At(i, f) == <<base + stride * i + f[1], f[2]>>
           Repeated == {At(i, f) : i \in 0 .. n - 1, f \in block}
<1>1. \A i \in 0 .. n - 1 : stride * i \in Nat /\ stride * i + stride <= stride * n
  <2> TAKE i \in 0 .. n - 1
  <2>1. PICK d \in Nat : n = i + 1 + d
    BY n = i + 1 + (n - i - 1), n - i - 1 \in Nat
  <2>2. stride * n = stride * i + stride + stride * d /\ stride * i \in Nat /\ stride * d \in Nat
    BY <2>1
  <2> QED  BY <2>2
<1>2. stride * n \in Nat
  OBVIOUS
<1>3. \A i, j \in 0 .. n - 1 : i < j => stride * i + stride <= stride * j
  <2> SUFFICES ASSUME NEW i \in 0 .. n - 1, NEW j \in 0 .. n - 1, i < j
               PROVE  stride * i + stride <= stride * j
    OBVIOUS
  <2>1. PICK d \in Nat : j = i + 1 + d
    BY j = i + 1 + (j - i - 1), j - i - 1 \in Nat
  <2>2. stride * j = stride * i + stride + stride * d /\ stride * i \in Nat /\ stride * d \in Nat
    BY <2>1
  <2> QED  BY <2>2
<1>4. \A f \in block : /\ f = <<f[1], f[2]>> /\ f[1] \in Nat /\ f[2] \in Nat
                       /\ f[1] + f[2] <= stride
  BY DEF Tiled
<1> DEFINE Lies(f) == f \in Nat \X Nat /\ base <= f[1] /\ f[1] + f[2] <= base + stride * n
<1>5. \A f \in Repeated : Lies(f)
  <2> SUFFICES ASSUME NEW i \in 0 .. n - 1, NEW f \in block
               PROVE  /\ At(i, f) \in Nat \X Nat /\ base <= At(i, f)[1]
                      /\ At(i, f)[1] + At(i, f)[2] <= base + stride * n
    OBVIOUS
  <2> DEFINE s == stride * i
             t == stride * n
  <2>1. s \in Nat /\ s + stride <= t /\ t \in Nat
    BY <1>1, <1>2
  <2>2. f[1] \in Nat /\ f[2] \in Nat /\ f[1] + f[2] <= stride
    BY <1>4
  <2> HIDE DEF s, t
  <2>3. /\ base + s + f[1] \in Nat /\ base <= base + s + f[1]
        /\ base + s + f[1] + f[2] <= base + t
    BY <2>1, <2>2
  <2> QED  BY <2>2, <2>3 DEF s, t
<1>6. ASSUME NEW g \in Repeated, NEW h \in Repeated, g # h
      PROVE  g[1] + g[2] <= h[1] \/ h[1] + h[2] <= g[1]
  <2>1. PICK i \in 0 .. n - 1, f \in block : g = At(i, f)
    OBVIOUS
  <2>2. PICK j \in 0 .. n - 1, e \in block : h = At(j, e)
    OBVIOUS
  <2> DEFINE s == stride * i
             t == stride * j
  <2>3. /\ s \in Nat /\ t \in Nat /\ (i < j => s + stride <= t) /\ (j < i => t + stride <= s)
        /\ (i = j => s = t)
    BY <1>1, <1>3
  <2>4. /\ f[1] \in Nat /\ f[2] \in Nat /\ f[1] + f[2] <= stride
        /\ e[1] \in Nat /\ e[2] \in Nat /\ e[1] + e[2] <= stride
    BY <1>4
  <2>5. i = j => f # e
    BY <1>6, <2>1, <2>2
  <2>6. f # e => f[1] + f[2] <= e[1] \/ e[1] + e[2] <= f[1]
    BY DEF Tiled
  <2>7. i < j \/ j < i \/ i = j
    <3>1. i \in Int /\ j \in Int
      OBVIOUS
    <3> HIDE DEF Repeated, s, t, At
    <3> QED  BY ONLY <3>1, IntegersCompare
  <2>8. g[1] = base + s + f[1] /\ g[2] = f[2] /\ h[1] = base + t + e[1] /\ h[2] = e[2]
    BY <2>1, <2>2
  <2> HIDE DEF s, t
  <2> QED  BY <2>3, <2>4, <2>5, <2>6, <2>7, <2>8
<1> HIDE DEF Repeated
<1>7. \A f \in fixed : f \in Nat \X Nat /\ f[1] + f[2] <= base
  BY DEF Tiled
<1>8. \A f \in fixed, g \in Repeated : f[1] + f[2] <= g[1]
  <2> TAKE f \in fixed, g \in Repeated
  <2>1. f \in Nat \X Nat /\ f[1] + f[2] <= base
    BY <1>7
  <2>2. g \in Nat \X Nat /\ base <= g[1]
    BY <1>5
  <2> QED  BY <2>1, <2>2
<1>9. \A f \in fixed : f \in Nat \X Nat /\ 0 <= f[1] /\ f[1] + f[2] <= base + stride * n
  BY <1>2, <1>7
<1>10. \A f \in Repeated : f \in Nat \X Nat /\ 0 <= f[1] /\ f[1] + f[2] <= base + stride * n
  <2> TAKE f \in Repeated
  <2>1. Lies(f)
    BY <1>5
  <2> QED  BY <2>1
<1>11. \A f, g \in fixed : f # g => f[1] + f[2] <= g[1] \/ g[1] + g[2] <= f[1]
  BY DEF Tiled
<1>12. Tiled(fixed \union Repeated, 0, base + stride * n)
  BY <1>6, <1>8, <1>9, <1>10, <1>11 DEF Tiled
<1> QED  BY <1>12 DEF Repeated, Blocks

\* Fields that tile a range, and others that tile the next, tile both.
LEMMA TiledJoin ==
    ASSUME NEW fs, NEW gs, NEW lo \in Nat, NEW mid \in Nat, NEW hi \in Nat, lo <= mid, mid <= hi,
           Tiled(fs, lo, mid), Tiled(gs, mid, hi)
    PROVE  Tiled(fs \union gs, lo, hi)
<1>1. \A f \in fs : f \in Nat \X Nat /\ lo <= f[1] /\ f[1] + f[2] <= mid
  BY DEF Tiled
<1>2. \A f \in gs : f \in Nat \X Nat /\ mid <= f[1] /\ f[1] + f[2] <= hi
  BY DEF Tiled
<1>3. \A f \in fs \union gs : f \in Nat \X Nat /\ lo <= f[1] /\ f[1] + f[2] <= hi
  BY <1>1, <1>2
<1>4. \A f \in fs, g \in gs : f[1] + f[2] <= g[1]
  BY <1>1, <1>2
<1>5. /\ \A f, g \in fs : f # g => f[1] + f[2] <= g[1] \/ g[1] + g[2] <= f[1]
      /\ \A f, g \in gs : f # g => f[1] + f[2] <= g[1] \/ g[1] + g[2] <= f[1]
  BY DEF Tiled
<1> QED  BY <1>3, <1>4, <1>5 DEF Tiled

\* The same of a layout, whose name need not be that of a message.
LEMMA LayoutTiles ==
    ASSUME NEW l, NEW n \in Nat, l.base \in Nat, l.stride \in Nat,
           Tiled(l.fixed, 0, l.base), Tiled(l.block, 0, l.stride)
    PROVE  Tiled(Reads(l, n), 0, l.base + l.stride * n)
<1> DEFINE base == l.base
           stride == l.stride
           block == l.block
           fixed == l.fixed
<1>1. Reads(l, n) = fixed \union Blocks(base, stride, block, n)
  BY DEF Reads, Blocks
<1>2. /\ base \in Nat /\ stride \in Nat /\ Tiled(fixed, 0, base) /\ Tiled(block, 0, stride)
  OBVIOUS
<1> HIDE DEF base, stride, block, fixed
<1>3. Tiled(fixed \union Blocks(base, stride, block, n), 0, base + stride * n)
  BY <1>2, BlocksTile
<1> QED  BY <1>1, <1>3 DEF base, stride

\* Every field of the messages of one size, by its offset and width.
LEMMA SinglesFit ==
    \A m \in DOMAIN Singles \ {"nav_dop"} : SizeOf[m] \in Nat /\ Tiled(Singles[m], 0, SizeOf[m])
<1> USE DEF Run, Columns
<1>1. Tiled(NavClock, 0, 20)
  BY DEF NavClock, Tiled
<1>2. Tiled(NavCov, 0, 64)
  BY DEF NavCov, Tiled
<1>3. Tiled(NavEoe, 0, 4)
  BY DEF NavEoe, Tiled
<1>4. Tiled(NavHpPosEcef, 0, 28)
  BY DEF NavHpPosEcef, Tiled
<1>5. Tiled(NavHpPosLlh, 0, 36)
  BY DEF NavHpPosLlh, Tiled
<1>6. Tiled(NavOdo, 0, 20)
  BY DEF NavOdo, Tiled
<1>7. Tiled(NavPosEcef, 0, 20)
  BY DEF NavPosEcef, Tiled
<1>8. Tiled(NavPosLlh, 0, 28)
  BY DEF NavPosLlh, Tiled
<1>9. Tiled(NavPvt, 0, 92)
  BY DEF NavPvt, Tiled
<1>10. Tiled(NavRelPosNed, 0, 64)
  BY DEF NavRelPosNed, Tiled
<1>11. Tiled(NavStatus, 0, 16)
  BY DEF NavStatus, Tiled
<1>12. Tiled(NavSvin, 0, 40)
  BY DEF NavSvin, Tiled
<1>13. Tiled(NavTimeUtc, 0, 20)
  BY DEF NavTimeUtc, Tiled
<1>14. Tiled(NavVelEcef, 0, 20)
  BY DEF NavVelEcef, Tiled
<1>15. Tiled(NavVelNed, 0, 36)
  BY DEF NavVelNed, Tiled
<1>16. Tiled(SecUniqid, 0, 9)
  BY DEF SecUniqid, Tiled
<1>17. Tiled(RxmCor, 0, 12)
  BY DEF RxmCor, Tiled
<1>18. Tiled(RxmRtcm, 0, 8)
  BY DEF RxmRtcm, Tiled
<1>19. Tiled(RxmSpartn, 0, 8)
  BY DEF RxmSpartn, Tiled
<1> QED  BY <1>1, <1>2, <1>3, <1>4, <1>5, <1>6, <1>7, <1>8, <1>9, <1>10, <1>11, <1>12, <1>13,
            <1>14, <1>15, <1>16, <1>17, <1>18, <1>19
         DEF SizeOf, Singles

\* Every field of the headers and of the blocks, which are as long and as many as
\* the receiver's.
LEMMA BlocksFit ==
    \A m \in DOMAIN BlockMessages :
        /\ BlockMessages[m].base \in Nat /\ BlockMessages[m].stride \in Nat
        /\ Tiled(BlockMessages[m].fixed, 0, BlockMessages[m].base) /\ Tiled(BlockMessages[m].block, 0, BlockMessages[m].stride)
        /\ BlockMessages[m].base = BlockPayloads[m].header /\ BlockMessages[m].stride = BlockPayloads[m].block
        /\ BlockMessages[m].count = BlockPayloads[m].count
<1> DEFINE Fits(l, header, block, count) ==
               /\ l.base \in Nat /\ l.stride \in Nat
               /\ Tiled(l.fixed, 0, l.base) /\ Tiled(l.block, 0, l.stride)
               /\ l.base = header /\ l.stride = block /\ l.count = count
<1>1. Fits(MonComms, 8, 40, 1)
  BY DEF MonComms, Tiled, Layout, Run, Columns
<1>2. Fits(NavOrb, 8, 6, 5)
  BY DEF NavOrb, Tiled, Layout, Run, Columns
<1>3. Fits(NavSat, 8, 12, 5)
  BY DEF NavSat, Tiled, Layout, Run, Columns
<1>4. Fits(NavSig, 8, 16, 5)
  BY DEF NavSig, Tiled, Layout, Run, Columns
<1>5. Fits(RxmMeasx, 44, 24, 34)
  BY DEF RxmMeasx, Tiled, Layout, Run, Columns
<1>6. Fits(RxmRawx, 16, 32, 11)
  BY DEF RxmRawx, Tiled, Layout, Run, Columns
<1>7. Fits(SecSigLog, 8, 8, 1)
  BY DEF SecSigLog, Tiled, Layout, Run, Columns
<1>8. Fits(EsfStatus, 16, 4, 15)
  BY DEF EsfStatus, Tiled, Layout, Run, Columns
<1> HIDE DEF Fits
<1>9. \A m \in DOMAIN BlockMessages : Fits(BlockMessages[m], BlockPayloads[m].header, BlockPayloads[m].block, BlockPayloads[m].count)
  BY <1>1, <1>2, <1>3, <1>4, <1>5, <1>6, <1>7, <1>8 DEF BlockMessages, BlockPayloads, Payload
<1> QED  BY <1>9 DEF Fits

\* However many blocks are sent, they are counted right and read where they are.
LEMMA BlocksStayInside == BlocksInside
<1> SUFFICES ASSUME NEW m \in DOMAIN BlockMessages, NEW n \in 0 .. MaxBlocks,
                    NEW q \in ByteOf(m, n, BlockMessages[m].count)
             PROVE  InsideApart(Reads(BlockMessages[m], q), BlockPayloads[m].header + BlockPayloads[m].block * n)
  BY DEF BlocksInside
<1>1. q = n /\ n \in Nat
  BY BlocksFit DEF ByteOf
<1>2. /\ BlockPayloads[m].header \in Nat /\ BlockPayloads[m].block \in Nat
      /\ Tiled(Reads(BlockMessages[m], n), 0, BlockPayloads[m].header + BlockPayloads[m].block * n)
  BY <1>1, BlocksFit, LayoutTiles
<1>3. BlockPayloads[m].header + BlockPayloads[m].block * n \in Nat
  <2> DEFINE header == BlockPayloads[m].header
             block == BlockPayloads[m].block
  <2>1. header \in Nat /\ block \in Nat
    BY <1>2
  <2> HIDE DEF header, block
  <2>2. header + block * n \in Nat
    BY <1>1, <2>1
  <2> QED  BY <2>2 DEF header, block
<1> QED  BY <1>1, <1>2, <1>3, TiledSpans

\* The last value, of two bytes, is read as four.
LEMMA DopReadsPast == Beyond(Singles["nav_dop"], SizeOf["nav_dop"]) = {18, 19}
<1>1. Singles["nav_dop"] = NavDop /\ SizeOf["nav_dop"] = 18
  BY DEF Singles, SizeOf
<1>2. \A x : x \in UNION {Span(f) : f \in NavDop} <=> x \in 0 .. 19
  <2>1. NavDop = {<<0, 4>>, <<4, 4>>, <<6, 4>>, <<8, 4>>, <<10, 4>>, <<12, 4>>, <<14, 4>>, <<16, 4>>}
    BY DEF NavDop, Run, Columns
  <2> QED  BY <2>1 DEF Span
<1>3. Beyond(NavDop, 18) = 18 .. 19
  BY <1>2 DEF Beyond
<1> QED  BY <1>1, <1>3

\* Messages of one size are read inside it, but for that one.
LEMMA SinglesStayInside == SinglesInside
BY SinglesFit, TiledSpans, DopReadsPast DEF SinglesInside

\* Blocks of one field are a column of it.
LEMMA OneField ==
    ASSUME NEW base \in Nat, NEW stride \in Nat, NEW width \in Nat, NEW n \in Nat
    PROVE  Blocks(base, stride, {<<0, width>>}, n) = Columns(base, stride, width, n)
<1>1. \A i \in 0 .. n - 1 : base + stride * i + 0 = base + stride * i
  OBVIOUS
<1>2. ASSUME NEW x \in Blocks(base, stride, {<<0, width>>}, n)
      PROVE  x \in Columns(base, stride, width, n)
  <2>1. PICK i \in 0 .. n - 1, f \in {<<0, width>>} : x = <<base + stride * i + f[1], f[2]>>
    BY DEF Blocks
  <2>2. x = <<base + stride * i, width>>
    BY <1>1, <2>1
  <2> QED  BY <2>2 DEF Columns
<1>3. ASSUME NEW x \in Columns(base, stride, width, n)
      PROVE  x \in Blocks(base, stride, {<<0, width>>}, n)
  <2>1. PICK i \in 0 .. n - 1 : x = <<base + stride * i, width>>
    BY DEF Columns
  <2>2. x = <<base + stride * i + 0, width>>
    BY <1>1, <2>1
  <2> DEFINE block == {<<0, width>>}
             At(j, g) == <<base + stride * j + g[1], g[2]>>
  <2>3. PICK f \in block : x = <<base + stride * i + f[1], f[2]>>
    BY <2>2
  <2> HIDE DEF block
  <2>4. Blocks(base, stride, block, n) = {At(j, g) : j \in 0 .. n - 1, g \in block}
    BY DEF Blocks
  <2>5. x = At(i, f)
    BY <2>3
  <2> HIDE DEF At
  <2>6. x \in {At(j, g) : j \in 0 .. n - 1, g \in block}
    BY <2>5
  <2> QED  BY <2>4, <2>6 DEF block
<1> QED  BY <1>2, <1>3

\* Extensions follow one another as the blocks of a layout do.
LEMMA VersionsStayInside ==
    ASSUME NEW n \in Nat
    PROVE  InsideApart(MonVer(40 + 30 * n), 40 + 30 * n)
<1> DEFINE l == Layout({<<0, 30>>, <<30, 10>>}, 0, 40, 30, {<<0, 30>>})
<1>1. /\ l.fixed = {<<0, 30>>, <<30, 10>>} /\ l.block = {<<0, 30>>} /\ l.base = 40 /\ l.stride = 30
  BY DEF Layout
<1>2. Tiled({<<0, 30>>, <<30, 10>>}, 0, 40) /\ Tiled({<<0, 30>>}, 0, 30)
  BY DEF Tiled
<1>3. {q \in 0 .. 40 + 30 * n : 40 + 30 * q < 40 + 30 * n} = 0 .. n - 1
  OBVIOUS
<1> HIDE DEF l
<1>4. Reads(l, n) = MonVer(40 + 30 * n)
  <2>1. Blocks(40, 30, {<<0, 30>>}, n) = Columns(40, 30, 30, n)
    BY OneField
  <2>2. Reads(l, n) = {<<0, 30>>, <<30, 10>>} \union Blocks(40, 30, {<<0, 30>>}, n)
    BY <1>1 DEF Reads, Blocks
  <2>3. MonVer(40 + 30 * n) = {<<0, 30>>, <<30, 10>>} \union Columns(40, 30, 30, n)
    BY <1>3 DEF MonVer, Columns
  <2> QED  BY <2>1, <2>2, <2>3
<1>5. Tiled(Reads(l, n), 0, 40 + 30 * n)
  <2>1. l.base \in Nat /\ l.stride \in Nat /\ Tiled(l.fixed, 0, l.base) /\ Tiled(l.block, 0, l.stride)
    BY <1>1, <1>2
  <2>2. Tiled(Reads(l, n), 0, l.base + l.stride * n)
    BY <2>1, LayoutTiles
  <2> QED  BY <1>1, <2>2
<1> QED  BY <1>4, <1>5, TiledSpans

\* Neither version of the security signals reads more than it was sent.
LEMMA SignalsStayInside ==
    ASSUME NEW n \in Nat
    PROVE  InsideApart(SecSig(1, 0), 12) /\ InsideApart(SecSig(2, n), 4 + 4 * n)
<1>1. SecSig(1, 0) = {<<0, 1>>, <<1, 1>>, <<2, 1>>}
  BY DEF SecSig, Run, Columns
<1>2. Tiled({<<0, 1>>, <<1, 1>>, <<2, 1>>}, 0, 12)
  BY DEF Tiled
<1> DEFINE l == Layout({<<0, 1>>, <<1, 1>>, <<3, 1>>}, 3, 4, 4, {<<0, 4>>})
<1>3. /\ l.fixed = {<<0, 1>>, <<1, 1>>, <<3, 1>>} /\ l.block = {<<0, 4>>} /\ l.base = 4 /\ l.stride = 4
  BY DEF Layout
<1>4. Tiled({<<0, 1>>, <<1, 1>>, <<3, 1>>}, 0, 4) /\ Tiled({<<0, 4>>}, 0, 4)
  BY DEF Tiled
<1> HIDE DEF l
<1>5. Reads(l, n) = SecSig(2, n)
  <2>1. Blocks(4, 4, {<<0, 4>>}, n) = Columns(4, 4, 4, n)
    BY OneField
  <2>2. Run(0, 1, 2) = {<<0, 1>>, <<1, 1>>} /\ Run(3, 1, 1) = {<<3, 1>>}
    BY DEF Run, Columns
  <2>3. SecSig(2, n) = {<<0, 1>>, <<1, 1>>} \union ({<<3, 1>>} \union Columns(4, 4, 4, n))
    BY <2>2 DEF SecSig, Run
  <2>4. Reads(l, n) = {<<0, 1>>, <<1, 1>>, <<3, 1>>} \union Blocks(4, 4, {<<0, 4>>}, n)
    BY <1>3 DEF Reads, Blocks
  <2> QED  BY <2>1, <2>3, <2>4
<1>6. Tiled(Reads(l, n), 0, 4 + 4 * n)
  <2>1. l.base \in Nat /\ l.stride \in Nat /\ Tiled(l.fixed, 0, l.base) /\ Tiled(l.block, 0, l.stride)
    BY <1>3, <1>4
  <2>2. Tiled(Reads(l, n), 0, l.base + l.stride * n)
    BY <2>1, LayoutTiles
  <2> QED  BY <1>3, <2>2
<1> QED  BY <1>1, <1>2, <1>5, <1>6, TiledSpans

\* The bytes of the keys before the ith, whose number is where it begins.
LEMMA KeyBytesFinite ==
    ASSUME NEW n \in Nat, NEW lengths \in [1 .. n -> Nat], NEW i \in 1 .. n + 1
    PROVE  IsFiniteSet(KeyBytes(lengths, i)) /\ Cardinality(KeyBytes(lengths, i)) \in Nat
<1> DEFINE S == 1 .. i - 1
           f == [j \in S |-> {j} \X (1 .. lengths[j])]
           T == {{j} \X (1 .. lengths[j]) : j \in S}
<1>1. IsFiniteSet(S)
  BY FS_Interval
<1>2. f \in Surjection(S, T)
  BY DEF Surjection
<1>3. IsFiniteSet(T)
  BY <1>1, <1>2, FS_Surjection
<1>4. ASSUME NEW j \in S
      PROVE  IsFiniteSet({j} \X (1 .. lengths[j]))
  <2>1. lengths[j] \in Nat
    OBVIOUS
  <2>2. IsFiniteSet({j})
    BY FS_Singleton
  <2>3. IsFiniteSet(1 .. lengths[j])
    BY <2>1, FS_Interval
  <2> QED  BY <2>2, <2>3, FS_Product
<1>5. IsFiniteSet(UNION T)
  BY <1>3, <1>4, FS_UNION
<1> QED  BY <1>5, FS_CardinalityType DEF KeyBytes

\* One key further there are as many bytes more as the key has.
LEMMA KeyBytesGrow ==
    ASSUME NEW n \in Nat, NEW lengths \in [1 .. n -> Nat], NEW i \in 1 .. n
    PROVE  Cardinality(KeyBytes(lengths, i + 1)) = Cardinality(KeyBytes(lengths, i)) + lengths[i]
<1> DEFINE K == KeyBytes(lengths, i)
           L == {i} \X (1 .. lengths[i])
<1>1. KeyBytes(lengths, i + 1) = K \union L
  <2>1. 1 .. (i + 1) - 1 = (1 .. i - 1) \union {i}
    OBVIOUS
  <2> QED  BY <2>1 DEF KeyBytes
<1>2. K \intersect L = {}
  BY DEF KeyBytes
<1>3. IsFiniteSet(K) /\ Cardinality(K) \in Nat
  <2>1. i \in 1 .. n + 1
    OBVIOUS
  <2> QED  BY <2>1, KeyBytesFinite
<1>4. IsFiniteSet(L) /\ Cardinality(L) = lengths[i]
  <2>1. IsFiniteSet({i}) /\ Cardinality({i}) = 1
    BY FS_Singleton
  <2>2. lengths[i] \in Nat
    OBVIOUS
  <2>3. IsFiniteSet(1 .. lengths[i]) /\ Cardinality(1 .. lengths[i]) = lengths[i]
    BY <2>2, FS_Interval
  <2>4. IsFiniteSet(L) /\ Cardinality(L) = 1 * lengths[i]
    BY <2>1, <2>3, FS_Product
  <2> QED  BY <2>2, <2>4
<1>5. Cardinality(K \union L) = Cardinality(K) + Cardinality(L) - Cardinality(K \intersect L)
  BY <1>3, <1>4, FS_Union
<1>6. Cardinality(K \intersect L) = 0 /\ lengths[i] \in Nat
  BY <1>2, FS_EmptySet
<1> HIDE DEF K, L
<1>7. Cardinality(K \union L) = Cardinality(K) + lengths[i]
  BY <1>3, <1>4, <1>5, <1>6
<1> QED  BY <1>1, <1>7 DEF K

\* A key ends before the next one begins, and all of them before the payload does.
LEMMA KeysFollow ==
    ASSUME NEW n \in Nat, NEW lengths \in [1 .. n -> Nat], NEW i \in 1 .. n, NEW j \in 1 .. n + 1, i < j
    PROVE  Cardinality(KeyBytes(lengths, i)) + lengths[i] <= Cardinality(KeyBytes(lengths, j))
<1>1. KeyBytes(lengths, i + 1) \in SUBSET KeyBytes(lengths, j)
  <2>1. 1 .. (i + 1) - 1 \subseteq 1 .. j - 1
    OBVIOUS
  <2> QED  BY <2>1 DEF KeyBytes
<1>2. Cardinality(KeyBytes(lengths, i + 1)) <= Cardinality(KeyBytes(lengths, j))
  BY <1>1, KeyBytesFinite, FS_Subset
<1> QED  BY <1>2, KeyBytesGrow

\* The keys tile what follows the information on them.
LEMMA KeysTile ==
    ASSUME NEW n \in Nat, NEW lengths \in [1 .. n -> Nat]
    PROVE  Tiled({<<KeyAt(lengths, n, i), lengths[i]>> : i \in 1 .. n},
                 4 + 8 * n, 4 + 8 * n + Cardinality(KeyBytes(lengths, n + 1)))
<1> DEFINE At(i) == Cardinality(KeyBytes(lengths, i))
           Key(i) == <<KeyAt(lengths, n, i), lengths[i]>>
<1>1. \A i \in 1 .. n : At(i) \in Nat /\ lengths[i] \in Nat /\ At(i) + lengths[i] <= At(n + 1)
  <2> SUFFICES ASSUME NEW i \in 1 .. n
               PROVE  At(i) \in Nat /\ lengths[i] \in Nat /\ At(i) + lengths[i] <= At(n + 1)
    OBVIOUS
  <2>1. i \in 1 .. n + 1 /\ n + 1 \in 1 .. n + 1 /\ i < n + 1
    OBVIOUS
  <2>2. At(i) \in Nat
    BY <2>1, KeyBytesFinite
  <2> QED  BY <2>1, <2>2, KeysFollow
<1>2. \A i, j \in 1 .. n : i < j => At(i) + lengths[i] <= At(j)
  <2> SUFFICES ASSUME NEW i \in 1 .. n, NEW j \in 1 .. n, i < j
               PROVE  At(i) + lengths[i] <= At(j)
    OBVIOUS
  <2>1. j \in 1 .. n + 1
    OBVIOUS
  <2> QED  BY <2>1, KeysFollow
<1>3. At(n + 1) \in Nat
  <2>1. n + 1 \in 1 .. n + 1
    OBVIOUS
  <2> QED  BY <2>1, KeyBytesFinite
<1>4. \A i \in 1 .. n : Key(i) = <<4 + 8 * n + At(i), lengths[i]>>
  BY DEF KeyAt
<1> HIDE DEF At, Key
<1>5. \A i \in 1 .. n : /\ Key(i) \in Nat \X Nat /\ 4 + 8 * n <= Key(i)[1]
                        /\ Key(i)[1] + Key(i)[2] <= 4 + 8 * n + At(n + 1)
  BY <1>1, <1>3, <1>4
<1>6. ASSUME NEW i \in 1 .. n, NEW j \in 1 .. n, Key(i) # Key(j)
      PROVE  Key(i)[1] + Key(i)[2] <= Key(j)[1] \/ Key(j)[1] + Key(j)[2] <= Key(i)[1]
  <2>1. i < j \/ j < i
    <3>1. i # j /\ i \in Int /\ j \in Int
      BY <1>6
    <3> QED  BY ONLY <3>1, IntegersCompare
  <2>2. /\ At(i) \in Nat /\ At(j) \in Nat /\ lengths[i] \in Nat /\ lengths[j] \in Nat
        /\ i < j => At(i) + lengths[i] <= At(j)
        /\ j < i => At(j) + lengths[j] <= At(i)
    BY <1>1, <1>2
  <2>3. /\ Key(i)[1] = 4 + 8 * n + At(i) /\ Key(i)[2] = lengths[i]
        /\ Key(j)[1] = 4 + 8 * n + At(j) /\ Key(j)[2] = lengths[j]
    BY <1>4
  <2> QED  BY <2>1, <2>2, <2>3
<1>7. Tiled({Key(i) : i \in 1 .. n}, 4 + 8 * n, 4 + 8 * n + At(n + 1))
  BY <1>5, <1>6 DEF Tiled
<1> QED  BY <1>7 DEF Key, At

\* The information on the keys, and the keys, whatever their number and lengths.
LEMMA KeysStayInside ==
    ASSUME NEW n \in Nat, NEW lengths \in [1 .. n -> Nat]
    PROVE  InsideApart(RxmSpartnKey(n, lengths), 4 + 8 * n + Cardinality(KeyBytes(lengths, n + 1)))
<1> DEFINE l == Layout(Run(0, 1, 4), 1, 4, 8, {<<0, 1>>, <<1, 1>>, <<2, 2>>, <<4, 4>>})
           keys == {<<KeyAt(lengths, n, i), lengths[i]>> : i \in 1 .. n}
           size == 4 + 8 * n + Cardinality(KeyBytes(lengths, n + 1))
<1>1. /\ l.fixed = Run(0, 1, 4) /\ l.block = {<<0, 1>>, <<1, 1>>, <<2, 2>>, <<4, 4>>} /\ l.base = 4 /\ l.stride = 8
  BY DEF Layout
<1>2. Tiled(Run(0, 1, 4), 0, 4) /\ Tiled({<<0, 1>>, <<1, 1>>, <<2, 2>>, <<4, 4>>}, 0, 8)
  <2>1. Tiled(Run(0, 1, 4), 0, 4)
    BY DEF Tiled, Run, Columns
  <2>2. Tiled({<<0, 1>>, <<1, 1>>, <<2, 2>>, <<4, 4>>}, 0, 8)
    BY DEF Tiled
  <2> QED  BY <2>1, <2>2
<1> HIDE DEF l
<1>3. Reads(l, n) = Run(0, 1, 4) \union KeyInfos(n)
  <2> DEFINE block == {<<0, 1>>, <<1, 1>>, <<2, 2>>, <<4, 4>>}
  <2>1. \A x : x \in {<<4 + 8 * i + f[1], f[2]>> : i \in 0 .. n - 1, f \in block}
               <=> \E i \in 0 .. n - 1 : x \in {<<4 + 8 * i, 1>>, <<5 + 8 * i, 1>>, <<6 + 8 * i, 2>>, <<8 + 8 * i, 4>>}
    OBVIOUS
  <2>2. \A x : x \in KeyInfos(n)
               <=> \E i \in 0 .. n - 1 : x \in {<<4 + 8 * i, 1>>, <<5 + 8 * i, 1>>, <<6 + 8 * i, 2>>, <<8 + 8 * i, 4>>}
    BY DEF KeyInfos, Columns
  <2>3. {<<4 + 8 * i + f[1], f[2]>> : i \in 0 .. n - 1, f \in block} = KeyInfos(n)
    BY <2>1, <2>2
  <2> QED  BY <1>1, <2>3 DEF Reads
<1>4. Tiled(Run(0, 1, 4) \union KeyInfos(n), 0, 4 + 8 * n)
  <2>1. l.base \in Nat /\ l.stride \in Nat /\ Tiled(l.fixed, 0, l.base) /\ Tiled(l.block, 0, l.stride)
    BY <1>1, <1>2
  <2>2. Tiled(Reads(l, n), 0, l.base + l.stride * n)
    BY <2>1, LayoutTiles
  <2> QED  BY <1>1, <1>3, <2>2
<1>5. Tiled(keys, 4 + 8 * n, size)
  BY KeysTile
<1>6. size \in Nat /\ 4 + 8 * n \in Nat /\ 4 + 8 * n <= size
  <2>1. n + 1 \in 1 .. n + 1
    OBVIOUS
  <2>2. Cardinality(KeyBytes(lengths, n + 1)) \in Nat
    BY <2>1, KeyBytesFinite
  <2> QED  BY <2>2
<1>7. RxmSpartnKey(n, lengths) = (Run(0, 1, 4) \union KeyInfos(n)) \union keys
  BY DEF RxmSpartnKey
<1> HIDE DEF keys, size
<1>8. Tiled(RxmSpartnKey(n, lengths), 0, size)
  BY <1>4, <1>5, <1>6, <1>7, TiledJoin
<1>9. InsideApart(RxmSpartnKey(n, lengths), size)
  BY <1>6, <1>8, TiledSpans
<1> QED  BY <1>9 DEF size

\* Every form, with any number of parts.
LEMMA FormsStayInside == FormsInside
<1>1. \A n \in 0 .. MaxBlocks : n \in Nat
  BY DecodeAssumption
<1>2. \A n \in 0 .. MaxBlocks : \A lengths \in [1 .. n -> KeyLengths] : lengths \in [1 .. n -> Nat]
  BY DecodeAssumption
<1>3. 0 \in Nat
  OBVIOUS
<1> QED  BY <1>1, <1>2, <1>3, VersionsStayInside, SignalsStayInside, KeysStayInside DEF FormsInside

\* A measurement of four bytes is read as eight, whichever is the last; a
\* calibration time after it has the bytes that are too many.
LEMMA MeasReadsPast ==
    ASSUME NEW n \in Nat
    PROVE  /\ Beyond(EsfMeas(n, TRUE), 12 + 4 * n) = {}
           /\ Beyond(EsfMeas(n, FALSE), 8 + 4 * n) = 8 + 4 * n .. 11 + 4 * n
<1> DEFINE Common == {<<0, 4>>, <<4, 8>>, <<6, 2>>} \union {<<8 + 4 * i, 8>> : i \in 0 .. n - 1}
<1>1. EsfMeas(n, FALSE) = Common /\ EsfMeas(n, TRUE) = Common \union {<<8 + 4 * n, 4>>}
  <2>1. Run(0, 4, 1) = {<<0, 4>>} /\ Run(6, 2, 1) = {<<6, 2>>}
    BY DEF Run, Columns
  <2> QED  BY <2>1 DEF EsfMeas, Columns
<1>2. \A f \in Common : f \in Nat \X Nat /\ f[1] + f[2] <= 12 + 4 * n
  OBVIOUS
<1>3. \A f \in EsfMeas(n, TRUE) : f \in Nat \X Nat /\ f[1] + f[2] <= 12 + 4 * n
  <2>1. LET f == <<8 + 4 * n, 4>> IN f \in Nat \X Nat /\ f[1] + f[2] <= 12 + 4 * n
    OBVIOUS
  <2> HIDE DEF Common
  <2> QED  BY <1>1, <1>2, <2>1
<1>4. Beyond(EsfMeas(n, TRUE), 12 + 4 * n) = {}
  <2> DEFINE fields == EsfMeas(n, TRUE)
  <2>1. \A f \in fields : f \in Nat \X Nat /\ f[1] + f[2] <= 12 + 4 * n
    BY <1>3
  <2> HIDE DEF fields
  <2>2. \A f \in fields : Span(f) \subseteq 0 .. (12 + 4 * n) - 1
    BY <2>1 DEF Span
  <2>3. Beyond(fields, 12 + 4 * n) = {}
    BY <2>2 DEF Beyond
  <2> QED  BY <2>3 DEF fields
<1>5. ASSUME NEW x \in Beyond(Common, 8 + 4 * n)
      PROVE  x \in 8 + 4 * n .. 11 + 4 * n
  <2>1. PICK f \in Common : x \in Span(f) /\ x \notin 0 .. 8 + 4 * n - 1
    BY <1>5 DEF Beyond
  <2> QED  BY <1>2, <2>1 DEF Span
<1>6. ASSUME NEW x \in 8 + 4 * n .. 11 + 4 * n
      PROVE  x \in Beyond(Common, 8 + 4 * n)
  <2>1. PICK f \in Common : x \in Span(f)
    <3>1. CASE n = 0
      <4>1. <<4, 8>> \in Common /\ x \in Span(<<4, 8>>)
        BY <3>1 DEF Span
      <4> QED  BY <4>1
    <3>2. CASE n # 0
      <4>1. n - 1 \in 0 .. n - 1 /\ <<8 + 4 * (n - 1), 8>> \in Common
        BY <3>2
      <4>2. x \in Span(<<8 + 4 * (n - 1), 8>>)
        BY DEF Span
      <4> QED  BY <4>1, <4>2
    <3> QED  BY <3>1, <3>2
  <2>2. x \notin 0 .. 8 + 4 * n - 1
    OBVIOUS
  <2> QED  BY <2>1, <2>2 DEF Beyond
<1>7. Beyond(Common, 8 + 4 * n) = 8 + 4 * n .. 11 + 4 * n
  BY <1>5, <1>6
<1> QED  BY <1>1, <1>4, <1>7

\* GnssDataOK's part about the decoders, which no step can change: whatever a
\* message counts and says of itself, its fields are read apart and inside the
\* payload the receiver sends; two messages are read past it, by 2 and 4 bytes.
THEOREM DecodersStayInside == DecodesInside
<1>1. MeasInside
  <2>1. \A n \in 0 .. MaxBlocks : n \in Nat
    BY DecodeAssumption
  <2> QED  BY <2>1, MeasReadsPast DEF MeasInside
<1> QED  BY <1>1, SinglesStayInside, BlocksStayInside, FormsStayInside DEF DecodesInside

-----------------------------------------------------------------------------
(* The parts together. *)

\* A step of the whole is a step of a part and leaves the others alone.
LEMMA PartsStep ==
    ASSUME [Next]_vars
    PROVE  /\ [ActNext]_actVars
           /\ [SwNext]_swVars
           /\ [NetNext]_netVars
           /\ [V2Next]_v2Vars
           /\ [UsbNext]_usbVars
           /\ [ParamsNext]_cfgVars
           /\ [FramesNext]_frameVars
           /\ [ClientsNext]_clientVars
           /\ [StartNext]_startVars
<1>1. CASE InActuator(ActNext)
  BY <1>1 DEF InActuator
<1>2. CASE InSwitches(SwNext)
  BY <1>2 DEF InSwitches
<1>3. CASE InNetwork(NetNext)
  BY <1>3 DEF InNetwork
<1>4. CASE InCharger(V2Next)
  BY <1>4 DEF InCharger
<1>5. CASE InUsb(UsbNext)
  BY <1>5 DEF InUsb
<1>6. CASE InParams(ParamsNext)
  BY <1>6 DEF InParams
<1>7. CASE InFrames(FramesNext)
  BY <1>7 DEF InFrames
<1>8. CASE InClients(ClientsNext)
  BY <1>8 DEF InClients
<1>9. CASE InStart(StartNext)
  BY <1>9 DEF InStart
<1>10. CASE UNCHANGED vars
  BY <1>10 DEF vars
<1> QED  BY <1>1, <1>2, <1>3, <1>4, <1>5, <1>6, <1>7, <1>8, <1>9, <1>10 DEF Next

\* Whatever part moves, the others stand still: all that is proved of a part alone
\* holds of the run of all.
THEOREM PartsRun ==
    Spec => /\ ActSpec /\ SwSpec /\ NetSpec /\ ChargerSpec
            /\ UsbSpec /\ ParamsSpec /\ FramesSpec /\ ClientsSpec /\ StartSpec
<1>1. Init => /\ ActInit /\ SwInit /\ NetInit /\ V2Init
              /\ UsbInit /\ ParamsInit /\ FramesInit /\ ClientsInit /\ StartInit
  BY DEF Init
<1> QED  BY <1>1, PartsStep, PTL
         DEF Spec, ActSpec, SwSpec, NetSpec, ChargerSpec, UsbSpec, ParamsSpec, FramesSpec, ClientsSpec, StartSpec

\* What the driver starts with and what it passes on fit, as long as it runs.
THEOREM DataFits == Spec => []GnssDataOK
<1>1. StartsConfigured /\ DecodesInside /\ FixesHold => GnssDataOK
  BY DEF GnssDataOK
<1> QED  BY <1>1, PartsRun, StartIsConfigured, DecodersStayInside, FixesJoin, PTL

\* Every variable keeps its type and its bounds, in every part.
THEOREM DevicesTyped == Spec => []DevTypeOK
<1>1. /\ ActTypeOK /\ SwTypeOK /\ NetTypeOK /\ V2TypeOK
      /\ UsbTypeOK /\ ParamsTypeOK /\ FramesTypeOK /\ ClientsTypeOK /\ StartTypeOK
      => DevTypeOK
  BY Zenon DEF DevTypeOK
<1> QED  BY <1>1, PartsRun, ActStaysTyped, SwitchesTyped, NetworkTyped, ChargerTyped, ConnectionTyped,
            ParamsTyped, FramesTyped, ClientsTyped, StartTyped, PTL
==============================================================================
