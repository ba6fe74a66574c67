------------------------------ MODULE DevConfig ------------------------------
(***************************************************************************)
(* iInitDevConfig of p2l.c as arithmetic: from the arguments of the call   *)
(* to the geometry and the regions the host's buffer is cut into.  The     *)
(* other modules take the results as constants; this one says for which    *)
(* arguments those constants are what they assume, and AddressFields for   *)
(* which of them a pAddr can be taken apart.                               *)
(*                                                                         *)
(* Sizes are those of the code: 16 KB pages, 1024 entries in a table page, *)
(* 32-bit int.                                                             *)
(***************************************************************************)
EXTENDS Integers, Sequences

CONSTANTS   \* arguments tried
    DevCaps,    \* GB
    DdrSizes,   \* MB
    ChCnts, PlaneCnts, PageCnts

\* Sizes and counts: the code does not look for negative ones.
ASSUME ArgumentsAssumption ==
    /\ DevCaps \subseteq Nat /\ DdrSizes \subseteq Nat
    /\ ChCnts \subseteq Nat /\ PlaneCnts \subseteq Nat /\ PageCnts \subseteq Nat

VARIABLES
    dev,        \* dev_mgr, lbn_mgr and p2l_mgr as far as the call decides them
    initRet     \* what the last call returned

devVars == <<dev, initRet>>

MaxChCnt == 8       \* D_MAX_CH_CNT
MaxPlaneCnt == 8    \* D_MAX_PLANE_CNT
MaxPageCnt == 4096  \* D_MAX_PAGE_CNT

\* devCap * 1024 * 1024 as a 32-bit int, in units of 2^20.
Int32Mega(devCap) == ((devCap + 2048) % 4096) - 2048

\* Mutant: the blocks of the device instead of those of a channel.
BlkCntPerDevice(devCap, chCnt, planeCnt, pageCnt) ==
    (Int32Mega(devCap) * 65536) \div (planeCnt * pageCnt)

\* dev_mgr.blkCnt.  C divides towards zero.
BlkCntOf(devCap, chCnt, planeCnt, pageCnt) ==
    LET mega == Int32Mega(devCap)
        pages == chCnt * planeCnt * pageCnt
    IN  IF mega >= 0 THEN (mega * 65536) \div pages
        ELSE -((-mega * 65536) \div pages)

\* A whole P2L table takes a quarter megabyte for each gigabyte.
DdrSize(ddrSize, devCap) ==
    IF ddrSize > devCap \div 4 THEN devCap \div 4 ELSE ddrSize

\* (int)log2(n), -1 standing for the undefined result of n < 1.
BitNum(n) ==
    IF n < 1 THEN -1
    ELSE CHOOSE k \in 0 .. 29 : 2 ^ k <= n /\ n < 2 ^ (k + 1)

\* Mutant: the limit of the planes is left out.
OverLimitsForgetsPlanes(chCnt, planeCnt, pageCnt) ==
    chCnt > MaxChCnt \/ pageCnt > MaxPageCnt

OverLimits(chCnt, planeCnt, pageCnt) ==
    chCnt > MaxChCnt \/ planeCnt > MaxPlaneCnt \/ pageCnt > MaxPageCnt

\* What an accepted call leaves behind.
Configured(devCap, ddrSize, chCnt, planeCnt, pageCnt) ==
    LET blkCnt == BlkCntOf(devCap, chCnt, planeCnt, pageCnt)
        ddr == DdrSize(ddrSize, devCap)
        entryPerBank == (ddr * 262144) \div chCnt
    IN  [devCap |-> devCap, ddrSize |-> ddr,
         chCnt |-> chCnt, blkCnt |-> blkCnt,
         planeCnt |-> planeCnt, pageCnt |-> pageCnt,
         lbnEntryCnt |-> blkCnt * chCnt * planeCnt * pageCnt,
         entryPerBank |-> entryPerBank,
         pagePerBank |-> entryPerBank \div 1024]

NoDev == [devCap |-> 0]

DevInit == dev = NoDev /\ initRet = 0

Crashed == -1

\* The block count is divided by the pages of a block, and lbnEntryPerBlk by
\* the block count.
DividesByZero(devCap, chCnt, planeCnt, pageCnt) ==
    \/ 0 \in {chCnt, planeCnt, pageCnt}
    \/ BlkCntOf(devCap, chCnt, planeCnt, pageCnt) = 0

InitDevConfig(devCap, ddrSize, chCnt, planeCnt, pageCnt) ==
    /\ initRet # Crashed
    /\ IF OverLimits(chCnt, planeCnt, pageCnt)
       THEN initRet' = 1 /\ UNCHANGED dev
       ELSE IF DividesByZero(devCap, chCnt, planeCnt, pageCnt)
       THEN /\ dev' = [devCap |-> devCap, chCnt |-> chCnt,
                       planeCnt |-> planeCnt, pageCnt |-> pageCnt]
            /\ initRet' = Crashed
       ELSE /\ dev' = Configured(devCap, ddrSize, chCnt, planeCnt, pageCnt)
            /\ initRet' = 0

DevNext ==
    \E devCap \in DevCaps, ddrSize \in DdrSizes,
       chCnt \in ChCnts, planeCnt \in PlaneCnts, pageCnt \in PageCnts :
          InitDevConfig(devCap, ddrSize, chCnt, planeCnt, pageCnt)

DevSpec == DevInit /\ [][DevNext]_devVars

-----------------------------------------------------------------------------
(* The buffer: regions one behind the other, words allocated and used.     *)

CeilDiv(n, m) == (n + m - 1) \div m

Region(words, used) == [words |-> words, used |-> used]

\* Mutant: a bit map word is taken to have 64 bits.
ValBitmapHalf(d) == d.entryPerBank \div (1024 * 64)

ValBitmapWords(d) == d.entryPerBank \div (1024 * 32)

\* pP2lValBitmap, pP2lDramTable, pP2lPageIdx, pChRestLbnNum, pChAllocLbn,
\* pBlk2Lbn, pBlkErCntTbl, pRdCntTbl and pIdlTimeTbl of a channel.
ChRegions(d) ==
    LET ofBlocks == Region(d.blkCnt, d.blkCnt)
    IN  <<Region(ValBitmapWords(d), CeilDiv(d.pagePerBank, 32)),
          Region(d.entryPerBank, d.pagePerBank * 1024),
          Region(d.entryPerBank \div 1024, d.pagePerBank),
          ofBlocks, ofBlocks, ofBlocks, ofBlocks, ofBlocks, ofBlocks>>

\* pLbnBuff and pP2lBitmap, the channels, pP2lSrcTable.  pDataPayload comes
\* last and is not used.
Regions(d) ==
    LET tblPages == CeilDiv(d.lbnEntryCnt, 1024)
    IN  <<Region(d.blkCnt * d.chCnt, d.blkCnt * d.chCnt),
          Region(d.lbnEntryCnt \div 1024, CeilDiv(tblPages, 32))>>
            \o [i \in 1 .. 9 * d.chCnt |-> ChRegions(d)[((i - 1) % 9) + 1]]
            \o <<Region(d.lbnEntryCnt, tblPages * 1024)>>

-----------------------------------------------------------------------------
PowerOfTwo(n) == n >= 1 /\ n = 2 ^ BitNum(n)

\* Capacities whose product with 2^20 is an int, and which have a bank.
CapInRange(d) == d.devCap \in 4 .. 2047 /\ d.ddrSize >= 1

CountsArePowers(d) ==
    /\ PowerOfTwo(d.chCnt) /\ PowerOfTwo(d.blkCnt)
    /\ PowerOfTwo(d.planeCnt) /\ PowerOfTwo(d.pageCnt)

\* A configuration is in force.
Ready == initRet # Crashed /\ dev # NoDev

Usable == Ready /\ CapInRange(dev) /\ CountsArePowers(dev)

\* What Geometry, P2lTable and LbnRing assume of their constants: counts that
\* are not 0, no table page with entries of two channels, a frame in every
\* bank, and 0 no LBN; and no more pages than the capacity has.
EstablishesAssumptions ==
    Usable =>
        LET chSpan == dev.blkCnt * dev.planeCnt * dev.pageCnt
        IN  /\ chSpan % 1024 = 0
            /\ dev.pagePerBank >= 1
            /\ dev.lbnEntryCnt >= 1024
            /\ dev.lbnEntryCnt <= dev.devCap * 65536

\* From 4 GB on, the largest blocks still leave one to every channel: a call
\* divides by zero only for a count that is 0 or a capacity out of range.
DividesSafely ==
    initRet = Crashed =>
        \/ 0 \in {dev.chCnt, dev.planeCnt, dev.pageCnt}
        \/ dev.devCap \notin 4 .. 2047

\* No table reaches into the one behind it, the bit maps included, whose
\* sizes are rounded down.
RegionsApart ==
    Usable =>
        \A i \in DOMAIN Regions(dev) :
            Regions(dev)[i].used <= Regions(dev)[i].words
=============================================================================
