---------------------------- MODULE Device_proofs ----------------------------
(***************************************************************************)
(* The device at its two ends: which arguments iInitDevConfig makes a      *)
(* sound geometry and sound tables of, whatever the arguments, and what    *)
(* the pattern interpreter makes of the host's patterns, for every         *)
(* geometry, every set of bytes and contents, and patterns of any length.  *)
(***************************************************************************)
EXTENDS DevConfig, VirtualDevice, SequenceTheorems, TLAPS

-----------------------------------------------------------------------------
(* iInitDevConfig.                                                         *)

\* 2^0 to 2^26.
Powers ==
    {1, 2, 4, 8, 16, 32, 64, 128, 256, 512, 1024, 2048, 4096, 8192, 16384, 32768,
     65536, 131072, 262144, 524288, 1048576, 2097152, 4194304, 8388608, 16777216,
     33554432, 67108864}

\* 2^16 pages of 16 KB for each of less than 2^11 GB: no block count reaches this.
BlkCntBound == 2 ^ 27

\* PowerOfTwo is what its name says, as far as blocks are counted.
LEMMA PowerOfTwoIs ==
    ASSUME NEW n \in Nat, n < BlkCntBound, PowerOfTwo(n)
    PROVE  n \in Powers
<1> DEFINE Two(i) == 2 ^ i
           Holds(i) == Two(i) <= n /\ n < Two(i + 1)
           k == BitNum(n)
<1>1. /\ Two(0) = 1 /\ Two(1) = 2 /\ Two(2) = 4 /\ Two(3) = 8
      /\ Two(4) = 16 /\ Two(5) = 32 /\ Two(6) = 64 /\ Two(7) = 128
      /\ Two(8) = 256 /\ Two(9) = 512 /\ Two(10) = 1024 /\ Two(11) = 2048
      /\ Two(12) = 4096 /\ Two(13) = 8192 /\ Two(14) = 16384 /\ Two(15) = 32768
      /\ Two(16) = 65536 /\ Two(17) = 131072 /\ Two(18) = 262144 /\ Two(19) = 524288
      /\ Two(20) = 1048576 /\ Two(21) = 2097152 /\ Two(22) = 4194304 /\ Two(23) = 8388608
      /\ Two(24) = 16777216 /\ Two(25) = 33554432 /\ Two(26) = 67108864
      /\ Two(27) = 134217728 /\ Two(28) = 268435456 /\ Two(29) = 536870912
      /\ BlkCntBound = Two(27)
    BY SMT DEF BlkCntBound
<1>2. n >= 1 /\ n = Two(k)
    BY SMT DEF PowerOfTwo
<1>3. k = CHOOSE i \in 0 .. 29 : Holds(i)
    <2>1. ~(n < 1)
        BY <1>2, SMT
    <2> QED
        BY <2>1, Zenon DEF BitNum
<1> HIDE DEF Two, k
<1>4. \E i \in 0 .. 29 : Holds(i)
    <2>1. \/ Holds(0) \/ Holds(1) \/ Holds(2) \/ Holds(3) \/ Holds(4) \/ Holds(5)
          \/ Holds(6) \/ Holds(7) \/ Holds(8) \/ Holds(9) \/ Holds(10) \/ Holds(11)
          \/ Holds(12) \/ Holds(13) \/ Holds(14) \/ Holds(15) \/ Holds(16) \/ Holds(17)
          \/ Holds(18) \/ Holds(19) \/ Holds(20) \/ Holds(21) \/ Holds(22) \/ Holds(23)
          \/ Holds(24) \/ Holds(25) \/ Holds(26)
        BY <1>1, <1>2, SMT
    <2> HIDE DEF Holds
    <2> QED
        BY <2>1, SMT
<1>5. k \in 0 .. 29 /\ Holds(k)
    <2> HIDE DEF Holds
    <2> QED
        BY <1>3, <1>4, SMT
<1> QED
    BY <1>1, <1>2, <1>5, SMT DEF Powers

\* Counts that are accepted and are not 0.
InLimits(chCnt, planeCnt, pageCnt) ==
    /\ chCnt \in Nat \ {0} /\ chCnt <= 8
    /\ planeCnt \in Nat \ {0} /\ planeCnt <= 8
    /\ pageCnt \in Nat \ {0} /\ pageCnt <= 4096

\* The pages of one block of every channel.
LEMMA PagesBound ==
    ASSUME NEW c, NEW l, NEW p, InLimits(c, l, p)
    PROVE  /\ c * l * p \in Nat \ {0}
           /\ c * l * p <= 262144
<1>1. c * l \in Nat \ {0} /\ c * l <= 64
    <2>1. c \in {1, 2, 3, 4, 5, 6, 7, 8} /\ l \in Nat \ {0} /\ l <= 8
        BY SMT DEF InLimits
    <2> QED
        BY <2>1, SMT
<1>2. p \in Nat \ {0} /\ p <= 4096
    BY SMT DEF InLimits
<1>3. ASSUME NEW x \in Nat \ {0}, x <= 64
      PROVE  x * p \in Nat \ {0} /\ x * p <= 262144
    <2>1. x * p <= 64 * p /\ 1 * p <= x * p
        BY <1>2, <1>3, SMT
    <2> QED
        BY <1>2, <2>1, SMT
<1> QED
    BY <1>1, <1>3, SMT

InRange(devCap) == devCap \in 4 .. 2047

\* The 16 KB pages of a capacity.
Total(devCap) == devCap * 65536

\* With a capacity in range every channel has a block, and the blocks do not
\* have more pages than the capacity.
LEMMA BlkCntIs ==
    ASSUME NEW devCap, NEW c, NEW l, NEW p, InRange(devCap), InLimits(c, l, p)
    PROVE  /\ BlkCntOf(devCap, c, l, p) = Total(devCap) \div (c * l * p)
           /\ BlkCntOf(devCap, c, l, p) \in Nat \ {0}
           /\ BlkCntOf(devCap, c, l, p) < BlkCntBound
           /\ BlkCntOf(devCap, c, l, p) * (c * l * p) <= Total(devCap)
<1> DEFINE pages == c * l * p
           total == Total(devCap)
<1>1. pages \in Nat \ {0} /\ pages <= 262144
    BY PagesBound, SMT
<1>2. Int32Mega(devCap) = devCap /\ devCap \in Nat
    BY SMT DEF Int32Mega, InRange
<1>3. BlkCntOf(devCap, c, l, p) = total \div pages
    BY <1>2, SMT DEF BlkCntOf, Total
<1>4. total \in Nat /\ 262144 <= total /\ total < BlkCntBound
    BY SMT DEF BlkCntBound, InRange, Total
<1> HIDE DEF pages, total
<1>5. /\ total \div pages \in Nat \ {0}
      /\ total \div pages <= total
      /\ (total \div pages) * pages <= total
    BY <1>1, <1>4, SMT
<1>6. total \div pages < BlkCntBound
    BY <1>4, <1>5, SMT DEF BlkCntBound
<1> QED
    BY <1>3, <1>5, <1>6, SMT DEF pages, total

-----------------------------------------------------------------------------
(* Products of powers of two.                                              *)

\* The pages a block can have if its counts are powers of two: 2^0 to 2^15.
BlkPages == {1, 2, 4, 8, 16, 32, 64, 128, 256, 512, 1024, 2048, 4096, 8192, 16384, 32768}

\* Accepted counts that are powers of two, channels apart and the others together.
LEMMA CountPowers ==
    ASSUME NEW c, NEW l, NEW p, InLimits(c, l, p),
           PowerOfTwo(c), PowerOfTwo(l), PowerOfTwo(p)
    PROVE  c \in {1, 2, 4, 8} /\ l * p \in BlkPages
<1>1. /\ c \in Nat /\ c <= 8 /\ l \in Nat /\ l <= 8
      /\ p \in Nat /\ p <= 4096
      /\ BlkCntBound \in Nat /\ 4096 < BlkCntBound
    BY SMT DEF InLimits, BlkCntBound
<1>2. c \in Powers /\ l \in Powers /\ p \in Powers
    <2>1. c < BlkCntBound /\ l < BlkCntBound /\ p < BlkCntBound
        BY <1>1, SMT
    <2> QED
        BY <1>1, <2>1, PowerOfTwoIs, SMT
<1>3. c \in {1, 2, 4, 8} /\ l \in {1, 2, 4, 8}
    BY <1>1, <1>2, SMT DEF Powers
<1>4. p \in {1, 2, 4, 8, 16, 32, 64, 128, 256, 512, 1024, 2048, 4096}
    BY <1>1, <1>2, SMT DEF Powers
<1> QED
    BY <1>3, <1>4, SMT DEF BlkPages

\* What is left of a quotient is less than the divisor.
LEMMA QuotientSpan ==
    ASSUME NEW a \in Nat, NEW n \in Nat \ {0}
    PROVE  (a \div n) * n <= a /\ a < (a \div n) * n + n
BY SMT

\* The product of two powers is a power.
LEMMA PowersMultiply ==
    ASSUME NEW b \in Powers, NEW s \in BlkPages, b * s < BlkCntBound
    PROVE  b * s \in Powers
<1> DEFINE Good(x) == b * x < BlkCntBound => b * x \in Powers
<1>1. Good(1)
    BY SMT DEF Powers, BlkCntBound
<1>2. Good(2)
    BY SMT DEF Powers, BlkCntBound
<1>3. Good(4)
    BY SMT DEF Powers, BlkCntBound
<1>4. Good(8)
    BY SMT DEF Powers, BlkCntBound
<1>5. Good(16)
    BY SMT DEF Powers, BlkCntBound
<1>6. Good(32)
    BY SMT DEF Powers, BlkCntBound
<1>7. Good(64)
    BY SMT DEF Powers, BlkCntBound
<1>8. Good(128)
    BY SMT DEF Powers, BlkCntBound
<1>9. Good(256)
    BY SMT DEF Powers, BlkCntBound
<1>10. Good(512)
    BY SMT DEF Powers, BlkCntBound
<1>11. Good(1024)
    BY SMT DEF Powers, BlkCntBound
<1>12. Good(2048)
    BY SMT DEF Powers, BlkCntBound
<1>13. Good(4096)
    BY SMT DEF Powers, BlkCntBound
<1>14. Good(8192)
    BY SMT DEF Powers, BlkCntBound
<1>15. Good(16384)
    BY SMT DEF Powers, BlkCntBound
<1>16. Good(32768)
    BY SMT DEF Powers, BlkCntBound
<1> HIDE DEF Good
<1>17. Good(s)
    BY <1>1, <1>2, <1>3, <1>4, <1>5, <1>6, <1>7, <1>8, <1>9, <1>10, <1>11, <1>12,
       <1>13, <1>14, <1>15, <1>16, SMT DEF BlkPages
<1> QED
    BY <1>17, SMT DEF Good

\* Both the pages of a block and the blocks of a channel are powers of two and
\* together at least 2^15: table pages are not shared by channels.
LEMMA ChannelPages ==
    ASSUME NEW devCap, InRange(devCap),
           NEW c \in {1, 2, 4, 8}, NEW s \in BlkPages,
           NEW b \in Powers, b = Total(devCap) \div (c * s)
    PROVE  \E m \in Nat \ {0} : b * s = 1024 * m
<1> DEFINE total == Total(devCap)
           p == c * s
<1>1. /\ b \in Nat \ {0} /\ s \in Nat \ {0}
      /\ p \in Nat \ {0} /\ p <= 262144
    BY SMT DEF Powers, BlkPages
<1>2. total \in Nat /\ total >= 262144 /\ total < BlkCntBound
    BY SMT DEF BlkCntBound, Total, InRange
<1> HIDE DEF total
<1>3. b * s * c = b * p
    BY <1>1, SMT
<1> HIDE DEF p
<1>4. b * p <= total /\ total < b * p + p
    <2>1. b = total \div p
        BY SMT DEF total, p
    <2>2. total \in Nat /\ p \in Nat \ {0}
        BY <1>1, <1>2, SMT
    <2> QED
        BY <2>1, <2>2, QuotientSpan, Zenon
<1>5. p <= b * p
    BY <1>1, SMT
<1>6. b * p >= 131072 /\ b * p <= total
    BY <1>1, <1>2, <1>4, <1>5, SMT
<1>7. b * s \in Nat \ {0} /\ b * s >= 16384 /\ b * s <= total
    <2>1. b * s \in Nat \ {0}
        BY <1>1, SMT
    <2> DEFINE x == b * s
    <2> HIDE DEF x
    <2>2. x * c >= 131072 /\ x * c <= total
        BY <1>3, <1>6, SMT DEF x
    <2>3. x \in Nat \ {0}
        BY <2>1, SMT DEF x
    <2>4. x >= 16384 /\ x <= total
        BY <1>2, <2>2, <2>3, SMT
    <2> QED
        BY <2>3, <2>4, SMT DEF x
<1>8. b * s \in Powers
    <2>1. b * s < BlkCntBound
        BY <1>2, <1>7, SMT DEF BlkCntBound
    <2> QED
        BY <2>1, PowersMultiply, SMT
<1>9. ASSUME NEW x \in Powers, x >= 16384
      PROVE  \E m \in Nat \ {0} : x = 1024 * m
    <2>1. x \div 1024 \in Nat \ {0} /\ x = 1024 * (x \div 1024)
        BY <1>9, SMT DEF Powers
    <2> QED
        BY <2>1, SMT
<1> QED
    BY <1>7, <1>8, <1>9, SMT

-----------------------------------------------------------------------------
(* The calls.                                                              *)

\* dev is the outcome of an accepted call, and of one that divided by zero
\* as far as it got.
ConfigInv ==
    /\ initRet # Crashed =>
          \/ dev = NoDev
          \/ \E devCap \in Nat, ddrSize \in Nat, c \in Nat, l \in Nat, p \in Nat :
                /\ InLimits(c, l, p)
                /\ dev = Configured(devCap, ddrSize, c, l, p)
    /\ initRet = Crashed =>
          \E devCap \in Nat, c \in Nat, l \in Nat, p \in Nat :
             /\ ~OverLimits(c, l, p) /\ DividesByZero(devCap, c, l, p)
             /\ dev = [devCap |-> devCap, chCnt |-> c, planeCnt |-> l, pageCnt |-> p]

\* What the limits refuse and what a division ends leave nothing else.
LEMMA InLimitsIs ==
    ASSUME NEW devCap \in Nat, NEW c \in Nat, NEW l \in Nat, NEW p \in Nat,
           ~OverLimits(c, l, p), ~DividesByZero(devCap, c, l, p)
    PROVE  InLimits(c, l, p)
<1>1. c # 0 /\ l # 0 /\ p # 0
    BY SMT DEF DividesByZero
<1> QED
    BY <1>1, SMT DEF InLimits, OverLimits, MaxChCnt, MaxPlaneCnt, MaxPageCnt

\* Every call leaves the outcome of the last accepted one, or none.
LEMMA DevSpecConfigInv == DevSpec => []ConfigInv
<1>1. DevInit => ConfigInv
    BY SMT DEF DevInit, ConfigInv, Crashed
<1>2. ConfigInv /\ [DevNext]_devVars => ConfigInv'
    <2> SUFFICES ASSUME ConfigInv, [DevNext]_devVars
                 PROVE  ConfigInv'
        OBVIOUS
    <2>1. ASSUME NEW devCap \in DevCaps, NEW ddrSize \in DdrSizes,
                 NEW c \in ChCnts, NEW l \in PlaneCnts, NEW p \in PageCnts,
                 InitDevConfig(devCap, ddrSize, c, l, p)
          PROVE  ConfigInv'
        <3>1. /\ devCap \in Nat /\ ddrSize \in Nat
              /\ c \in Nat /\ l \in Nat /\ p \in Nat
            BY ArgumentsAssumption
        <3>2. initRet # Crashed /\ 1 # Crashed /\ 0 # Crashed
            BY <2>1, SMT DEF InitDevConfig, Crashed
        <3>3. CASE OverLimits(c, l, p)
            BY <2>1, <3>2, <3>3, Zenon DEF InitDevConfig, ConfigInv
        <3>4. CASE ~OverLimits(c, l, p) /\ DividesByZero(devCap, c, l, p)
            BY <2>1, <3>1, <3>2, <3>4, Zenon DEF InitDevConfig, ConfigInv
        <3>5. CASE ~OverLimits(c, l, p) /\ ~DividesByZero(devCap, c, l, p)
            BY <2>1, <3>1, <3>2, <3>5, InLimitsIs, Zenon DEF InitDevConfig, ConfigInv
        <3> QED
            BY <3>3, <3>4, <3>5
    <2>2. CASE UNCHANGED devVars
        BY <2>2, Zenon DEF devVars, ConfigInv
    <2> QED
        BY <2>1, <2>2 DEF DevNext
<1> QED
    BY <1>1, <1>2, PTL DEF DevSpec

\* iInitDevConfig divides by zero only for a count that is 0 or a capacity
\* whose bytes are no int: from 4 GB on every channel has a block.
THEOREM ConfigDividesSafely == DevSpec => []DividesSafely
<1>1. ConfigInv => DividesSafely
    <2> SUFFICES ASSUME ConfigInv, initRet = Crashed, InRange(dev.devCap)
                 PROVE  0 \in {dev.chCnt, dev.planeCnt, dev.pageCnt}
        BY SMT DEF DividesSafely, InRange
    <2>1. PICK devCap \in Nat, c \in Nat, l \in Nat, p \in Nat :
             /\ ~OverLimits(c, l, p) /\ DividesByZero(devCap, c, l, p)
             /\ dev = [devCap |-> devCap, chCnt |-> c, planeCnt |-> l, pageCnt |-> p]
        BY SMT DEF ConfigInv
    <2>2. InRange(devCap)
        BY <2>1, SMT
    <2>3. dev.chCnt = c /\ dev.planeCnt = l /\ dev.pageCnt = p
        BY <2>1, SMT
    <2>4. CASE 0 \notin {c, l, p}
        <3>1. InLimits(c, l, p)
            BY <2>1, <2>4, SMT DEF InLimits, OverLimits, MaxChCnt, MaxPlaneCnt, MaxPageCnt
        <3>2. BlkCntOf(devCap, c, l, p) \in Nat \ {0}
            BY <2>2, <3>1, BlkCntIs, Zenon
        <3>3. BlkCntOf(devCap, c, l, p) # 0
            BY <3>2, SMT
        <3> QED
            BY <2>1, <2>4, <3>3, Zenon DEF DividesByZero
    <2> QED
        BY <2>3, <2>4
<1> QED
    BY <1>1, DevSpecConfigInv, PTL

-----------------------------------------------------------------------------
(* Usable configurations.                                                  *)

\* The 32-bit words of a DDR.
Words(ddrSize) == ddrSize * 262144

\* Entries of a table page, and the table pages of so many words.
PageEntries == 1024
PagesIn(words) == words \div PageEntries

\* What such a configuration is, in numbers.
LEMMA UsableIs ==
    ASSUME ConfigInv, Usable
    PROVE  /\ dev.chCnt \in {1, 2, 4, 8}
           /\ dev.blkCnt \in Nat \ {0}
           /\ dev.planeCnt \in Nat \ {0} /\ dev.pageCnt \in Nat \ {0}
           /\ \E m \in Nat \ {0} : dev.blkCnt * dev.planeCnt * dev.pageCnt = PageEntries * m
           /\ dev.lbnEntryCnt =
                 dev.chCnt * (dev.blkCnt * dev.planeCnt * dev.pageCnt)
           /\ dev.lbnEntryCnt <= Total(dev.devCap)
           /\ dev.ddrSize \in Nat \ {0}
           /\ dev.entryPerBank = Words(dev.ddrSize) \div dev.chCnt
           /\ dev.pagePerBank = PagesIn(dev.entryPerBank)
<1>1. /\ initRet # Crashed /\ dev # NoDev /\ InRange(dev.devCap) /\ dev.ddrSize >= 1
      /\ PowerOfTwo(dev.chCnt) /\ PowerOfTwo(dev.blkCnt)
      /\ PowerOfTwo(dev.planeCnt) /\ PowerOfTwo(dev.pageCnt)
    BY SMT DEF Usable, Ready, CapInRange, CountsArePowers, InRange
<1>2. PICK devCap \in Nat, ddrSize \in Nat, c \in Nat, l \in Nat, p \in Nat :
         InLimits(c, l, p) /\ dev = Configured(devCap, ddrSize, c, l, p)
    BY <1>1, Zenon DEF ConfigInv
<1> DEFINE b == BlkCntOf(devCap, c, l, p)
<1>3. /\ dev.devCap = devCap /\ dev.chCnt = c /\ dev.planeCnt = l /\ dev.pageCnt = p
      /\ dev.blkCnt = b /\ dev.ddrSize = DdrSize(ddrSize, devCap)
      /\ dev.lbnEntryCnt = b * c * l * p
      /\ dev.entryPerBank = Words(dev.ddrSize) \div c
      /\ dev.pagePerBank = PagesIn(dev.entryPerBank)
    BY <1>2, SMT DEF Configured, Words, PagesIn, PageEntries
<1>4. InRange(devCap) /\ dev.ddrSize >= 1
    BY <1>1, <1>3, Zenon
<1>5. /\ b = Total(devCap) \div (c * l * p) /\ b \in Nat \ {0}
      /\ b < BlkCntBound /\ b * (c * l * p) <= Total(devCap)
    BY <1>2, <1>4, BlkCntIs, Zenon
<1>6. dev.ddrSize \in Nat \ {0}
    <2>1. DdrSize(ddrSize, devCap) \in Nat
        BY SMT DEF DdrSize
    <2> QED
        BY <1>3, <1>4, <2>1, SMT
<1>7. c \in {1, 2, 4, 8} /\ l * p \in BlkPages
    BY <1>1, <1>2, <1>3, CountPowers, Zenon
<1>8. b \in Powers
    <2>1. b \in Nat /\ PowerOfTwo(b)
        BY <1>1, <1>3, <1>5, Zenon
    <2> QED
        BY <1>5, <2>1, PowerOfTwoIs, Zenon
<1>9. l \in Nat \ {0} /\ p \in Nat \ {0} /\ c \in Nat \ {0}
    BY <1>2, SMT DEF InLimits
<1> HIDE DEF b
<1>10. /\ c * l * p = c * (l * p)
       /\ b * l * p = b * (l * p)
       /\ b * c * l * p = c * (b * l * p)
       /\ b * (c * l * p) = c * (b * l * p)
    <2>1. b \in Nat
        BY <1>5, SMT
    <2> QED
        BY <1>9, <2>1, SMT
<1>11. b = Total(devCap) \div (c * (l * p))
    BY <1>5, <1>10, Zenon
<1>12. \E m \in Nat \ {0} : b * (l * p) = PageEntries * m
    BY <1>4, <1>7, <1>8, <1>11, ChannelPages, SMT DEF PageEntries
<1> QED
    BY <1>3, <1>5, <1>6, <1>7, <1>9, <1>10, <1>12, SMT

\* Every usable configuration is one the other modules are made for: table pages of
\* one channel each, a frame in every bank, at least a table page of LBNs, so that
\* 0 is none, and no more pages than the capacity has.
THEOREM ConfigEstablishesAssumptions == DevSpec => []EstablishesAssumptions
<1>1. ConfigInv => EstablishesAssumptions
    <2> SUFFICES ASSUME ConfigInv, Usable
                 PROVE  EstablishesAssumptions
        BY SMT DEF EstablishesAssumptions
    <2> DEFINE span == dev.blkCnt * dev.planeCnt * dev.pageCnt
    <2>1. /\ dev.chCnt \in {1, 2, 4, 8}
          /\ \E m \in Nat \ {0} : span = PageEntries * m
          /\ dev.lbnEntryCnt = dev.chCnt * span
          /\ dev.lbnEntryCnt <= Total(dev.devCap)
          /\ dev.ddrSize \in Nat \ {0}
          /\ dev.entryPerBank = Words(dev.ddrSize) \div dev.chCnt
          /\ dev.pagePerBank = PagesIn(dev.entryPerBank)
        BY UsableIs, SMT
    <2> HIDE DEF span
    <2>2. span % 1024 = 0 /\ dev.lbnEntryCnt >= 1024
        BY <2>1, SMT DEF PageEntries
    <2>3. dev.pagePerBank >= 1
        BY <2>1, SMT DEF Words, PagesIn, PageEntries
    <2>4. dev.lbnEntryCnt <= dev.devCap * 65536
        BY <2>1, SMT DEF Total
    <2> QED
        BY <2>2, <2>3, <2>4, SMT DEF EstablishesAssumptions, span
<1> QED
    BY <1>1, DevSpecConfigInv, PTL

\* No region of such a list is used past its end.
Fits(regions) == \A i \in DOMAIN regions : regions[i].used <= regions[i].words

\* Lists one behind the other.
LEMMA FitsConcat ==
    ASSUME NEW S, NEW s \in Seq(S), NEW t \in Seq(S), Fits(s), Fits(t)
    PROVE  s \o t \in Seq(S) /\ Fits(s \o t)
<1>1. s \o t \in Seq(S)
    BY SMT
<1>2. ASSUME NEW i \in DOMAIN (s \o t)
      PROVE  (s \o t)[i].used <= (s \o t)[i].words
    <2>1. CASE i <= Len(s)
        <3>1. i \in DOMAIN s /\ (s \o t)[i] = s[i]
            BY <2>1, SMT
        <3> QED
            BY <3>1, Zenon DEF Fits
    <2>2. CASE i > Len(s)
        <3>1. i - Len(s) \in DOMAIN t /\ (s \o t)[i] = t[i - Len(s)]
            BY <2>2, SMT
        <3> QED
            BY <3>1, Zenon DEF Fits
    <2> QED
        BY <2>1, <2>2, SMT
<1> QED
    BY <1>1, <1>2, Zenon DEF Fits

\* The regions of a channel, the last six alike.
LEMMA NineFit ==
    ASSUME NEW S, NEW a \in S, NEW b \in S, NEW c \in S, NEW d \in S,
           a.used <= a.words, b.used <= b.words, c.used <= c.words, d.used <= d.words
    PROVE  /\ <<a, b, c, d, d, d, d, d, d>> \in Seq(S)
           /\ Len(<<a, b, c, d, d, d, d, d, d>>) = 9
           /\ Fits(<<a, b, c, d, d, d, d, d, d>>)
<1> DEFINE s == <<a, b, c, d, d, d, d, d, d>>
<1>1. s \in Seq(S) /\ Len(s) = 9 /\ DOMAIN s = 1 .. 9
    BY SMT
<1>2. /\ s[1] = a /\ s[2] = b /\ s[3] = c /\ s[4] = d /\ s[5] = d
      /\ s[6] = d /\ s[7] = d /\ s[8] = d /\ s[9] = d
    BY SMT
<1> HIDE DEF s
<1>3. \A i \in 1 .. 9 : s[i] \in {a, b, c, d}
    BY <1>2, SMT
<1>4. Fits(s)
    BY <1>1, <1>3, Zenon DEF Fits
<1> QED
    BY <1>1, <1>4, Zenon DEF s

\* The same regions once more for every channel.
LEMMA RepeatsFit ==
    ASSUME NEW S, NEW s \in Seq(S), Len(s) = 9, Fits(s), NEW n \in Nat
    PROVE  /\ [i \in 1 .. 9 * n |-> s[((i - 1) % 9) + 1]] \in Seq(S)
           /\ Fits([i \in 1 .. 9 * n |-> s[((i - 1) % 9) + 1]])
<1> DEFINE At(i) == ((i - 1) % 9) + 1
           r == [i \in 1 .. 9 * n |-> s[At(i)]]
<1>1. \A i \in 1 .. 9 * n : At(i) \in 1 .. 9
    BY SMT
<1>2. 9 * n \in Nat /\ DOMAIN s = 1 .. 9
    BY SMT
<1>3. \A j \in 1 .. 9 : s[j] \in S
    BY ElementOfSeq
<1> HIDE DEF At
<1>4. r \in [1 .. 9 * n -> S] /\ DOMAIN r = 1 .. 9 * n
    BY <1>1, <1>3, Zenon
<1>5. \A i \in 1 .. 9 * n : r[i] = s[At(i)]
    BY Zenon
<1> HIDE DEF r
<1>6. r \in Seq(S)
    <2> DEFINE k == 9 * n
    <2>1. k \in Nat /\ r \in [1 .. k -> S]
        BY <1>2, <1>4
    <2> HIDE DEF k
    <2> QED
        BY <2>1, SMT
<1>7. Fits(r)
    BY <1>1, <1>2, <1>4, <1>5, Zenon DEF Fits
<1> QED
    BY <1>6, <1>7, Zenon DEF r, At

\* A table for every entry of the bank, and what the rounded sizes of the bit
\* maps leave: a bank has whole words of them, since its pages are a multiple of 32.
LEMMA BankFits ==
    ASSUME NEW ddr \in Nat \ {0}, NEW c \in {1, 2, 4, 8}, NEW entries, NEW pages,
           entries = (ddr * 262144) \div c, pages = entries \div 1024
    PROVE  /\ entries \in Nat /\ pages \in Nat
           /\ CeilDiv(pages, 32) \in Nat /\ entries \div 32768 \in Nat
           /\ CeilDiv(pages, 32) <= entries \div 32768
           /\ pages * 1024 <= entries
BY SMT DEF CeilDiv

\* One word for each table page holds more bits than there are pages.
LEMMA SourceFits ==
    ASSUME NEW m \in Nat \ {0}, NEW e, e = 1024 * m
    PROVE  /\ CeilDiv(e, 1024) = m
           /\ e \div 1024 = m
           /\ CeilDiv(m, 32) \in Nat /\ CeilDiv(m, 32) <= m
           /\ m * 1024 <= e
BY SMT DEF CeilDiv

\* With a usable configuration no table of the simulator reaches into the one behind
\* it, although iInitDevConfig rounds the sizes of the bit maps down.
THEOREM ConfigRegionsApart == DevSpec => []RegionsApart
<1>1. ConfigInv => RegionsApart
    <2> SUFFICES ASSUME ConfigInv, Usable
                 PROVE  Fits(Regions(dev))
        BY SMT DEF RegionsApart, Fits
    <2> DEFINE Sizes == [words : Nat, used : Nat]
               blks == dev.blkCnt
               entries == dev.entryPerBank
               pages == dev.pagePerBank
               lbns == dev.lbnEntryCnt
               ofChannel == ChRegions(dev)
               ofChannels == [i \in 1 .. 9 * dev.chCnt |-> ofChannel[((i - 1) % 9) + 1]]
               tblPages == CeilDiv(lbns, 1024)
               first == <<Region(blks * dev.chCnt, blks * dev.chCnt),
                          Region(lbns \div 1024, CeilDiv(tblPages, 32))>>
               last == <<Region(lbns, tblPages * 1024)>>
    <2>1. /\ dev.chCnt \in {1, 2, 4, 8} /\ blks \in Nat \ {0}
          /\ \E m \in Nat \ {0} : dev.blkCnt * dev.planeCnt * dev.pageCnt = 1024 * m
          /\ lbns = dev.chCnt * (dev.blkCnt * dev.planeCnt * dev.pageCnt)
          /\ dev.ddrSize \in Nat \ {0}
          /\ entries = (dev.ddrSize * 262144) \div dev.chCnt
          /\ pages = entries \div 1024
        BY UsableIs, SMT DEF Words, PagesIn, PageEntries
    <2>2. PICK m \in Nat \ {0} : lbns = 1024 * m
        <3>1. PICK k \in Nat \ {0} : dev.blkCnt * dev.planeCnt * dev.pageCnt = 1024 * k
            BY <2>1, SMT
        <3>2. lbns = 1024 * (dev.chCnt * k) /\ dev.chCnt * k \in Nat \ {0}
            BY <2>1, <3>1, SMT
        <3> QED
            BY <3>2, SMT
    <2>3. /\ tblPages = m /\ lbns \div 1024 = m
          /\ CeilDiv(m, 32) \in Nat /\ CeilDiv(m, 32) <= m
          /\ m * 1024 <= lbns
        BY <2>2, SourceFits, SMT
    <2>4. /\ entries \in Nat /\ pages \in Nat
          /\ CeilDiv(pages, 32) \in Nat /\ entries \div 32768 \in Nat
          /\ CeilDiv(pages, 32) <= entries \div 32768
          /\ pages * 1024 <= entries
        BY <2>1, BankFits, SMT
    <2>5. ofChannel \in Seq(Sizes) /\ Len(ofChannel) = 9 /\ Fits(ofChannel)
        <3>1. /\ Region(ValBitmapWords(dev), CeilDiv(pages, 32)) \in Sizes
              /\ Region(entries, pages * 1024) \in Sizes
              /\ Region(entries \div 1024, pages) \in Sizes
              /\ Region(blks, blks) \in Sizes
            BY <2>1, <2>4, SMT DEF Region, ValBitmapWords
        <3>2. ValBitmapWords(dev) = entries \div 32768
            BY SMT DEF ValBitmapWords
        <3>3. entries \div 1024 = pages
            BY <2>1, SMT
        <3> DEFINE a == Region(ValBitmapWords(dev), CeilDiv(pages, 32))
                   b == Region(entries, pages * 1024)
                   c == Region(entries \div 1024, pages)
                   d == Region(blks, blks)
        <3>4. /\ a.used <= a.words /\ b.used <= b.words
              /\ c.used <= c.words /\ d.used <= d.words
            BY <2>1, <2>4, <3>2, <3>3, SMT DEF Region
        <3>5. ofChannel = <<a, b, c, d, d, d, d, d, d>>
            BY SMT DEF ChRegions
        <3> HIDE DEF a, b, c, d, Sizes, ofChannel
        <3>6. a \in Sizes /\ b \in Sizes /\ c \in Sizes /\ d \in Sizes
            BY <3>1, Zenon DEF a, b, c, d
        <3> QED
            BY <3>4, <3>5, <3>6, NineFit, Zenon
    <2>6. ofChannels \in Seq(Sizes) /\ Fits(ofChannels)
        <3> HIDE DEF ofChannel, Sizes
        <3>1. dev.chCnt \in Nat
            BY <2>1, SMT
        <3> QED
            BY <2>5, <3>1, RepeatsFit, Zenon
    <2>7. first \in Seq(Sizes) /\ Fits(first)
        <3>1. blks * dev.chCnt \in Nat
            BY <2>1, SMT
        <3> QED
            BY <2>3, <3>1, SMT DEF Region, Fits
    <2>8. last \in Seq(Sizes) /\ Fits(last)
        BY <2>2, <2>3, SMT DEF Region, Fits
    <2>9. Regions(dev) = first \o ofChannels \o last
        BY DEF Regions
    <2> HIDE DEF first, ofChannels, last, Sizes
    <2>10. first \o ofChannels \in Seq(Sizes) /\ Fits(first \o ofChannels)
        BY <2>6, <2>7, FitsConcat, Zenon
    <2>11. Fits((first \o ofChannels) \o last)
        BY <2>8, <2>10, FitsConcat, Zenon
    <2> QED
        BY <2>9, <2>11, Zenon
<1> QED
    BY <1>1, DevSpecConfigInv, PTL

-----------------------------------------------------------------------------
(* Addresses.                                                              *)

LEMMA DivModType ==
    ASSUME NEW a \in Nat, NEW b \in Nat \ {0}
    PROVE  /\ a \div b \in Nat
           /\ a % b \in 0 .. b - 1
           /\ a = b * (a \div b) + (a % b)
BY SMT

\* A number below its divisor is its own remainder, and has no quotient.
LEMMA DivModSmall ==
    ASSUME NEW b \in Nat \ {0}, NEW a \in Nat, a < b
    PROVE  a \div b = 0 /\ a % b = a
BY SMT

\* One digit more.
LEMMA Digit ==
    ASSUME NEW m \in Nat \ {0}, NEW n \in Nat \ {0}, NEW x \in 0 .. m - 1, NEW y \in 0 .. n - 1
    PROVE  y * m + x \in 0 .. n * m - 1
<1>1. (y + 1) * m <= n * m
    BY SMT
<1>2. (y + 1) * m = y * m + m
    BY SMT
<1>3. y * m \in Nat /\ n * m \in Nat
    BY SMT
<1> QED
    BY <1>1, <1>2, <1>3, SMT

LEMMA Spans == BlkSpan \in Nat \ {0} /\ ChSpan \in Nat \ {0}
<1>1. \A x, y \in Nat \ {0} : x * y \in Nat \ {0}
    BY SMT
<1> QED
    BY <1>1, CountsPositive DEF BlkSpan, ChSpan

LEMMA PAddrInAddr ==
    ASSUME NEW ch \in 0 .. ChCnt - 1, NEW blk \in 0 .. BlkCnt - 1,
           NEW plane \in 0 .. PlaneCnt - 1, NEW page \in 0 .. PageCnt - 1
    PROVE  PAddr(ch, blk, plane, page) \in Addr
<1> DEFINE x == plane * PageCnt + page
           y == blk * BlkSpan + x
<1>1. x \in 0 .. BlkSpan - 1
    BY CountsPositive, Digit DEF BlkSpan
<1>2. y \in 0 .. ChSpan - 1
    <2> HIDE DEF x
    <2> QED
        BY <1>1, CountsPositive, Spans, Digit DEF ChSpan
<1>3. ch * ChSpan + y \in 0 .. ChCnt * ChSpan - 1
    <2> HIDE DEF y
    <2> QED
        BY <1>2, CountsPositive, Spans, Digit
<1>4. /\ ch * ChSpan \in Nat /\ blk * BlkSpan \in Nat /\ plane * PageCnt \in Nat
    BY CountsPositive, Spans, SMT
<1>5. PAddr(ch, blk, plane, page) = ch * ChSpan + y
    BY <1>4 DEF PAddr
<1> QED
    BY <1>3, <1>5 DEF Addr

\* A field shifted back up is a number, and zero when the address is.
LEMMA FieldType ==
    ASSUME NEW a \in Nat, NEW s \in Nat \ {0}, NEW n \in Nat \ {0}
    PROVE  /\ ((a \div s) % n) * s \in Nat
           /\ a = 0 => ((a \div s) % n) * s = 0
<1> DEFINE q == a \div s
           k == q % n
<1>1. q \in Nat
    BY DivModType
<1>2. k \in Nat
    BY <1>1, DivModType
<1>3. a = 0 => k = 0
    BY DivModSmall
<1> HIDE DEF k
<1>4. k * s \in Nat /\ (k = 0 => k * s = 0)
    BY <1>2, SMT
<1> QED
    BY <1>3, <1>4 DEF k

\* A field that a byte cannot reach, or that comes out at or past its count.
LEMMA FieldZero ==
    ASSUME NEW a \in 0 .. 255, NEW s \in Nat \ {0}, NEW n \in Nat \ {0},
           n <= s \/ s > 255, ((a \div s) % n) * s < n
    PROVE  ((a \div s) % n) * s = 0
<1> DEFINE k == (a \div s) % n
<1>1. k \in Nat
    BY DivModType
<1>2. CASE s > 255
    <2>1. a < s /\ a \in Nat
        BY <1>2
    <2>2. a \div s = 0
        BY <2>1, DivModSmall
    <2>3. k = 0
        BY <2>2, DivModSmall
    <2> QED
        BY <2>3
<1>3. CASE n <= s
    <2> HIDE DEF k
    <2>1. k * s < n
        BY DEF k
    <2>2. k # 0 => k * s >= s
        BY <1>1, SMT
    <2>3. k = 0
        BY <1>1, <1>3, <2>1, <2>2
    <2> QED
        BY <2>3 DEF k
<1> QED
    BY <1>2, <1>3

LEMMA JoinedType ==
    ASSUME NEW byte \in Nat
    PROVE  Joined(byte) \in 0 .. 255
BY DEF Joined

\* The bytes that are joined to an address.
LEMMA ShiftedType ==
    ASSUME NEW val \in Byte, NEW s \in Shifted(val)
    PROVE  s \in Nat
BY InputsAssumption DEF Shifted

LEMMA RowType ==
    ASSUME address \in 0 .. 255
    PROVE  RowAddress \in 0 .. 255 /\ (address = 0 => RowAddress = 0)
<1>1. address \div 65536 = 0
    BY DivModSmall
<1> QED
    BY <1>1 DEF RowAddress

LEMMA GenAddressType ==
    ASSUME address \in 0 .. 255
    PROVE  /\ GenAddress.page \in 0 .. PageCnt - 1
           /\ GenAddress.plane \in Nat /\ GenAddress.block \in Nat /\ GenAddress.ch \in Nat
           /\ address = 0 => /\ GenAddress.page = 0 /\ GenAddress.plane = 0
                             /\ GenAddress.block = 0 /\ GenAddress.ch = 0
<1>1. RowAddress \in Nat /\ (address = 0 => RowAddress = 0)
    BY RowType
<1>2. RowAddress % PageCnt \in 0 .. PageCnt - 1
    BY <1>1, CountsPositive, DivModType
<1>3. RowAddress = 0 => RowAddress % PageCnt = 0
    BY CountsPositive, DivModSmall
<1>4. /\ ((RowAddress \div PageCnt) % PlaneCnt) * PageCnt \in Nat
      /\ RowAddress = 0 => ((RowAddress \div PageCnt) % PlaneCnt) * PageCnt = 0
    BY <1>1, CountsPositive, FieldType
<1>5. /\ ((RowAddress \div BlkSpan) % BlkCnt) * BlkSpan \in Nat
      /\ RowAddress = 0 => ((RowAddress \div BlkSpan) % BlkCnt) * BlkSpan = 0
    BY <1>1, CountsPositive, Spans, FieldType
<1>6. /\ ((RowAddress \div ChSpan) % ChCnt) * ChSpan \in Nat
      /\ RowAddress = 0 => ((RowAddress \div ChSpan) % ChCnt) * ChSpan = 0
    BY <1>1, CountsPositive, Spans, FieldType
<1> QED
    BY <1>1, <1>2, <1>3, <1>4, <1>5, <1>6, Zenon DEF GenAddress

LEMMA TargetInAddr ==
    ASSUME address \in 0 .. 255, Accepted
    PROVE  Target \in Addr
<1>1. /\ GenAddress.ch \in 0 .. ChCnt - 1 /\ GenAddress.block \in 0 .. BlkCnt - 1
      /\ GenAddress.plane \in 0 .. PlaneCnt - 1 /\ GenAddress.page \in 0 .. PageCnt - 1
    BY GenAddressType, CountsPositive DEF Accepted
<1> QED
    BY <1>1, PAddrInAddr DEF Target

\* The fields but the page are too high in an address to pass the check of
\* coordinates in front of the handler, or too high for the one byte that is
\* left of an address.
FieldsTooHigh ==
    /\ PlaneCnt <= PageCnt \/ PageCnt > 255
    /\ BlkCnt <= BlkSpan \/ BlkSpan > 255
    /\ ChCnt <= ChSpan \/ ChSpan > 255

LEMMA TargetInFirstPlane ==
    ASSUME FieldsTooHigh, address \in 0 .. 255, Accepted
    PROVE  Target < PageCnt
<1>1. RowAddress \in 0 .. 255
    BY RowType
<1>2. /\ GenAddress.plane = ((RowAddress \div PageCnt) % PlaneCnt) * PageCnt
      /\ GenAddress.block = ((RowAddress \div BlkSpan) % BlkCnt) * BlkSpan
      /\ GenAddress.ch = ((RowAddress \div ChSpan) % ChCnt) * ChSpan
    BY Zenon DEF GenAddress
<1>3. GenAddress.plane = 0
    BY <1>1, <1>2, CountsPositive, FieldZero DEF FieldsTooHigh, Accepted
<1>4. GenAddress.block = 0
    BY <1>1, <1>2, CountsPositive, Spans, FieldZero DEF FieldsTooHigh, Accepted
<1>5. GenAddress.ch = 0
    BY <1>1, <1>2, CountsPositive, Spans, FieldZero DEF FieldsTooHigh, Accepted
<1>6. GenAddress.page \in 0 .. PageCnt - 1
    BY GenAddressType
<1>7. 0 * ChSpan = 0 /\ 0 * BlkSpan = 0 /\ 0 * PageCnt = 0
    BY CountsPositive, Spans
<1>8. Target = GenAddress.page
    BY <1>3, <1>4, <1>5, <1>6, <1>7, CountsPositive DEF Target, PAddr
<1> QED
    BY <1>6, <1>8, CountsPositive

-----------------------------------------------------------------------------
(* The invariant.                                                          *)

\* A mode is that of the command that opened it; data loaded and a page
\* served belong to it; no address outlives its operation.
OperationInv ==
    /\ mode # "erase"
    /\ mode = "program" => opened = "program"
    /\ loaded => mode = "program" /\ reg = buf
    /\ served # NoPage => mode = "read"
    /\ addressCnt = 0 => address = 0
    /\ reg = NoReg => mode = "standby"

VirtInv == TypeOK /\ OperationInv /\ RegisterServesRead

LEMMA PageType ==
    ASSUME NEW w \in Word \cup {AllOnes, 0}, NEW v \in Ver \cup {0}
    PROVE  Page(w, v) \in Contents
BY DEF Page, Contents

LEMMA ZerosType == Zeros \in Contents
BY PageType DEF Zeros

\* A page that was never written sets the first word only.
LEMMA AllOnesType ==
    ASSUME NEW r \in Contents
    PROVE  /\ [r EXCEPT !.word = AllOnes] \in Contents
           /\ [r EXCEPT !.word = AllOnes].word = AllOnes
BY DEF Contents

LEMMA NoRegApart == NoReg \notin Contents /\ Erased \notin Contents /\ NoPage \notin Addr
<1>1. \A c \in Contents : c.word >= -1
    <2>1. \A c \in Contents : c.word \in Word \cup {AllOnes, 0}
        BY DEF Contents
    <2>2. \A w \in Word \cup {AllOnes, 0} : w >= -1
        BY InputsAssumption DEF AllOnes
    <2> QED
        BY <2>1, <2>2
<1>2. NoReg.word = -2 /\ Erased.word = -3
    BY DEF NoReg, Erased, Page
<1>3. NoPage \notin Addr
    BY DEF NoPage, Addr
<1> QED
    BY <1>1, <1>2, <1>3

LEMMA VirtInit == Init => VirtInv
<1> SUFFICES ASSUME Init
             PROVE  VirtInv
    OBVIOUS
<1>1. TypeOK
    <2>1. mode \in Modes /\ opened \in Modes /\ address \in 0 .. 255
        BY DEF Init, Modes
    <2>2. addressCnt \in 0 .. MaxCycles
        BY InputsAssumption DEF Init
    <2>3. mem \in [Addr -> Contents \cup {Erased}]
        BY DEF Init, Device!Init
    <2>4. {hung, loaded} \subseteq BOOLEAN /\ served \in Addr \cup {NoPage}
        BY DEF Init
    <2>5. reg \in Contents \cup {NoReg} /\ buf \in Contents
        BY ZerosType DEF Init
    <2> QED
        BY <2>1, <2>2, <2>3, <2>4, <2>5 DEF TypeOK
<1>2. OperationInv /\ RegisterServesRead
    BY ZerosType, NoRegApart DEF Init, OperationInv, RegisterServesRead
<1> QED
    BY <1>1, <1>2 DEF VirtInv

\* The tokens that neither command the flash nor move data.
LEMMA LocalSteps ==
    ASSUME VirtInv,
           \/ StartPattern
           \/ \E op \in {"read", "program", "erase"} : OpenCmd(op)
           \/ ResetCmd
    PROVE  VirtInv'
<1> USE DEF VirtInv
<1>1. CASE StartPattern
    <2>1. buf' \in Contents
        BY <1>1, PageType DEF StartPattern, TypeOK
    <2>2. /\ mode' = "standby" /\ address' = 0 /\ addressCnt' = 0
          /\ opened' = "standby" /\ loaded' = FALSE /\ served' = NoPage
          /\ UNCHANGED <<reg, mem, hung>>
        BY <1>1 DEF StartPattern, ResetLocals, Opened, flash
    <2>3. TypeOK'
        <3>1. mode' \in Modes /\ opened' \in Modes /\ address' \in 0 .. 255
            BY <2>1, <2>2 DEF Modes
        <3>2. addressCnt' \in 0 .. MaxCycles
            BY <2>1, <2>2, InputsAssumption
        <3>3. {hung', loaded'} \subseteq BOOLEAN
            BY <2>1, <2>2, Zenon DEF TypeOK
        <3> QED
            BY <3>1, <3>2, <3>3, <2>1, <2>2, Zenon DEF TypeOK
    <2> QED
        BY <2>2, <2>3 DEF OperationInv, RegisterServesRead
<1>2. ASSUME NEW op \in {"read", "program", "erase"}, OpenCmd(op)
      PROVE  VirtInv'
    <2>1. /\ mode' = (IF op = "erase" THEN "read" ELSE op) /\ address' = 0 /\ addressCnt' = 0
          /\ opened' = op /\ loaded' = FALSE /\ served' = NoPage
          /\ UNCHANGED <<reg, buf, mem, hung>> /\ reg # NoReg
        BY <1>2 DEF OpenCmd, StartsOperation, Opened, flash, Running
    <2>2. TypeOK'
        <3>1. mode' \in Modes /\ opened' \in Modes /\ address' \in 0 .. 255
            BY <2>1 DEF Modes
        <3>2. addressCnt' \in 0 .. MaxCycles
            BY <2>1, InputsAssumption
        <3>3. {hung', loaded'} \subseteq BOOLEAN
            BY <2>1, Zenon DEF TypeOK
        <3> QED
            BY <3>1, <3>2, <3>3, <2>1, Zenon DEF TypeOK
    <2> QED
        BY <2>1, <2>2 DEF OperationInv, RegisterServesRead
<1>3. CASE ResetCmd
    <2>1. /\ mode' = "reset" /\ opened' = "reset" /\ loaded' = FALSE /\ served' = NoPage
          /\ UNCHANGED <<address, addressCnt, reg, buf, mem, hung>> /\ reg # NoReg
        BY <1>3 DEF ResetCmd, Opened, flash, Running
    <2>2. TypeOK'
        BY <2>1 DEF TypeOK, Modes
    <2> QED
        BY <2>1, <2>2 DEF OperationInv, RegisterServesRead
<1> QED
    BY <1>1, <1>2, <1>3

LEMMA AddrStep ==
    ASSUME VirtInv, NEW val \in Byte, AddrCycle(val)
    PROVE  VirtInv'
<1> USE DEF VirtInv
<1>1. PICK s \in Shifted(val) : address' = Joined(s)
    BY DEF AddrCycle
<1>2. address' \in 0 .. 255
    BY <1>1, ShiftedType, JoinedType
<1>3. addressCnt' \in 0 .. MaxCycles /\ addressCnt' # 0
    BY InputsAssumption DEF AddrCycle, TypeOK
<1>4. served' = NoPage /\ UNCHANGED <<mode, reg, buf, mem, hung, opened, loaded>>
    BY DEF AddrCycle, flash
<1>5. TypeOK'
    BY <1>2, <1>3, <1>4 DEF TypeOK
<1> QED
    BY <1>3, <1>4, <1>5 DEF OperationInv, RegisterServesRead

LEMMA ReadStep ==
    ASSUME VirtInv, ReadConfirm
    PROVE  VirtInv'
<1> USE DEF VirtInv
<1>1. /\ mode = "read" /\ reg # NoReg
      /\ UNCHANGED <<mode, address, addressCnt, buf, mem, opened, loaded>>
    BY DEF ReadConfirm, Running, local, Device!Read, Device!Refuse
<1>2. CASE Accepted
    <2>1. Target \in Addr
        BY <1>2, TargetInAddr DEF TypeOK
    <2>2. /\ reg' = (IF mem[Target] = Erased THEN [reg EXCEPT !.word = AllOnes] ELSE mem[Target])
          /\ hung' \in BOOLEAN /\ served' = Target
        BY <1>2 DEF ReadConfirm
    <2>3. reg \in Contents /\ mem[Target] \in Contents \cup {Erased}
        BY <1>1, <2>1 DEF TypeOK
    <2>4. reg' \in Contents /\ (mem[Target] = Erased => reg'.word = AllOnes)
        BY <2>2, <2>3, AllOnesType
    <2>5. TypeOK'
        BY <1>1, <2>1, <2>2, <2>4 DEF TypeOK
    <2>6. OperationInv'
        BY <1>1, <2>4, NoRegApart DEF OperationInv
    <2>7. RegisterServesRead'
        BY <1>1, <2>2, <2>4 DEF RegisterServesRead
    <2> QED
        BY <2>5, <2>6, <2>7
<1>3. CASE ~Accepted
    <2>1. UNCHANGED <<reg, hung, served>>
        BY <1>3 DEF ReadConfirm
    <2> QED
        BY <1>1, <2>1 DEF TypeOK, OperationInv, RegisterServesRead
<1> QED
    BY <1>2, <1>3

\* What a program does to the flash.
LEMMA ProgramDoes ==
    ASSUME VirtInv, ProgramConfirm
    PROVE  /\ mode = "program" /\ reg \in Contents
           /\ UNCHANGED <<mode, address, addressCnt, reg, buf, hung, opened, loaded, served>>
           /\ mem' = mem \/ (Target \in Addr /\ Accepted /\ mem' = [mem EXCEPT ![Target] = reg])
<1>1. /\ mode = "program" /\ reg # NoReg
      /\ UNCHANGED <<mode, address, addressCnt, reg, buf, hung, opened, loaded, served>>
    BY DEF ProgramConfirm, Running, local, history
<1>2. reg \in Contents
    BY <1>1 DEF VirtInv, TypeOK
<1>3. CASE Accepted
    BY <1>1, <1>2, <1>3, TargetInAddr DEF ProgramConfirm, Device!Write, VirtInv, TypeOK
<1>4. CASE ~Accepted
    BY <1>1, <1>2, <1>4 DEF ProgramConfirm, Device!Refuse
<1> QED
    BY <1>3, <1>4

LEMMA ProgramStep ==
    ASSUME VirtInv, ProgramConfirm
    PROVE  VirtInv'
<1>1. mem' \in [Addr -> Contents \cup {Erased}]
    BY ProgramDoes DEF VirtInv, TypeOK
<1>2. TypeOK'
    BY <1>1, ProgramDoes DEF VirtInv, TypeOK
<1> QED
    BY <1>2, ProgramDoes DEF VirtInv, OperationInv, RegisterServesRead

\* The erase command opened a read, so its confirm byte does nothing.
LEMMA EraseStep ==
    ASSUME VirtInv, EraseConfirm
    PROVE  UNCHANGED vars
BY DEF VirtInv, OperationInv, EraseConfirm, vars, history

LEMMA DataSteps ==
    ASSUME VirtInv, DataOut \/ DataIn \/ Deinit \/ InitAgain
    PROVE  VirtInv'
<1> USE DEF VirtInv
<1>1. UNCHANGED <<mode, address, addressCnt, mem, hung, opened, served>>
    BY DEF DataOut, DataIn, Deinit, InitAgain, local, flash, history
<1>2. CASE DataOut
    <2>1. mode = "read" /\ buf' = reg /\ reg # NoReg /\ UNCHANGED <<reg, loaded>>
        BY <1>2 DEF DataOut, Running, history
    <2> QED
        BY <1>1, <2>1 DEF TypeOK, OperationInv, RegisterServesRead
<1>3. CASE DataIn
    <2>1. mode = "program" /\ reg' = buf /\ loaded' = TRUE /\ UNCHANGED buf
        BY <1>3 DEF DataIn
    <2> QED
        BY <1>1, <2>1, NoRegApart DEF TypeOK, OperationInv, RegisterServesRead
<1>4. CASE Deinit
    <2>1. mode = "standby" /\ reg' = NoReg /\ UNCHANGED <<buf, loaded>>
        BY <1>4 DEF Deinit, history
    <2> QED
        BY <1>1, <2>1 DEF TypeOK, OperationInv, RegisterServesRead
<1>5. CASE InitAgain
    <2>1. reg = NoReg /\ reg' = Zeros /\ UNCHANGED <<buf, loaded>>
        BY <1>5 DEF InitAgain, history
    <2> QED
        BY <1>1, <2>1, ZerosType, NoRegApart DEF TypeOK, OperationInv, RegisterServesRead
<1> QED
    BY <1>2, <1>3, <1>4, <1>5

LEMMA Stutters ==
    ASSUME VirtInv, UNCHANGED vars
    PROVE  VirtInv'
BY DEF vars, local, flash, history, VirtInv, TypeOK, OperationInv, RegisterServesRead

LEMMA VirtStep == VirtInv /\ [Next]_vars => VirtInv'
<1> SUFFICES ASSUME VirtInv, [Next]_vars
             PROVE  VirtInv'
    OBVIOUS
<1> QED
    BY LocalSteps, AddrStep, ReadStep, ProgramStep, EraseStep, DataSteps, Stutters DEF Next

LEMMA VirtInvariant == Spec => []VirtInv
BY VirtInit, VirtStep, PTL DEF Spec

-----------------------------------------------------------------------------

\* The register, the flash and the address keep their ranges.
THEOREM VirtTypeOK == Spec => []TypeOK
<1>1. VirtInv => TypeOK
    BY DEF VirtInv
<1> QED
    BY <1>1, VirtInvariant, PTL

\* What a host reads in read mode after the confirm byte is the page the address
\* named, or an all-ones first word, whatever tokens come in between.
THEOREM VirtRegisterServesRead == Spec => []RegisterServesRead
<1>1. VirtInv => RegisterServesRead
    BY DEF VirtInv
<1> QED
    BY <1>1, VirtInvariant, PTL

\* An operation that has no address cycles yet is for page 0, in every geometry.
THEOREM VirtTargetIsOwn == Spec => []TargetIsOwn
<1>1. VirtInv => TargetIsOwn
    <2> SUFFICES ASSUME VirtInv, addressCnt = 0
                 PROVE  Target = 0
        BY DEF TargetIsOwn
    <2>1. address = 0 /\ address \in 0 .. 255
        BY DEF VirtInv, OperationInv
    <2>2. /\ GenAddress.page = 0 /\ GenAddress.plane = 0
          /\ GenAddress.block = 0 /\ GenAddress.ch = 0
        BY <2>1, GenAddressType
    <2>3. 0 * ChSpan = 0 /\ 0 * BlkSpan = 0 /\ 0 * PageCnt = 0
        BY CountsPositive, Spans
    <2> QED
        BY <2>2, <2>3 DEF Target, PAddr
<1> QED
    BY <1>1, VirtInvariant, PTL

\* The flash changes only under an operation opened as a program, and then, when
\* data was sent, one page takes the host's data.
THEOREM VirtProgramsAsOpened == Spec => ProgramsAsOpened
<1> DEFINE Programs ==
        mem' # mem =>
            /\ opened = "program"
            /\ loaded => \E a \in Addr : mem' = [mem EXCEPT ![a] = buf]
<1>1. ASSUME VirtInv, Next
      PROVE  Programs
    <2>1. CASE ProgramConfirm
        BY <1>1, <2>1, ProgramDoes DEF VirtInv, OperationInv
    <2>2. CASE ReadConfirm
        BY <2>2 DEF ReadConfirm, Device!Read, Device!Refuse
    <2>3. CASE EraseConfirm
        BY <1>1, <2>3, EraseStep DEF vars, flash
    <2>4. CASE ~(ProgramConfirm \/ ReadConfirm \/ EraseConfirm)
        BY <1>1, <2>4 DEF Next, StartPattern, OpenCmd, ResetCmd, AddrCycle, DataOut, DataIn,
                         Deinit, InitAgain, flash
    <2> QED
        BY <2>1, <2>2, <2>3, <2>4
<1>2. VirtInv /\ [Next]_vars => [Programs]_vars
    BY <1>1
<1> QED
    BY <1>2, VirtInvariant, PTL DEF Spec, ProgramsAsOpened

\* No pattern reaches a page outside the first plane of the first block of the
\* first channel, in every geometry whose fields are too high.
THEOREM VirtFirstPlaneOnly ==
    ASSUME FieldsTooHigh
    PROVE  Spec => []FirstPlaneOnly
<1>1. Init => FirstPlaneOnly
    BY DEF Init, FirstPlaneOnly, Device!Init
<1>2. ASSUME VirtInv, FirstPlaneOnly, [Next]_vars
      PROVE  FirstPlaneOnly'
    <2>1. CASE ProgramConfirm
        <3>1. CASE mem' = mem
            BY <1>2, <2>1, <3>1, ProgramDoes DEF FirstPlaneOnly
        <3>2. CASE Target \in Addr /\ Accepted /\ mem' = [mem EXCEPT ![Target] = reg]
            <4>1. Target < PageCnt
                BY <1>2, <3>2, TargetInFirstPlane DEF VirtInv, TypeOK
            <4>2. \A a \in Addr : a # Target => mem'[a] = mem[a]
                BY <1>2, <3>2 DEF VirtInv, TypeOK
            <4> QED
                BY <1>2, <2>1, <4>1, <4>2, ProgramDoes DEF FirstPlaneOnly
        <3> QED
            BY <1>2, <2>1, <3>1, <3>2, ProgramDoes
    <2>2. CASE ReadConfirm
        <3>1. mem' = mem /\ (served' = served \/ (Accepted /\ served' = Target))
            BY <2>2 DEF ReadConfirm, Device!Read, Device!Refuse
        <3>2. Accepted => Target < PageCnt
            BY <1>2, TargetInFirstPlane DEF VirtInv, TypeOK
        <3> QED
            BY <1>2, <3>1, <3>2 DEF FirstPlaneOnly
    <2>3. CASE EraseConfirm
        BY <1>2, <2>3, EraseStep DEF vars, flash, history, FirstPlaneOnly
    <2>4. CASE UNCHANGED vars
        BY <1>2, <2>4 DEF vars, flash, history, FirstPlaneOnly
    <2>5. CASE Next /\ ~(ProgramConfirm \/ ReadConfirm \/ EraseConfirm)
        <3>1. mem' = mem /\ served' \in {served, NoPage}
            BY <2>5 DEF Next, StartPattern, OpenCmd, ResetCmd, AddrCycle, DataOut, DataIn,
                        Deinit, InitAgain, Opened, flash, history
        <3> QED
            BY <1>2, <3>1 DEF FirstPlaneOnly
    <2> QED
        BY <1>2, <2>1, <2>2, <2>3, <2>4, <2>5
<1> QED
    BY <1>1, <1>2, VirtInvariant, PTL DEF Spec

=============================================================================
