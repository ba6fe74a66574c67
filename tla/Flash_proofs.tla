---------------------------- MODULE Flash_proofs ----------------------------
(***************************************************************************)
(* The flash command handler with its table, its LBNs, its files and its   *)
(* counters, for every geometry, table page size, bank size and first LBN. *)
(***************************************************************************)
EXTENDS FlashStats, FtlLemmas

-----------------------------------------------------------------------------
(* Addresses, blocks and files.                                            *)

\* The number of an address's block in the whole device.
BlkNum(a) == a \div BlkSpan

LEMMA AddrParts ==
    ASSUME NEW a \in Addr
    PROVE  /\ a \in Nat
           /\ BlkNum(a) \in 0 .. QDepth - 1
           /\ BlkFirst(a) = BlkSpan * BlkNum(a)
           /\ BlkId(a) = <<BlkNum(a) \div BlkCnt, BlkNum(a) % BlkCnt>>
           /\ BlkId(a) \in Blk
           /\ PlaneOf(a) \in 0 .. PlaneCnt - 1
           /\ PageOf(a) \in Pages
           /\ a = BlkFirst(a) + (PageCnt * PlaneOf(a) + PageOf(a))
           /\ a \in BlkFirst(a) .. BlkFirst(a) + BlkSpan - 1
<1> DEFINE q == BlkNum(a)
           S == BlkSpan
<1>1. /\ a \in Nat /\ a < ChCnt * ChSpan
      /\ S \in Nat \ {0} /\ QDepth \in Nat \ {0}
      /\ BlkCnt \in Nat \ {0} /\ ChCnt \in Nat \ {0}
      /\ PageCnt \in Nat \ {0} /\ PlaneCnt \in Nat \ {0}
    BY Spans, RingSizes, CountsPositive DEF Addr
<1>2. ChSpan = S * BlkCnt /\ ChCnt * ChSpan = S * QDepth
    <2>1. ChSpan = BlkCnt * S
        BY DEF ChSpan
    <2> HIDE DEF S
    <2>2. ChSpan = S * BlkCnt
        BY <1>1, <2>1, SMT
    <2>3. ChCnt * (BlkCnt * S) = S * (ChCnt * BlkCnt)
        BY <1>1, SMT
    <2> QED
        BY <2>1, <2>2, <2>3 DEF QDepth
<1>3. q \in Nat /\ a % S \in 0 .. S - 1 /\ a = S * q + (a % S)
    BY <1>1, DivModType DEF BlkNum
<1>4. q < QDepth
    BY <1>1, <1>2, DivBound DEF BlkNum
<1>5. BlkFirst(a) = S * q
    <2>1. BlkFirst(a) = q * S
        BY DEF BlkFirst, BlkNum
    <2> HIDE DEF S, q
    <2> QED
        BY <1>1, <1>3, <2>1, SMT
<1>6. a \div ChSpan = q \div BlkCnt
    <2>1. a \div (S * BlkCnt) = (a \div S) \div BlkCnt
        BY <1>1, DivModSplit
    <2> QED
        BY <1>2, <2>1 DEF BlkNum
<1>7. q \div BlkCnt \in 0 .. ChCnt - 1 /\ q % BlkCnt \in 0 .. BlkCnt - 1
    <2> HIDE DEF q
    <2>1. q < BlkCnt * ChCnt
        <3>1. ChCnt * BlkCnt = BlkCnt * ChCnt
            BY <1>1, SMT
        <3> QED
            BY <1>4, <3>1 DEF QDepth
    <2>2. q \div BlkCnt < ChCnt
        BY <1>1, <1>3, <2>1, DivBound
    <2>3. q \div BlkCnt \in Nat /\ q % BlkCnt \in 0 .. BlkCnt - 1
        BY <1>1, <1>3, DivModType
    <2> QED
        BY <1>1, <2>2, <2>3
<1>8. ChOf(a) = q \div BlkCnt
    <2> DEFINE c == q \div BlkCnt
    <2>1. c \in Nat /\ c \in 0 .. ChCnt - 1 /\ a \div ChSpan = c
        BY <1>6, <1>7
    <2> HIDE DEF c
    <2>2. c = ChCnt * 0 + c
        BY <1>1, <2>1
    <2>3. c % ChCnt = c
        BY <1>1, <2>1, <2>2, DivModUnique
    <2> QED
        BY <2>1, <2>3 DEF ChOf, c
<1>9. BlkId(a) = <<q \div BlkCnt, q % BlkCnt>>
    BY <1>8 DEF BlkId, BlkOf, BlkNum
<1>10. BlkId(a) \in Blk
    <2> HIDE DEF q
    <2> QED
        BY <1>7, <1>9 DEF Blk, Channels
<1>11. a % S = PageCnt * PlaneOf(a) + PageOf(a)
       /\ PlaneOf(a) \in 0 .. PlaneCnt - 1 /\ PageOf(a) \in Pages
    <2> DEFINE m == a % S
    <2>1. S = PageCnt * PlaneCnt
        BY <1>1, SMT DEF BlkSpan
    <2>2. /\ (a % (PageCnt * PlaneCnt)) \div PageCnt
                = (a \div PageCnt) % PlaneCnt
          /\ (a % (PageCnt * PlaneCnt)) % PageCnt = a % PageCnt
        <3>1. a \in Nat /\ PageCnt \in Nat \ {0} /\ PlaneCnt \in Nat \ {0}
            BY <1>1
        <3> HIDE DEF m, S, q
        <3> QED
            BY <3>1, DivModSplit
    <2>3. m \div PageCnt = PlaneOf(a) /\ m % PageCnt = PageOf(a)
        BY <2>1, <2>2 DEF PlaneOf, PageOf
    <2>4. m \in Nat
        BY <1>1, <1>3
    <2> HIDE DEF m
    <2>5. m = PageCnt * (m \div PageCnt) + (m % PageCnt)
          /\ m % PageCnt \in 0 .. PageCnt - 1
        BY <1>1, <2>4, DivModType
    <2>6. a \div PageCnt \in Nat
        BY <1>1, DivModType
    <2>7. (a \div PageCnt) % PlaneCnt \in 0 .. PlaneCnt - 1
        BY <1>1, <2>6, DivModType
    <2> QED
        BY <2>3, <2>5, <2>7 DEF PlaneOf, Pages, m
<1> HIDE DEF q, S
<1>12. S * q \in Nat
    BY <1>1, <1>3, SMT
<1>13. a = BlkFirst(a) + (PageCnt * PlaneOf(a) + PageOf(a))
    BY <1>3, <1>5, <1>11
<1>14. a \in BlkFirst(a) .. BlkFirst(a) + S - 1
    BY <1>1, <1>3, <1>5, <1>12
<1> QED
    BY <1>1, <1>3, <1>4, <1>5, <1>9, <1>10, <1>11, <1>13, <1>14 DEF q, S

\* The block of an address and its first address say the same.
LEMMA SameBlk ==
    ASSUME NEW a \in Addr, NEW c \in Addr
    PROVE  /\ BlkFirst(a) = BlkFirst(c) <=> BlkId(a) = BlkId(c)
           /\ BlkFirst(a) = BlkFirst(c) <=> BlkNum(a) = BlkNum(c)
<1> DEFINE q == BlkNum(a)
           m == BlkNum(c)
<1>1. /\ q \in Nat /\ m \in Nat
      /\ BlkFirst(a) = BlkSpan * q /\ BlkFirst(c) = BlkSpan * m
      /\ BlkId(a) = <<q \div BlkCnt, q % BlkCnt>>
      /\ BlkId(c) = <<m \div BlkCnt, m % BlkCnt>>
      /\ BlkCnt \in Nat \ {0} /\ BlkSpan \in Nat \ {0}
    BY AddrParts, CountsPositive, RingSizes
<1> HIDE DEF q, m
<1>2. q = BlkCnt * (q \div BlkCnt) + (q % BlkCnt)
    BY <1>1, DivModType
<1>3. m = BlkCnt * (m \div BlkCnt) + (m % BlkCnt)
    BY <1>1, DivModType
<1>4. BlkId(a) = BlkId(c) => q = m
    BY <1>1, <1>2, <1>3
<1>5. BlkSpan * q = BlkSpan * m => q = m
    <2>1. BlkSpan * q = q * BlkSpan /\ BlkSpan * m = m * BlkSpan
        BY <1>1, SMT
    <2> QED
        BY <1>1, <2>1, MulCancel
<1> QED
    BY <1>1, <1>4, <1>5 DEF q, m

\* An address is its block, its plane and its page.
LEMMA AddrFromParts ==
    ASSUME NEW a \in Addr, NEW c \in Addr, BlkId(a) = BlkId(c),
           PlaneOf(a) = PlaneOf(c), PageOf(a) = PageOf(c)
    PROVE  a = c
BY AddrParts, SameBlk

\* The addresses of a block.
LEMMA BlkAddrsOf ==
    ASSUME NEW a \in Addr
    PROVE  /\ BlkAddrs(a) \subseteq Addr
           /\ \A c \in Addr : c \in BlkAddrs(a) <=> BlkFirst(c) = BlkFirst(a)
           /\ BlkFirst(a) \in BlkAddrs(a) /\ LastOfBlk(a) \in BlkAddrs(a)
           /\ BlkFirst(a) \in Nat
<1> DEFINE q == BlkNum(a)
           S == BlkSpan
           f == S * q
<1>1. /\ q \in 0 .. QDepth - 1 /\ BlkFirst(a) = f
      /\ S \in Nat \ {0} /\ QDepth \in Nat \ {0}
    BY AddrParts, RingSizes
<1>2. ChCnt * ChSpan = S * QDepth
    <2>1. ChCnt * (BlkCnt * S) = S * (ChCnt * BlkCnt)
        <3> HIDE DEF S
        <3> QED
            BY <1>1, CountsPositive, SMT
    <2> QED
        BY <2>1 DEF QDepth, ChSpan
<1> HIDE DEF q, S
<1>3. f \in Nat /\ f + S <= S * QDepth
    <2>1. q + 1 <= QDepth
        BY <1>1
    <2>2. S * (q + 1) <= S * QDepth
        BY <1>1, <2>1, SMT
    <2>3. S * (q + 1) = S * q + S
        BY <1>1, SMT
    <2>4. S * q \in Nat
        BY <1>1, SMT
    <2> QED
        BY <2>2, <2>3, <2>4
<1> HIDE DEF f
<1>4. BlkAddrs(a) = f .. f + S - 1
    BY <1>1 DEF BlkAddrs, S
<1>5. f .. f + S - 1 \subseteq Addr
    <2> DEFINE n == S * QDepth
    <2>1. n \in Nat /\ f + S <= n /\ Addr = 0 .. n - 1
        BY <1>1, <1>2, <1>3, SMT DEF Addr
    <2> HIDE DEF n
    <2> QED
        BY <1>1, <1>3, <2>1
<1>6. ASSUME NEW c \in Addr
      PROVE  c \in f .. f + S - 1 <=> BlkFirst(c) = f
    <2>1. c \in Nat /\ c \in BlkFirst(c) .. BlkFirst(c) + S - 1
        BY AddrParts DEF S
    <2>2. ASSUME c \in f .. f + S - 1
          PROVE  BlkFirst(c) = f
        <3> DEFINE d == c - f
        <3>1. d \in 0 .. S - 1 /\ c = S * q + d /\ c \in Nat
            BY <1>1, <1>3, <2>1, <2>2 DEF f
        <3> HIDE DEF d
        <3>2. q \in Nat /\ S \in Nat \ {0}
            BY <1>1
        <3>3. c \div S = q
            BY <3>1, <3>2, DivModUnique, Zenon
        <3>4. BlkNum(c) = q /\ BlkFirst(c) = S * BlkNum(c)
            BY <3>3, AddrParts DEF BlkNum, S
        <3> QED
            BY <3>4 DEF f
    <2> QED
        BY <2>1, <2>2
<1>7. f \in f .. f + S - 1 /\ f + S - 1 \in f .. f + S - 1
    BY <1>1, <1>3
<1>8. LastOfBlk(a) = f + S - 1
    BY <1>1 DEF LastOfBlk, S
<1> QED
    BY <1>1, <1>3, <1>4, <1>5, <1>6, <1>7, <1>8

\* data.c finds the file of a page's LBN from the block LBN and the plane.
LEMMA FileOfPage ==
    ASSUME NEW l \in BlockLbns, NEW i \in 0 .. BlkSpan - 1,
           NEW p \in 0 .. PlaneCnt - 1
    PROVE  /\ FileOf(l + Slice * i, p) = l + p * PlaneLbnCnt
           /\ FileOf(l + Slice * i, p) \in FileNums
<1> DEFINE n == BlkLbnCnt
<1>1. PICK k \in 0 .. QDepth - 1 : l = BlockLbn(k)
    BY DEF BlockLbns
<1>2. /\ n \in Nat \ {0} /\ LbnBase \in Nat /\ k \in Nat
      /\ BlkSpan \in Nat \ {0} /\ n = BlkSpan * Slice
    BY RingSizes, LbnBaseAssumption DEF BlkLbnCnt
<1>3. l = LbnBase + k * n
    BY <1>1 DEF BlockLbn
<1>4. Slice * i \in 0 .. n - 1
    BY <1>2 DEF Slice
<1> HIDE DEF n
<1>5. k * n \in Nat /\ k * n = n * k
    BY <1>2, SMT
<1>6. ((l + Slice * i) - LbnBase) \div n = k
    <2> DEFINE x == (l + Slice * i) - LbnBase
               d == Slice * i
    <2>1. x = n * k + d /\ x \in Nat /\ d \in 0 .. n - 1
        BY <1>2, <1>3, <1>4, <1>5
    <2> HIDE DEF x, d
    <2>2. x \div n = k
        BY <1>2, <2>1, DivModUnique
    <2> QED
        BY <2>2 DEF x
<1>7. FileOf(l + Slice * i, p) = l + p * PlaneLbnCnt
    BY <1>3, <1>6 DEF FileOf, n
<1> QED
    BY <1>7 DEF FileNums

\* A file belongs to one plane of one block LBN.
LEMMA FileUnique ==
    ASSUME NEW l \in BlockLbns, NEW m \in BlockLbns,
           NEW p \in 0 .. PlaneCnt - 1, NEW q \in 0 .. PlaneCnt - 1,
           l + p * PlaneLbnCnt = m + q * PlaneLbnCnt
    PROVE  l = m /\ p = q
<1> DEFINE e == PlaneLbnCnt
<1>1. PICK j \in 0 .. QDepth - 1 : l = BlockLbn(j)
    BY DEF BlockLbns
<1>2. PICK k \in 0 .. QDepth - 1 : m = BlockLbn(k)
    BY DEF BlockLbns
<1>3. /\ e \in Nat \ {0} /\ LbnBase \in Nat /\ PlaneCnt \in Nat \ {0}
      /\ j \in Nat /\ k \in Nat /\ p \in Nat /\ q \in Nat
    BY CountsPositive, LbnBaseAssumption DEF PlaneLbnCnt, Slice
<1>4. BlkLbnCnt = PlaneCnt * e
    <2>1. (PlaneCnt * PageCnt) * 5 = PlaneCnt * (5 * PageCnt)
        BY CountsPositive, SMT
    <2> QED
        BY <2>1 DEF BlkLbnCnt, BlkSpan, PlaneLbnCnt, Slice
<1>5. l = LbnBase + j * (PlaneCnt * e) /\ m = LbnBase + k * (PlaneCnt * e)
    BY <1>1, <1>2, <1>4 DEF BlockLbn
<1> HIDE DEF e
<1>6. /\ PlaneCnt * j + p \in Nat /\ PlaneCnt * k + q \in Nat
      /\ j * (PlaneCnt * e) = (PlaneCnt * j) * e
      /\ k * (PlaneCnt * e) = (PlaneCnt * k) * e
      /\ (PlaneCnt * j + p) * e = (PlaneCnt * j) * e + p * e
      /\ (PlaneCnt * k + q) * e = (PlaneCnt * k) * e + q * e
      /\ (PlaneCnt * j) * e \in Nat /\ (PlaneCnt * k) * e \in Nat
      /\ p * e \in Nat /\ q * e \in Nat
    BY <1>3, SMT
<1>7. (PlaneCnt * j + p) * e = (PlaneCnt * k + q) * e
    <2> DEFINE x == (PlaneCnt * j) * e
               y == (PlaneCnt * k) * e
               u == p * e
               v == q * e
    <2>1. /\ x \in Nat /\ y \in Nat /\ u \in Nat /\ v \in Nat
          /\ l = LbnBase + x /\ m = LbnBase + y /\ l + u = m + v
        BY <1>5, <1>6 DEF e
    <2> HIDE DEF x, y, u, v
    <2>2. x + u = y + v
        BY <1>3, <2>1
    <2> QED
        BY <1>6, <2>2 DEF x, y, u, v
<1>8. PlaneCnt * j + p = PlaneCnt * k + q
    BY <1>3, <1>6, <1>7, MulCancel
<1>9. ASSUME NEW x \in Nat, NEW h \in Nat, NEW r \in 0 .. PlaneCnt - 1,
             x = PlaneCnt * h + r
      PROVE  x \div PlaneCnt = h /\ x % PlaneCnt = r
    BY <1>3, <1>9, DivModUnique
<1>10. j = k /\ p = q
    <2> DEFINE x == PlaneCnt * j + p
    <2>1. x \in Nat /\ x = PlaneCnt * j + p /\ x = PlaneCnt * k + q
        BY <1>6, <1>8
    <2> HIDE DEF x
    <2>2. x \div PlaneCnt = j /\ x % PlaneCnt = p
        BY <1>3, <1>9, <2>1
    <2>3. x \div PlaneCnt = k /\ x % PlaneCnt = q
        BY <1>3, <1>9, <2>1
    <2> QED
        BY <2>2, <2>3
<1> QED
    BY <1>1, <1>2, <1>10

\* No file has the number 0, by which file_mgr says that it has no file.
LEMMA FileNumsPositive == FileNums \subseteq Nat \ {0}
<1> SUFFICES ASSUME NEW l \in BlockLbns, NEW p \in 0 .. PlaneCnt - 1
             PROVE  l + p * PlaneLbnCnt \in Nat \ {0}
    BY DEF FileNums
<1>1. l \in Nat \ {0} /\ p \in Nat /\ PlaneLbnCnt \in Nat
    BY BlockLbnType, CountsPositive DEF PlaneLbnCnt, Slice
<1>2. p * PlaneLbnCnt \in Nat
    BY <1>1, SMT
<1> QED
    BY <1>1, <1>2

-----------------------------------------------------------------------------
(* What a write does to the files.                                         *)

\* The handle that is kept is that of the file whose number is kept.
HandleAgrees(s) == s.fd = NoFd \/ s.fd = s.key

\* A write changes one page of the file it is for, and may fill a gap of it
\* with zeros, or changes nothing.
LEMMA WriteStore ==
    ASSUME NEW s \in Stores, HandleAgrees(s),
           NEW d \in Payloads, NEW pg \in Pages, NEW lbn, NEW p,
           NEW opened \in BOOLEAN,
           NEW n, n = FileOf(lbn, p), n \in FileNums,
           NEW t, t = WritePageData(s, lbn, d, pg, p, opened)
    PROVE  /\ t \in Stores /\ HandleAgrees(t) /\ t.key = n
           /\ \/ t.files = s.files /\ t.fd = NoFd
              \/ /\ t.fd = n
                 /\ t.files = [s.files EXCEPT ![n] = FileWith(@, pg, d)]
           /\ opened /\ (n = s.key => s.fd # NoFd) => t.fd = n
<1> DEFINE fd == WriteHandle(s, n, opened)
<1>1. /\ s.files \in [FileNums -> [Pages -> Payloads \cup {Zeros, Nothing}]]
      /\ n \in FileNums
      /\ n \in Nat \ {0} /\ n # NoFd
    BY FileNumsPositive DEF Stores, NoFd
<1>2. fd = NoFd \/ fd = n
    BY DEF WriteHandle, HandleAgrees
<1>3. opened /\ (n = s.key => s.fd # NoFd) => fd = n
    BY DEF WriteHandle, HandleAgrees
<1>4. t = [files |-> IF fd = NoFd THEN s.files
                     ELSE [s.files EXCEPT ![fd] = FileWith(@, pg, d)],
           fd |-> fd, key |-> n]
    BY DEF WritePageData
<1>5. FileWith(s.files[n], pg, d) \in [Pages -> Payloads \cup {Zeros, Nothing}]
    <2>1. s.files[n] \in [Pages -> Payloads \cup {Zeros, Nothing}]
        BY <1>1
    <2> QED
        BY <2>1 DEF FileWith
<1> HIDE DEF fd
<1>6. CASE fd = NoFd
    BY <1>1, <1>3, <1>4, <1>6 DEF Stores, HandleAgrees
<1>7. CASE fd = n
    <2>1. t = [files |-> [s.files EXCEPT ![n] = FileWith(s.files[n], pg, d)],
               fd |-> n, key |-> n]
        BY <1>1, <1>4, <1>7
    <2>2. [s.files EXCEPT ![n] = FileWith(s.files[n], pg, d)]
             \in [FileNums -> [Pages -> Payloads \cup {Zeros, Nothing}]]
        BY <1>1, <1>5
    <2> QED
        BY <1>1, <2>1, <2>2 DEF Stores, HandleAgrees
<1> QED
    BY <1>2, <1>6, <1>7

\* What a write leaves in the pages of the file it is for.
LEMMA WritePage ==
    ASSUME NEW f \in [Pages -> Payloads \cup {Zeros, Nothing}],
           NEW d, NEW pg \in Pages, NEW q \in Pages
    PROVE  /\ q = pg => FileWith(f, pg, d)[q] = d
           /\ q # pg /\ f[q] # Nothing => FileWith(f, pg, d)[q] = f[q]
           /\ q # pg => FileWith(f, pg, d)[q] \in {f[q], Zeros}
<1>1. FileWith(f, pg, d)[q] = CASE q = pg -> d
                                [] q < pg /\ f[q] = Nothing -> Zeros
                                [] OTHER -> f[q]
    BY DEF FileWith
<1>2. CASE q = pg
    <2>1. ~(q < pg)
        BY <1>2 DEF Pages
    <2> QED
        BY <1>1, <1>2, <2>1
<1>3. CASE q # pg /\ q < pg /\ f[q] = Nothing
    BY <1>1, <1>3
<1>4. CASE q # pg /\ ~(q < pg /\ f[q] = Nothing)
    BY <1>1, <1>4
<1> QED
    BY <1>2, <1>3, <1>4

-----------------------------------------------------------------------------
(* Counting the pages of a block.                                          *)

LEMMA PagesOfBlk ==
    ASSUME NEW b, NEW S \in SUBSET {c \in Addr : BlkId(c) = b}
    PROVE  /\ IsFiniteSet(S)
           /\ Cardinality(S) \in 0 .. BlkSpan
           /\ Cardinality(S) = 0 <=> S = {}
           /\ \A a \in Addr : BlkId(a) = b /\ a \notin S =>
                 /\ Cardinality(S) < BlkSpan
                 /\ Cardinality(S \cup {a}) = Cardinality(S) + 1
<1>1. BlkSpan \in Nat \ {0}
    BY RingSizes
<1>2. ASSUME NEW a \in Addr, BlkId(a) = b
      PROVE  /\ IsFiniteSet(S) /\ S \subseteq BlkAddrs(a)
             /\ IsFiniteSet(BlkAddrs(a)) /\ Cardinality(BlkAddrs(a)) = BlkSpan
             /\ a \in BlkAddrs(a)
    <2>1. S \subseteq BlkAddrs(a) /\ a \in BlkAddrs(a)
        BY <1>2, BlkAddrsOf, SameBlk
    <2> DEFINE f == BlkFirst(a)
               g == BlkFirst(a) + BlkSpan - 1
    <2>2. f \in Int /\ g \in Int /\ f <= g /\ g - f + 1 = BlkSpan
        BY <1>1, BlkAddrsOf
    <2>3. BlkAddrs(a) = f .. g
        BY DEF BlkAddrs
    <2> HIDE DEF f, g
    <2>4. IsFiniteSet(f .. g) /\ Cardinality(f .. g) = g - f + 1
        BY <2>2, FS_Interval
    <2> QED
        BY <2>1, <2>2, <2>3, <2>4, FS_Subset
<1>3. IsFiniteSet(S)
    <2>1. CASE S = {}
        BY <2>1, FS_EmptySet
    <2>2. CASE S # {}
        BY <2>2, <1>2
    <2> QED
        BY <2>1, <2>2
<1>4. Cardinality(S) \in Nat /\ (Cardinality(S) = 0 <=> S = {})
    BY <1>3, FS_CardinalityType, FS_EmptySet
<1>5. Cardinality(S) <= BlkSpan
    <2>1. CASE S = {}
        BY <1>1, <1>4, <2>1
    <2>2. CASE S # {}
        <3>1. PICK a \in S : TRUE
            BY <2>2
        <3> QED
            BY <1>2, <3>1, FS_Subset
    <2> QED
        BY <2>1, <2>2
<1>6. ASSUME NEW a \in Addr, BlkId(a) = b, a \notin S
      PROVE  /\ Cardinality(S) < BlkSpan
             /\ Cardinality(S \cup {a}) = Cardinality(S) + 1
    <2>1. Cardinality(S \cup {a}) = Cardinality(S) + 1
        BY <1>3, <1>6, FS_AddElement
    <2>2. S \cup {a} \subseteq BlkAddrs(a)
        BY <1>2, <1>6
    <2>3. Cardinality(S \cup {a}) <= BlkSpan
        BY <1>2, <1>6, <2>2, FS_Subset
    <2> QED
        BY <1>1, <1>4, <2>1, <2>3
<1> QED
    BY <1>1, <1>3, <1>4, <1>5, <1>6

-----------------------------------------------------------------------------
(* The inductive invariant of the handler.                                 *)
(*                                                                         *)
(* UsedCnt joins the table and the ring: the pages of a block that have an *)
(* LBN in the table are as many as its pChRestLbnNum says.  While an erase *)
(* clears the block page by page the ring already counts none of them, so  *)
(* the pages under erase are not live; ClearedBehind says that none is     *)
(* left when the loop ends and they would count again.  LbnsAtHome says    *)
(* that the LBN in the table is one of its block's LBN in the ring, and    *)
(* HandleAgrees that the cached handle is that of the cached file number.  *)

LivePages(b) == {a \in Addr : BlkId(a) = b /\ Live(a)}

UsedCnt == [b \in Blk |-> Cardinality(LivePages(b))]

LbnsAtHome ==
    \A a \in Addr : Live(a) =>
        \E i \in 0 .. BlkSpan - 1 :
            LbnOf(tbl, a) = pool.blk2Lbn[BlkId(a)] + Slice * i

ClearedBehind ==
    \A a \in Addr : UnderErase(a) /\ a < eraseAt => LbnOf(tbl, a) = 0

CoreInv ==
    /\ tbl \in Tables(Lbns \cup {0})
    /\ TableConsistent(tbl)
    /\ RingInv(pool, UsedCnt)
    /\ store \in Stores
    /\ HandleAgrees(store)
    /\ eraseAt \in Addr \cup {NoErase}
    /\ LbnsAtHome
    /\ ClearedBehind

FlashInv == CoreInv /\ hung \in BOOLEAN /\ resp \in Responses

LEMMA FlashInvType == FlashInv => TypeOK
BY DEF FlashInv, CoreInv, RingInv, TypeOK

LEMMA LbnsPositive == Lbns \subseteq Nat \ {0}
<1> SUFFICES ASSUME NEW l \in BlockLbns, NEW i \in 0 .. BlkSpan - 1
             PROVE  l + Slice * i \in Nat \ {0}
    BY DEF Lbns, PageLbns
<1> QED
    BY BlockLbnType, RingSizes DEF Slice

LEMMA NoEraseType == NoErase \notin Addr
BY DEF NoErase, Addr

\* Out of an erase a page is live when it has an LBN.
LEMMA LiveIdle ==
    ASSUME eraseAt = NoErase, NEW a
    PROVE  Live(a) <=> LbnOf(tbl, a) # 0
BY DEF Live, UnderErase

\* The block LBN of a live page.
LEMMA LiveBlk ==
    ASSUME CoreInv, NEW a \in Addr, Live(a)
    PROVE  /\ UsedCnt[BlkId(a)] > 0
           /\ BlkId(a) \in ProgrammedIn(UsedCnt)
           /\ pool.blk2Lbn[BlkId(a)] \in BlockLbns
           /\ FileOf(LbnOf(tbl, a), PlaneOf(a))
                 = pool.blk2Lbn[BlkId(a)] + PlaneOf(a) * PlaneLbnCnt
           /\ FileOf(LbnOf(tbl, a), PlaneOf(a)) \in FileNums
<1> DEFINE b == BlkId(a)
           S == LivePages(b)
<1>1. b \in Blk /\ PlaneOf(a) \in 0 .. PlaneCnt - 1
    BY AddrParts
<1>2. S \in SUBSET {c \in Addr : BlkId(c) = b} /\ a \in S
    BY DEF LivePages
<1>3. Cardinality(S) \in 0 .. BlkSpan /\ Cardinality(S) # 0
    <2> HIDE DEF S
    <2> QED
        BY <1>2, PagesOfBlk
<1>4. UsedCnt[b] = Cardinality(S) /\ UsedCnt[b] > 0
    BY <1>1, <1>3, RingSizes DEF UsedCnt
<1>5. b \in ProgrammedIn(UsedCnt) /\ pool.blk2Lbn[b] \in BlockLbns
    BY <1>1, <1>4 DEF ProgrammedIn, CoreInv, RingInv, OpenedIn
<1>6. PICK i \in 0 .. BlkSpan - 1 : LbnOf(tbl, a) = pool.blk2Lbn[b] + Slice * i
    BY DEF CoreInv, LbnsAtHome
<1> QED
    BY <1>1, <1>4, <1>5, <1>6, FileOfPage

\* What iGetDataLbn does and returns.
LEMMA LookupLbn ==
    ASSUME CoreInv, NEW a \in Addr
    PROVE  /\ Lookup(a) = LbnOf(tbl, a)
           /\ LbnOf(tbl, a) \in Lbns \cup {0}
           /\ BringIn(tbl, a) \in Tables(Lbns \cup {0})
           /\ TableConsistent(BringIn(tbl, a))
           /\ \A c \in Addr : LbnOf(BringIn(tbl, a), c) = LbnOf(tbl, c)
<1>1. tbl \in Tables(Lbns \cup {0}) /\ TableConsistent(tbl)
    BY DEF CoreInv
<1>2. Lookup(a) = LbnOf(tbl, a)
    BY <1>1, GetView DEF Lookup, LbnView
<1>3. LbnView(BringIn(tbl, a)) = LbnView(tbl)
    BY <1>1, BringInView
<1>4. ASSUME NEW c \in Addr
      PROVE  LbnOf(BringIn(tbl, a), c) = LbnOf(tbl, c)
    <2>1. LbnView(BringIn(tbl, a))[c] = LbnView(tbl)[c]
        BY <1>3
    <2> QED
        BY <2>1 DEF LbnView
<1>5. Lookup(a) \in Lbns \cup {0}
    BY <1>1, GetType DEF Lookup
<1> QED
    BY <1>1, <1>2, <1>4, <1>5, BringInType, BringInConsistent

\* What iUpdateDataLbn does, after the lookup the command starts with or not.
LEMMA StoreLbn ==
    ASSUME NEW t \in Tables(Lbns \cup {0}), TableConsistent(t),
           NEW a \in Addr, NEW l \in Lbns \cup {0}
    PROVE  /\ UpdateDataLbn(t, a, l) \in Tables(Lbns \cup {0})
           /\ TableConsistent(UpdateDataLbn(t, a, l))
           /\ \A c \in Addr : LbnOf(UpdateDataLbn(t, a, l), c)
                                 = IF c = a THEN l ELSE LbnOf(t, c)
<1>1. LbnView(UpdateDataLbn(t, a, l)) = [LbnView(t) EXCEPT ![a] = l]
    BY UpdateView
<1>2. ASSUME NEW c \in Addr
      PROVE  LbnOf(UpdateDataLbn(t, a, l), c) = IF c = a THEN l ELSE LbnOf(t, c)
    <2>1. LbnView(UpdateDataLbn(t, a, l))[c]
             = IF c = a THEN l ELSE LbnView(t)[c]
        BY <1>1 DEF LbnView
    <2> QED
        BY <2>1 DEF LbnView
<1> QED
    BY <1>2, UpdateType, UpdateConsistent

\* The counts follow the live pages.
LEMMA UsedCntIs ==
    ASSUME NEW b \in Blk
    PROVE  /\ UsedCnt[b] = Cardinality(LivePages(b))
           /\ LivePages(b) \in SUBSET {c \in Addr : BlkId(c) = b}
           /\ UsedCnt \in [Blk -> 0 .. BlkSpan]
<1>1. \A c \in Blk : LivePages(c) \in SUBSET {d \in Addr : BlkId(d) = c}
    BY DEF LivePages
<1>2. \A c \in Blk : Cardinality(LivePages(c)) \in 0 .. BlkSpan
    BY <1>1, PagesOfBlk
<1> QED
    BY <1>1, <1>2 DEF UsedCnt

LEMMA SameLiveSameCnt ==
    ASSUME \A c \in Addr : Live(c)' <=> Live(c)
    PROVE  UsedCnt' = UsedCnt
<1>1. ASSUME NEW b \in Blk
      PROVE  LivePages(b)' = LivePages(b)
    BY DEF LivePages
<1> QED
    BY <1>1 DEF UsedCnt

-----------------------------------------------------------------------------
(* One lemma per kind of step.                                             *)

\* A command that at most brings a table page in.
LEMMA SameViewStep ==
    ASSUME CoreInv,
           tbl' \in Tables(Lbns \cup {0}), TableConsistent(tbl'),
           \A c \in Addr : LbnOf(tbl', c) = LbnOf(tbl, c),
           pool' = pool, store' = store, eraseAt' = eraseAt
    PROVE  CoreInv' /\ \A c \in Addr : Live(c)' <=> Live(c)
<1>1. \A c \in Addr : Live(c)' <=> Live(c)
    BY DEF Live, UnderErase
<1>2. UsedCnt' = UsedCnt
    BY <1>1, SameLiveSameCnt
<1>3. RingInv(pool', UsedCnt')
    BY <1>2 DEF CoreInv
<1>4. LbnsAtHome'
    BY <1>1 DEF CoreInv, LbnsAtHome
<1>5. ClearedBehind'
    BY DEF CoreInv, ClearedBehind, UnderErase
<1> QED
    BY <1>1, <1>3, <1>4, <1>5 DEF CoreInv

LEMMA LookupStep ==
    ASSUME CoreInv, NEW a \in Addr, tbl' = BringIn(tbl, a),
           pool' = pool, store' = store, eraseAt' = eraseAt
    PROVE  CoreInv' /\ \A c \in Addr : Live(c)' <=> Live(c)
BY LookupLbn, SameViewStep

\* A write that has got its LBN, from the table or from the ring.
LEMMA StoreStep ==
    ASSUME CoreInv, eraseAt = NoErase,
           NEW a \in Addr, NEW v \in Ver, NEW i \in 0 .. BlkSpan - 1,
           NEW l, l = pool'.blk2Lbn[BlkId(a)] + Slice * i,
           pool'.blk2Lbn[BlkId(a)] \in BlockLbns,
           StorePage(a, v, l),
           RingInv(pool', IF LbnOf(tbl, a) = 0
                          THEN [UsedCnt EXCEPT ![BlkId(a)] = @ + 1]
                          ELSE UsedCnt),
           \A c \in Addr : Live(c) =>
               pool'.blk2Lbn[BlkId(c)] = pool.blk2Lbn[BlkId(c)]
    PROVE  /\ CoreInv'
           /\ resp' \in Responses
           /\ \A c \in Addr : LbnOf(tbl', c) = IF c = a THEN l ELSE LbnOf(tbl, c)
           /\ FileOf(l, PlaneOf(a)) \in FileNums
<1> DEFINE b == BlkId(a)
           t == BringIn(tbl, a)
<1>1. l \in Lbns /\ l # 0
    BY PageLbnType, LbnsPositive
<1>2. /\ t \in Tables(Lbns \cup {0}) /\ TableConsistent(t)
      /\ \A c \in Addr : LbnOf(t, c) = LbnOf(tbl, c)
    BY LookupLbn
<1>3. tbl' = UpdateDataLbn(t, a, l) /\ eraseAt' = NoErase
    BY DEF StorePage
<1> HIDE DEF t
<1>4. /\ tbl' \in Tables(Lbns \cup {0}) /\ TableConsistent(tbl')
      /\ \A c \in Addr : LbnOf(tbl', c) = IF c = a THEN l ELSE LbnOf(tbl, c)
    <2>1. l \in Lbns \cup {0}
        BY <1>1
    <2>2. /\ UpdateDataLbn(t, a, l) \in Tables(Lbns \cup {0})
          /\ TableConsistent(UpdateDataLbn(t, a, l))
          /\ \A c \in Addr : LbnOf(UpdateDataLbn(t, a, l), c)
                                = IF c = a THEN l ELSE LbnOf(t, c)
        BY <1>2, <2>1, StoreLbn
    <2> QED
        BY <1>2, <1>3, <2>2
<1>5. \A c \in Addr : Live(c)' <=> (c = a \/ Live(c))
    BY <1>1, <1>3, <1>4, NoEraseType DEF Live, UnderErase
<1>6. UsedCnt' = IF LbnOf(tbl, a) = 0 THEN [UsedCnt EXCEPT ![b] = @ + 1]
                 ELSE UsedCnt
    <2>1. CASE LbnOf(tbl, a) # 0
        <3>1. \A c \in Addr : Live(c)' <=> Live(c)
            BY <1>5, <2>1, LiveIdle
        <3> QED
            BY <2>1, <3>1, SameLiveSameCnt
    <2>2. CASE LbnOf(tbl, a) = 0
        <3>1. ~Live(a) /\ b \in Blk
            BY <2>2, LiveIdle, AddrParts
        <3>2. ASSUME NEW c \in Blk, c # b
              PROVE  LivePages(c)' = LivePages(c)
            BY <1>5, <3>2 DEF LivePages
        <3>3. LivePages(b)' = LivePages(b) \cup {a} /\ a \notin LivePages(b)
            BY <1>5, <3>1 DEF LivePages
        <3>4. Cardinality(LivePages(b) \cup {a}) = Cardinality(LivePages(b)) + 1
            BY <3>1, <3>3, UsedCntIs, PagesOfBlk
        <3>5. ASSUME NEW c \in Blk
              PROVE  Cardinality(LivePages(c)')
                        = IF c = b THEN UsedCnt[b] + 1 ELSE UsedCnt[c]
            BY <3>1, <3>2, <3>3, <3>4, UsedCntIs
        <3>6. UsedCnt' = [c \in Blk |-> IF c = b THEN UsedCnt[b] + 1
                                        ELSE UsedCnt[c]]
            BY <3>5 DEF UsedCnt
        <3>7. UsedCnt' = [UsedCnt EXCEPT ![b] = @ + 1]
            BY <3>1, <3>6, UsedCntIs
        <3> QED
            BY <2>2, <3>7
    <2> QED
        BY <2>1, <2>2
<1>7. RingInv(pool', UsedCnt')
    BY <1>6
<1>8. FileOf(l, PlaneOf(a)) \in FileNums
    BY AddrParts, FileOfPage
<1>9. store' \in Stores /\ HandleAgrees(store')
    <2>1. PICK opened \in Opens :
             store' = WritePageData(store, l, [addr |-> a, ver |-> v],
                                    PageOf(a), PlaneOf(a), opened)
        BY DEF StorePage
    <2>2. opened \in BOOLEAN
        BY OpensAssumption
    <2>3. store \in Stores /\ HandleAgrees(store)
        BY DEF CoreInv
    <2>4. [addr |-> a, ver |-> v] \in Payloads /\ PageOf(a) \in Pages
        BY AddrParts DEF Payloads
    <2> DEFINE d == [addr |-> a, ver |-> v]
               n == FileOf(l, PlaneOf(a))
    <2>5. /\ d \in Payloads /\ n = FileOf(l, PlaneOf(a)) /\ n \in FileNums
          /\ store' = WritePageData(store, l, d, PageOf(a), PlaneOf(a), opened)
        BY <1>8, <2>1, <2>4
    <2> HIDE DEF d, n
    <2> QED
        BY <2>2, <2>3, <2>4, <2>5, WriteStore
<1>10. LbnsAtHome'
    <2>1. ASSUME NEW c \in Addr, Live(c)'
          PROVE  \E k \in 0 .. BlkSpan - 1 :
                     LbnOf(tbl', c) = pool'.blk2Lbn[BlkId(c)] + Slice * k
        <3>1. CASE c = a
            BY <1>4, <3>1
        <3>2. CASE c # a
            <4>1. Live(c) /\ LbnOf(tbl', c) = LbnOf(tbl, c)
                  /\ pool'.blk2Lbn[BlkId(c)] = pool.blk2Lbn[BlkId(c)]
                BY <1>4, <1>5, <2>1, <3>2
            <4> QED
                BY <4>1 DEF CoreInv, LbnsAtHome
        <3> QED
            BY <3>1, <3>2
    <2> QED
        BY <2>1 DEF LbnsAtHome
<1>11. ClearedBehind'
    BY <1>3 DEF ClearedBehind, UnderErase
<1>12. resp' \in Responses
    BY DEF StorePage, Return, Nothing, Responses
<1> QED
    BY <1>3, <1>4, <1>7, <1>8, <1>9, <1>10, <1>11, <1>12 DEF CoreInv

\* What every write comes to, whichever way it got its LBN.
Stored(a, v) ==
    /\ Idle /\ UNCHANGED <<eraseAt, hung>>
    /\ \E l \in Lbns :
          /\ StorePage(a, v, l)
          /\ FileOf(l, PlaneOf(a)) \in FileNums
          /\ \A c \in Addr : LbnOf(tbl', c) = IF c = a THEN l ELSE LbnOf(tbl, c)

\* A page without an LBN is not all of its block.
LEMMA RoomInBlk ==
    ASSUME CoreInv, eraseAt = NoErase, NEW a \in Addr, LbnOf(tbl, a) = 0
    PROVE  UsedCnt[BlkId(a)] < BlkSpan
<1>1. ~Live(a) /\ BlkId(a) \in Blk
    BY LiveIdle, AddrParts
<1> DEFINE b == BlkId(a)
           S == LivePages(b)
<1>2. a \notin S
    BY <1>1 DEF LivePages
<1>3. UsedCnt[b] = Cardinality(S) /\ S \in SUBSET {c \in Addr : BlkId(c) = b}
    BY <1>1, UsedCntIs
<1> HIDE DEF S
<1>4. Cardinality(S) < BlkSpan
    BY <1>2, <1>3, PagesOfBlk
<1> QED
    BY <1>3, <1>4

LEMMA NewBlockStep ==
    ASSUME CoreInv, NEW a \in Addr, NEW v \in Ver, WriteToNewBlock(a, v)
    PROVE  CoreInv' /\ resp' \in Responses /\ Stored(a, v)
<1> DEFINE b == BlkId(a)
           l == FirstLbn(pool)
<1>1. /\ Idle /\ eraseAt = NoErase /\ LbnOf(tbl, a) = 0
      /\ pool.rest[b] = 0 /\ b \in Blk
      /\ RingInv(pool, UsedCnt) /\ pool \in Rings
      /\ UsedCnt \in [Blk -> 0 .. BlkSpan]
    BY LookupLbn, AddrParts DEF WriteToNewBlock, Idle, CoreInv, RingInv
<1>2. UsedCnt[b] < BlkSpan
    BY <1>1, RoomInBlk
<1>3. UsedCnt[b] = 0 /\ pool.avail # 0
    BY <1>1, <1>2, NewBlockFindsLbn
<1>4. StorePage(a, v, l) /\ pool' = AllocBlkLbn(pool, b)
    BY <1>3 DEF WriteToNewBlock
<1>5. l \in BlockLbns /\ l \in Nat
    BY <1>1, <1>3, WaitingAfterAlloc, BlockLbnType
<1>6. pool'.blk2Lbn = [pool.blk2Lbn EXCEPT ![b] = l]
      /\ pool.blk2Lbn \in [Blk -> BlockLbns \cup {0}]
    BY <1>1, <1>4 DEF AllocBlkLbn, Rings
<1>7. RingInv(pool', [UsedCnt EXCEPT ![b] = @ + 1])
    <2>1. [UsedCnt EXCEPT ![b] = @ + 1] = [UsedCnt EXCEPT ![b] = 1]
        BY <1>1, <1>3
    <2> QED
        BY <1>1, <1>2, <1>4, <2>1, RingInvAlloc
<1>8. ASSUME NEW c \in Addr, Live(c)
      PROVE  pool'.blk2Lbn[BlkId(c)] = pool.blk2Lbn[BlkId(c)]
    <2>1. BlkId(c) # b /\ BlkId(c) \in Blk
        BY <1>3, <1>8, LiveBlk, AddrParts
    <2> QED
        BY <1>1, <1>6, <2>1
<1> HIDE DEF l
<1>9. /\ pool'.blk2Lbn[b] = l /\ pool'.blk2Lbn[b] \in BlockLbns
      /\ 0 \in 0 .. BlkSpan - 1 /\ l = pool'.blk2Lbn[b] + Slice * 0
      /\ l \in Lbns
    BY <1>1, <1>5, <1>6, RingSizes, BlockLbnIsLbn DEF Slice
<1>10. /\ CoreInv' /\ resp' \in Responses
       /\ \A c \in Addr : LbnOf(tbl', c) = IF c = a THEN l ELSE LbnOf(tbl, c)
       /\ FileOf(l, PlaneOf(a)) \in FileNums
    BY <1>1, <1>4, <1>7, <1>8, <1>9, StoreStep
<1>11. UNCHANGED <<eraseAt, hung>>
    BY <1>4 DEF StorePage
<1> QED
    BY <1>1, <1>4, <1>9, <1>10, <1>11 DEF Stored

LEMMA OpenBlockStep ==
    ASSUME CoreInv, NEW a \in Addr, NEW v \in Ver, WriteToOpenBlock(a, v)
    PROVE  CoreInv' /\ resp' \in Responses /\ Stored(a, v)
<1> DEFINE b == BlkId(a)
           l == NextLbn(pool, b)
<1>1. /\ Idle /\ eraseAt = NoErase /\ LbnOf(tbl, a) = 0
      /\ pool.rest[b] # 0 /\ b \in Blk
      /\ RingInv(pool, UsedCnt) /\ pool \in Rings
      /\ StorePage(a, v, l) /\ pool' = AllocPageLbn(pool, b)
    BY LookupLbn, AddrParts DEF WriteToOpenBlock, Idle, CoreInv, RingInv
<1>2. UsedCnt[b] < BlkSpan
    BY <1>1, RoomInBlk
<1>3. /\ RingInv(pool', [UsedCnt EXCEPT ![b] = @ + 1])
      /\ UsedCnt[b] \in 1 .. BlkSpan - 1
      /\ l = pool.blk2Lbn[b] + Slice * UsedCnt[b]
      /\ l \in Lbns
    BY <1>1, <1>2, RingInvPage, NextLbnIsLbn
<1>4. pool'.blk2Lbn = pool.blk2Lbn
    BY <1>1 DEF AllocPageLbn, Rings
<1>5. pool.blk2Lbn[b] \in BlockLbns
    <2>1. b \in ProgrammedIn(UsedCnt)
        BY <1>1, <1>3, RingSizes DEF ProgrammedIn
    <2> QED
        BY <1>1, <2>1 DEF RingInv, OpenedIn
<1>6. PICK i \in 0 .. BlkSpan - 1 : l = pool.blk2Lbn[b] + Slice * i
    BY <1>3, RingSizes
<1>7. RingInv(pool', IF LbnOf(tbl, a) = 0
                     THEN [UsedCnt EXCEPT ![b] = @ + 1] ELSE UsedCnt)
    BY <1>1, <1>3
<1>8. /\ l = pool'.blk2Lbn[b] + Slice * i /\ pool'.blk2Lbn[b] \in BlockLbns
      /\ \A c \in Addr : Live(c) =>
            pool'.blk2Lbn[BlkId(c)] = pool.blk2Lbn[BlkId(c)]
    BY <1>4, <1>5, <1>6
<1>9. eraseAt = NoErase /\ StorePage(a, v, l) /\ l \in Lbns
    BY <1>1, <1>3
<1> HIDE DEF l
<1>10. /\ CoreInv' /\ resp' \in Responses
       /\ \A c \in Addr : LbnOf(tbl', c) = IF c = a THEN l ELSE LbnOf(tbl, c)
       /\ FileOf(l, PlaneOf(a)) \in FileNums
    BY <1>6, <1>7, <1>8, <1>9, StoreStep
<1>11. UNCHANGED <<eraseAt, hung>>
    BY <1>9 DEF StorePage
<1> QED
    BY <1>1, <1>9, <1>10, <1>11 DEF Stored

LEMMA OverwriteStep ==
    ASSUME CoreInv, NEW a \in Addr, NEW v \in Ver, Overwrite(a, v)
    PROVE  CoreInv' /\ resp' \in Responses /\ Stored(a, v)
<1> DEFINE l == LbnOf(tbl, a)
<1>1. /\ Idle /\ eraseAt = NoErase /\ l # 0 /\ pool' = pool
      /\ StorePage(a, v, l) /\ RingInv(pool, UsedCnt) /\ l \in Lbns
    BY LookupLbn DEF Overwrite, Idle, CoreInv
<1>2. Live(a)
    BY <1>1, LiveIdle
<1>3. PICK i \in 0 .. BlkSpan - 1 : l = pool.blk2Lbn[BlkId(a)] + Slice * i
    BY <1>2 DEF CoreInv, LbnsAtHome
<1>4. pool.blk2Lbn[BlkId(a)] \in BlockLbns
    BY <1>2, LiveBlk
<1>5. RingInv(pool', IF l = 0 THEN [UsedCnt EXCEPT ![BlkId(a)] = @ + 1]
                     ELSE UsedCnt)
    BY <1>1
<1>6. /\ CoreInv' /\ resp' \in Responses
      /\ \A c \in Addr : LbnOf(tbl', c) = IF c = a THEN l ELSE LbnOf(tbl, c)
      /\ FileOf(l, PlaneOf(a)) \in FileNums
    BY <1>1, <1>3, <1>4, <1>5, StoreStep
<1>7. UNCHANGED <<eraseAt, hung>>
    BY <1>1 DEF StorePage
<1> QED
    BY <1>1, <1>6, <1>7 DEF Stored

\* What a read returns when it does not hang.
LEMMA ReadType ==
    ASSUME CoreInv, NEW a \in Addr, Live(a), NEW opened \in BOOLEAN,
           NEW buf \in {Nothing} \cup {[addr |-> a, ver |-> v] : v \in Ver},
           ReadPageData(store, LbnOf(tbl, a), buf, PageOf(a), PlaneOf(a),
                        opened).addr = a
    PROVE  ReturnData(ReadPageData(store, LbnOf(tbl, a), buf, PageOf(a),
                                   PlaneOf(a), opened)) \in Responses
<1> DEFINE n == FileOf(LbnOf(tbl, a), PlaneOf(a))
           cell == store.files[n][PageOf(a)]
           data == ReadPageData(store, LbnOf(tbl, a), buf, PageOf(a),
                                PlaneOf(a), opened)
           D == [addr : Addr \cup {-1}, ver : Ver \cup {0}]
<1>1. cell \in Payloads \cup {Zeros, Nothing}
    BY LiveBlk, AddrParts DEF CoreInv, Stores
<1>2. buf \in D
    BY DEF Nothing
<1>3. data = IF opened /\ cell # Nothing THEN TextRead(cell, buf) ELSE buf
    BY DEF ReadPageData, Cell
<1>4. 0 \in Addr
    BY Spans DEF Addr
<1> HIDE DEF cell, data
<1>5. cell \in D
    BY <1>1, <1>4 DEF Payloads, Zeros, Nothing
<1>6. TextRead(cell, buf) \in D \/ TextRead(cell, buf) = Garbled
    BY <1>2, <1>5 DEF TextRead
<1>7. Garbled.addr = -2 /\ a # -2
    BY DEF Garbled, Addr
<1>8. data \in D
    BY <1>2, <1>3, <1>6, <1>7 DEF data
<1> QED
    BY <1>8 DEF ReturnData, Responses, data

LEMMA ReadStep ==
    ASSUME FlashInv, NEW a \in Addr, ReadData(a)
    PROVE  FlashInv'
<1>1. /\ CoreInv /\ Idle /\ eraseAt = NoErase /\ Lookup(a) # 0
      /\ tbl' = BringIn(tbl, a)
      /\ pool' = pool /\ store' = store /\ eraseAt' = eraseAt
    BY DEF ReadData, FlashInv, Idle
<1>2. CoreInv'
    BY <1>1, LookupStep
<1>3. Live(a) /\ Lookup(a) = LbnOf(tbl, a)
    BY <1>1, LookupLbn, LiveIdle
<1>4. PICK opened \in Opens,
           buf \in {Nothing} \cup {[addr |-> a, ver |-> v] : v \in Ver} :
          LET data == ReadPageData(store, Lookup(a), buf,
                                   PageOf(a), PlaneOf(a), opened)
          IN  IF data.addr = a
              THEN resp' = ReturnData(data) /\ UNCHANGED hung
              ELSE hung' = TRUE /\ UNCHANGED resp
    BY DEF ReadData
<1>5. opened \in BOOLEAN
    BY OpensAssumption
<1> DEFINE data == ReadPageData(store, LbnOf(tbl, a), buf,
                                PageOf(a), PlaneOf(a), opened)
<1>6. data.addr = a => ReturnData(data) \in Responses
    BY <1>1, <1>3, <1>5, ReadType
<1>7. IF data.addr = a THEN resp' = ReturnData(data) /\ hung' = hung
      ELSE hung' = TRUE /\ resp' = resp
    BY <1>3, <1>4
<1> HIDE DEF data
<1>8. hung' \in BOOLEAN /\ resp' \in Responses
    BY <1>6, <1>7 DEF FlashInv
<1> QED
    BY <1>2, <1>8 DEF FlashInv

LEMMA EraseBeginStep ==
    ASSUME CoreInv, NEW a \in Addr, EraseBegin(a)
    PROVE  /\ CoreInv' /\ eraseAt' # NoErase
           /\ \A c \in Addr :
                 /\ Live(c)' <=> Live(c) /\ c \notin BlkAddrs(a)
                 /\ LbnOf(tbl', c) = LbnOf(tbl, c)
<1> DEFINE b == BlkId(a)
<1>1. /\ eraseAt = NoErase /\ LbnOf(tbl, a) # 0 /\ b \in Blk
      /\ tbl' = BringIn(tbl, a) /\ pool' = RecycleBlkLbn(pool, b)
      /\ eraseAt' = BlkFirst(a) /\ store' = store
      /\ RingInv(pool, UsedCnt) /\ pool \in Rings
      /\ UsedCnt \in [Blk -> 0 .. BlkSpan]
    BY LookupLbn, AddrParts DEF EraseBegin, Idle, CoreInv, RingInv
<1>2. /\ tbl' \in Tables(Lbns \cup {0}) /\ TableConsistent(tbl')
      /\ \A c \in Addr : LbnOf(tbl', c) = LbnOf(tbl, c)
    BY <1>1, LookupLbn
<1>3. /\ eraseAt' \in Addr /\ eraseAt' # NoErase
      /\ BlkFirst(eraseAt') = BlkFirst(a)
    <2>1. BlkFirst(a) \in Addr
        BY BlkAddrsOf
    <2>2. BlkFirst(BlkFirst(a)) = BlkFirst(a)
        BY <2>1, BlkAddrsOf
    <2> QED
        BY <1>1, <2>1, <2>2, NoEraseType
<1>4. Live(a)
    BY <1>1, LiveIdle
<1>5. ASSUME NEW c \in Addr
      PROVE  /\ Live(c)' <=> Live(c) /\ BlkId(c) # b
             /\ c \in BlkAddrs(a) <=> BlkId(c) = b
    <2>1. BlkFirst(c) = BlkFirst(a) <=> BlkId(c) = b
        BY SameBlk
    <2>2. UnderErase(c)' <=> BlkId(c) = b
        BY <1>3, <2>1 DEF UnderErase
    <2>3. LbnOf(tbl', c) = LbnOf(tbl, c) /\ ~UnderErase(c)
        BY <1>1, <1>2 DEF UnderErase
    <2> QED
        BY <2>1, <2>2, <2>3, BlkAddrsOf DEF Live
<1>6. UsedCnt' = [UsedCnt EXCEPT ![b] = 0] /\ UsedCnt[b] > 0
    <2>1. LivePages(b)' = {}
        BY <1>5 DEF LivePages
    <2>2. ASSUME NEW c \in Blk, c # b
          PROVE  LivePages(c)' = LivePages(c)
        BY <1>5, <2>2 DEF LivePages
    <2>3. ASSUME NEW c \in Blk
          PROVE  Cardinality(LivePages(c)') = IF c = b THEN 0 ELSE UsedCnt[c]
        BY <2>1, <2>2, FS_EmptySet, UsedCntIs
    <2>4. UsedCnt' = [c \in Blk |-> IF c = b THEN 0 ELSE UsedCnt[c]]
        BY <2>3 DEF UsedCnt
    <2> QED
        BY <1>1, <1>4, <2>4, LiveBlk
<1>7. RingInv(pool', UsedCnt')
    BY <1>1, <1>6, RingInvRecycle
<1>8. LbnsAtHome'
    <2>1. pool'.blk2Lbn = pool.blk2Lbn
        BY <1>1 DEF RecycleBlkLbn, Rings
    <2> QED
        BY <1>2, <1>5, <2>1 DEF CoreInv, LbnsAtHome
<1>9. ClearedBehind'
    <2>1. ASSUME NEW c \in Addr, UnderErase(c)', c < eraseAt'
          PROVE  FALSE
        <3>1. BlkFirst(c) = BlkFirst(a) /\ eraseAt' = BlkFirst(a)
            BY <1>1, <1>3, <2>1 DEF UnderErase
        <3>2. c >= BlkFirst(c) /\ c \in Nat /\ BlkFirst(c) \in Nat
            BY AddrParts, BlkAddrsOf
        <3> QED
            BY <2>1, <3>1, <3>2
    <2> QED
        BY <2>1 DEF ClearedBehind
<1> QED
    BY <1>1, <1>2, <1>3, <1>5, <1>7, <1>8, <1>9 DEF CoreInv

\* A turn of the loop changes what no live page has.
LEMMA EraseTurnStep ==
    ASSUME CoreInv, EraseStep
    PROVE  /\ CoreInv'
           /\ \A c \in Addr : /\ Live(c)' <=> Live(c)
                              /\ Live(c) => LbnOf(tbl', c) = LbnOf(tbl, c)
           /\ eraseAt \in Addr /\ eraseAt # NoErase
           /\ \A c \in Addr : c # eraseAt => LbnOf(tbl', c) = LbnOf(tbl, c)
           /\ eraseAt' # NoErase => BlkId(eraseAt') = BlkId(eraseAt)
<1> DEFINE e == eraseAt
<1>1. /\ e \in Addr /\ e # NoErase
      /\ tbl' = UpdateDataLbn(tbl, e, 0)
      /\ pool' = pool /\ store' = store
      /\ tbl \in Tables(Lbns \cup {0}) /\ TableConsistent(tbl)
      /\ 0 \in Lbns \cup {0}
    BY DEF EraseStep, CoreInv
<1>2. /\ tbl' \in Tables(Lbns \cup {0}) /\ TableConsistent(tbl')
      /\ \A c \in Addr : LbnOf(tbl', c) = IF c = e THEN 0 ELSE LbnOf(tbl, c)
    BY <1>1, StoreLbn
<1>3. /\ e \in Nat /\ e \in BlkAddrs(e) /\ BlkFirst(e) \in Nat
      /\ LastOfBlk(e) = BlkFirst(e) + BlkSpan - 1
      /\ BlkAddrs(e) = BlkFirst(e) .. LastOfBlk(e)
      /\ BlkSpan \in Nat \ {0}
    BY <1>1, AddrParts, BlkAddrsOf, RingSizes DEF BlkAddrs, LastOfBlk
<1>4. \A c \in Addr : UnderErase(c) <=> c \in BlkAddrs(e)
    BY <1>1, BlkAddrsOf DEF UnderErase
<1>5. /\ \A c \in Addr : /\ Live(c)' <=> Live(c)
                         /\ Live(c) => LbnOf(tbl', c) = LbnOf(tbl, c)
      /\ eraseAt' \in Addr \cup {NoErase}
      /\ eraseAt' # NoErase => BlkId(eraseAt') = BlkId(e)
      /\ ClearedBehind'
    <2>1. CASE e = LastOfBlk(e)
        <3>1. eraseAt' = NoErase
            BY <2>1 DEF EraseStep
        <3>2. ASSUME NEW c \in Addr, c \in BlkAddrs(e)
              PROVE  LbnOf(tbl', c) = 0
            <4>1. c = e \/ c < e
                BY <1>3, <2>1, <3>2
            <4>2. c < e => LbnOf(tbl, c) = 0
                BY <1>4, <3>2 DEF CoreInv, ClearedBehind
            <4> QED
                BY <1>2, <4>1, <4>2
        <3>3. ASSUME NEW c \in Addr
              PROVE  /\ Live(c)' <=> Live(c)
                     /\ Live(c) => LbnOf(tbl', c) = LbnOf(tbl, c)
            <4>1. Live(c)' <=> LbnOf(tbl', c) # 0
                BY <3>1 DEF Live, UnderErase
            <4>2. CASE c \in BlkAddrs(e)
                BY <1>4, <3>2, <4>1, <4>2 DEF Live
            <4>3. CASE c \notin BlkAddrs(e)
                BY <1>2, <1>3, <1>4, <4>1, <4>3 DEF Live
            <4> QED
                BY <4>2, <4>3
        <3> QED
            BY <3>1, <3>3 DEF ClearedBehind, UnderErase
    <2>2. CASE e # LastOfBlk(e)
        <3>1. eraseAt' = e + 1
            BY <2>2 DEF EraseStep
        <3>2. eraseAt' \in BlkAddrs(e)
            BY <1>3, <2>2, <3>1
        <3>3. eraseAt' \in Addr /\ BlkFirst(eraseAt') = BlkFirst(e)
            BY <1>1, <3>2, BlkAddrsOf
        <3>4. eraseAt' # NoErase
            BY <3>3, NoEraseType
        <3>5. \A c \in Addr : UnderErase(c)' <=> UnderErase(c)
            BY <1>1, <3>3, <3>4 DEF UnderErase
        <3>6. \A c \in Addr : /\ Live(c)' <=> Live(c)
                              /\ Live(c) => LbnOf(tbl', c) = LbnOf(tbl, c)
            BY <1>2, <1>3, <1>4, <3>5 DEF Live
        <3>7. ASSUME NEW c \in Addr, UnderErase(c)', c < eraseAt'
              PROVE  LbnOf(tbl', c) = 0
            <4>1. c = e \/ c < e
                BY <1>3, <3>1, <3>7, AddrParts
            <4>2. c < e => LbnOf(tbl, c) = 0
                BY <3>5, <3>7 DEF CoreInv, ClearedBehind
            <4> QED
                BY <1>2, <4>1, <4>2
        <3>8. BlkId(eraseAt') = BlkId(e)
            BY <1>1, <3>3, SameBlk
        <3> QED
            BY <3>3, <3>6, <3>7, <3>8 DEF ClearedBehind
    <2> QED
        BY <2>1, <2>2
<1>6. UsedCnt' = UsedCnt
    BY <1>5, SameLiveSameCnt
<1>7. RingInv(pool', UsedCnt')
    BY <1>1, <1>6 DEF CoreInv
<1>8. LbnsAtHome'
    BY <1>1, <1>5 DEF CoreInv, LbnsAtHome
<1> QED
    BY <1>1, <1>2, <1>5, <1>7, <1>8 DEF CoreInv

LEMMA FreshCore ==
    ASSUME tbl = EmptyTable, pool = FullRing, eraseAt = NoErase,
           store \in Stores, HandleAgrees(store)
    PROVE  CoreInv /\ \A c \in Addr : ~Live(c)
<1>1. tbl \in Tables(Lbns \cup {0}) /\ TableConsistent(tbl)
    BY EmptyTableType, EmptyTableConsistent
<1>2. \A c \in Addr : LbnOf(tbl, c) = 0
    BY EmptyTableView DEF LbnView
<1>3. \A c \in Addr : ~Live(c)
    BY <1>2 DEF Live
<1>4. UsedCnt = [b \in Blk |-> 0]
    <2>1. \A b \in Blk : LivePages(b) = {}
        BY <1>3 DEF LivePages
    <2> QED
        BY <2>1, FS_EmptySet DEF UsedCnt
<1>5. RingInv(pool, UsedCnt)
    BY <1>4, RingInvFull
<1> QED
    BY <1>1, <1>3, <1>5 DEF CoreInv, LbnsAtHome, ClearedBehind, UnderErase

\* The files of an earlier session are no obstacle to a new one.
LEMMA FreshStoreType ==
    ASSUME NEW f \in [FileNums -> [Pages -> Payloads \cup {Zeros, Nothing}]]
    PROVE  FreshStore(f) \in Stores /\ HandleAgrees(FreshStore(f))
BY DEF FreshStore, Stores, HandleAgrees

LEMMA InitFlashInv == Init => FlashInv /\ \A c \in Addr : ~Live(c)
<1> SUFFICES ASSUME Init
             PROVE  FlashInv /\ \A c \in Addr : ~Live(c)
    OBVIOUS
<1>1. NoFiles \in [FileNums -> [Pages -> Payloads \cup {Zeros, Nothing}]]
    BY DEF NoFiles
<1>2. store \in Stores /\ HandleAgrees(store)
    BY <1>1, FreshStoreType DEF Init
<1>3. CoreInv /\ \A c \in Addr : ~Live(c)
    BY <1>2, FreshCore DEF Init
<1>4. hung \in BOOLEAN /\ resp \in Responses
    BY DEF Init, Return, Nothing, Responses
<1> QED
    BY <1>3, <1>4 DEF FlashInv

LEMMA ReinitStep ==
    ASSUME CoreInv, Reinit
    PROVE  CoreInv' /\ resp' \in Responses /\ \A c \in Addr : ~Live(c)'
<1>1. /\ tbl' = EmptyTable /\ pool' = FullRing /\ eraseAt' = NoErase
      /\ store' = FreshStore(store.files) /\ resp' = Return("none")
    BY DEF Reinit, Idle
<1>2. store' \in Stores /\ HandleAgrees(store')
    BY <1>1, FreshStoreType DEF CoreInv, Stores
<1>3. (tbl = EmptyTable /\ pool = FullRing /\ eraseAt = NoErase
       /\ store \in Stores /\ HandleAgrees(store)
       => CoreInv /\ \A c \in Addr : ~Live(c))'
    BY FreshCore, PTL
<1>4. CoreInv' /\ \A c \in Addr : ~Live(c)'
    BY <1>1, <1>2, <1>3
<1>5. resp' \in Responses
    BY <1>1 DEF Return, Nothing, Responses
<1> QED
    BY <1>4, <1>5

LEMMA StoredStep ==
    ASSUME FlashInv, NEW a \in Addr, NEW v \in Ver,
           WriteToNewBlock(a, v) \/ WriteToOpenBlock(a, v) \/ Overwrite(a, v)
    PROVE  FlashInv' /\ Stored(a, v)
<1>1. CoreInv' /\ resp' \in Responses /\ Stored(a, v)
    BY NewBlockStep, OpenBlockStep, OverwriteStep DEF FlashInv
<1> QED
    BY <1>1 DEF FlashInv, Stored

\* A lookup that is all a command does to the state.
LEMMA LookupOnly ==
    ASSUME FlashInv, NEW a \in Addr, tbl' = BringIn(tbl, a),
           resp' \in Responses, UNCHANGED <<pool, store, eraseAt, hung>>
    PROVE  FlashInv'
BY LookupStep DEF FlashInv

LEMMA FlashStutter ==
    ASSUME FlashInv, UNCHANGED <<tbl, pool, store, eraseAt, hung>>,
           resp' \in Responses
    PROVE  FlashInv'
<1>1. CoreInv'
    BY SameViewStep DEF FlashInv, CoreInv
<1> QED
    BY <1>1 DEF FlashInv

LEMMA ReturnType ==
    ASSUME NEW x \in {"none", "zero", "blank", "lbn"}
    PROVE  Return(x) \in Responses
BY DEF Return, Nothing, Responses

LEMMA NextFlashInv == FlashInv /\ [Next]_vars => FlashInv'
<1> SUFFICES ASSUME FlashInv, [Next]_vars
             PROVE  FlashInv'
    OBVIOUS
<1>1. CASE RejectAddr
    BY <1>1, FlashStutter, ReturnType DEF RejectAddr
<1>2. ASSUME NEW a \in Addr, NEW v \in Ver,
             WriteToNewBlock(a, v) \/ WriteToOpenBlock(a, v) \/ Overwrite(a, v)
      PROVE  FlashInv'
    BY <1>2, StoredStep
<1>3. ASSUME NEW a \in Addr, ReadBlank(a) \/ EraseBlank(a) \/ OtherCmd(a)
      PROVE  FlashInv'
    <2>1. /\ tbl' = BringIn(tbl, a)
          /\ UNCHANGED <<pool, store, eraseAt, hung>>
          /\ \E x \in {"none", "zero", "blank", "lbn"} : resp' = Return(x)
        BY <1>3 DEF ReadBlank, EraseBlank, OtherCmd
    <2> QED
        BY <2>1, LookupOnly, ReturnType
<1>4. ASSUME NEW a \in Addr, ReadData(a)
      PROVE  FlashInv'
    BY <1>4, ReadStep
<1>5. ASSUME NEW a \in Addr, EraseBegin(a)
      PROVE  FlashInv'
    <2>1. CoreInv' /\ UNCHANGED <<hung, resp>>
        BY <1>5, EraseBeginStep DEF FlashInv, EraseBegin
    <2> QED
        BY <2>1 DEF FlashInv
<1>6. CASE EraseStep
    <2>1. CoreInv' /\ hung' = hung
        BY <1>6, EraseTurnStep DEF FlashInv, EraseStep
    <2>2. resp' = resp \/ resp' = Return("lbn")
        BY <1>6 DEF EraseStep
    <2> QED
        BY <2>1, <2>2, ReturnType DEF FlashInv
<1>7. CASE Reinit
    <2>1. CoreInv' /\ resp' \in Responses /\ hung' = hung
        BY <1>7, ReinitStep DEF FlashInv, Reinit
    <2> QED
        BY <2>1 DEF FlashInv
<1>8. CASE UNCHANGED vars
    BY <1>8, FlashStutter DEF vars, FlashInv
<1> QED
    BY <1>1, <1>2, <1>3, <1>4, <1>5, <1>6, <1>7, <1>8 DEF Next

LEMMA SpecFlashInv == Spec => []FlashInv
<1>1. Init => FlashInv
    BY InitFlashInv
<1> QED
    BY <1>1, NextFlashInv, PTL DEF Spec

\* Through any sequence of commands, failed opens and re-initialisations the
\* table, the ring, the files and the response keep their types: no index
\* leaves its array and the table holds LBNs of the device only.
THEOREM FlashTypeOK == Spec => []TypeOK
BY SpecFlashInv, FlashInvType, PTL

-----------------------------------------------------------------------------
(* Where the payloads are.                                                 *)

LEMMA CoreCellsDisjoint == CoreInv => CellsDisjoint
<1> SUFFICES ASSUME CoreInv, NEW a \in Addr, NEW c \in Addr,
                    Live(a), Live(c), PageOf(a) = PageOf(c),
                    FileOf(LbnOf(tbl, a), PlaneOf(a))
                       = FileOf(LbnOf(tbl, c), PlaneOf(c))
             PROVE  a = c
    BY DEF CellsDisjoint
<1> DEFINE l == pool.blk2Lbn[BlkId(a)]
           m == pool.blk2Lbn[BlkId(c)]
<1>1. /\ l \in BlockLbns /\ m \in BlockLbns
      /\ BlkId(a) \in ProgrammedIn(UsedCnt)
      /\ BlkId(c) \in ProgrammedIn(UsedCnt)
      /\ l + PlaneOf(a) * PlaneLbnCnt = m + PlaneOf(c) * PlaneLbnCnt
      /\ PlaneOf(a) \in 0 .. PlaneCnt - 1 /\ PlaneOf(c) \in 0 .. PlaneCnt - 1
    BY LiveBlk, AddrParts
<1>2. l = m /\ PlaneOf(a) = PlaneOf(c)
    <2> HIDE DEF l, m
    <2> QED
        BY <1>1, FileUnique
<1>3. BlkId(a) = BlkId(c)
    BY <1>1, <1>2 DEF CoreInv, RingInv, OneOwnerIn
<1> QED
    BY <1>2, <1>3, AddrFromParts

\* data.c forgets the LBN of a page and keeps its block, plane and page: still
\* no two live pages ever share a place in a file, because no block LBN is
\* with two blocks and every LBN in the table is one of its own block's.
THEOREM FlashCellsDisjoint == Spec => []CellsDisjoint
BY SpecFlashInv, CoreCellsDisjoint, PTL DEF FlashInv

\* One write, seen from one page of one file.
LEMMA StoredLandsHome ==
    ASSUME CoreInv, NEW a \in Addr, NEW v \in Ver, Stored(a, v),
           NEW n \in FileNums, NEW p \in Pages
    PROVE  LET cell == store'.files[n][p]
           IN  \/ cell = store.files[n][p]
               \/ cell = Zeros
               \/ /\ PageOf(cell.addr) = p
                  /\ FileOf(LbnOf(tbl', cell.addr), PlaneOf(cell.addr)) = n
<1> DEFINE d == [addr |-> a, ver |-> v]
           F == Payloads \cup {Zeros, Nothing}
<1>1. PICK l \in Lbns :
         /\ StorePage(a, v, l)
         /\ FileOf(l, PlaneOf(a)) \in FileNums
         /\ LbnOf(tbl', a) = l
    BY DEF Stored
<1>2. PICK opened \in Opens :
         store' = WritePageData(store, l, d, PageOf(a), PlaneOf(a), opened)
    BY <1>1 DEF StorePage
<1> DEFINE m == FileOf(l, PlaneOf(a))
<1>3. /\ opened \in BOOLEAN /\ store \in Stores /\ HandleAgrees(store)
      /\ d \in Payloads /\ PageOf(a) \in Pages /\ m \in FileNums
    BY <1>1, OpensAssumption, AddrParts DEF CoreInv, Payloads
<1>4. \/ store'.files = store.files
      \/ store'.files = [store.files EXCEPT ![m] = FileWith(@, PageOf(a), d)]
    BY <1>2, <1>3, WriteStore
<1>5. store.files \in [FileNums -> [Pages -> F]]
    BY <1>3 DEF Stores
<1> HIDE DEF m, d, F
<1>6. CASE store'.files = store.files \/ n # m
    BY <1>4, <1>5, <1>6
<1>7. CASE n = m /\ store'.files
                       = [store.files EXCEPT ![m] = FileWith(@, PageOf(a), d)]
    <2>1. store'.files[n] = FileWith(store.files[n], PageOf(a), d)
        BY <1>5, <1>7
    <2>2. store.files[n] \in [Pages -> F]
        BY <1>5
    <2>3. CASE p = PageOf(a)
        <3>1. store'.files[n][p] = d
            BY <1>3, <2>1, <2>2, <2>3, WritePage DEF F
        <3> QED
            BY <1>1, <1>7, <2>3, <3>1 DEF d, m
    <2>4. CASE p # PageOf(a)
        <3>1. store'.files[n][p] \in {store.files[n][p], Zeros}
            BY <1>3, <2>1, <2>2, <2>4, WritePage DEF F
        <3> QED
            BY <3>1
    <2> QED
        BY <2>3, <2>4
<1> QED
    BY <1>4, <1>6, <1>7

LEMMA OnlyWritesTouchFiles ==
    ASSUME [Next]_vars
    PROVE  \/ \E a \in Addr, v \in Ver :
                 \/ WriteToNewBlock(a, v) \/ WriteToOpenBlock(a, v)
                 \/ Overwrite(a, v)
           \/ store'.files = store.files
<1>1. CASE \/ RejectAddr \/ EraseStep
           \/ \E a \in Addr : \/ ReadBlank(a) \/ ReadData(a) \/ EraseBlank(a)
                              \/ EraseBegin(a) \/ OtherCmd(a)
    BY <1>1 DEF RejectAddr, EraseStep, ReadBlank, ReadData, EraseBlank,
                EraseBegin, OtherCmd
<1>2. CASE Reinit
    BY <1>2 DEF Reinit, FreshStore
<1>3. CASE UNCHANGED vars
    BY <1>3 DEF vars
<1> QED
    BY <1>1, <1>2, <1>3 DEF Next

\* No write misses: through cached handles and opens that fail a payload goes
\* to the place of its own page or nowhere.
THEOREM FlashWritesLandHome == Spec => WritesLandHome
<1> DEFINE Home(n, p) ==
        LET cell == store'.files[n][p]
        IN  \/ cell = store.files[n][p]
            \/ cell = Zeros
            \/ /\ PageOf(cell.addr) = p
               /\ FileOf(LbnOf(tbl', cell.addr), PlaneOf(cell.addr)) = n
<1>1. ASSUME FlashInv, [Next]_vars, NEW n \in FileNums, NEW p \in Pages
      PROVE  Home(n, p)
    <2>1. CASE \E a \in Addr, v \in Ver :
                 \/ WriteToNewBlock(a, v) \/ WriteToOpenBlock(a, v)
                 \/ Overwrite(a, v)
        <3>1. PICK a \in Addr, v \in Ver : Stored(a, v)
            BY <1>1, <2>1, StoredStep
        <3> QED
            BY <1>1, <3>1, StoredLandsHome DEF FlashInv
    <2>2. CASE store'.files = store.files
        BY <2>2
    <2> QED
        BY <1>1, <2>1, <2>2, OnlyWritesTouchFiles
<1>2. FlashInv /\ [Next]_vars => [\A n \in FileNums, p \in Pages : Home(n, p)]_vars
    BY <1>1
<1> HIDE DEF Home
<1>3. Spec => [][\A n \in FileNums, p \in Pages : Home(n, p)]_vars
    BY <1>2, SpecFlashInv, PTL DEF Spec
<1> QED
    BY <1>3 DEF Home, WritesLandHome

-----------------------------------------------------------------------------
(* The counters.                                                           *)
(*                                                                         *)
(* StatsSpec is Spec with counters that ride on its steps, so that all     *)
(* that is proved of Spec holds of it.                                     *)

Erasing(b) == eraseAt # NoErase /\ BlkId(eraseAt) = b

CountsType ==
    /\ hitCnt \in Nat /\ chkCnt \in Nat
    /\ rdCnt \in [Blk -> Nat] /\ blkErCnt \in [Blk -> Nat]

\* ErasuresCounted, and what it says while another block is under erase.
ErasedIfGone ==
    \A b \in Blk :
        rdCnt[b] > 0 /\ Blank(b) /\ ~Erasing(b) => blkErCnt[b] > 0

StatsInv == FlashInv /\ CountsType /\ ErasedIfGone /\ ColdMissesOnly

LEMMA StatsStepIsStep ==
    ASSUME [StatsNext]_allVars
    PROVE  [Next]_vars
<1>1. CASE RejectAddr \/ EraseTurn \/ StatsReinit
    BY <1>1 DEF EraseTurn, StatsReinit, Next
<1>2. CASE ClearChkHitCnt \/ UNCHANGED allVars
    BY <1>2 DEF ClearChkHitCnt, allVars
<1>3. ASSUME NEW a \in Addr,
             \/ \E v \in Ver : Write(a, v)
             \/ ReadOfBlank(a) \/ ReadOfData(a)
             \/ EraseOfBlank(a) \/ EraseStart(a) \/ Other(a)
      PROVE  Next
    BY <1>3 DEF Write, ReadOfBlank, ReadOfData, EraseOfBlank, EraseStart,
                Other, Next
<1> QED
    BY <1>1, <1>2, <1>3 DEF StatsNext

LEMMA BitmapFinite ==
    ASSUME NEW S \in SUBSET TblPages
    PROVE  /\ IsFiniteSet(S) /\ Cardinality(S) \in Nat
           /\ \A p \in TblPages :
                 /\ p \notin S => Cardinality(S \cup {p}) = Cardinality(S) + 1
                 /\ Cardinality(S \cup {p}) >= Cardinality(S)
<1>1. IsFiniteSet(TblPages)
    <2> DEFINE n == ChCnt * PagesPerCh
    <2>1. n \in Nat /\ TblPages = 0 .. n - 1
        BY WholePages
    <2> HIDE DEF n
    <2> QED
        BY <2>1, FS_Interval
<1>2. IsFiniteSet(S) /\ Cardinality(S) \in Nat
    BY <1>1, FS_Subset, FS_CardinalityType
<1>3. ASSUME NEW p \in TblPages
      PROVE  /\ p \notin S => Cardinality(S \cup {p}) = Cardinality(S) + 1
             /\ Cardinality(S \cup {p}) >= Cardinality(S)
    <2>1. CASE p \in S
        <3>1. S \cup {p} = S
            BY <2>1
        <3> QED
            BY <1>2, <2>1, <3>1
    <2>2. CASE p \notin S
        <3>1. Cardinality(S \cup {p}) = Cardinality(S) + 1
            BY <1>2, <2>2, FS_AddElement
        <3> QED
            BY <1>2, <3>1
    <2> QED
        BY <2>1, <2>2
<1> QED
    BY <1>2, <1>3

\* The bitmap after a lookup, with a frame for every table page.
LEMMA LookupBitmap ==
    ASSUME CoreInv, NEW a \in Addr, PagesPerCh <= PagePerBank,
           \/ tbl' = BringIn(tbl, a)
           \/ \E l : tbl' = UpdateDataLbn(BringIn(tbl, a), a, l)
           \/ \E l : tbl' = UpdateDataLbn(tbl, a, l)
    PROVE  tbl'.bitmap = tbl.bitmap \cup {TblPage(a)}
<1> DEFINE t == BringIn(tbl, a)
           L == Lbns \cup {0}
<1>1. tbl \in Tables(L) /\ TableConsistent(tbl)
    BY DEF CoreInv
<1>2. t \in Tables(L) /\ TableConsistent(t)
      /\ t.bitmap = tbl.bitmap \cup {TblPage(a)}
    BY <1>1, BringInType, BringInConsistent, BringInAddsPage
<1>3. BringIn(t, a).bitmap = t.bitmap \cup {TblPage(a)}
    BY <1>2, BringInAddsPage
<1>4. ASSUME NEW l
      PROVE  /\ UpdateDataLbn(t, a, l).bitmap = tbl.bitmap \cup {TblPage(a)}
             /\ UpdateDataLbn(tbl, a, l).bitmap = tbl.bitmap \cup {TblPage(a)}
    <2>1. UpdateDataLbn(t, a, l).bitmap = BringIn(t, a).bitmap
        BY <1>2, UpdateBitmap
    <2>2. UpdateDataLbn(tbl, a, l).bitmap = t.bitmap
        BY <1>1, UpdateBitmap
    <2> QED
        BY <1>2, <1>3, <2>1, <2>2
<1> QED
    BY <1>2, <1>4

\* A lookup that is counted adds a miss only with a page in the bitmap.
LEMMA CountedLookup ==
    ASSUME StatsInv, NEW a \in Addr, CountLookup(a),
           \/ tbl' = BringIn(tbl, a)
           \/ \E l : tbl' = UpdateDataLbn(BringIn(tbl, a), a, l)
    PROVE  hitCnt' \in Nat /\ chkCnt' \in Nat /\ ColdMissesOnly'
<1>1. /\ hitCnt \in Nat /\ chkCnt \in Nat /\ CoreInv
      /\ tbl.bitmap \in SUBSET TblPages /\ TblPage(a) \in TblPages
    BY AddrSplit DEF StatsInv, FlashInv, CountsType, CoreInv, Tables
<1>2. /\ chkCnt' = chkCnt + 1
      /\ hitCnt' = hitCnt + (IF InDram(tbl, a) THEN 1 ELSE 0)
    BY DEF CountLookup
<1>3. ASSUME PagesPerCh <= PagePerBank
      PROVE  chkCnt' - hitCnt' <= Cardinality(tbl'.bitmap)
    <2> DEFINE n == Cardinality(tbl.bitmap)
    <2>1. tbl'.bitmap = tbl.bitmap \cup {TblPage(a)}
        BY <1>1, <1>3, LookupBitmap
    <2>2. chkCnt - hitCnt <= n /\ n \in Nat
        BY <1>1, <1>3, BitmapFinite DEF StatsInv, ColdMissesOnly, PagesPerCh
    <2>3. CASE InDram(tbl, a)
        <3>1. tbl'.bitmap = tbl.bitmap
            BY <2>1, <2>3 DEF InDram
        <3> QED
            BY <1>1, <1>2, <2>2, <2>3, <3>1
    <2>4. CASE ~InDram(tbl, a)
        <3>1. Cardinality(tbl'.bitmap) = n + 1
            BY <1>1, <2>1, <2>4, BitmapFinite DEF InDram
        <3> QED
            BY <1>1, <1>2, <2>2, <2>4, <3>1
    <2> QED
        BY <2>3, <2>4
<1> QED
    BY <1>1, <1>2, <1>3 DEF ColdMissesOnly, PagesPerCh

\* A lookup that brings a page in and leaves the LBNs as they are.
LEMMA QuietCounts ==
    ASSUME StatsInv, NEW a \in Addr, CountLookup(a), tbl' = BringIn(tbl, a),
           rdCnt' \in [Blk -> Nat], blkErCnt' \in [Blk -> Nat],
           eraseAt = NoErase,
           \A b \in Blk : rdCnt'[b] = rdCnt[b] \/ ~Blank(b),
           \A b \in Blk : blkErCnt'[b] >= blkErCnt[b]
    PROVE  CountsType' /\ ErasedIfGone' /\ ColdMissesOnly'
<1>1. hitCnt' \in Nat /\ chkCnt' \in Nat /\ ColdMissesOnly'
    BY CountedLookup
<1>2. \A b \in Blk : Blank(b)' <=> Blank(b)
    BY LookupLbn DEF StatsInv, FlashInv, Blank
<1>3. ErasedIfGone'
    <2>1. ASSUME NEW b \in Blk, rdCnt'[b] > 0, Blank(b)
          PROVE  blkErCnt'[b] > 0
        <3>1. rdCnt[b] > 0 /\ ~Erasing(b)
            BY <2>1 DEF Erasing
        <3>2. blkErCnt[b] > 0 /\ blkErCnt[b] \in Nat
            BY <2>1, <3>1 DEF StatsInv, ErasedIfGone, CountsType
        <3> QED
            BY <3>2
    <2> QED
        BY <1>2, <2>1 DEF ErasedIfGone
<1> QED
    BY <1>1, <1>3 DEF CountsType

LEMMA CountedTypes ==
    ASSUME CountsType, NEW a \in Addr
    PROVE  /\ BlkId(a) \in Blk
           /\ [rdCnt EXCEPT ![BlkId(a)] = @ + 1] \in [Blk -> Nat]
           /\ [blkErCnt EXCEPT ![BlkId(a)] = @ + 1] \in [Blk -> Nat]
           /\ \A b \in Blk :
                 /\ [blkErCnt EXCEPT ![BlkId(a)] = @ + 1][b] >= blkErCnt[b]
                 /\ b = BlkId(a) =>
                       [blkErCnt EXCEPT ![BlkId(a)] = @ + 1][b] > 0
                 /\ b # BlkId(a) =>
                       /\ [rdCnt EXCEPT ![BlkId(a)] = @ + 1][b] = rdCnt[b]
                       /\ [blkErCnt EXCEPT ![BlkId(a)] = @ + 1][b] = blkErCnt[b]
           /\ \A b \in Blk : blkErCnt[b] >= blkErCnt[b]
<1>1. BlkId(a) \in Blk
    BY AddrParts
<1>2. rdCnt \in [Blk -> Nat] /\ blkErCnt \in [Blk -> Nat]
    BY DEF CountsType
<1> QED
    BY <1>1, <1>2

LEMMA WriteCounts ==
    ASSUME StatsInv, NEW a \in Addr, NEW v \in Ver, Write(a, v)
    PROVE  CountsType' /\ ErasedIfGone' /\ ColdMissesOnly'
<1>1. /\ Stored(a, v) /\ FlashInv /\ CountsType /\ CountLookup(a)
      /\ rdCnt' = rdCnt /\ blkErCnt' = blkErCnt
    BY StoredStep DEF Write, StatsInv
<1>2. PICK l \in Lbns :
         /\ tbl' = UpdateDataLbn(BringIn(tbl, a), a, l)
         /\ \A c \in Addr : LbnOf(tbl', c) = IF c = a THEN l ELSE LbnOf(tbl, c)
    BY <1>1 DEF Stored, StorePage
<1>3. hitCnt' \in Nat /\ chkCnt' \in Nat /\ ColdMissesOnly'
    BY <1>1, <1>2, CountedLookup
<1>4. \A b \in Blk : Blank(b)' => Blank(b)
    <2>1. l # 0
        BY LbnsPositive
    <2>2. ASSUME NEW b \in Blk, \A c \in Addr : BlkId(c) = b
                                                   => LbnOf(tbl', c) = 0,
                 NEW c \in Addr, BlkId(c) = b
          PROVE  LbnOf(tbl, c) = 0
        <3>1. LbnOf(tbl', c) = 0
            BY <2>2
        <3> QED
            BY <1>2, <2>1, <3>1
    <2> QED
        BY <2>2 DEF Blank
<1>5. eraseAt = NoErase /\ eraseAt' = NoErase
    BY <1>1 DEF Stored, Idle
<1> QED
    BY <1>1, <1>3, <1>4, <1>5
    DEF CountsType, StatsInv, ErasedIfGone, Erasing

LEMMA TurnCounts ==
    ASSUME StatsInv, EraseTurn
    PROVE  CountsType' /\ ErasedIfGone' /\ ColdMissesOnly'
<1> DEFINE e == eraseAt
<1>1. /\ CoreInv /\ CountsType /\ EraseStep
      /\ hitCnt' = hitCnt /\ chkCnt' = chkCnt
    BY DEF EraseTurn, StatsInv, FlashInv
<1>2. /\ e \in Addr /\ e # NoErase
      /\ \A c \in Addr : c # e => LbnOf(tbl', c) = LbnOf(tbl, c)
      /\ eraseAt' # NoErase => BlkId(eraseAt') = BlkId(e)
    BY <1>1, EraseTurnStep
<1>3. IF eraseAt' = NoErase
      THEN blkErCnt' = [blkErCnt EXCEPT ![BlkId(e)] = @ + 1] /\ rdCnt' = rdCnt
      ELSE blkErCnt' = blkErCnt /\ rdCnt' = rdCnt
    BY DEF EraseTurn, CountErase
<1>4. CountsType'
    BY <1>1, <1>2, <1>3, CountedTypes DEF CountsType
<1>5. ColdMissesOnly'
    <2>1. ASSUME PagesPerCh <= PagePerBank
          PROVE  chkCnt' - hitCnt' <= Cardinality(tbl'.bitmap)
        <3>1. tbl' = UpdateDataLbn(tbl, e, 0)
            BY <1>1 DEF EraseStep
        <3>2. tbl'.bitmap = tbl.bitmap \cup {TblPage(e)}
            BY <1>1, <1>2, <2>1, <3>1, LookupBitmap
        <3>3. tbl.bitmap \in SUBSET TblPages /\ TblPage(e) \in TblPages
            BY <1>1, <1>2, AddrSplit DEF CoreInv, Tables
        <3>4. /\ Cardinality(tbl.bitmap) \in Nat
              /\ Cardinality(tbl'.bitmap) >= Cardinality(tbl.bitmap)
              /\ Cardinality(tbl'.bitmap) \in Nat
            BY <3>2, <3>3, BitmapFinite
        <3>5. chkCnt - hitCnt <= Cardinality(tbl.bitmap)
            BY <2>1 DEF StatsInv, ColdMissesOnly, PagesPerCh
        <3> QED
            BY <1>1, <3>4, <3>5 DEF CountsType
    <2> QED
        BY <2>1 DEF ColdMissesOnly, PagesPerCh
<1>6. ErasedIfGone'
    <2>1. ASSUME NEW b \in Blk, rdCnt'[b] > 0, Blank(b)', ~Erasing(b)'
          PROVE  blkErCnt'[b] > 0
        <3>1. CASE b = BlkId(e)
            <4>1. eraseAt' = NoErase
                BY <1>2, <2>1, <3>1 DEF Erasing
            <4> QED
                BY <1>1, <1>2, <1>3, <3>1, <4>1, CountedTypes
        <3>2. CASE b # BlkId(e)
            <4>1. Blank(b)
                BY <1>2, <2>1, <3>2 DEF Blank
            <4>2. ~Erasing(b)
                BY <3>2 DEF Erasing
            <4>3. rdCnt[b] > 0 /\ blkErCnt'[b] = blkErCnt[b]
                BY <1>1, <1>2, <1>3, <2>1, <3>2, CountedTypes
            <4> QED
                BY <4>1, <4>2, <4>3 DEF StatsInv, ErasedIfGone
        <3> QED
            BY <3>1, <3>2
    <2> QED
        BY <2>1 DEF ErasedIfGone
<1> QED
    BY <1>4, <1>5, <1>6

LEMMA ClearedCounts ==
    ASSUME hitCnt = 0, chkCnt = 0, rdCnt \in [Blk -> Nat],
           blkErCnt \in [Blk -> Nat], tbl \in Tables(Lbns \cup {0})
    PROVE  CountsType /\ ColdMissesOnly
<1>1. Cardinality(tbl.bitmap) \in Nat
    BY BitmapFinite DEF Tables
<1> QED
    BY <1>1 DEF CountsType, ColdMissesOnly

LEMMA CommandCounts ==
    ASSUME StatsInv, NEW a \in Addr,
           \/ ReadOfBlank(a) \/ ReadOfData(a) \/ EraseOfBlank(a)
           \/ EraseStart(a) \/ Other(a)
    PROVE  CountsType' /\ ErasedIfGone' /\ ColdMissesOnly'
<1>1. /\ CoreInv /\ CountsType /\ CountLookup(a)
      /\ tbl' = BringIn(tbl, a) /\ eraseAt = NoErase
    BY DEF StatsInv, FlashInv, ReadOfBlank, ReadOfData, EraseOfBlank,
           EraseStart, Other, ReadBlank, ReadData, EraseBlank, EraseBegin,
           OtherCmd, Idle
<1>2. rdCnt \in [Blk -> Nat] /\ blkErCnt \in [Blk -> Nat]
    BY <1>1 DEF CountsType
<1>3. \/ /\ rdCnt' = rdCnt
         /\ \/ blkErCnt' = blkErCnt
            \/ blkErCnt' = [blkErCnt EXCEPT ![BlkId(a)] = @ + 1]
      \/ /\ rdCnt' = [rdCnt EXCEPT ![BlkId(a)] = @ + 1]
         /\ blkErCnt' = blkErCnt
         /\ ReadData(a)
    BY DEF ReadOfBlank, ReadOfData, EraseOfBlank, EraseStart, Other,
           CountRead, CountErase
<1>4. rdCnt' \in [Blk -> Nat] /\ blkErCnt' \in [Blk -> Nat]
    BY <1>1, <1>2, <1>3, CountedTypes
<1>5. ReadData(a) => ~Blank(BlkId(a))
    BY <1>1, LookupLbn DEF ReadData, Blank
<1>6. \A b \in Blk : rdCnt'[b] = rdCnt[b] \/ ~Blank(b)
    BY <1>1, <1>3, <1>5, CountedTypes
<1>7. \A b \in Blk : blkErCnt'[b] >= blkErCnt[b]
    BY <1>1, <1>3, CountedTypes
<1> QED
    BY <1>1, <1>4, <1>6, <1>7, QuietCounts

LEMMA NextStatsInv == StatsInv /\ [StatsNext]_allVars => StatsInv'
<1> SUFFICES ASSUME StatsInv, [StatsNext]_allVars
             PROVE  StatsInv'
    OBVIOUS
<1>1. FlashInv'
    BY StatsStepIsStep, NextFlashInv DEF StatsInv
<1>2. ASSUME NEW a \in Addr, NEW v \in Ver, Write(a, v)
      PROVE  StatsInv'
    BY <1>1, <1>2, WriteCounts DEF StatsInv
<1>3. ASSUME NEW a \in Addr,
             \/ ReadOfBlank(a) \/ ReadOfData(a) \/ EraseOfBlank(a)
             \/ EraseStart(a) \/ Other(a)
      PROVE  StatsInv'
    BY <1>1, <1>3, CommandCounts DEF StatsInv
<1>4. CASE EraseTurn
    BY <1>1, <1>4, TurnCounts DEF StatsInv
<1>5. CASE StatsReinit
    <2>1. /\ hitCnt' = 0 /\ chkCnt' = 0
          /\ rdCnt' = [b \in Blk |-> 0] /\ blkErCnt' = [b \in Blk |-> 0]
        BY <1>5 DEF StatsReinit, NoBlkCnt
    <2>2. ErasedIfGone'
        BY <2>1 DEF ErasedIfGone
    <2>3. tbl' \in Tables(Lbns \cup {0})
        BY <1>1 DEF FlashInv, CoreInv
    <2>4. (hitCnt = 0 /\ chkCnt = 0 /\ rdCnt \in [Blk -> Nat]
           /\ blkErCnt \in [Blk -> Nat] /\ tbl \in Tables(Lbns \cup {0})
           => CountsType /\ ColdMissesOnly)'
        BY ClearedCounts, PTL
    <2> QED
        BY <1>1, <2>1, <2>2, <2>3, <2>4 DEF StatsInv
<1>6. CASE ClearChkHitCnt
    <2>1. /\ hitCnt' = 0 /\ chkCnt' = 0
          /\ rdCnt' = rdCnt /\ blkErCnt' = blkErCnt
          /\ tbl' = tbl /\ eraseAt' = eraseAt
        BY <1>6 DEF ClearChkHitCnt, vars
    <2>2. ErasedIfGone'
        BY <2>1 DEF StatsInv, ErasedIfGone, Blank, Erasing
    <2>3. /\ tbl' \in Tables(Lbns \cup {0})
          /\ rdCnt' \in [Blk -> Nat] /\ blkErCnt' \in [Blk -> Nat]
        BY <1>1, <2>1 DEF FlashInv, CoreInv, StatsInv, CountsType
    <2>4. (hitCnt = 0 /\ chkCnt = 0 /\ rdCnt \in [Blk -> Nat]
           /\ blkErCnt \in [Blk -> Nat] /\ tbl \in Tables(Lbns \cup {0})
           => CountsType /\ ColdMissesOnly)'
        BY ClearedCounts, PTL
    <2> QED
        BY <1>1, <2>1, <2>2, <2>3, <2>4 DEF StatsInv
<1>7. CASE UNCHANGED <<tbl, eraseAt, stats>>
    <2>1. CountsType' /\ ErasedIfGone' /\ ColdMissesOnly'
        BY <1>7 DEF StatsInv, CountsType, ErasedIfGone, ColdMissesOnly,
                    Blank, Erasing, stats
    <2> QED
        BY <1>1, <2>1 DEF StatsInv
<1>8. RejectAddr /\ UNCHANGED stats => UNCHANGED <<tbl, eraseAt, stats>>
    BY DEF RejectAddr
<1>9. UNCHANGED allVars => UNCHANGED <<tbl, eraseAt, stats>>
    BY DEF allVars, vars
<1> QED
    BY <1>2, <1>3, <1>4, <1>5, <1>6, <1>7, <1>8, <1>9 DEF StatsNext

LEMMA StatsSpecInv == StatsSpec => []StatsInv
<1>1. StatsInit => StatsInv
    <2> SUFFICES ASSUME StatsInit
                 PROVE  StatsInv
        OBVIOUS
    <2>1. FlashInv /\ tbl \in Tables(Lbns \cup {0})
        BY InitFlashInv DEF StatsInit, FlashInv, CoreInv
    <2>2. /\ hitCnt = 0 /\ chkCnt = 0
          /\ rdCnt = [b \in Blk |-> 0] /\ blkErCnt = [b \in Blk |-> 0]
        BY DEF StatsInit, NoBlkCnt
    <2>3. CountsType /\ ColdMissesOnly
        BY <2>1, <2>2, ClearedCounts
    <2> QED
        BY <2>1, <2>2, <2>3 DEF StatsInv, ErasedIfGone
<1> QED
    BY <1>1, NextStatsInv, PTL DEF StatsSpec

\* The hit rate the simulator reports never claims a miss that was not the
\* first touch of a table page, when every table page has a frame: an erase,
\* which looks pages up without counting, cannot make it worse.
THEOREM StatsColdMissesOnly == StatsSpec => []ColdMissesOnly
<1>1. StatsInv => ColdMissesOnly
    BY DEF StatsInv
<1> QED
    BY <1>1, StatsSpecInv, PTL

\* A block that was read and is blank again has been erased and its count
\* says so: the loop that clears the block is counted at its end, and until
\* then the block is not blank or under erase.
THEOREM StatsErasuresCounted == StatsSpec => []ErasuresCounted
<1>1. StatsInv => ErasuresCounted
    BY DEF StatsInv, ErasedIfGone, ErasuresCounted, Erasing
<1> QED
    BY <1>1, StatsSpecInv, PTL

-----------------------------------------------------------------------------
(* The handler implements the device its host expects.                     *)

\* Files open, and text mode finds nothing to interpret in a page: on a
\* device of at most 26 pages no address has a byte 0x1A or the two bytes
\* 0x0D 0x0A, and the contents of the pages are the host's.
Reliable == Opens = {TRUE} /\ EofAddr = {} /\ CrLfAddr = {} /\ EofVer = {}

PageCell(a) == Cell(store, LbnOf(tbl, a), PageOf(a), PlaneOf(a))

Contents ==
    \A a \in Addr : Live(a) => \E v \in Ver : PageCell(a) = [addr |-> a, ver |-> v]

HandleOpen == store.key = 0 \/ store.fd = store.key

DeviceInv == FlashInv /\ hung = FALSE /\ Contents /\ HandleOpen

LEMMA ContentIs ==
    ASSUME Contents, NEW a \in Addr
    PROVE  /\ Live(a) => /\ Content(a) \in Ver /\ Content(a) # 0
                         /\ PageCell(a) = [addr |-> a, ver |-> Content(a)]
           /\ ~Live(a) => Content(a) = 0
<1>1. CASE Live(a)
    <2>1. PICK v \in Ver : PageCell(a) = [addr |-> a, ver |-> v]
        BY <1>1 DEF Contents
    <2>2. Content(a) = PageCell(a).ver
        BY <1>1 DEF Content, PageCell
    <2>3. Content(a) = v /\ v # 0
        BY <2>1, <2>2, VerAssumption
    <2> QED
        BY <1>1, <2>1, <2>3
<1>2. CASE ~Live(a)
    BY <1>2 DEF Content
<1> QED
    BY <1>1, <1>2

\* A write reaches the file, and no live page but its own.
LEMMA StoredContent ==
    ASSUME Reliable, CoreInv, CoreInv', Contents, HandleOpen,
           NEW a \in Addr, NEW v \in Ver, Stored(a, v)
    PROVE  /\ HandleOpen'
           /\ \A c \in Addr :
                 /\ Live(c)' <=> (c = a \/ Live(c))
                 /\ Live(c)' => PageCell(c)' = IF c = a
                                               THEN [addr |-> a, ver |-> v]
                                               ELSE PageCell(c)
<1> DEFINE d == [addr |-> a, ver |-> v]
           F == Payloads \cup {Zeros, Nothing}
<1>1. PICK l \in Lbns :
         /\ StorePage(a, v, l)
         /\ FileOf(l, PlaneOf(a)) \in FileNums
         /\ \A c \in Addr : LbnOf(tbl', c) = IF c = a THEN l ELSE LbnOf(tbl, c)
    BY DEF Stored
<1>2. eraseAt = NoErase /\ eraseAt' = NoErase /\ l # 0
    BY LbnsPositive DEF Stored, Idle
<1>3. \A c \in Addr : Live(c)' <=> (c = a \/ Live(c))
    BY <1>1, <1>2 DEF Live, UnderErase
<1>4. PICK opened \in Opens :
         store' = WritePageData(store, l, d, PageOf(a), PlaneOf(a), opened)
    BY <1>1 DEF StorePage
<1> DEFINE m == FileOf(l, PlaneOf(a))
<1>5. /\ store \in Stores /\ HandleAgrees(store)
      /\ opened \in BOOLEAN
      /\ d \in Payloads /\ PageOf(a) \in Pages /\ m \in FileNums
      /\ m = store.key => store.fd # NoFd
    <2>1. m \in Nat \ {0}
        BY <1>1, FileNumsPositive
    <2>2. m = store.key => store.fd # NoFd
        BY <2>1 DEF HandleOpen, NoFd
    <2> QED
        BY <1>1, <2>2, AddrParts, OpensAssumption DEF CoreInv, Payloads
<1>6. /\ store'.key = m /\ store'.fd = m
      /\ store'.files = [store.files EXCEPT ![m] = FileWith(@, PageOf(a), d)]
    <2>0. m = FileOf(l, PlaneOf(a))
        OBVIOUS
    <2> HIDE DEF m, d
    <2>1. /\ store'.key = m
          /\ \/ store'.files = store.files /\ store'.fd = NoFd
             \/ store'.files
                   = [store.files EXCEPT ![m] = FileWith(@, PageOf(a), d)]
          /\ opened /\ (m = store.key => store.fd # NoFd) => store'.fd = m
        BY <1>4, <1>5, <2>0, WriteStore
    <2>2. m # NoFd
        BY <1>5, FileNumsPositive DEF NoFd
    <2>3. opened
        BY DEF Reliable
    <2>4. store'.fd = m
        BY <1>5, <2>1, <2>3
    <2> QED
        BY <2>1, <2>2, <2>4
<1>7. store.files \in [FileNums -> [Pages -> F]]
    BY <1>5 DEF Stores
<1>8. ASSUME NEW c \in Addr
      PROVE  PageCell(c)' = store'.files[FileOf(LbnOf(tbl', c), PlaneOf(c))][PageOf(c)]
    BY DEF PageCell, Cell
<1>9. PageCell(a)' = d
    <2>1. PageCell(a)' = store'.files[m][PageOf(a)]
        BY <1>1, <1>8
    <2>2. store'.files[m] = FileWith(store.files[m], PageOf(a), d)
          /\ store.files[m] \in [Pages -> F]
        BY <1>5, <1>6, <1>7
    <2> HIDE DEF m, d
    <2>3. FileWith(store.files[m], PageOf(a), d)[PageOf(a)] = d
        BY <1>5, <2>2, WritePage
    <2> QED
        BY <2>1, <2>2, <2>3
<1>10. ASSUME NEW c \in Addr, c # a, Live(c)
       PROVE  PageCell(c)' = PageCell(c)
    <2> DEFINE n == FileOf(LbnOf(tbl, c), PlaneOf(c))
               q == PageOf(c)
    <2>1. /\ PageCell(c)' = store'.files[n][q]
          /\ PageCell(c) = store.files[n][q]
          /\ n = FileOf(LbnOf(tbl', c), PlaneOf(c))
        BY <1>1, <1>8, <1>10 DEF PageCell, Cell
    <2>2. n \in FileNums /\ q \in Pages
        BY <1>10, LiveBlk, AddrParts
    <2>3. PageCell(c) # Nothing
        <3>1. PICK w \in Ver : PageCell(c) = [addr |-> c, ver |-> w]
            BY <1>10 DEF Contents
        <3>2. c # -1
            BY DEF Addr
        <3> QED
            BY <3>1, <3>2 DEF Nothing
    <2>4. n = m => q # PageOf(a)
        <3>1. CellsDisjoint'
            BY CoreCellsDisjoint, PTL
        <3>2. Live(a)' /\ Live(c)' /\ LbnOf(tbl', a) = l
            BY <1>1, <1>3, <1>10
        <3> QED
            BY <1>10, <2>1, <3>1, <3>2 DEF CellsDisjoint
    <2> HIDE DEF n, q, m, d
    <2>5. CASE n # m
        BY <1>5, <1>6, <1>7, <2>1, <2>2, <2>5
    <2>6. CASE n = m
        <3>1. store'.files[n] = FileWith(store.files[n], PageOf(a), d)
              /\ store.files[n] \in [Pages -> F]
            BY <1>6, <1>7, <2>2, <2>6
        <3>2. FileWith(store.files[n], PageOf(a), d)[q] = store.files[n][q]
            BY <1>5, <2>1, <2>2, <2>3, <2>4, <2>6, <3>1, WritePage
        <3> QED
            BY <2>1, <3>1, <3>2
    <2> QED
        BY <2>5, <2>6
<1>11. HandleOpen'
    BY <1>6 DEF HandleOpen
<1> QED
    BY <1>3, <1>9, <1>10, <1>11

\* What a read returns: the page, through any buffer.
LEMMA ReadReturns ==
    ASSUME Reliable, DeviceInv, NEW a \in Addr, ReadData(a)
    PROVE  /\ Live(a) /\ hung' = FALSE
           /\ resp' = ReturnData([addr |-> a, ver |-> Content(a)])
<1>1. CoreInv /\ Contents /\ eraseAt = NoErase /\ Lookup(a) # 0
      /\ hung = FALSE
    BY DEF DeviceInv, FlashInv, ReadData, Idle
<1>2. Live(a) /\ Lookup(a) = LbnOf(tbl, a)
    BY <1>1, LookupLbn, LiveIdle
<1>3. PageCell(a) = [addr |-> a, ver |-> Content(a)]
    BY <1>1, <1>2, ContentIs
<1>4. PageCell(a) # Nothing
    BY <1>3 DEF Nothing, Addr
<1>5. ASSUME NEW buf
      PROVE  ReadPageData(store, LbnOf(tbl, a), buf, PageOf(a), PlaneOf(a), TRUE)
                = [addr |-> a, ver |-> Content(a)]
    BY <1>3, <1>4 DEF ReadPageData, PageCell, TextRead, Reliable
<1>6. PICK opened \in Opens,
           buf \in {Nothing} \cup {[addr |-> a, ver |-> v] : v \in Ver} :
          LET data == ReadPageData(store, Lookup(a), buf,
                                   PageOf(a), PlaneOf(a), opened)
          IN  IF data.addr = a
              THEN resp' = ReturnData(data) /\ UNCHANGED hung
              ELSE hung' = TRUE /\ UNCHANGED resp
    BY DEF ReadData
<1>7. opened = TRUE
    BY DEF Reliable
<1> DEFINE data == ReadPageData(store, Lookup(a), buf,
                                PageOf(a), PlaneOf(a), opened)
<1>8. data = [addr |-> a, ver |-> Content(a)]
    BY <1>2, <1>5, <1>7
<1>9. IF data.addr = a THEN resp' = ReturnData(data) /\ UNCHANGED hung
      ELSE hung' = TRUE /\ UNCHANGED resp
    BY <1>6
<1> HIDE DEF data
<1> QED
    BY <1>1, <1>2, <1>8, <1>9

\* Pages and files as they were.
LEMMA SameContent ==
    ASSUME store' = store,
           \A c \in Addr : /\ Live(c)' <=> Live(c)
                           /\ Live(c) => LbnOf(tbl', c) = LbnOf(tbl, c)
    PROVE  /\ Contents => Contents'
           /\ HandleOpen => HandleOpen'
           /\ \A c \in Addr : Content(c)' = Content(c)
<1>1. \A c \in Addr : Live(c) => PageCell(c)' = PageCell(c)
    BY DEF PageCell
<1>2. Contents => Contents'
    BY <1>1 DEF Contents
<1>3. \A c \in Addr : Content(c)' = Content(c)
    BY DEF Content
<1> QED
    BY <1>2, <1>3 DEF HandleOpen

LEMMA InitDeviceInv == Init => DeviceInv
<1> SUFFICES ASSUME Init
             PROVE  DeviceInv
    OBVIOUS
<1>1. FlashInv /\ \A c \in Addr : ~Live(c)
    BY InitFlashInv
<1>2. hung = FALSE /\ store.key = 0
    BY DEF Init, FreshStore
<1> QED
    BY <1>1, <1>2 DEF DeviceInv, Contents, HandleOpen

LEMMA WriteDevice ==
    ASSUME Reliable, DeviceInv, NEW a \in Addr, NEW v \in Ver,
           WriteToNewBlock(a, v) \/ WriteToOpenBlock(a, v) \/ Overwrite(a, v)
    PROVE  /\ DeviceInv'
           /\ Device!Write(a, v)
<1>1. FlashInv' /\ Stored(a, v)
    BY StoredStep DEF DeviceInv
<1>2. CoreInv /\ CoreInv' /\ Contents /\ HandleOpen /\ hung = FALSE
    BY <1>1 DEF DeviceInv, FlashInv
<1>3. /\ HandleOpen'
      /\ \A c \in Addr :
            /\ Live(c)' <=> (c = a \/ Live(c))
            /\ Live(c)' => PageCell(c)' = IF c = a
                                          THEN [addr |-> a, ver |-> v]
                                          ELSE PageCell(c)
    BY <1>1, <1>2, StoredContent
<1>4. Contents'
    BY <1>2, <1>3 DEF Contents
<1>5. hung' = FALSE /\ eraseAt = NoErase /\ eraseAt' = NoErase
    BY <1>1, <1>2 DEF Stored, Idle
<1>6. \A c \in Addr : Content(c)' = IF c = a THEN v ELSE Content(c)
    BY <1>3 DEF Content, PageCell
<1>7. [c \in Addr |-> Content(c)'] = [[c \in Addr |-> Content(c)] EXCEPT ![a] = v]
    BY <1>6
<1>8. resp' = Return("lbn")
    BY <1>1 DEF Stored, StorePage
<1>9. Device!Write(a, v)
    BY <1>5, <1>7, <1>8 DEF Device!Write, Device!Done, Device!NoData, Return,
                            Nothing
<1> QED
    BY <1>1, <1>3, <1>4, <1>5, <1>9 DEF DeviceInv

\* A command that leaves the pages and the files as they were.
LEMMA KeptDevice ==
    ASSUME DeviceInv, FlashInv', hung' = FALSE, store' = store,
           \A c \in Addr : /\ Live(c)' <=> Live(c)
                           /\ Live(c) => LbnOf(tbl', c) = LbnOf(tbl, c)
    PROVE  /\ DeviceInv'
           /\ [c \in Addr |-> Content(c)'] = [c \in Addr |-> Content(c)]
BY SameContent DEF DeviceInv

LEMMA CommandDevice ==
    ASSUME Reliable, DeviceInv, NEW a \in Addr,
           ReadBlank(a) \/ ReadData(a) \/ EraseBlank(a) \/ OtherCmd(a)
    PROVE  /\ DeviceInv'
           /\ Device!Read(a) \/ Device!EraseNothing(a) \/ Device!Probe(a)
<1>1. /\ CoreInv /\ FlashInv /\ Contents /\ hung = FALSE
      /\ eraseAt = NoErase /\ eraseAt' = NoErase
      /\ tbl' = BringIn(tbl, a) /\ pool' = pool /\ store' = store
    BY DEF DeviceInv, FlashInv, ReadBlank, ReadData, EraseBlank, OtherCmd, Idle
<1>2. FlashInv'
    BY <1>1, NextFlashInv DEF Next
<1>3. hung' = FALSE
    BY <1>1, ReadReturns DEF ReadBlank, EraseBlank, OtherCmd
<1>4. /\ \A c \in Addr : /\ Live(c)' <=> Live(c)
                         /\ Live(c) => LbnOf(tbl', c) = LbnOf(tbl, c)
    BY <1>1, LookupStep, LookupLbn
<1>5. /\ DeviceInv'
      /\ [c \in Addr |-> Content(c)'] = [c \in Addr |-> Content(c)]
    BY <1>1, <1>2, <1>3, <1>4, KeptDevice
<1>6. Lookup(a) # 0 <=> Content(a) # 0
    BY <1>1, LookupLbn, LiveIdle, ContentIs
<1> DEFINE mem == [c \in Addr |-> Content(c)]
<1>7. mem[a] = Content(a)
    OBVIOUS
<1>8. CASE ReadBlank(a)
    <2>1. resp' = Return("blank") /\ Content(a) = 0
        BY <1>6, <1>8 DEF ReadBlank
    <2>2. Device!Read(a)
        BY <1>1, <1>5, <1>7, <2>1 DEF Device!Read, Device!Blank, Device!NoData,
                                      Return, Nothing
    <2> QED
        BY <1>5, <2>2
<1>9. CASE ReadData(a)
    <2>1. resp' = ReturnData([addr |-> a, ver |-> Content(a)])
        BY <1>9, ReadReturns
    <2>2. Content(a) # 0
        BY <1>6, <1>9 DEF ReadData
    <2>3. Device!Read(a)
        BY <1>1, <1>5, <1>7, <2>1, <2>2 DEF Device!Read, ReturnData
    <2> QED
        BY <1>5, <2>3
<1>10. CASE EraseBlank(a)
    <2>1. resp' = Return("blank") /\ Content(a) = 0
        BY <1>6, <1>10 DEF EraseBlank
    <2>2. Device!EraseNothing(a)
        BY <1>1, <1>5, <1>7, <2>1 DEF Device!EraseNothing, Device!Blank,
                                      Device!NoData, Return, Nothing
    <2> QED
        BY <1>5, <2>2
<1>11. CASE OtherCmd(a)
    <2>1. resp' = Return(IF Content(a) = 0 THEN "zero" ELSE "lbn")
        BY <1>6, <1>11 DEF OtherCmd
    <2>2. Device!Probe(a)
        BY <1>1, <1>5, <1>7, <2>1 DEF Device!Probe, Device!Refused, Device!Done,
                                      Device!NoData, Return, Nothing
    <2> QED
        BY <1>5, <2>2
<1> QED
    BY <1>8, <1>9, <1>10, <1>11

LEMMA EraseDevice ==
    ASSUME DeviceInv, NEW a \in Addr, EraseBegin(a)
    PROVE  DeviceInv' /\ Device!BeginErase(a)
<1>1. /\ CoreInv /\ FlashInv /\ Contents /\ hung = FALSE /\ hung' = FALSE
      /\ eraseAt = NoErase /\ Lookup(a) # 0
      /\ store' = store /\ resp' = resp
    BY DEF DeviceInv, FlashInv, EraseBegin, Idle
<1>2. FlashInv'
    BY <1>1, NextFlashInv DEF Next
<1>3. /\ eraseAt' # NoErase
      /\ \A c \in Addr : /\ Live(c)' <=> Live(c) /\ c \notin BlkAddrs(a)
                         /\ LbnOf(tbl', c) = LbnOf(tbl, c)
    BY <1>1, EraseBeginStep
<1>4. \A c \in Addr : PageCell(c)' = PageCell(c)
    BY <1>1, <1>3 DEF PageCell
<1>5. Contents' /\ HandleOpen'
    BY <1>1, <1>3, <1>4 DEF DeviceInv, Contents, HandleOpen
<1>6. \A c \in Addr : Content(c)' = IF c \in BlkAddrs(a) THEN 0 ELSE Content(c)
    BY <1>1, <1>3 DEF Content
<1>7. Content(a) # 0
    BY <1>1, LookupLbn, LiveIdle, ContentIs
<1> DEFINE mem == [c \in Addr |-> Content(c)]
<1>8. /\ [c \in Addr |-> Content(c)']
            = [c \in Addr |-> IF c \in BlkAddrs(a) THEN 0 ELSE mem[c]]
      /\ mem[a] = Content(a)
    BY <1>6
<1>9. Device!BeginErase(a)
    BY <1>1, <1>3, <1>7, <1>8 DEF Device!BeginErase
<1> QED
    BY <1>1, <1>2, <1>5, <1>9 DEF DeviceInv

LEMMA TurnDevice ==
    ASSUME DeviceInv, EraseStep
    PROVE  DeviceInv' /\ (Device!EndErase \/ UNCHANGED Device!vars)
<1>1. /\ CoreInv /\ FlashInv /\ hung = FALSE /\ hung' = FALSE
      /\ store' = store /\ eraseAt # NoErase
    BY DEF DeviceInv, FlashInv, EraseStep
<1>2. FlashInv'
    BY <1>1, NextFlashInv DEF Next
<1>3. \A c \in Addr : /\ Live(c)' <=> Live(c)
                      /\ Live(c) => LbnOf(tbl', c) = LbnOf(tbl, c)
    BY <1>1, EraseTurnStep
<1>4. /\ DeviceInv'
      /\ [c \in Addr |-> Content(c)'] = [c \in Addr |-> Content(c)]
    BY <1>1, <1>2, <1>3, KeptDevice
<1>5. CASE eraseAt = LastOfBlk(eraseAt)
    <2>1. eraseAt' = NoErase /\ resp' = Return("lbn")
        BY <1>5 DEF EraseStep
    <2>2. Device!EndErase
        BY <1>1, <1>4, <2>1 DEF Device!EndErase, Device!Done, Device!NoData,
                                Return, Nothing
    <2> QED
        BY <1>4, <2>2
<1>6. CASE eraseAt # LastOfBlk(eraseAt)
    <2>1. eraseAt' = eraseAt + 1 /\ resp' = resp
        BY <1>6 DEF EraseStep
    <2>2. eraseAt' # NoErase
        <3>1. eraseAt \in Nat
            BY <1>1, NoEraseType, AddrParts DEF CoreInv
        <3> QED
            BY <2>1, <3>1 DEF NoErase
    <2>3. UNCHANGED Device!vars
        BY <1>1, <1>4, <2>1, <2>2 DEF Device!vars
    <2> QED
        BY <1>4, <2>3
<1> QED
    BY <1>5, <1>6

LEMMA ReinitDevice ==
    ASSUME DeviceInv, Reinit
    PROVE  DeviceInv' /\ Device!Reinit
<1>1. CoreInv /\ FlashInv /\ eraseAt = NoErase /\ eraseAt' = NoErase
      /\ hung' = FALSE /\ resp' = Return("none") /\ store'.key = 0
    BY DEF DeviceInv, FlashInv, Reinit, Idle, FreshStore
<1>2. FlashInv'
    BY <1>1, NextFlashInv DEF Next
<1>3. \A c \in Addr : ~Live(c)'
    BY <1>1, ReinitStep
<1>4. DeviceInv'
    BY <1>1, <1>2, <1>3 DEF DeviceInv, Contents, HandleOpen
<1>5. [c \in Addr |-> Content(c)'] = [c \in Addr |-> 0]
    BY <1>3 DEF Content
<1>6. Device!Reinit
    BY <1>1, <1>5 DEF Device!Reinit, Device!NoData, Return, Nothing
<1> QED
    BY <1>4, <1>6

LEMMA NextDevice ==
    ASSUME Reliable, DeviceInv, [Next]_vars
    PROVE  DeviceInv' /\ [Device!Next]_Device!vars
<1>1. ASSUME NEW a \in Addr, NEW v \in Ver,
             WriteToNewBlock(a, v) \/ WriteToOpenBlock(a, v) \/ Overwrite(a, v)
      PROVE  DeviceInv' /\ Device!Next
    BY <1>1, WriteDevice DEF Device!Next
<1>2. ASSUME NEW a \in Addr,
             ReadBlank(a) \/ ReadData(a) \/ EraseBlank(a) \/ OtherCmd(a)
      PROVE  DeviceInv' /\ Device!Next
    BY <1>2, CommandDevice DEF Device!Next
<1>3. ASSUME NEW a \in Addr, EraseBegin(a)
      PROVE  DeviceInv' /\ Device!Next
    BY <1>3, EraseDevice DEF Device!Next
<1>4. CASE EraseStep
    BY <1>4, TurnDevice DEF Device!Next
<1>5. CASE Reinit
    BY <1>5, ReinitDevice DEF Device!Next
<1>6. ASSUME UNCHANGED <<tbl, pool, store, eraseAt, hung>>, FlashInv'
      PROVE  /\ DeviceInv'
             /\ [c \in Addr |-> Content(c)'] = [c \in Addr |-> Content(c)]
    <2>1. \A c \in Addr : Live(c)' <=> Live(c)
        BY <1>6 DEF Live, UnderErase
    <2> QED
        BY <1>6, <2>1, KeptDevice DEF DeviceInv
<1>7. FlashInv'
    BY NextFlashInv DEF DeviceInv
<1>8. CASE RejectAddr
    <2>1. /\ UNCHANGED <<tbl, pool, store, eraseAt, hung>>
          /\ resp' = Return("zero") /\ eraseAt = NoErase
        BY <1>8 DEF RejectAddr, Idle
    <2>2. Device!Refuse
        BY <1>6, <1>7, <2>1 DEF Device!Refuse, Device!Refused, Device!NoData,
                                Return, Nothing
    <2> QED
        BY <1>6, <1>7, <2>1, <2>2 DEF Device!Next
<1>9. CASE UNCHANGED vars
    <2>1. UNCHANGED <<tbl, pool, store, eraseAt, hung>> /\ resp' = resp
        BY <1>9 DEF vars
    <2> QED
        BY <1>6, <1>7, <2>1 DEF Device!vars
<1> QED
    BY <1>1, <1>2, <1>3, <1>4, <1>5, <1>8, <1>9 DEF Next

\* The simulator is the device its host expects, as long as files open and
\* text mode finds nothing to interpret: what was last written to an address
\* and not erased since is what a read of it returns, whatever happened to
\* the P2L table, the ring and the files of other blocks meanwhile.
THEOREM FlashRefinesDevice ==
    ASSUME Reliable
    PROVE  Spec => RefinesFlashDevice
<1>1. Init => DeviceInv /\ Device!Init
    <2> SUFFICES ASSUME Init
                 PROVE  DeviceInv /\ Device!Init
        OBVIOUS
    <2>1. DeviceInv /\ \A c \in Addr : ~Live(c)
        BY InitDeviceInv, InitFlashInv
    <2>2. [c \in Addr |-> Content(c)] = [c \in Addr |-> 0]
        BY <2>1 DEF Content
    <2>3. resp = Return("none") /\ eraseAt = NoErase
        BY DEF Init
    <2> QED
        BY <2>1, <2>2, <2>3 DEF Device!Init, Device!NoData, Return, Nothing
<1>2. DeviceInv /\ [Next]_vars => DeviceInv' /\ [Device!Next]_Device!vars
    BY NextDevice
<1> QED
    BY <1>1, <1>2, PTL DEF Spec, RefinesFlashDevice, Device!Spec
=============================================================================
