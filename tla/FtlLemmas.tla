------------------------------ MODULE FtlLemmas ------------------------------
(***************************************************************************)
(* What the operators that the device is built from return, keep and       *)
(* preserve, for every geometry, every table page size and every bank size *)
(* that the assumptions on constants allow: first the arithmetic of        *)
(* addresses, then the functions of p2l.c on the table, then those on the  *)
(* ring of LBNs.                                                           *)
(***************************************************************************)
EXTENDS P2lTable, LbnRing, Sequences, FiniteSetTheorems, TLAPS

-----------------------------------------------------------------------------
(* \div and % with a symbolic divisor, which the solvers do not find by    *)
(* themselves once divisors are products.                                  *)

\* Quotient and remainder exist and are in range.
LEMMA DivModType ==
    ASSUME NEW a \in Nat, NEW b \in Nat \ {0}
    PROVE  /\ a \div b \in Nat
           /\ a % b \in 0 .. b - 1
           /\ a = b * (a \div b) + (a % b)
BY SMT

\* A quotient and a remainder in range are the quotient and the remainder.
LEMMA DivModUnique ==
    ASSUME NEW b \in Nat \ {0}, NEW q \in Nat, NEW r \in 0 .. b - 1,
           NEW a \in Nat, a = b * q + r
    PROVE  a \div b = q /\ a % b = r
BY SMT

\* The product of two positive numbers is positive.
LEMMA MulPositive ==
    ASSUME NEW x \in Nat \ {0}, NEW y \in Nat \ {0}
    PROVE  x * y \in Nat \ {0}
BY SMT

\* A positive factor can be cancelled.
LEMMA MulCancel ==
    ASSUME NEW x \in Nat, NEW y \in Nat, NEW z \in Nat \ {0}, x * z = y * z
    PROVE  x = y
BY SMT

\* A quotient stays below a bound when the dividend stays below the product.
LEMMA DivBound ==
    ASSUME NEW a \in Nat, NEW b \in Nat \ {0}, NEW c \in Nat, a < b * c
    PROVE  a \div b < c
BY SMT

\* The field split used by p2l.c: with chunks of e and groups of k chunks,
\* the chunk number and the place in the chunk do not depend on whether the
\* group's offset was taken off first.
LEMMA DivModSplit ==
    ASSUME NEW a \in Nat, NEW e \in Nat \ {0}, NEW k \in Nat \ {0}
    PROVE  /\ a \div (e * k) = (a \div e) \div k
           /\ (a % (e * k)) \div e = (a \div e) % k
           /\ (a % (e * k)) % e = a % e
<1> DEFINE q == a \div e
           r == a % e
           g == q \div k
           h == q % k
<1>1. q \in Nat /\ r \in 0 .. e - 1 /\ a = e * q + r
    BY DivModType
<1>2. g \in Nat /\ h \in 0 .. k - 1 /\ q = k * g + h
    BY <1>1, DivModType
<1>3. e * k \in Nat \ {0}
    BY MulPositive
<1> HIDE DEF q, r, g, h
<1>4. e * h + r \in 0 .. (e * k) - 1
    BY <1>1, <1>2, <1>3, SMT
<1>5. a = (e * k) * g + (e * h + r)
    BY <1>1, <1>2, SMT
<1>6. a \div (e * k) = g /\ a % (e * k) = e * h + r
    BY <1>2, <1>3, <1>4, <1>5, DivModUnique
<1>7. e * h + r \in Nat /\ h \in Nat
    BY <1>2, <1>4, <1>3
<1>8. (e * h + r) \div e = h /\ (e * h + r) % e = r
    BY <1>1, <1>7, DivModUnique
<1> QED
    BY <1>6, <1>8 DEF q, r, g, h

\* A position in a ring of n slots is found by taking n off at most once.
LEMMA RingWrap ==
    ASSUME NEW n \in Nat \ {0}, NEW x \in 0 .. n + n - 1
    PROVE  x % n = IF x < n THEN x ELSE x - n
<1>1. CASE x < n
    <2>1. x = n * 0 + x /\ x \in 0 .. n - 1 /\ x \in Nat
        BY <1>1
    <2> QED
        BY <2>1, <1>1, DivModUnique
<1>2. CASE x >= n
    <2>1. x = n * 1 + (x - n) /\ x - n \in 0 .. n - 1 /\ x \in Nat
        BY <1>2
    <2>2. x % n = x - n
        BY <2>1, DivModUnique
    <2> QED
        BY <1>2, <2>2
<1> QED
    BY <1>1, <1>2

-----------------------------------------------------------------------------
(* Addresses, table pages and frames.                                      *)

\* Table pages of a channel.
PagesPerCh == ChSpan \div EntryPerPage

LEMMA Spans ==
    /\ BlkSpan \in Nat \ {0}
    /\ ChSpan \in Nat \ {0}
    /\ ChCnt * ChSpan \in Nat \ {0}
<1>1. BlkSpan \in Nat \ {0}
    BY CountsPositive, MulPositive DEF BlkSpan
<1>2. ChSpan \in Nat \ {0}
    BY <1>1, CountsPositive, MulPositive DEF ChSpan
<1> QED
    BY <1>1, <1>2, CountsPositive, MulPositive

\* The channels are cut into whole table pages.
LEMMA WholePages ==
    /\ PagesPerCh \in Nat \ {0}
    /\ ChSpan = EntryPerPage * PagesPerCh
    /\ ChCnt * PagesPerCh \in Nat \ {0}
    /\ ChCnt * ChSpan = EntryPerPage * (ChCnt * PagesPerCh)
    /\ TblPages = 0 .. ChCnt * PagesPerCh - 1
<1>1. PagesPerCh \in Nat /\ ChSpan = EntryPerPage * PagesPerCh
    <2>1. ChSpan \in Nat /\ EntryPerPage \in Nat \ {0}
        BY Spans, TableAssumption
    <2>2. /\ ChSpan \div EntryPerPage \in Nat
          /\ ChSpan = EntryPerPage * (ChSpan \div EntryPerPage)
                          + (ChSpan % EntryPerPage)
        BY <2>1, DivModType
    <2>3. ChSpan % EntryPerPage = 0
        BY TableAssumption
    <2> HIDE DEF PagesPerCh
    <2>4. PagesPerCh = ChSpan \div EntryPerPage
        BY DEF PagesPerCh
    <2> QED
        BY <2>1, <2>2, <2>3, <2>4
<1>2. PagesPerCh # 0
    BY <1>1, Spans, TableAssumption, SMT
<1>3. ChCnt * PagesPerCh \in Nat \ {0}
    BY <1>1, <1>2, CountsPositive, MulPositive
<1>4. ChCnt * ChSpan = EntryPerPage * (ChCnt * PagesPerCh)
    BY <1>1, CountsPositive, TableAssumption, SMT
<1>5. (ChCnt * ChSpan) \div EntryPerPage = ChCnt * PagesPerCh
    <2> DEFINE n == ChCnt * PagesPerCh
               m == ChCnt * ChSpan
    <2>1. /\ n \in Nat /\ m \in Nat /\ EntryPerPage \in Nat \ {0}
          /\ m = EntryPerPage * n
        BY <1>3, <1>4, Spans, TableAssumption
    <2> HIDE DEF n, m
    <2>2. m = EntryPerPage * n + 0 /\ 0 \in 0 .. EntryPerPage - 1
        BY <2>1
    <2>3. m \div EntryPerPage = n
        BY <2>1, <2>2, DivModUnique
    <2> QED
        BY <2>3 DEF n, m
<1> QED
    BY <1>1, <1>2, <1>3, <1>4, <1>5 DEF TblPages

\* An address is its table page and its slot; its frame and its slot are
\* functions of these two.
LEMMA AddrSplit ==
    ASSUME NEW a \in Addr
    PROVE  /\ TblPage(a) \in TblPages
           /\ Slot(a) \in Slots
           /\ Slot(a) = a % EntryPerPage
           /\ a = EntryPerPage * TblPage(a) + Slot(a)
           /\ Frame(a) = <<TblPage(a) \div PagesPerCh,
                           (TblPage(a) % PagesPerCh) % PagePerBank>>
           /\ Frame(a) \in Frames
<1> DEFINE E == EntryPerPage
           K == PagesPerCh
           p == TblPage(a)
<1>1. a \in Nat /\ a < ChCnt * ChSpan
    BY Spans DEF Addr
<1>2. E \in Nat \ {0} /\ K \in Nat \ {0} /\ ChSpan = E * K
    BY TableAssumption, WholePages
<1>3. a \div ChSpan = p \div K
    BY <1>1, <1>2, DivModSplit DEF TblPage
<1>4. p \in Nat /\ a % E \in 0 .. E - 1 /\ a = E * p + (a % E)
    BY <1>1, <1>2, DivModType DEF TblPage
<1>5. p < ChCnt * K
    BY <1>1, <1>2, WholePages, DivBound DEF TblPage
<1>6. p \in TblPages
    BY <1>4, <1>5, WholePages
<1>7. p \div K \in Nat /\ p \div K < ChCnt
    <2>1. p < K * ChCnt
        BY <1>2, <1>4, <1>5, CountsPositive, SMT
    <2> QED
        BY <2>1, <1>2, <1>4, CountsPositive, DivBound, DivModType
<1>8. ChOf(a) = p \div K
    <2>1. p \div K \in 0 .. ChCnt - 1 /\ p \div K = ChCnt * 0 + (p \div K)
        BY <1>7, CountsPositive
    <2> QED
        BY <2>1, <1>3, <1>7, CountsPositive, DivModUnique DEF ChOf
<1>9. ChLocal(a) = a % ChSpan /\ ChLocal(a) \in Nat
    <2>1. a % ChSpan \in 0 .. ChSpan - 1
          /\ a = ChSpan * (a \div ChSpan) + (a % ChSpan)
        BY <1>1, Spans, DivModType
    <2>2. ChOf(a) = a \div ChSpan /\ ChOf(a) \in Nat
        BY <1>3, <1>7, <1>8
    <2> QED
        BY <2>1, <2>2, <1>1, Spans, SMT DEF ChLocal
<1>10. ChLocal(a) \div E = p % K /\ ChLocal(a) % E = a % E
    <2>1. /\ (a % (E * K)) \div E = (a \div E) % K
          /\ (a % (E * K)) % E = a % E
        BY <1>1, <1>2, DivModSplit
    <2>2. ChLocal(a) = a % (E * K)
        BY <1>2, <1>9
    <2> QED
        BY <2>1, <2>2 DEF TblPage
<1>11. (p % K) % PagePerBank \in 0 .. PagePerBank - 1
    <2>1. p % K \in Nat
        BY <1>2, <1>4, DivModType
    <2> QED
        BY <2>1, TableAssumption, DivModType
<1>12. Slot(a) = a % E /\ Slot(a) \in Slots
    BY <1>4, <1>10 DEF Slot, Slots
<1>13. Frame(a) = <<p \div K, (p % K) % PagePerBank>>
    BY <1>8, <1>10 DEF Frame
<1>14. Frame(a) \in Frames
    <2>1. p \div K \in 0 .. ChCnt - 1
        BY <1>7, CountsPositive
    <2> HIDE DEF p, K
    <2> QED
        BY <2>1, <1>11, <1>13 DEF Frames, Channels
<1>15. a = E * p + Slot(a)
    BY <1>4, <1>12
<1> QED
    BY <1>6, <1>12, <1>13, <1>14, <1>15

\* Two addresses with the same table page and slot are the same address.
LEMMA AddrUnique ==
    ASSUME NEW a \in Addr, NEW b \in Addr,
           TblPage(a) = TblPage(b), Slot(a) = Slot(b)
    PROVE  a = b
BY AddrSplit

\* The addresses of a table page share its frame.
LEMMA FrameOfPage ==
    ASSUME NEW a \in Addr
    PROVE  PageFrame(TblPage(a)) = Frame(a)
<1> DEFINE b == EntryPerPage * TblPage(a)
<1>1. /\ TblPage(a) \in Nat /\ TblPage(a) \in TblPages
      /\ TblPage(a) < ChCnt * PagesPerCh
      /\ EntryPerPage \in Nat \ {0}
      /\ a \in Nat /\ Slot(a) \in Nat
    BY AddrSplit, WholePages, TableAssumption, Spans DEF Slots, Addr
<1>2. b \in Nat /\ b <= a
    BY <1>1, AddrSplit, SMT
<1>3. b \in Addr
    BY <1>2, Spans DEF Addr
<1>4. TblPage(b) = TblPage(a)
    <2>1. b = EntryPerPage * TblPage(a) + 0 /\ 0 \in 0 .. EntryPerPage - 1
        BY <1>1, <1>2
    <2> QED
        BY <2>1, <1>1, <1>2, DivModUnique DEF TblPage
<1>5. b = TblPage(a) * EntryPerPage
    BY <1>1, SMT
<1> QED
    BY <1>3, <1>4, <1>5, AddrSplit DEF PageFrame

\* Every table page has a first address, which is in the device.
LEMMA PageHasFrame ==
    ASSUME NEW p \in TblPages
    PROVE  PageFrame(p) \in Frames /\ p \in Nat
<1> DEFINE b == p * EntryPerPage
           n == ChCnt * PagesPerCh
           m == ChCnt * ChSpan
<1>1. /\ p \in Nat /\ n \in Nat /\ p < n
      /\ m \in Nat /\ m = EntryPerPage * n
      /\ EntryPerPage \in Nat \ {0}
    BY WholePages, Spans, TableAssumption
<1> HIDE DEF n, m
<1>2. b \in Nat /\ b < m
    BY <1>1, SMT
<1>3. b \in Addr
    BY <1>1, <1>2 DEF Addr, m
<1> QED
    BY <1>1, <1>3, AddrSplit DEF PageFrame

\* The first address of a table page is in the device and in that page.
LEMMA PageFirstAddr ==
    ASSUME NEW p \in TblPages
    PROVE  p * EntryPerPage \in Addr /\ TblPage(p * EntryPerPage) = p
<1> DEFINE b == p * EntryPerPage
           n == ChCnt * PagesPerCh
           m == ChCnt * ChSpan
<1>1. /\ p \in Nat /\ n \in Nat /\ p < n
      /\ m \in Nat /\ m = EntryPerPage * n
      /\ EntryPerPage \in Nat \ {0}
    BY WholePages, Spans, TableAssumption
<1> HIDE DEF n, m
<1>2. b \in Nat /\ b < m /\ b = EntryPerPage * p + 0
    BY <1>1, SMT
<1>3. b \in Addr
    BY <1>1, <1>2 DEF Addr, m
<1> HIDE DEF b
<1>4. b \div EntryPerPage = p
    <2>1. 0 \in 0 .. EntryPerPage - 1
        BY <1>1
    <2> QED
        BY <1>1, <1>2, <2>1, DivModUnique
<1> QED
    BY <1>3, <1>4 DEF TblPage, b

\* With a frame for every table page no two pages share one.
LEMMA FrameUnique ==
    ASSUME NEW a \in Addr, NEW c \in Addr, PagesPerCh <= PagePerBank,
           Frame(a) = Frame(c)
    PROVE  TblPage(a) = TblPage(c)
<1> DEFINE p == TblPage(a)
           q == TblPage(c)
           K == PagesPerCh
<1>1. /\ p \in Nat /\ q \in Nat /\ K \in Nat \ {0}
      /\ PagePerBank \in Nat \ {0} /\ K <= PagePerBank
      /\ Frame(a) = <<p \div K, (p % K) % PagePerBank>>
      /\ Frame(c) = <<q \div K, (q % K) % PagePerBank>>
      /\ Frame(a) = Frame(c)
    BY AddrSplit, WholePages, TableAssumption
<1> HIDE DEF p, q, K
<1>2. ASSUME NEW x \in Nat
      PROVE  /\ x = K * (x \div K) + (x % K)
             /\ (x % K) % PagePerBank = x % K
    <2> DEFINE r == x % K
    <2>0. x = K * (x \div K) + (x % K) /\ x % K \in 0 .. K - 1
        BY <1>1, DivModType
    <2> HIDE DEF r
    <2>1. /\ x = K * (x \div K) + r /\ r \in Nat
          /\ r \in 0 .. PagePerBank - 1
        <3>1. x = K * (x \div K) + r /\ r \in 0 .. K - 1
            BY <2>0 DEF r
        <3> QED
            BY <1>1, <3>1
    <2>2. r = PagePerBank * 0 + r
        BY <1>1, <2>1
    <2>3. r % PagePerBank = r
        BY <1>1, <2>1, <2>2, DivModUnique
    <2> QED
        BY <2>1, <2>3 DEF r
<1>3. p \div K = q \div K /\ p % K = q % K
    <2> DEFINE i == p \div K
               j == (p % K) % PagePerBank
               k == q \div K
               l == (q % K) % PagePerBank
    <2>0. <<i, j>> = <<k, l>>
        BY <1>1, Zenon
    <2> HIDE DEF i, j, k, l
    <2>2. i = k /\ j = l
        BY <2>0
    <2>1. /\ p \div K = q \div K
          /\ (p % K) % PagePerBank = (q % K) % PagePerBank
        BY <2>2, Zenon DEF i, j, k, l
    <2> QED
        BY <1>1, <1>2, <2>1, Zenon
<1>4. p = K * (p \div K) + (p % K) /\ q = K * (q \div K) + (q % K)
    BY <1>1, <1>2
<1> QED
    BY <1>3, <1>4 DEF p, q

-----------------------------------------------------------------------------
(* Types.                                                                  *)

LEMMA EmptyTableType ==
    ASSUME NEW L, 0 \in L
    PROVE  EmptyTable \in Tables(L)
<1>1. 0 \in TblPages
    BY WholePages
<1> QED
    BY <1>1 DEF EmptyTable, Tables

LEMMA BringInType ==
    ASSUME NEW L, NEW t \in Tables(L), NEW a \in Addr
    PROVE  BringIn(t, a) \in Tables(L)
<1> DEFINE f == Frame(a)
           p == TblPage(a)
<1>1. f \in Frames /\ p \in TblPages
    BY AddrSplit
<1> HIDE DEF f, p
<1>2. /\ t.src \in [TblPages -> [Slots -> L]]
      /\ t.dram \in [Frames -> [Slots -> L]]
      /\ t.pageIdx \in [Frames -> TblPages]
      /\ t.bitmap \in SUBSET TblPages
      /\ t.valid \in SUBSET Frames
    BY DEF Tables
<1>3. CopyP2lPageToDram(t, a) \in Tables(L)
    BY <1>1, <1>2 DEF CopyP2lPageToDram, Tables, f, p
<1>4. SwapP2lPage(t, a) \in Tables(L)
    <2> DEFINE flushed == [t.src EXCEPT ![t.pageIdx[f]] = t.dram[f]]
    <2>1. flushed \in [TblPages -> [Slots -> L]]
        BY <1>1, <1>2
    <2> HIDE DEF flushed
    <2>2. [t EXCEPT !.src = flushed,
                    !.dram[f] = flushed[p],
                    !.bitmap = (@ \ {t.pageIdx[f]}) \cup {p},
                    !.pageIdx[f] = p] \in Tables(L)
        BY <1>1, <1>2, <2>1 DEF Tables
    <2> QED
        BY <2>2 DEF SwapP2lPage, flushed, f, p
<1> QED
    BY <1>3, <1>4 DEF BringIn

LEMMA UpdateType ==
    ASSUME NEW L, NEW t \in Tables(L), NEW a \in Addr, NEW l \in L
    PROVE  UpdateDataLbn(t, a, l) \in Tables(L)
<1>1. BringIn(t, a) \in Tables(L)
    BY BringInType
<1>2. Frame(a) \in Frames /\ Slot(a) \in Slots
    BY AddrSplit
<1> QED
    BY <1>1, <1>2 DEF UpdateDataLbn, Tables

\* iGetDataLbn returns an LBN.
LEMMA GetType ==
    ASSUME NEW L, NEW t \in Tables(L), NEW a \in Addr
    PROVE  GetDataLbn(t, a) \in L
<1>1. BringIn(t, a) \in Tables(L)
    BY BringInType
<1>2. Frame(a) \in Frames /\ Slot(a) \in Slots
    BY AddrSplit
<1> QED
    BY <1>1, <1>2 DEF GetDataLbn, GetLbnInfo, Tables

-----------------------------------------------------------------------------
(* Residency.                                                              *)

LEMMA EmptyTableConsistent == TableConsistent(EmptyTable)
BY DEF EmptyTable, TableConsistent

\* A miss leaves the bits and the page index of every frame in step, and
\* the page asked for resident.
LEMMA BringInConsistent ==
    ASSUME NEW L, NEW t \in Tables(L), NEW a \in Addr, TableConsistent(t)
    PROVE  /\ TableConsistent(BringIn(t, a))
           /\ InDram(BringIn(t, a), a)
<1> DEFINE f == Frame(a)
           p == TblPage(a)
<1>1. f \in Frames /\ p \in TblPages /\ PageFrame(p) = f
    BY AddrSplit, FrameOfPage
<1>2. /\ t.pageIdx \in [Frames -> TblPages]
      /\ t.bitmap \in SUBSET TblPages
      /\ t.valid \in SUBSET Frames
      /\ t.dram \in [Frames -> [Slots -> L]]
      /\ \A q \in t.bitmap : PageFrame(q) \in t.valid
                              /\ t.pageIdx[PageFrame(q)] = q
      /\ \A g \in t.valid : t.pageIdx[g] \in t.bitmap
                             /\ PageFrame(t.pageIdx[g]) = g
    BY DEF Tables, TableConsistent
<1>3. CASE InDram(t, a)
    BY <1>3 DEF BringIn
<1>4. CASE ~InDram(t, a) /\ ~ChkP2lValBitmap(t, a)
    <2> DEFINE u == CopyP2lPageToDram(t, a)
    <2>1. BringIn(t, a) = u
        BY <1>4 DEF BringIn
    <2>2. /\ u.bitmap = t.bitmap \cup {p}
          /\ u.valid = t.valid \cup {f}
          /\ u.pageIdx = [t.pageIdx EXCEPT ![f] = p]
        BY DEF CopyP2lPageToDram, Tables
    <2>3. p \notin t.bitmap /\ f \notin t.valid
        BY <1>4 DEF InDram, ChkP2lValBitmap
    <2> HIDE DEF u, f, p
    <2>4. TableConsistent(u)
        BY <1>1, <1>2, <2>2, <2>3 DEF TableConsistent
    <2>5. InDram(u, a)
        BY <2>2 DEF InDram, p
    <2> QED
        BY <2>1, <2>4, <2>5
<1>5. CASE ~InDram(t, a) /\ ChkP2lValBitmap(t, a)
    <2> DEFINE u == SwapP2lPage(t, a)
               old == t.pageIdx[f]
    <2>1. BringIn(t, a) = u
        BY <1>5 DEF BringIn
    <2>2. /\ u.bitmap = (t.bitmap \ {old}) \cup {p}
          /\ u.valid = t.valid
          /\ u.pageIdx = [t.pageIdx EXCEPT ![f] = p]
        BY DEF SwapP2lPage, Tables
    <2>3. p \notin t.bitmap /\ f \in t.valid
        BY <1>5 DEF InDram, ChkP2lValBitmap
    <2> HIDE DEF u, f, p
    <2>4. TableConsistent(u)
        BY <1>1, <1>2, <2>2, <2>3 DEF TableConsistent
    <2>5. InDram(u, a)
        BY <2>2 DEF InDram, p
    <2> QED
        BY <2>1, <2>4, <2>5
<1> QED
    BY <1>3, <1>4, <1>5

\* With a frame for every table page a miss evicts none.
LEMMA BringInAddsPage ==
    ASSUME NEW L, NEW t \in Tables(L), NEW a \in Addr, TableConsistent(t),
           PagesPerCh <= PagePerBank
    PROVE  BringIn(t, a).bitmap = t.bitmap \cup {TblPage(a)}
<1>1. CASE InDram(t, a)
    BY <1>1 DEF BringIn, InDram
<1>2. CASE ~InDram(t, a) /\ ~ChkP2lValBitmap(t, a)
    BY <1>2 DEF BringIn, CopyP2lPageToDram, Tables
<1>3. CASE ~InDram(t, a) /\ ChkP2lValBitmap(t, a)
    <2> DEFINE old == t.pageIdx[Frame(a)]
    <2>1. old \in t.bitmap /\ old \in TblPages /\ PageFrame(old) = Frame(a)
        BY <1>3 DEF ChkP2lValBitmap, TableConsistent, Tables
    <2> HIDE DEF old
    <2>2. TblPage(a) = old
        BY <2>1, PageFirstAddr, FrameUnique DEF PageFrame
    <2> QED
        BY <1>3, <2>1, <2>2 DEF InDram
<1> QED
    BY <1>1, <1>2, <1>3

LEMMA UpdateBitmap ==
    ASSUME NEW L, NEW t \in Tables(L), NEW a \in Addr, NEW l
    PROVE  UpdateDataLbn(t, a, l).bitmap = BringIn(t, a).bitmap
<1>1. BringIn(t, a) \in Tables(L)
    BY BringInType
<1> QED
    BY <1>1 DEF UpdateDataLbn, Tables

LEMMA UpdateConsistent ==
    ASSUME NEW L, NEW t \in Tables(L), NEW a \in Addr, NEW l \in L,
           TableConsistent(t)
    PROVE  TableConsistent(UpdateDataLbn(t, a, l))
<1> DEFINE u == BringIn(t, a)
           w == UpdateDataLbn(t, a, l)
<1>1. u \in Tables(L) /\ TableConsistent(u)
    BY BringInType, BringInConsistent
<1>2. w.bitmap = u.bitmap /\ w.valid = u.valid /\ w.pageIdx = u.pageIdx
    BY <1>1 DEF UpdateDataLbn, Tables
<1> QED
    BY <1>1, <1>2 DEF TableConsistent

-----------------------------------------------------------------------------
(* Meaning: the LBNs a table stands for, wherever its pages are.           *)

\* The entries of a table page, in its frame or in pP2lSrcTable.
PageData(t, p) ==
    IF p \in t.bitmap THEN t.dram[PageFrame(p)] ELSE t.src[p]

LEMMA LbnOfPage ==
    ASSUME NEW t, NEW a \in Addr
    PROVE  LbnOf(t, a) = PageData(t, TblPage(a))[Slot(a)]
BY FrameOfPage DEF LbnOf, PageData, InDram, GetLbnInfo

\* A miss moves table pages about and changes the entries of none: the page
\* that comes in, the page that goes out and every other page.
LEMMA BringInKeepsPages ==
    ASSUME NEW L, NEW t \in Tables(L), NEW a \in Addr, TableConsistent(t),
           NEW q \in TblPages
    PROVE  PageData(BringIn(t, a), q) = PageData(t, q)
<1> DEFINE f == Frame(a)
           p == TblPage(a)
           old == t.pageIdx[f]
<1>1. /\ f \in Frames /\ p \in TblPages /\ PageFrame(p) = f
      /\ PageFrame(q) \in Frames
    BY AddrSplit, FrameOfPage, PageHasFrame
<1>2. /\ t.pageIdx \in [Frames -> TblPages]
      /\ t.dram \in [Frames -> [Slots -> L]]
      /\ t.src \in [TblPages -> [Slots -> L]]
      /\ \A r \in t.bitmap : PageFrame(r) \in t.valid
                              /\ t.pageIdx[PageFrame(r)] = r
      /\ \A g \in t.valid : t.pageIdx[g] \in t.bitmap
                             /\ PageFrame(t.pageIdx[g]) = g
    BY DEF Tables, TableConsistent
<1>3. CASE InDram(t, a)
    BY <1>3 DEF BringIn
<1>4. CASE ~InDram(t, a) /\ ~ChkP2lValBitmap(t, a)
    <2> DEFINE u == CopyP2lPageToDram(t, a)
    <2>1. BringIn(t, a) = u
        BY <1>4 DEF BringIn
    <2>2. /\ u.bitmap = t.bitmap \cup {p}
          /\ u.dram = [t.dram EXCEPT ![f] = t.src[p]]
          /\ u.src = t.src
        BY DEF CopyP2lPageToDram, Tables
    <2>3. p \notin t.bitmap /\ f \notin t.valid
        BY <1>4 DEF InDram, ChkP2lValBitmap
    <2> HIDE DEF u, f, p
    <2>4. PageData(u, q) = PageData(t, q)
        BY <1>1, <1>2, <2>2, <2>3 DEF PageData
    <2> QED
        BY <2>1, <2>4
<1>5. CASE ~InDram(t, a) /\ ChkP2lValBitmap(t, a)
    <2> DEFINE u == SwapP2lPage(t, a)
    <2>1. BringIn(t, a) = u
        BY <1>5 DEF BringIn
    <2>2. /\ u.bitmap = (t.bitmap \ {old}) \cup {p}
          /\ u.src = [t.src EXCEPT ![old] = t.dram[f]]
          /\ u.dram = [t.dram EXCEPT ![f] = u.src[p]]
        BY DEF SwapP2lPage, Tables
    <2>3. p \notin t.bitmap /\ f \in t.valid
        BY <1>5 DEF InDram, ChkP2lValBitmap
    <2>4. /\ old \in t.bitmap /\ PageFrame(old) = f
          /\ old \in TblPages /\ old # p
        BY <1>1, <1>2, <2>3
    <2> HIDE DEF u, f, p, old
    <2>5. CASE q = p
        \* loaded from pP2lSrcTable, which the write-back did not touch there
        BY <1>1, <1>2, <2>1, <2>2, <2>3, <2>4, <2>5 DEF PageData
    <2>6. CASE q = old
        \* what its frame held is now in pP2lSrcTable
        BY <1>1, <1>2, <2>1, <2>2, <2>4, <2>6 DEF PageData
    <2>7. CASE q # p /\ q # old
        <3>1. q \in t.bitmap => PageFrame(q) # f
            BY <1>2, <2>7 DEF old
        <3> QED
            BY <1>1, <1>2, <2>1, <2>2, <2>7, <3>1 DEF PageData
    <2> QED
        BY <2>5, <2>6, <2>7
<1> QED
    BY <1>3, <1>4, <1>5

\* A miss changes pP2lSrcTable only where the page that leaves came from.
LEMMA BringInWritesBack ==
    ASSUME NEW L, NEW t \in Tables(L), NEW a \in Addr, TableConsistent(t),
           NEW q \in TblPages
    PROVE  \/ BringIn(t, a).src[q] = t.src[q]
           \/ /\ q \in t.bitmap /\ q \notin BringIn(t, a).bitmap
              /\ BringIn(t, a).src[q] = t.dram[PageFrame(q)]
<1> DEFINE f == Frame(a)
           p == TblPage(a)
           old == t.pageIdx[f]
<1>1. CASE InDram(t, a) \/ ~ChkP2lValBitmap(t, a)
    BY <1>1 DEF BringIn, CopyP2lPageToDram, Tables
<1>2. CASE ~InDram(t, a) /\ ChkP2lValBitmap(t, a)
    <2> DEFINE u == SwapP2lPage(t, a)
    <2>1. BringIn(t, a) = u
        BY <1>2 DEF BringIn
    <2>2. /\ u.bitmap = (t.bitmap \ {old}) \cup {p}
          /\ u.src = [t.src EXCEPT ![old] = t.dram[f]]
        BY DEF SwapP2lPage, Tables
    <2>3. p \notin t.bitmap /\ f \in t.valid
        BY <1>2 DEF InDram, ChkP2lValBitmap
    <2>4. old \in t.bitmap /\ PageFrame(old) = f /\ old # p
        BY <2>3 DEF TableConsistent
    <2>5. t.src \in [TblPages -> [Slots -> L]]
        BY DEF Tables
    <2> HIDE DEF u, f, p, old
    <2>6. CASE q = old
        BY <2>1, <2>2, <2>4, <2>5, <2>6
    <2>7. CASE q # old
        BY <2>1, <2>2, <2>5, <2>7
    <2> QED
        BY <2>6, <2>7
<1> QED
    BY <1>1, <1>2

\* A lookup changes no address's LBN.
LEMMA BringInView ==
    ASSUME NEW L, NEW t \in Tables(L), NEW a \in Addr, TableConsistent(t)
    PROVE  LbnView(BringIn(t, a)) = LbnView(t)
<1>1. ASSUME NEW b \in Addr
      PROVE  LbnOf(BringIn(t, a), b) = LbnOf(t, b)
    <2>1. TblPage(b) \in TblPages
        BY AddrSplit
    <2> QED
        BY <2>1, LbnOfPage, BringInKeepsPages
<1> QED
    BY <1>1 DEF LbnView

\* A lookup returns the LBN the table stands for.
LEMMA GetView ==
    ASSUME NEW L, NEW t \in Tables(L), NEW a \in Addr, TableConsistent(t)
    PROVE  GetDataLbn(t, a) = LbnView(t)[a]
<1>1. LbnView(BringIn(t, a))[a] = LbnOf(BringIn(t, a), a)
    BY DEF LbnView
<1>2. LbnOf(BringIn(t, a), a) = GetDataLbn(t, a)
    BY BringInConsistent DEF LbnOf, GetDataLbn
<1> QED
    BY <1>1, <1>2, BringInView

\* A store changes the LBN of its own address and of no other, whatever it
\* had to evict.
LEMMA UpdateView ==
    ASSUME NEW L, NEW t \in Tables(L), NEW a \in Addr, NEW l \in L,
           TableConsistent(t)
    PROVE  LbnView(UpdateDataLbn(t, a, l)) = [LbnView(t) EXCEPT ![a] = l]
<1> DEFINE u == BringIn(t, a)
           w == UpdateDataLbn(t, a, l)
           f == Frame(a)
<1>1. u \in Tables(L) /\ TableConsistent(u) /\ InDram(u, a)
    BY BringInType, BringInConsistent
<1>2. /\ w.bitmap = u.bitmap
      /\ w.src = u.src
      /\ w.dram = [u.dram EXCEPT ![f][Slot(a)] = l]
    BY <1>1 DEF UpdateDataLbn, Tables
<1>3. /\ u.dram \in [Frames -> [Slots -> L]]
      /\ \A r \in u.bitmap : PageFrame(r) \in u.valid
                              /\ u.pageIdx[PageFrame(r)] = r
    BY <1>1 DEF Tables, TableConsistent
<1>4. f \in Frames /\ Slot(a) \in Slots
    BY AddrSplit
<1>5. ASSUME NEW b \in Addr
      PROVE  LbnOf(w, b) = IF b = a THEN l ELSE LbnOf(u, b)
    <2>1. Frame(b) \in Frames /\ Slot(b) \in Slots
        BY AddrSplit
    <2>2. CASE b = a
        BY <1>1, <1>2, <1>3, <1>4, <2>2 DEF LbnOf, InDram, GetLbnInfo
    <2>3. CASE b # a /\ ~InDram(u, b)
        BY <1>2, <2>3 DEF LbnOf, InDram
    <2>4. CASE b # a /\ InDram(u, b)
        <3>1. Frame(b) = f => TblPage(b) = TblPage(a)
            BY <1>1, <1>3, <2>4, FrameOfPage DEF InDram
        <3>2. Frame(b) = f => Slot(b) # Slot(a)
            BY <3>1, <2>4, AddrUnique
        <3>3. w.dram[Frame(b)][Slot(b)] = u.dram[Frame(b)][Slot(b)]
            BY <1>2, <1>3, <1>4, <2>1, <3>2
        <3> QED
            BY <1>2, <2>4, <3>3 DEF LbnOf, InDram, GetLbnInfo
    <2> QED
        BY <2>2, <2>3, <2>4
<1>6. LbnView(w) = [LbnView(u) EXCEPT ![a] = l]
    BY <1>5 DEF LbnView
<1> QED
    BY <1>6, BringInView

LEMMA EmptyTableView == LbnView(EmptyTable) = [a \in Addr |-> 0]
<1>1. ASSUME NEW a \in Addr
      PROVE  LbnOf(EmptyTable, a) = 0
    BY AddrSplit DEF LbnOf, InDram, EmptyTable
<1> QED
    BY <1>1 DEF LbnView

-----------------------------------------------------------------------------
(* The ring of LBNs.                                                       *)

\* The slot of the ring k places after the head.
SlotAt(r, k) == (r.head + k) % QDepth

LEMMA RingSizes ==
    /\ QDepth \in Nat \ {0}
    /\ BlkSpan \in Nat \ {0}
    /\ BlkLbnCnt \in Nat \ {0}
<1>1. QDepth \in Nat \ {0} /\ BlkSpan \in Nat \ {0}
    BY CountsPositive, MulPositive DEF QDepth, BlkSpan
<1> QED
    BY <1>1, MulPositive DEF BlkLbnCnt, Slice

\* Block LBNs are positive numbers, different for different places.
LEMMA BlockLbnType ==
    /\ BlockLbns \subseteq Nat \ {0}
    /\ \A i \in 0 .. QDepth - 1 : BlockLbn(i) \in BlockLbns
    /\ \A i, j \in 0 .. QDepth - 1 : BlockLbn(i) = BlockLbn(j) => i = j
<1> DEFINE n == BlkLbnCnt
<1>1. n \in Nat \ {0} /\ LbnBase \in Nat \ {0}
    BY RingSizes, LbnBaseAssumption
<1>2. ASSUME NEW i \in Nat
      PROVE  /\ BlockLbn(i) \in Nat \ {0} /\ BlockLbn(i) = LbnBase + i * n
             /\ i * n \in Nat
    <2>1. i * n \in Nat
        BY <1>1, SMT
    <2> QED
        BY <1>1, <2>1 DEF BlockLbn
<1>3. ASSUME NEW i \in Nat, NEW j \in Nat, BlockLbn(i) = BlockLbn(j)
      PROVE  i = j
    <2>1. /\ BlockLbn(i) = LbnBase + i * n /\ i * n \in Nat
          /\ BlockLbn(j) = LbnBase + j * n /\ j * n \in Nat
        BY <1>2
    <2>2. i * n = j * n
        <3> DEFINE x == i * n
                   y == j * n
        <3>1. x \in Nat /\ y \in Nat /\ LbnBase + x = LbnBase + y
            BY <1>3, <2>1
        <3> HIDE DEF x, y
        <3>2. x = y
            BY <1>1, <3>1
        <3> QED
            BY <3>2 DEF x, y
    <2> HIDE DEF n
    <2> QED
        BY <1>1, <2>2, MulCancel
<1> QED
    BY <1>2, <1>3, RingSizes DEF BlockLbns

\* x % QDepth for places less than twice round the ring.
Wrap(x) == IF x < QDepth THEN x ELSE x - QDepth

LEMMA SlotWrap ==
    ASSUME NEW h \in 0 .. QDepth - 1, NEW k \in 0 .. QDepth
    PROVE  (h + k) % QDepth = Wrap(h + k)
<1> DEFINE x == h + k
<1>1. QDepth \in Nat \ {0} /\ x \in 0 .. QDepth + QDepth - 1
    BY RingSizes
<1> HIDE DEF x
<1>2. x % QDepth = Wrap(x)
    BY <1>1, RingWrap DEF Wrap
<1> QED
    BY <1>2, Zenon DEF x

LEMMA WrapRange ==
    ASSUME NEW h \in 0 .. QDepth - 1, NEW k \in 0 .. QDepth
    PROVE  Wrap(h + k) \in 0 .. QDepth - 1
BY RingSizes DEF Wrap

LEMMA SlotRange ==
    ASSUME NEW h \in 0 .. QDepth - 1, NEW k \in 0 .. QDepth
    PROVE  (h + k) % QDepth \in 0 .. QDepth - 1
<1>1. (h + k) % QDepth = Wrap(h + k)
    BY SlotWrap
<1>2. Wrap(h + k) \in 0 .. QDepth - 1
    BY WrapRange
<1> QED
    BY <1>1, <1>2, Zenon

LEMMA SlotZero ==
    ASSUME NEW h \in 0 .. QDepth - 1
    PROVE  (h + 0) % QDepth = h
<1>1. QDepth \in Nat \ {0} /\ 0 \in 0 .. QDepth
    BY RingSizes
<1>2. (h + 0) % QDepth = Wrap(h + 0)
    BY <1>1, SlotWrap, Zenon
<1>3. Wrap(h + 0) = h
    BY <1>1 DEF Wrap
<1> QED
    BY <1>2, <1>3, Zenon

\* One place further, counted from the next place or from the same place.
LEMMA SlotNext ==
    ASSUME NEW h \in 0 .. QDepth - 1, NEW k \in 0 .. QDepth - 1
    PROVE  /\ (((h + 1) % QDepth) + k) % QDepth = (h + (k + 1)) % QDepth
           /\ (((h + k) % QDepth) + 1) % QDepth = (h + (k + 1)) % QDepth
<1>1. /\ QDepth \in Nat \ {0}
      /\ 1 \in 0 .. QDepth /\ k \in 0 .. QDepth /\ k + 1 \in 0 .. QDepth
    BY RingSizes
<1>2. /\ (h + 1) % QDepth = Wrap(h + 1)
      /\ (h + k) % QDepth = Wrap(h + k)
      /\ (h + (k + 1)) % QDepth = Wrap(h + (k + 1))
    BY <1>1, SlotWrap, Zenon
<1>3. Wrap(h + 1) \in 0 .. QDepth - 1 /\ Wrap(h + k) \in 0 .. QDepth - 1
    BY <1>1, WrapRange, Zenon
<1>4. /\ (Wrap(h + 1) + k) % QDepth = Wrap(Wrap(h + 1) + k)
      /\ (Wrap(h + k) + 1) % QDepth = Wrap(Wrap(h + k) + 1)
    BY <1>1, <1>3, SlotWrap, Zenon
<1>5. /\ Wrap(Wrap(h + 1) + k) = Wrap(h + (k + 1))
      /\ Wrap(Wrap(h + k) + 1) = Wrap(h + (k + 1))
    BY <1>1 DEF Wrap
<1> QED
    BY <1>2, <1>4, <1>5, Zenon

\* Different distances lead to different places.
LEMMA SlotUnique ==
    ASSUME NEW h \in 0 .. QDepth - 1,
           NEW j \in 0 .. QDepth - 1, NEW k \in 0 .. QDepth - 1,
           (h + j) % QDepth = (h + k) % QDepth
    PROVE  j = k
<1>1. QDepth \in Nat \ {0} /\ j \in 0 .. QDepth /\ k \in 0 .. QDepth
    BY RingSizes
<1>2. (h + j) % QDepth = Wrap(h + j) /\ (h + k) % QDepth = Wrap(h + k)
    BY <1>1, SlotWrap, Zenon
<1>3. Wrap(h + j) = Wrap(h + k)
    BY <1>2, Zenon
<1> QED
    BY <1>1, <1>3 DEF Wrap

-----------------------------------------------------------------------------
\* The waiting LBNs are a sequence of block LBNs.
LEMMA WaitingType ==
    ASSUME NEW r \in Rings
    PROVE  /\ Waiting(r) \in Seq(BlockLbns)
           /\ Len(Waiting(r)) = r.avail
           /\ DOMAIN Waiting(r) = 1 .. r.avail
           /\ \A i \in 1 .. r.avail : Waiting(r)[i] = r.buff[SlotAt(r, i - 1)]
<1>1. /\ r.head \in 0 .. QDepth - 1 /\ r.avail \in 0 .. QDepth
      /\ r.buff \in [0 .. QDepth - 1 -> BlockLbns]
      /\ QDepth \in Nat \ {0}
    BY RingSizes DEF Rings
<1>2. ASSUME NEW i \in 1 .. r.avail
      PROVE  /\ r.head + i - 1 = r.head + (i - 1)
             /\ SlotAt(r, i - 1) \in 0 .. QDepth - 1
    <2>1. i - 1 \in 0 .. QDepth
        BY <1>1
    <2> QED
        BY <1>1, <2>1, SlotRange DEF SlotAt
<1>3. \A i \in 1 .. r.avail : /\ Waiting(r)[i] = r.buff[SlotAt(r, i - 1)]
                              /\ Waiting(r)[i] \in BlockLbns
    BY <1>1, <1>2 DEF Waiting, SlotAt
<1>4. DOMAIN Waiting(r) = 1 .. r.avail /\ r.avail \in Nat
    BY <1>1 DEF Waiting
<1>5. Waiting(r) \in [1 .. r.avail -> BlockLbns]
    BY <1>3 DEF Waiting
<1> QED
    BY <1>3, <1>4, <1>5

\* iAllocBlkLbn takes the first waiting LBN.
LEMMA WaitingAfterAlloc ==
    ASSUME NEW r \in Rings, NEW b \in Blk, r.avail # 0
    PROVE  /\ AllocBlkLbn(r, b) \in Rings
           /\ FirstLbn(r) = Head(Waiting(r))
           /\ FirstLbn(r) \in BlockLbns
           /\ Waiting(r) # <<>>
           /\ Waiting(AllocBlkLbn(r, b)) = Tail(Waiting(r))
<1> DEFINE u == AllocBlkLbn(r, b)
<1>1. /\ r.head \in 0 .. QDepth - 1 /\ r.avail \in 1 .. QDepth
      /\ r.buff \in [0 .. QDepth - 1 -> BlockLbns]
      /\ QDepth \in Nat \ {0} /\ BlkSpan \in Nat \ {0}
      /\ r.rest \in [Blk -> 0 .. BlkSpan - 1]
      /\ r.alloc \in [Blk -> Nat]
      /\ r.blk2Lbn \in [Blk -> BlockLbns \cup {0}]
    BY RingSizes DEF Rings
<1>2. FirstLbn(r) \in BlockLbns /\ FirstLbn(r) \in Nat
    BY <1>1, BlockLbnType DEF FirstLbn
<1>3. (r.head + 1) % QDepth \in 0 .. QDepth - 1
    <2>1. r.head \in 0 .. QDepth - 1 /\ 1 \in 0 .. QDepth
        BY <1>1
    <2> QED
        BY <2>1, SlotRange, Zenon
<1>4. u \in Rings
    <2>1. /\ [r.blk2Lbn EXCEPT ![b] = FirstLbn(r)] \in [Blk -> BlockLbns \cup {0}]
          /\ [r.rest EXCEPT ![b] = BlkSpan - 1] \in [Blk -> 0 .. BlkSpan - 1]
          /\ [r.alloc EXCEPT ![b] = FirstLbn(r) + Slice] \in [Blk -> Nat]
          /\ r.avail - 1 \in 0 .. QDepth
        BY <1>1, <1>2 DEF Slice
    <2> QED
        BY <1>3, <2>1 DEF Rings, AllocBlkLbn
<1>5. /\ u.head = (r.head + 1) % QDepth
      /\ u.avail = r.avail - 1
      /\ u.buff = r.buff
    BY DEF AllocBlkLbn, Rings
<1>6. FirstLbn(r) = Waiting(r)[1]
    <2>1. (r.head + 0) % QDepth = r.head
        BY <1>1, SlotZero
    <2>2. Waiting(r)[1] = r.buff[SlotAt(r, 1 - 1)] /\ 1 - 1 = 0
        BY <1>1, WaitingType
    <2> QED
        BY <2>1, <2>2 DEF FirstLbn, SlotAt
<1> HIDE DEF u
<1>7. ASSUME NEW i \in 1 .. u.avail
      PROVE  Waiting(u)[i] = Waiting(r)[i + 1]
    <2>1. i - 1 \in 0 .. QDepth - 1 /\ i + 1 \in 1 .. r.avail /\ (i - 1) + 1 = i
        BY <1>1, <1>5
    <2>2. SlotAt(u, i - 1) = SlotAt(r, i)
        <3> DEFINE k == i - 1
        <3>1. (((r.head + 1) % QDepth) + k) % QDepth
                 = (r.head + (k + 1)) % QDepth
            BY <1>1, <2>1, SlotNext
        <3> QED
            BY <1>5, <2>1, <3>1 DEF SlotAt
    <2>3. Waiting(r)[i + 1] = r.buff[SlotAt(r, (i + 1) - 1)] /\ (i + 1) - 1 = i
        BY <2>1, WaitingType
    <2>4. Waiting(u)[i] = u.buff[SlotAt(u, i - 1)]
        BY <1>4, WaitingType
    <2> QED
        BY <1>5, <2>2, <2>3, <2>4
<1>8. /\ Waiting(r) \in Seq(BlockLbns) /\ Len(Waiting(r)) = r.avail
      /\ Waiting(u) \in Seq(BlockLbns) /\ Len(Waiting(u)) = u.avail
    BY <1>4, WaitingType
<1>9. Waiting(r) # <<>> /\ Head(Waiting(r)) = Waiting(r)[1]
    BY <1>1, <1>8
<1>10. Waiting(u) = Tail(Waiting(r))
    BY <1>1, <1>5, <1>7, <1>8, <1>9
<1> QED
    BY <1>2, <1>4, <1>6, <1>9, <1>10 DEF u

\* iAllocPageLbn leaves the ring alone.
LEMMA WaitingAfterPage ==
    ASSUME NEW r \in Rings, NEW b \in Blk, r.rest[b] # 0
    PROVE  /\ AllocPageLbn(r, b) \in Rings
           /\ Waiting(AllocPageLbn(r, b)) = Waiting(r)
<1>1. /\ r.rest \in [Blk -> 0 .. BlkSpan - 1] /\ r.alloc \in [Blk -> Nat]
      /\ BlkSpan \in Nat \ {0}
    BY RingSizes DEF Rings
<1>2. /\ [r.rest EXCEPT ![b] = r.rest[b] - 1] \in [Blk -> 0 .. BlkSpan - 1]
      /\ [r.alloc EXCEPT ![b] = r.alloc[b] + Slice] \in [Blk -> Nat]
    BY <1>1 DEF Slice
<1> QED
    BY <1>2 DEF Rings, AllocPageLbn, Waiting

\* iRecycleBlkLbn puts the block's LBN behind all that wait.
LEMMA WaitingAfterRecycle ==
    ASSUME NEW r \in Rings, NEW b \in Blk,
           r.avail < QDepth,
           r.tail = SlotAt(r, r.avail),
           r.blk2Lbn[b] \in BlockLbns
    PROVE  /\ RecycleBlkLbn(r, b) \in Rings
           /\ Waiting(RecycleBlkLbn(r, b)) = Append(Waiting(r), r.blk2Lbn[b])
<1> DEFINE u == RecycleBlkLbn(r, b)
           l == r.blk2Lbn[b]
<1>1. /\ r.head \in 0 .. QDepth - 1 /\ r.avail \in 0 .. QDepth - 1
      /\ r.tail \in 0 .. QDepth - 1
      /\ r.buff \in [0 .. QDepth - 1 -> BlockLbns]
      /\ QDepth \in Nat \ {0} /\ BlkSpan \in Nat \ {0}
      /\ r.rest \in [Blk -> 0 .. BlkSpan - 1]
      /\ r.alloc \in [Blk -> Nat]
    BY RingSizes DEF Rings
<1>2. (r.tail + 1) % QDepth \in 0 .. QDepth - 1
    <2> HIDE DEF u, l
    <2>1. r.tail \in 0 .. QDepth - 1 /\ 1 \in 0 .. QDepth
        BY <1>1
    <2> QED
        BY <2>1, SlotRange
<1>3. u \in Rings
    <2>1. /\ [r.buff EXCEPT ![r.tail] = l] \in [0 .. QDepth - 1 -> BlockLbns]
          /\ [r.rest EXCEPT ![b] = 0] \in [Blk -> 0 .. BlkSpan - 1]
          /\ [r.alloc EXCEPT ![b] = 0] \in [Blk -> Nat]
          /\ r.avail + 1 \in 0 .. QDepth
        BY <1>1
    <2> QED
        BY <1>2, <2>1 DEF Rings, RecycleBlkLbn
<1>4. /\ u.head = r.head
      /\ u.avail = r.avail + 1
      /\ u.buff = [r.buff EXCEPT ![r.tail] = l]
    BY DEF RecycleBlkLbn, Rings
<1> HIDE DEF u, l
<1>5. ASSUME NEW i \in 1 .. r.avail
      PROVE  Waiting(u)[i] = Waiting(r)[i]
    <2>1. i - 1 \in 0 .. QDepth - 1 /\ i - 1 # r.avail /\ i \in 1 .. u.avail
        BY <1>1, <1>4
    <2>2. SlotAt(r, i - 1) # r.tail /\ SlotAt(r, i - 1) \in 0 .. QDepth - 1
        <3> DEFINE k == i - 1
        <3>1. k \in 0 .. QDepth - 1 /\ k \in 0 .. QDepth /\ k # r.avail
            BY <1>1, <2>1
        <3> HIDE DEF k
        <3>2. (r.head + k) % QDepth \in 0 .. QDepth - 1
            BY <1>1, <3>1, SlotRange
        <3>3. (r.head + k) % QDepth # (r.head + r.avail) % QDepth
            BY <1>1, <3>1, SlotUnique
        <3> QED
            BY <3>2, <3>3 DEF SlotAt, k
    <2>3. SlotAt(u, i - 1) = SlotAt(r, i - 1)
        BY <1>4 DEF SlotAt
    <2>4. /\ Waiting(u)[i] = u.buff[SlotAt(u, i - 1)]
          /\ Waiting(r)[i] = r.buff[SlotAt(r, i - 1)]
        BY <1>3, <2>1, WaitingType
    <2> QED
        BY <1>1, <1>4, <2>2, <2>3, <2>4
<1>6. Waiting(u)[r.avail + 1] = l
    <2>1. r.avail + 1 \in 1 .. u.avail /\ (r.avail + 1) - 1 = r.avail
        <3>1. r.avail \in Nat
            BY <1>1
        <3> QED
            BY <1>4, <3>1
    <2>2. Waiting(u)[r.avail + 1] = u.buff[SlotAt(u, r.avail)]
        BY <1>3, <2>1, WaitingType
    <2>3. SlotAt(u, r.avail) = r.tail
        BY <1>4 DEF SlotAt
    <2> QED
        BY <1>1, <1>4, <2>2, <2>3
<1>7. /\ Waiting(r) \in Seq(BlockLbns) /\ Len(Waiting(r)) = r.avail
      /\ Waiting(u) \in Seq(BlockLbns) /\ Len(Waiting(u)) = u.avail
    BY <1>3, WaitingType
<1>8. l \in BlockLbns
    BY DEF l
<1>9. Waiting(u) = Append(Waiting(r), l)
    BY <1>1, <1>4, <1>5, <1>6, <1>7, <1>8
<1> QED
    BY <1>3, <1>9 DEF u, l

-----------------------------------------------------------------------------
(* Every block LBN waits when the device is configured.                    *)

LEMMA FullRingType == FullRing \in Rings
<1>1. QDepth \in Nat \ {0} /\ BlkSpan \in Nat \ {0}
    BY RingSizes
<1> QED
    BY <1>1, BlockLbnType DEF FullRing, Rings

LEMMA FullRingWaiting ==
    Waiting(FullRing) = [i \in 1 .. QDepth |-> BlockLbn(i - 1)]
<1>1. QDepth \in Nat \ {0}
    BY RingSizes
<1>2. ASSUME NEW i \in 1 .. QDepth
      PROVE  FullRing.buff[(FullRing.head + i - 1) % QDepth] = BlockLbn(i - 1)
    <2> DEFINE k == i - 1
    <2>1. k \in 0 .. QDepth - 1 /\ k \in 0 .. QDepth /\ 0 + i - 1 = 0 + k
          /\ 0 \in 0 .. QDepth - 1
        BY <1>1
    <2> HIDE DEF k
    <2>2. (0 + k) % QDepth = Wrap(0 + k)
        BY <2>1, SlotWrap, Zenon
    <2>3. Wrap(0 + k) = k
        BY <1>1, <2>1 DEF Wrap
    <2>4. (0 + i - 1) % QDepth = k
        BY <2>1, <2>2, <2>3, Zenon
    <2> QED
        BY <2>1, <2>4 DEF FullRing, k
<1>3. FullRing.avail = QDepth
    BY DEF FullRing
<1> QED
    BY <1>2, <1>3 DEF Waiting

-----------------------------------------------------------------------------
(* Counting blocks.                                                        *)

LEMMA CountFromZero ==
    ASSUME NEW n \in Nat \ {0}
    PROVE  IsFiniteSet(0 .. n - 1) /\ Cardinality(0 .. n - 1) = n
<1>1. 0 \in Int /\ n - 1 \in Int
    OBVIOUS
<1>2. /\ IsFiniteSet(0 .. n - 1)
      /\ Cardinality(0 .. n - 1) = IF 0 > n - 1 THEN 0 ELSE (n - 1) - 0 + 1
    BY <1>1, FS_Interval, Zenon
<1> QED
    BY <1>2

LEMMA BlkCount == IsFiniteSet(Blk) /\ Cardinality(Blk) = QDepth
<1>1. /\ IsFiniteSet(0 .. ChCnt - 1) /\ Cardinality(0 .. ChCnt - 1) = ChCnt
      /\ IsFiniteSet(0 .. BlkCnt - 1) /\ Cardinality(0 .. BlkCnt - 1) = BlkCnt
    BY CountsPositive, CountFromZero, Zenon
<1> DEFINE S == 0 .. ChCnt - 1
           T == 0 .. BlkCnt - 1
<1>2. IsFiniteSet(S) /\ Cardinality(S) = ChCnt
    BY <1>1, Zenon
<1>3. IsFiniteSet(T) /\ Cardinality(T) = BlkCnt
    BY <1>1, Zenon
<1>4. Blk = S \X T
    BY Zenon DEF Blk, Channels
<1> HIDE DEF S, T
<1>5. /\ IsFiniteSet(S \X T)
      /\ Cardinality(S \X T) = Cardinality(S) * Cardinality(T)
    BY <1>2, <1>3, FS_Product, Zenon
<1>6. Cardinality(S) * Cardinality(T) = QDepth
    BY <1>2, <1>3, Zenon DEF QDepth
<1> QED
    BY <1>4, <1>5, <1>6, Zenon

\* The first LBN of a block LBN, and the i-th after it, are LBNs.
LEMMA PageLbnType ==
    ASSUME NEW l \in BlockLbns, NEW i \in 0 .. BlkSpan - 1
    PROVE  l + Slice * i \in Lbns
BY DEF Lbns, PageLbns

LEMMA BlockLbnIsLbn == BlockLbns \subseteq Lbns
<1> SUFFICES ASSUME NEW l \in BlockLbns
             PROVE  l \in Lbns
    OBVIOUS
<1>1. 0 \in 0 .. BlkSpan - 1 /\ l \in Nat
    BY RingSizes, BlockLbnType
<1>2. l + Slice * 0 = l
    BY <1>1 DEF Slice
<1> QED
    BY <1>1, <1>2, PageLbnType

-----------------------------------------------------------------------------
(* The invariant of the ring.                                              *)
(*                                                                         *)
(* u[b] is the number of pages of block b that have an LBN.  The count of  *)
(* block LBNs says that a block without one finds one in the ring; rest    *)
(* tells such a block from an open one; the pointers make an erase append  *)
(* behind the waiting LBNs; so no LBN is ever in two places, as it leaves  *)
(* one when it enters the other.  A programmed block's pBlk2Lbn is a block *)
(* LBN and not the 0 it starts with.                                       *)

ProgrammedIn(u) == {b \in Blk : u[b] > 0}

ConservedIn(r, u) == r.avail + Cardinality(ProgrammedIn(u)) = QDepth

PointersAgree(r) == r.tail = (r.head + r.avail) % QDepth

ShareIn(r, u) ==
    \A b \in Blk :
        IF u[b] = 0
        THEN r.rest[b] = 0
        ELSE /\ r.rest[b] = BlkSpan - u[b]
             /\ r.alloc[b] = r.blk2Lbn[b] + Slice * u[b]

OpenedIn(r, u) == \A b \in ProgrammedIn(u) : r.blk2Lbn[b] \in BlockLbns

OneOwnerIn(r, u) ==
    /\ \A i, j \in 1 .. r.avail : Waiting(r)[i] = Waiting(r)[j] => i = j
    /\ \A b, c \in ProgrammedIn(u) : r.blk2Lbn[b] = r.blk2Lbn[c] => b = c
    /\ \A b \in ProgrammedIn(u), i \in 1 .. r.avail :
          r.blk2Lbn[b] # Waiting(r)[i]

RingInv(r, u) ==
    /\ r \in Rings
    /\ u \in [Blk -> 0 .. BlkSpan]
    /\ ConservedIn(r, u)
    /\ PointersAgree(r)
    /\ ShareIn(r, u)
    /\ OpenedIn(r, u)
    /\ OneOwnerIn(r, u)

LEMMA ProgrammedFinite ==
    ASSUME NEW u
    PROVE  /\ IsFiniteSet(ProgrammedIn(u))
           /\ ProgrammedIn(u) \subseteq Blk
           /\ Cardinality(ProgrammedIn(u)) \in Nat
           /\ Cardinality(ProgrammedIn(u)) = QDepth => ProgrammedIn(u) = Blk
<1>1. ProgrammedIn(u) \in SUBSET Blk
    BY DEF ProgrammedIn
<1>2. /\ IsFiniteSet(ProgrammedIn(u))
      /\ Cardinality(Blk) = Cardinality(ProgrammedIn(u)) => Blk = ProgrammedIn(u)
    BY <1>1, BlkCount, FS_Subset
<1> QED
    BY <1>1, <1>2, BlkCount, FS_CardinalityType

LEMMA RingInvFull == RingInv(FullRing, [b \in Blk |-> 0])
<1> DEFINE u == [b \in Blk |-> 0]
<1>1. QDepth \in Nat \ {0} /\ BlkSpan \in Nat \ {0}
    BY RingSizes
<1>2. FullRing \in Rings /\ u \in [Blk -> 0 .. BlkSpan]
    BY <1>1, FullRingType
<1>3. /\ ProgrammedIn(u) = {} /\ FullRing.avail = QDepth
      /\ FullRing.head = 0 /\ FullRing.tail = 0
    BY DEF ProgrammedIn, FullRing
<1>4. ConservedIn(FullRing, u)
    <2> HIDE DEF u
    <2> QED
        BY <1>1, <1>3, FS_EmptySet DEF ConservedIn
<1>5. PointersAgree(FullRing)
    <2>1. 0 \in 0 .. QDepth - 1 /\ QDepth \in 0 .. QDepth
        BY <1>1
    <2>2. (0 + QDepth) % QDepth = Wrap(0 + QDepth)
        BY <2>1, SlotWrap, Zenon
    <2>3. Wrap(0 + QDepth) = 0
        BY <1>1 DEF Wrap
    <2> QED
        BY <1>3, <2>2, <2>3 DEF PointersAgree
<1>6. ShareIn(FullRing, u)
    BY DEF ShareIn, FullRing
<1>7. OpenedIn(FullRing, u)
    BY <1>3 DEF OpenedIn
<1>8. OneOwnerIn(FullRing, u)
    <2>1. ASSUME NEW i \in 1 .. QDepth, NEW j \in 1 .. QDepth,
                 Waiting(FullRing)[i] = Waiting(FullRing)[j]
          PROVE  i = j
        <3>1. BlockLbn(i - 1) = BlockLbn(j - 1)
            BY <2>1, FullRingWaiting
        <3>2. i - 1 \in 0 .. QDepth - 1 /\ j - 1 \in 0 .. QDepth - 1
            BY <1>1
        <3>3. i - 1 = j - 1
            BY <3>1, <3>2, BlockLbnType
        <3> QED
            BY <3>3
    <2> QED
        BY <1>3, <2>1 DEF OneOwnerIn
<1> QED
    BY <1>2, <1>4, <1>5, <1>6, <1>7, <1>8 DEF RingInv

\* A page without LBN in a block whose rest is 0 opens the block, and there
\* is an LBN for it.
LEMMA NewBlockFindsLbn ==
    ASSUME NEW r, NEW u, RingInv(r, u),
           NEW b \in Blk, u[b] < BlkSpan, r.rest[b] = 0
    PROVE  u[b] = 0 /\ r.avail # 0 /\ b \notin ProgrammedIn(u)
<1>1. BlkSpan \in Nat \ {0} /\ QDepth \in Nat \ {0}
    BY RingSizes
<1>2. u[b] \in 0 .. BlkSpan
    BY DEF RingInv
<1>3. u[b] = 0
    BY <1>1, <1>2 DEF RingInv, ShareIn
<1>4. b \notin ProgrammedIn(u)
    BY <1>3 DEF ProgrammedIn
<1>5. ASSUME r.avail = 0
      PROVE  FALSE
    <2>1. Cardinality(ProgrammedIn(u)) = QDepth
        BY <1>1, <1>5, ProgrammedFinite DEF RingInv, ConservedIn
    <2>2. ProgrammedIn(u) = Blk
        BY <2>1, ProgrammedFinite
    <2> QED
        BY <1>4, <2>2
<1> QED
    BY <1>3, <1>4, <1>5

\* iAllocBlkLbn keeps the invariant.
LEMMA RingInvAlloc ==
    ASSUME NEW r, NEW u, RingInv(r, u),
           NEW b \in Blk, u[b] < BlkSpan, r.rest[b] = 0
    PROVE  RingInv(AllocBlkLbn(r, b), [u EXCEPT ![b] = 1])
<1> DEFINE l == FirstLbn(r)
           W == Waiting(r)
           n == AllocBlkLbn(r, b)
           w == [u EXCEPT ![b] = 1]
<1>1. /\ BlkSpan \in Nat \ {0} /\ QDepth \in Nat \ {0}
      /\ r \in Rings /\ u \in [Blk -> 0 .. BlkSpan]
      /\ r.blk2Lbn \in [Blk -> BlockLbns \cup {0}]
      /\ r.rest \in [Blk -> 0 .. BlkSpan - 1]
      /\ r.alloc \in [Blk -> Nat]
      /\ r.avail \in 0 .. QDepth
      /\ r.head \in 0 .. QDepth - 1
    BY RingSizes DEF RingInv, Rings
<1>2. u[b] = 0 /\ r.avail # 0 /\ b \notin ProgrammedIn(u)
    BY NewBlockFindsLbn
<1>3. w \in [Blk -> 0 .. BlkSpan] /\ w[b] = 1 /\ \A c \in Blk : c # b => w[c] = u[c]
    BY <1>1
<1>4. /\ n \in Rings
      /\ l = Head(W) /\ l \in BlockLbns
      /\ W # <<>>
      /\ Waiting(n) = Tail(W)
    BY <1>1, <1>2, WaitingAfterAlloc
<1>5. /\ n.blk2Lbn = [r.blk2Lbn EXCEPT ![b] = l]
      /\ n.rest = [r.rest EXCEPT ![b] = BlkSpan - 1]
      /\ n.alloc = [r.alloc EXCEPT ![b] = l + Slice]
      /\ n.head = (r.head + 1) % QDepth
      /\ n.tail = r.tail
      /\ n.avail = r.avail - 1
    BY <1>1 DEF AllocBlkLbn, Rings
<1>6. W \in Seq(BlockLbns) /\ Len(W) = r.avail
    BY <1>1, WaitingType
<1>7. /\ W[1] = l
      /\ \A i \in 1 .. n.avail : Waiting(n)[i] = W[i + 1]
    BY <1>1, <1>2, <1>4, <1>5, <1>6
<1> HIDE DEF l, W, n, w
<1>8. ProgrammedIn(w) = ProgrammedIn(u) \cup {b}
    BY <1>1, <1>2, <1>3 DEF ProgrammedIn
<1>9. l \in Nat
    BY <1>4, BlockLbnType
<1>10. ConservedIn(n, w)
    <2>1. Cardinality(ProgrammedIn(w)) = Cardinality(ProgrammedIn(u)) + 1
        BY <1>2, <1>8, ProgrammedFinite, FS_AddElement
    <2>2. Cardinality(ProgrammedIn(u)) \in Nat
        BY ProgrammedFinite
    <2>3. r.avail + Cardinality(ProgrammedIn(u)) = QDepth
        BY DEF RingInv, ConservedIn
    <2> QED
        BY <1>1, <1>5, <2>1, <2>2, <2>3 DEF ConservedIn
<1>11. PointersAgree(n)
    <2> DEFINE k == r.avail - 1
    <2>1. k \in 0 .. QDepth - 1 /\ k + 1 = r.avail
        BY <1>1, <1>2
    <2>2. (((r.head + 1) % QDepth) + k) % QDepth
             = (r.head + (k + 1)) % QDepth
        BY <1>1, <2>1, SlotNext, Zenon
    <2>3. r.tail = (r.head + r.avail) % QDepth
        BY DEF RingInv, PointersAgree
    <2> QED
        BY <1>5, <2>1, <2>2, <2>3, Zenon DEF PointersAgree
<1>12. ShareIn(n, w)
    <2>1. ASSUME NEW c \in Blk
          PROVE  IF w[c] = 0
                 THEN n.rest[c] = 0
                 ELSE /\ n.rest[c] = BlkSpan - w[c]
                      /\ n.alloc[c] = n.blk2Lbn[c] + Slice * w[c]
        <3>1. CASE c = b
            BY <1>1, <1>3, <1>5, <1>9, <3>1 DEF Slice
        <3>2. CASE c # b
            BY <1>1, <1>3, <1>5, <3>2 DEF RingInv, ShareIn
        <3> QED
            BY <3>1, <3>2
    <2> QED
        BY <2>1 DEF ShareIn
<1>13. OpenedIn(n, w)
    <2>1. ASSUME NEW c \in ProgrammedIn(w)
          PROVE  n.blk2Lbn[c] \in BlockLbns
        <3>1. c \in Blk
            BY <2>1 DEF ProgrammedIn
        <3>2. CASE c = b
            BY <1>1, <1>4, <1>5, <3>2
        <3>3. CASE c # b
            BY <1>1, <1>5, <1>8, <2>1, <3>1, <3>3 DEF RingInv, OpenedIn
        <3> QED
            BY <3>2, <3>3
    <2> QED
        BY <2>1 DEF OpenedIn
<1>14. OneOwnerIn(n, w)
    <2>1. /\ \A i, j \in 1 .. r.avail : W[i] = W[j] => i = j
          /\ \A c, d \in ProgrammedIn(u) : r.blk2Lbn[c] = r.blk2Lbn[d] => c = d
          /\ \A c \in ProgrammedIn(u), i \in 1 .. r.avail : r.blk2Lbn[c] # W[i]
        BY DEF RingInv, OneOwnerIn, W
    <2>2. \A i \in 1 .. n.avail :
             i + 1 \in 1 .. r.avail /\ i + 1 # 1 /\ 1 \in 1 .. r.avail
        BY <1>1, <1>2, <1>5
    <2>3. ASSUME NEW i \in 1 .. n.avail, NEW j \in 1 .. n.avail,
                 Waiting(n)[i] = Waiting(n)[j]
          PROVE  i = j
        <3>1. W[i + 1] = W[j + 1]
            BY <1>7, <2>3
        <3>2. i + 1 = j + 1
            BY <2>1, <2>2, <3>1
        <3> QED
            BY <3>2
    <2>4. ASSUME NEW c \in ProgrammedIn(w)
          PROVE  /\ c = b => n.blk2Lbn[c] = W[1]
                 /\ c # b => /\ c \in ProgrammedIn(u)
                             /\ n.blk2Lbn[c] = r.blk2Lbn[c]
                             /\ r.blk2Lbn[c] # W[1]
        <3>1. c \in Blk
            BY <2>4 DEF ProgrammedIn
        <3>2. 1 \in 1 .. r.avail
            BY <1>1, <1>2
        <3> QED
            BY <1>1, <1>5, <1>7, <1>8, <2>1, <2>4, <3>1, <3>2
    <2>5. \A c, d \in ProgrammedIn(w) : n.blk2Lbn[c] = n.blk2Lbn[d] => c = d
        BY <2>1, <2>4
    <2>6. \A c \in ProgrammedIn(w), i \in 1 .. n.avail :
             n.blk2Lbn[c] # Waiting(n)[i]
        BY <1>7, <2>1, <2>2, <2>4
    <2> QED
        BY <2>3, <2>5, <2>6 DEF OneOwnerIn
<1> QED
    BY <1>3, <1>4, <1>10, <1>11, <1>12, <1>13, <1>14 DEF RingInv, n, w

\* A page without LBN in a block whose rest is not 0 extends the block:
\* iAllocPageLbn returns an LBN of the block and keeps the invariant.
LEMMA RingInvPage ==
    ASSUME NEW r, NEW u, RingInv(r, u),
           NEW b \in Blk, u[b] < BlkSpan, r.rest[b] # 0
    PROVE  /\ RingInv(AllocPageLbn(r, b), [u EXCEPT ![b] = u[b] + 1])
           /\ u[b] \in 1 .. BlkSpan - 1
           /\ NextLbn(r, b) = r.blk2Lbn[b] + Slice * u[b]
<1> DEFINE n == AllocPageLbn(r, b)
           w == [u EXCEPT ![b] = u[b] + 1]
<1>1. /\ BlkSpan \in Nat \ {0}
      /\ r \in Rings /\ u \in [Blk -> 0 .. BlkSpan]
      /\ r.rest \in [Blk -> 0 .. BlkSpan - 1]
      /\ r.alloc \in [Blk -> Nat]
    BY RingSizes DEF RingInv, Rings
<1>2. u[b] \in 1 .. BlkSpan - 1
    BY <1>1 DEF RingInv, ShareIn
<1>3. /\ r.rest[b] = BlkSpan - u[b]
      /\ r.alloc[b] = r.blk2Lbn[b] + Slice * u[b]
    BY <1>1, <1>2 DEF RingInv, ShareIn
<1>4. n \in Rings /\ Waiting(n) = Waiting(r)
    BY <1>1, WaitingAfterPage
<1>5. /\ n.blk2Lbn = r.blk2Lbn
      /\ n.rest = [r.rest EXCEPT ![b] = r.rest[b] - 1]
      /\ n.alloc = [r.alloc EXCEPT ![b] = r.alloc[b] + Slice]
      /\ n.head = r.head /\ n.tail = r.tail
      /\ n.avail = r.avail
    BY <1>1 DEF AllocPageLbn, Rings
<1>6. /\ w \in [Blk -> 0 .. BlkSpan] /\ w[b] = u[b] + 1
      /\ \A c \in Blk : c # b => w[c] = u[c]
    BY <1>1, <1>2
<1> HIDE DEF n, w
<1>7. ProgrammedIn(w) = ProgrammedIn(u)
    BY <1>1, <1>2, <1>6 DEF ProgrammedIn
<1>8. r.blk2Lbn[b] \in Nat
    <2>1. b \in ProgrammedIn(u)
        BY <1>1, <1>2 DEF ProgrammedIn
    <2> QED
        BY <2>1, BlockLbnType DEF RingInv, OpenedIn
<1>9. ConservedIn(n, w) /\ PointersAgree(n) /\ OpenedIn(n, w)
    BY <1>5, <1>7 DEF RingInv, ConservedIn, PointersAgree, OpenedIn
<1>10. ShareIn(n, w)
    <2>1. ASSUME NEW c \in Blk
          PROVE  IF w[c] = 0
                 THEN n.rest[c] = 0
                 ELSE /\ n.rest[c] = BlkSpan - w[c]
                      /\ n.alloc[c] = n.blk2Lbn[c] + Slice * w[c]
        <3>1. CASE c = b
            BY <1>1, <1>2, <1>3, <1>5, <1>6, <1>8, <3>1 DEF Slice
        <3>2. CASE c # b
            BY <1>1, <1>5, <1>6, <3>2 DEF RingInv, ShareIn
        <3> QED
            BY <3>1, <3>2
    <2> QED
        BY <2>1 DEF ShareIn
<1>11. OneOwnerIn(n, w)
    BY <1>4, <1>5, <1>7 DEF RingInv, OneOwnerIn
<1> QED
    BY <1>2, <1>3, <1>4, <1>6, <1>9, <1>10, <1>11 DEF RingInv, NextLbn, n, w

LEMMA NextLbnIsLbn ==
    ASSUME NEW r, NEW u, RingInv(r, u),
           NEW b \in Blk, u[b] < BlkSpan, r.rest[b] # 0
    PROVE  NextLbn(r, b) \in Lbns
<1>1. /\ u[b] \in 1 .. BlkSpan - 1
      /\ NextLbn(r, b) = r.blk2Lbn[b] + Slice * u[b]
    BY RingInvPage
<1>2. r.blk2Lbn[b] \in BlockLbns
    <2>1. b \in ProgrammedIn(u)
        BY <1>1, RingSizes DEF ProgrammedIn
    <2> QED
        BY <2>1 DEF RingInv, OpenedIn
<1>3. u[b] \in 0 .. BlkSpan - 1
    BY <1>1, RingSizes
<1> QED
    BY <1>1, <1>2, <1>3, PageLbnType

\* iRecycleBlkLbn puts the block's LBN behind all that wait and keeps the
\* invariant.
LEMMA RingInvRecycle ==
    ASSUME NEW r, NEW u, RingInv(r, u), NEW b \in Blk, u[b] > 0
    PROVE  /\ RingInv(RecycleBlkLbn(r, b), [u EXCEPT ![b] = 0])
           /\ Waiting(RecycleBlkLbn(r, b)) = Append(Waiting(r), r.blk2Lbn[b])
<1> DEFINE l == r.blk2Lbn[b]
           W == Waiting(r)
           n == RecycleBlkLbn(r, b)
           w == [u EXCEPT ![b] = 0]
<1>1. /\ BlkSpan \in Nat \ {0} /\ QDepth \in Nat \ {0}
      /\ r \in Rings /\ u \in [Blk -> 0 .. BlkSpan]
      /\ r.rest \in [Blk -> 0 .. BlkSpan - 1]
      /\ r.alloc \in [Blk -> Nat]
      /\ r.avail \in 0 .. QDepth
      /\ r.head \in 0 .. QDepth - 1
    BY RingSizes DEF RingInv, Rings
<1>2. /\ w \in [Blk -> 0 .. BlkSpan] /\ w[b] = 0
      /\ \A c \in Blk : c # b => w[c] = u[c]
    BY <1>1
<1>3. b \in ProgrammedIn(u) /\ ProgrammedIn(w) = ProgrammedIn(u) \ {b}
    BY <1>1, <1>2 DEF ProgrammedIn
<1>4. l \in BlockLbns
    BY <1>3 DEF RingInv, OpenedIn
<1>5. /\ Cardinality(ProgrammedIn(w)) = Cardinality(ProgrammedIn(u)) - 1
      /\ Cardinality(ProgrammedIn(w)) \in Nat
      /\ Cardinality(ProgrammedIn(u)) \in Nat
      /\ r.avail + Cardinality(ProgrammedIn(u)) = QDepth
    <2>1. IsFiniteSet(ProgrammedIn(u)) /\ Cardinality(ProgrammedIn(u)) \in Nat
        BY ProgrammedFinite
    <2>2. /\ IsFiniteSet(ProgrammedIn(u) \ {b})
          /\ Cardinality(ProgrammedIn(u) \ {b}) = Cardinality(ProgrammedIn(u)) - 1
        BY <1>3, <2>1, FS_RemoveElement
    <2>3. Cardinality(ProgrammedIn(u) \ {b}) \in Nat
        BY <2>2, FS_CardinalityType
    <2> QED
        BY <1>3, <2>1, <2>2, <2>3 DEF RingInv, ConservedIn
<1>6. r.avail < QDepth
    BY <1>1, <1>5
<1>7. r.tail = SlotAt(r, r.avail)
    BY DEF RingInv, PointersAgree, SlotAt
<1>8. n \in Rings /\ Waiting(n) = Append(W, l)
    BY <1>1, <1>4, <1>6, <1>7, WaitingAfterRecycle
<1>9. /\ n.blk2Lbn = r.blk2Lbn
      /\ n.rest = [r.rest EXCEPT ![b] = 0]
      /\ n.alloc = [r.alloc EXCEPT ![b] = 0]
      /\ n.head = r.head
      /\ n.tail = (r.tail + 1) % QDepth
      /\ n.avail = r.avail + 1
    BY <1>1 DEF RecycleBlkLbn, Rings
<1>10. W \in Seq(BlockLbns) /\ Len(W) = r.avail
    BY <1>1, WaitingType
<1>11. /\ \A i \in 1 .. r.avail : Waiting(n)[i] = W[i]
       /\ Waiting(n)[r.avail + 1] = l
    BY <1>1, <1>4, <1>8, <1>10
<1> HIDE DEF l, W, n, w
<1>12. ConservedIn(n, w)
    BY <1>1, <1>5, <1>9 DEF ConservedIn
<1>13. PointersAgree(n)
    <2>1. r.avail \in 0 .. QDepth - 1
        BY <1>1, <1>6
    <2>2. (((r.head + r.avail) % QDepth) + 1) % QDepth
             = (r.head + (r.avail + 1)) % QDepth
        BY <1>1, <2>1, SlotNext, Zenon
    <2>3. r.tail = (r.head + r.avail) % QDepth
        BY DEF RingInv, PointersAgree
    <2> QED
        BY <1>9, <2>2, <2>3, Zenon DEF PointersAgree
<1>14. ShareIn(n, w)
    BY <1>1, <1>2, <1>9 DEF RingInv, ShareIn
<1>15. OpenedIn(n, w)
    BY <1>3, <1>9 DEF RingInv, OpenedIn
<1>16. OneOwnerIn(n, w)
    <2>1. /\ \A i, j \in 1 .. r.avail : W[i] = W[j] => i = j
          /\ \A c, d \in ProgrammedIn(u) : r.blk2Lbn[c] = r.blk2Lbn[d] => c = d
          /\ \A c \in ProgrammedIn(u), i \in 1 .. r.avail : r.blk2Lbn[c] # W[i]
        BY DEF RingInv, OneOwnerIn, W
    <2>2. \A i \in 1 .. n.avail : i \in 1 .. r.avail \/ i = r.avail + 1
        BY <1>1, <1>9
    <2>3. \A i \in 1 .. r.avail : W[i] # l
        BY <1>3, <2>1 DEF l
    <2>4. \A i, j \in 1 .. n.avail : Waiting(n)[i] = Waiting(n)[j] => i = j
        BY <1>11, <2>1, <2>2, <2>3
    <2>5. \A c \in ProgrammedIn(w) : r.blk2Lbn[c] # l
        BY <1>3, <2>1 DEF l
    <2>6. \A c \in ProgrammedIn(w), i \in 1 .. n.avail :
             n.blk2Lbn[c] # Waiting(n)[i]
        BY <1>3, <1>9, <1>11, <2>1, <2>2, <2>5
    <2>7. \A c, d \in ProgrammedIn(w) : n.blk2Lbn[c] = n.blk2Lbn[d] => c = d
        BY <1>3, <1>9, <2>1
    <2> QED
        BY <2>4, <2>6, <2>7 DEF OneOwnerIn
<1> QED
    BY <1>2, <1>8, <1>12, <1>13, <1>14, <1>15, <1>16
       DEF RingInv, n, w, l, W
=============================================================================
