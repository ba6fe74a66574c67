---------------------------- MODULE P2lMap_proofs ----------------------------
(***************************************************************************)
(* The P2L table in use keeps its records of residency in step and is a    *)
(* map from addresses to LBNs, for every geometry, table page size and     *)
(* bank size.  TypeOK and TableInv together are inductive: the types put   *)
(* every frame and table page in range, the consistency of the bits says   *)
(* which page a swap writes back.                                          *)
(***************************************************************************)
EXTENDS P2lMap, FtlLemmas

IInv == TypeOK /\ TableInv

LEMMA InitIInv == Init => IInv
BY LbnAssumption, EmptyTableType, EmptyTableConsistent
   DEF Init, IInv, TypeOK, TableInv

LEMMA NextIInv == IInv /\ [Next]_vars => IInv'
<1> SUFFICES ASSUME IInv, [Next]_vars
             PROVE  IInv'
    OBVIOUS
<1>0. tbl \in Tables(Lbn) /\ ret \in Lbn /\ TableConsistent(tbl)
    BY DEF IInv, TypeOK, TableInv
<1>1. ASSUME NEW a \in Addr, Get(a)
      PROVE  IInv'
    BY <1>0, <1>1, BringInType, GetType, BringInConsistent
       DEF Get, IInv, TypeOK, TableInv
<1>2. ASSUME NEW a \in Addr, NEW l \in Lbn, Update(a, l)
      PROVE  IInv'
    BY <1>0, <1>2, UpdateType, UpdateConsistent
       DEF Update, IInv, TypeOK, TableInv
<1>3. CASE Reset
    BY <1>3, LbnAssumption, EmptyTableType, EmptyTableConsistent
       DEF Reset, IInv, TypeOK, TableInv
<1>4. CASE UNCHANGED vars
    BY <1>0, <1>4 DEF vars, IInv, TypeOK, TableInv
<1> QED
    BY <1>1, <1>2, <1>3, <1>4 DEF Next

LEMMA SpecIInv == Spec => []IInv
BY InitIInv, NextIInv, PTL DEF Spec

\* Every call leaves the table well formed: no index out of its array.
THEOREM P2lTypeOK == Spec => []TypeOK
<1>1. IInv => TypeOK
    BY DEF IInv
<1> QED
    BY <1>1, SpecIInv, PTL

\* The page bitmap, the valid bitmap and the page indexes of the frames
\* never disagree, whichever of the two miss paths wrote them last.
THEOREM P2lTableInv == Spec => []TableInv
<1>1. IInv => TableInv
    BY DEF IInv
<1> QED
    BY <1>1, SpecIInv, PTL

-----------------------------------------------------------------------------
(* Refinement.                                                             *)

LEMMA InitRefines == Init => Map!Init
BY EmptyTableView DEF Init, Map!Init

LEMMA GetRefines ==
    ASSUME IInv, NEW a \in Addr, Get(a)
    PROVE  Map!Get(a)
<1>0. tbl \in Tables(Lbn) /\ ret \in Lbn /\ TableConsistent(tbl)
    BY DEF IInv, TypeOK, TableInv
<1>1. LbnView(tbl') = LbnView(tbl)
    BY <1>0, BringInView DEF Get
<1>2. ret' = LbnView(tbl)[a]
    BY <1>0, GetView DEF Get
<1> QED
    BY <1>1, <1>2 DEF Map!Get

LEMMA UpdateRefines ==
    ASSUME IInv, NEW a \in Addr, NEW l \in Lbn, Update(a, l)
    PROVE  Map!Update(a, l)
<1>0. tbl \in Tables(Lbn) /\ ret \in Lbn /\ TableConsistent(tbl)
    BY DEF IInv, TypeOK, TableInv
<1>1. LbnView(tbl') = [LbnView(tbl) EXCEPT ![a] = l]
    BY <1>0, UpdateView DEF Update
<1> QED
    BY <1>1 DEF Update, Map!Update

LEMMA NextRefines == IInv /\ [Next]_vars => [Map!Next]_(Map!vars)
<1> SUFFICES ASSUME IInv, [Next]_vars
             PROVE  [Map!Next]_(Map!vars)
    OBVIOUS
<1>1. ASSUME NEW a \in Addr, Get(a)
      PROVE  Map!Get(a)
    BY <1>1, GetRefines
<1>2. ASSUME NEW a \in Addr, NEW l \in Lbn, Update(a, l)
      PROVE  Map!Update(a, l)
    BY <1>2, UpdateRefines
<1>3. CASE Reset
    <2>1. Map!Reset
        BY <1>3, EmptyTableView DEF Reset, Map!Reset
    <2> QED
        BY <2>1 DEF Map!Next
<1>4. CASE UNCHANGED vars
    BY <1>4 DEF vars, Map!vars
<1> QED
    BY <1>1, <1>2, <1>3, <1>4 DEF Next, Map!Next

\* The demand-paged table behaves as one array of LBNs: every lookup
\* returns what was last stored for its address.
THEOREM P2lRefinesLbnMap == Spec => RefinesLbnMap
<1>1. Init => Map!Init
    BY InitRefines
<1>2. IInv /\ [Next]_vars => [Map!Next]_(Map!vars)
    BY NextRefines
<1> QED
    BY <1>1, <1>2, SpecIInv, PTL DEF Spec, RefinesLbnMap, Map!Spec

\* A lookup or a store for an address is that lookup or store on the array,
\* whatever pages it had to move first.
THEOREM P2lCallsAreMapCalls == Spec => CallsAreMapCalls
<1>1. IInv /\ [Next]_vars =>
        [\A a \in Addr :
            /\ Get(a) => Map!Get(a)
            /\ \A l \in Lbn : Update(a, l) => Map!Update(a, l)]_vars
    BY GetRefines, UpdateRefines
<1> QED
    BY <1>1, SpecIInv, PTL DEF Spec, CallsAreMapCalls

-----------------------------------------------------------------------------
(* What a step may do to pP2lSrcTable.                                     *)

LEMMA StepWritesBack ==
    ASSUME IInv, [Next]_vars, NEW p \in TblPages
    PROVE  \/ tbl'.src[p] = tbl.src[p]
           \/ tbl' = EmptyTable
           \/ /\ p \in tbl.bitmap /\ p \notin tbl'.bitmap
              /\ tbl'.src[p] = tbl.dram[PageFrame(p)]
<1>0. tbl \in Tables(Lbn) /\ TableConsistent(tbl)
    BY DEF IInv, TypeOK, TableInv
<1>1. ASSUME NEW a \in Addr, tbl' = BringIn(tbl, a)
      PROVE  \/ tbl'.src[p] = tbl.src[p]
             \/ /\ p \in tbl.bitmap /\ p \notin tbl'.bitmap
                /\ tbl'.src[p] = tbl.dram[PageFrame(p)]
    BY <1>0, <1>1, BringInWritesBack
<1>2. ASSUME NEW a \in Addr, NEW l \in Lbn,
             tbl' = UpdateDataLbn(tbl, a, l)
      PROVE  \/ tbl'.src[p] = tbl.src[p]
             \/ /\ p \in tbl.bitmap /\ p \notin tbl'.bitmap
                /\ tbl'.src[p] = tbl.dram[PageFrame(p)]
    <2>1. BringIn(tbl, a) \in Tables(Lbn)
        BY <1>0, BringInType
    <2>2. /\ tbl'.src = BringIn(tbl, a).src
          /\ tbl'.bitmap = BringIn(tbl, a).bitmap
        BY <1>2, <2>1 DEF UpdateDataLbn, Tables
    <2> QED
        BY <1>0, <2>2, BringInWritesBack
<1> QED
    BY <1>1, <1>2 DEF Next, Get, Update, Reset, vars

\* pP2lSrcTable is written by nothing but the write-back of the page that
\* loses its frame, with what that frame held.
THEOREM P2lWriteBackOnly == Spec => WriteBackOnly
<1>1. IInv /\ [Next]_vars =>
        [\A p \in TblPages :
            \/ tbl'.src[p] = tbl.src[p]
            \/ tbl' = EmptyTable
            \/ /\ p \in tbl.bitmap /\ p \notin tbl'.bitmap
               /\ tbl'.src[p] = tbl.dram[PageFrame(p)]]_vars
    BY StepWritesBack
<1> QED
    BY <1>1, SpecIInv, PTL DEF Spec, WriteBackOnly
=============================================================================
