------------------------------- MODULE P2lMap -------------------------------
(***************************************************************************)
(* The P2L table of p2l.c in use: any sequence of iGetDataLbn,             *)
(* iUpdateDataLbn and iInitDevConfig calls.  Both calls may bring a table  *)
(* page into the DRAM bank and push another one out of it.                 *)
(***************************************************************************)
EXTENDS P2lTable

CONSTANT Lbn    \* the LBNs stored, 0 for an address that has none

ASSUME LbnAssumption == 0 \in Lbn

VARIABLES
    tbl,    \* the table, see P2lTable
    ret     \* what the last iGetDataLbn returned

vars == <<tbl, ret>>

TypeOK == tbl \in Tables(Lbn) /\ ret \in Lbn

Init == tbl = EmptyTable /\ ret = 0

\* iGetDataLbn
Get(pAddr) ==
    /\ tbl' = BringIn(tbl, pAddr)
    /\ ret' = GetDataLbn(tbl, pAddr)

\* iUpdateDataLbn
Update(pAddr, lbn) ==
    /\ tbl' = UpdateDataLbn(tbl, pAddr, lbn)
    /\ UNCHANGED ret

\* iInitDevConfig called again with the same configuration
Reset == tbl' = EmptyTable /\ ret' = 0

Next ==
    \/ \E a \in Addr : Get(a)
    \/ \E a \in Addr, l \in Lbn : Update(a, l)
    \/ Reset

Spec == Init /\ [][Next]_vars

-----------------------------------------------------------------------------
\* The bits of pP2lBitmap, the bits of pP2lValBitmap and pP2lPageIdx are
\* written by two different miss paths (iCopyP2lPageToDram, iSwapP2lPage)
\* and never out of step: at most one page claims a frame, it is the page
\* iSwapP2lPage would write back, and no page marked resident has lost its
\* frame.
TableInv == TableConsistent(tbl)

\* A swap writes back the page that leaves and nothing else: a page of
\* pP2lSrcTable changes only by receiving what its own frame held.
WriteBackOnly ==
    [][\A p \in TblPages :
          \/ tbl'.src[p] = tbl.src[p]
          \/ tbl' = EmptyTable
          \/ /\ p \in tbl.bitmap /\ p \notin tbl'.bitmap
             /\ tbl'.src[p] = tbl.dram[PageFrame(p)]]_vars

Map == INSTANCE LbnMap WITH map <- LbnView(tbl)

\* Every lookup returns the LBN that was last stored for that address,
\* through any number of misses, evictions and reloads.
RefinesLbnMap == Map!Spec

\* A call for an address is the call on the map for the same address: what
\* brings the page in never moves the lookup or the store elsewhere.
CallsAreMapCalls ==
    [][\A a \in Addr :
          /\ Get(a) => Map!Get(a)
          /\ \A l \in Lbn : Update(a, l) => Map!Update(a, l)]_vars
=============================================================================
