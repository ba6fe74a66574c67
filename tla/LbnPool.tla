------------------------------- MODULE LbnPool -------------------------------
(***************************************************************************)
(* The LBN manager in use.  Its only client is iFlashCmdHandler, which     *)
(* asks for an LBN when a page without one is written, and recycles a      *)
(* block when an erase is addressed to a page that has one; so the client  *)
(* is reduced to the number of pages of every block that have an LBN.      *)
(***************************************************************************)
EXTENDS LbnRing, FiniteSets, Sequences

VARIABLES
    pool,   \* the LBN manager, see LbnRing
    used,   \* used[b]: pages of b whose P2L entry is not 0
    ret,    \* the LBN last returned by an allocation
    hung    \* iAllocBlkLbn found availLbnCnt = 0 and is in its while (1)

vars == <<pool, used, ret, hung>>

TypeOK ==
    /\ pool \in Rings
    /\ used \in [Blk -> 0 .. BlkSpan]
    /\ ret \in Lbns \cup {0}
    /\ hung \in BOOLEAN

Init ==
    /\ pool = FullRing
    /\ used = [b \in Blk |-> 0]
    /\ ret = 0
    /\ hung = FALSE

\* The write of a page without an LBN.  iFlashCmdHandler chooses the
\* allocation by pChRestLbnNum alone: 0 is taken to mean a new block.
\* iAllocBlkLbn never returns when the ring is empty.
WriteToNewBlock(b) ==
    /\ ~hung
    /\ used[b] < BlkSpan
    /\ pool.rest[b] = 0
    /\ IF pool.avail = 0
       THEN hung' = TRUE /\ UNCHANGED <<pool, used, ret>>
       ELSE /\ ret' = FirstLbn(pool)
            /\ pool' = AllocBlkLbn(pool, b)
            /\ used' = [used EXCEPT ![b] = @ + 1]
            /\ UNCHANGED hung

WriteToOpenBlock(b) ==
    /\ ~hung
    /\ used[b] < BlkSpan
    /\ pool.rest[b] # 0
    /\ ret' = NextLbn(pool, b)
    /\ pool' = AllocPageLbn(pool, b)
    /\ used' = [used EXCEPT ![b] = @ + 1]
    /\ UNCHANGED hung

Erase(b) ==
    /\ ~hung
    /\ used[b] > 0
    /\ pool' = RecycleBlkLbn(pool, b)
    /\ used' = [used EXCEPT ![b] = 0]
    /\ UNCHANGED <<ret, hung>>

\* iInitDevConfig called again with the same configuration
Reset ==
    /\ ~hung
    /\ pool' = FullRing
    /\ used' = [b \in Blk |-> 0]
    /\ ret' = 0
    /\ UNCHANGED hung

Next ==
    \/ \E b \in Blk :
          WriteToNewBlock(b) \/ WriteToOpenBlock(b) \/ Erase(b)
    \/ Reset

Spec == Init /\ [][Next]_vars

-----------------------------------------------------------------------------
Programmed == {b \in Blk : used[b] > 0}

\* No block LBN is lost and none is made: those in the ring and those of
\* programmed blocks are as many as the device has blocks.
Conserved == pool.avail + Cardinality(Programmed) = QDepth

\* The ring's two pointers and its counter say the same.
RingPointers == pool.tail = (pool.head + pool.avail) % QDepth

\* pChRestLbnNum and pChAllocLbn of a block follow the number of its pages
\* that have an LBN, through pages written in any order and erases of
\* partly written blocks; so "rest = 0" on a page without LBN really means
\* a new block.
Share ==
    \A b \in Blk :
        IF used[b] = 0
        THEN pool.rest[b] = 0
        ELSE /\ pool.rest[b] = BlkSpan - used[b]
             /\ pool.alloc[b] = pool.blk2Lbn[b] + Slice * used[b]

\* A block LBN is in one place: once in the ring or with one programmed
\* block.  Two blocks with the same LBN would share their data files.
OneOwner ==
    /\ \A i, j \in 1 .. pool.avail :
          Waiting(pool)[i] = Waiting(pool)[j] => i = j
    /\ \A b, c \in Programmed :
          pool.blk2Lbn[b] = pool.blk2Lbn[c] => b = c
    /\ \A b \in Programmed, i \in 1 .. pool.avail :
          pool.blk2Lbn[b] # Waiting(pool)[i]

\* The write of a page never finds the ring empty.
NoHang == ~hung

Fifo == INSTANCE LbnFifo WITH
            free <- Waiting(pool),
            held <- [b \in Blk |-> IF used[b] = 0 THEN 0 ELSE pool.blk2Lbn[b]],
            InitFree <- [i \in 1 .. QDepth |-> BlockLbn(i - 1)]

\* The ring of p2l.c, its pointers wrapping around and its stale pBlk2Lbn
\* entries included, gives out LBNs first in first out, one owner at a time.
RefinesLbnFifo == Fifo!Spec
=============================================================================
