--------------------------- MODULE LbnPool_proofs ---------------------------
(***************************************************************************)
(* The LBN manager never runs dry and never gives one block LBN to two     *)
(* blocks, for every number of channels, blocks, planes and pages.         *)
(*                                                                         *)
(* The inductive invariant is RingInv of FtlLemmas on pool and used:       *)
(* its parts are the invariants LbnPool states, and Opened.                *)
(***************************************************************************)
EXTENDS LbnPool, FtlLemmas

IInv ==
    /\ TypeOK
    /\ RingInv(pool, used)
    /\ NoHang

\* What the properties of LbnPool say is what RingInv says.
LEMMA IInvParts ==
    ASSUME IInv
    PROVE  Conserved /\ RingPointers /\ Share /\ OneOwner
BY DEF IInv, RingInv, ConservedIn, PointersAgree, ShareIn, OneOwnerIn,
       ProgrammedIn, Conserved, RingPointers, Share, OneOwner, Programmed

LEMMA FullPoolInv ==
    pool = FullRing /\ used = [b \in Blk |-> 0] /\ ret = 0 /\ hung = FALSE
    => IInv
<1> SUFFICES ASSUME pool = FullRing, used = [b \in Blk |-> 0],
                    ret = 0, hung = FALSE
             PROVE  IInv
    OBVIOUS
<1>1. RingInv(pool, used)
    BY RingInvFull
<1>2. TypeOK
    <2>1. pool \in Rings /\ used \in [Blk -> 0 .. BlkSpan]
        BY <1>1 DEF RingInv
    <2>2. ret \in Lbns \cup {0} /\ hung \in BOOLEAN
        BY Zenon
    <2> QED
        BY <2>1, <2>2 DEF TypeOK
<1> QED
    BY <1>1, <1>2 DEF IInv, NoHang

-----------------------------------------------------------------------------
(* One lemma per action.                                                   *)

LEMMA NewBlockStep ==
    ASSUME IInv, NEW b \in Blk, WriteToNewBlock(b)
    PROVE  /\ IInv'
           /\ used[b] = 0 /\ used' = [used EXCEPT ![b] = 1]
           /\ Waiting(pool) # <<>>
           /\ ret' = Head(Waiting(pool))
           /\ Waiting(pool') = Tail(Waiting(pool))
           /\ pool'.blk2Lbn = [pool.blk2Lbn EXCEPT ![b] = Head(Waiting(pool))]
<1>1. /\ RingInv(pool, used) /\ ~hung
      /\ pool \in Rings /\ used \in [Blk -> 0 .. BlkSpan]
      /\ used[b] < BlkSpan /\ pool.rest[b] = 0
      /\ ret \in Lbns \cup {0} /\ hung \in BOOLEAN
    BY DEF IInv, TypeOK, NoHang, WriteToNewBlock
<1>2. used[b] = 0 /\ pool.avail # 0
    BY <1>1, NewBlockFindsLbn
<1>3. /\ ret' = FirstLbn(pool)
      /\ pool' = AllocBlkLbn(pool, b)
      /\ used' = [used EXCEPT ![b] = 1]
      /\ hung' = hung
    BY <1>1, <1>2 DEF WriteToNewBlock
<1>4. /\ pool' \in Rings
      /\ FirstLbn(pool) = Head(Waiting(pool)) /\ FirstLbn(pool) \in BlockLbns
      /\ Waiting(pool) # <<>>
      /\ Waiting(pool') = Tail(Waiting(pool))
    BY <1>1, <1>2, <1>3, WaitingAfterAlloc
<1>5. pool'.blk2Lbn = [pool.blk2Lbn EXCEPT ![b] = FirstLbn(pool)]
    BY <1>1, <1>3 DEF AllocBlkLbn, Rings
<1>6. RingInv(pool', used')
    BY <1>1, <1>3, RingInvAlloc
<1>7. TypeOK'
    BY <1>1, <1>3, <1>4, <1>6, BlockLbnIsLbn DEF TypeOK, RingInv
<1> QED
    BY <1>1, <1>2, <1>3, <1>4, <1>5, <1>6, <1>7 DEF IInv, NoHang

\* A page without LBN in a block whose rest is not 0 extends the block.
LEMMA OpenBlockStep ==
    ASSUME IInv, NEW b \in Blk, WriteToOpenBlock(b)
    PROVE  /\ IInv'
           /\ used[b] \in 1 .. BlkSpan - 1
           /\ used' = [used EXCEPT ![b] = used[b] + 1]
           /\ ret' = pool.blk2Lbn[b] + Slice * used[b]
           /\ Waiting(pool') = Waiting(pool)
           /\ pool'.blk2Lbn = pool.blk2Lbn
<1>1. /\ RingInv(pool, used) /\ ~hung /\ hung \in BOOLEAN
      /\ pool \in Rings /\ used \in [Blk -> 0 .. BlkSpan]
      /\ used[b] < BlkSpan /\ pool.rest[b] # 0
      /\ ret' = NextLbn(pool, b)
      /\ pool' = AllocPageLbn(pool, b)
      /\ used' = [used EXCEPT ![b] = used[b] + 1]
      /\ hung' = hung
    BY DEF IInv, TypeOK, NoHang, WriteToOpenBlock
<1>2. /\ RingInv(pool', used')
      /\ used[b] \in 1 .. BlkSpan - 1
      /\ ret' = pool.blk2Lbn[b] + Slice * used[b]
    BY <1>1, RingInvPage
<1>3. Waiting(pool') = Waiting(pool) /\ pool'.blk2Lbn = pool.blk2Lbn
    BY <1>1, WaitingAfterPage DEF AllocPageLbn, Rings
<1>4. TypeOK'
    <2>1. ret' \in Lbns
        BY <1>1, <1>2, NextLbnIsLbn
    <2> QED
        BY <1>1, <1>2, <2>1 DEF TypeOK, RingInv
<1> QED
    BY <1>1, <1>2, <1>3, <1>4 DEF IInv, NoHang

\* An erase puts the block's LBN back, behind all that wait.
LEMMA EraseStep ==
    ASSUME IInv, NEW b \in Blk, Erase(b)
    PROVE  /\ IInv'
           /\ used[b] > 0 /\ used' = [used EXCEPT ![b] = 0]
           /\ ret' = ret
           /\ Waiting(pool') = Append(Waiting(pool), pool.blk2Lbn[b])
           /\ pool'.blk2Lbn = pool.blk2Lbn
<1>1. /\ RingInv(pool, used) /\ ~hung /\ hung \in BOOLEAN
      /\ pool \in Rings
      /\ used[b] > 0
      /\ pool' = RecycleBlkLbn(pool, b)
      /\ used' = [used EXCEPT ![b] = 0]
      /\ ret' = ret /\ hung' = hung /\ ret \in Lbns \cup {0}
    BY DEF IInv, TypeOK, NoHang, Erase
<1>2. /\ RingInv(pool', used')
      /\ Waiting(pool') = Append(Waiting(pool), pool.blk2Lbn[b])
    BY <1>1, RingInvRecycle
<1>3. pool'.blk2Lbn = pool.blk2Lbn
    BY <1>1 DEF RecycleBlkLbn, Rings
<1>4. TypeOK'
    BY <1>1, <1>2 DEF TypeOK, RingInv
<1> QED
    BY <1>1, <1>2, <1>3, <1>4 DEF IInv, NoHang

-----------------------------------------------------------------------------
(* The inductive invariant, and the properties of LbnPool it carries.      *)

LEMMA InitIInv == Init => IInv
BY FullPoolInv DEF Init

LEMMA ResetStep ==
    ASSUME IInv, Reset
    PROVE  IInv'
<1>1. (pool = FullRing /\ used = [b \in Blk |-> 0] /\ ret = 0 /\ hung = FALSE
       => IInv)'
    BY FullPoolInv, PTL
<1>2. hung \in BOOLEAN /\ ~hung
    BY DEF IInv, TypeOK, NoHang
<1>3. hung = FALSE
    BY <1>2, Zenon
<1>4. /\ pool' = FullRing /\ used' = [b \in Blk |-> 0]
      /\ ret' = 0 /\ hung' = FALSE
    BY <1>3, Zenon DEF Reset
<1> QED
    BY <1>1, <1>4

LEMMA StutterStep ==
    ASSUME IInv, UNCHANGED vars
    PROVE  IInv'
BY DEF vars, IInv, TypeOK, NoHang

LEMMA NextIInv == IInv /\ [Next]_vars => IInv'
<1> SUFFICES ASSUME IInv, [Next]_vars
             PROVE  IInv'
    OBVIOUS
<1>1. ASSUME NEW b \in Blk, WriteToNewBlock(b)
      PROVE  IInv'
    BY <1>1, NewBlockStep
<1>2. ASSUME NEW b \in Blk, WriteToOpenBlock(b)
      PROVE  IInv'
    BY <1>2, OpenBlockStep
<1>3. ASSUME NEW b \in Blk, Erase(b)
      PROVE  IInv'
    BY <1>3, EraseStep
<1>4. CASE Reset
    BY <1>4, ResetStep
<1>5. CASE UNCHANGED vars
    BY <1>5, StutterStep
<1> QED
    BY <1>1, <1>2, <1>3, <1>4, <1>5 DEF Next

LEMMA SpecIInv == Spec => []IInv
BY InitIInv, NextIInv, PTL DEF Spec

\* The LBN manager's fields keep their ranges: the ring holds block LBNs
\* only, and no pointer, counter or share leaves its bounds.
THEOREM LbnTypeOK == Spec => []TypeOK
<1>1. IInv => TypeOK
    BY DEF IInv
<1> QED
    BY SpecIInv, <1>1, PTL

\* iAllocBlkLbn and iRecycleBlkLbn neither lose nor make a block LBN.
THEOREM LbnConserved == Spec => []Conserved
<1>1. IInv => Conserved
    BY IInvParts
<1> QED
    BY SpecIInv, <1>1, PTL

\* headPtr, tailPtr and availLbnCnt agree, however often they wrap around.
THEOREM LbnRingPointers == Spec => []RingPointers
<1>1. IInv => RingPointers
    BY IInvParts
<1> QED
    BY SpecIInv, <1>1, PTL

\* pChRestLbnNum and pChAllocLbn follow the number of written pages.
THEOREM LbnShare == Spec => []Share
<1>1. IInv => Share
    BY IInvParts
<1> QED
    BY SpecIInv, <1>1, PTL

\* No block LBN is with two blocks, or with a block and in the ring.
THEOREM LbnOneOwner == Spec => []OneOwner
<1>1. IInv => OneOwner
    BY IInvParts
<1> QED
    BY SpecIInv, <1>1, PTL

\* The while (1) of iAllocBlkLbn is never reached.
THEOREM LbnNoHang == Spec => []NoHang
<1>1. IInv => NoHang
    BY DEF IInv
<1> QED
    BY SpecIInv, <1>1, PTL

-----------------------------------------------------------------------------
(* The ring implements the fifo of LbnFifo.                                *)

Held == [b \in Blk |-> IF used[b] = 0 THEN 0 ELSE pool.blk2Lbn[b]]

LEMMA FifoInit == Init => Fifo!Init
<1> SUFFICES ASSUME Init
             PROVE  Fifo!Init
    OBVIOUS
<1>1. Waiting(pool) = [i \in 1 .. QDepth |-> BlockLbn(i - 1)]
    BY FullRingWaiting DEF Init
<1>2. [b \in Blk |-> IF used[b] = 0 THEN 0 ELSE pool.blk2Lbn[b]]
         = [b \in Blk |-> 0]
    BY DEF Init
<1> QED
    BY <1>1, <1>2 DEF Init, Fifo!Init

LEMMA FifoOpen ==
    ASSUME IInv, NEW b \in Blk, WriteToNewBlock(b)
    PROVE  Fifo!Open(b)
<1>1. /\ used[b] = 0 /\ used' = [used EXCEPT ![b] = 1]
      /\ Waiting(pool) # <<>>
      /\ ret' = Head(Waiting(pool))
      /\ Waiting(pool') = Tail(Waiting(pool))
      /\ pool'.blk2Lbn = [pool.blk2Lbn EXCEPT ![b] = Head(Waiting(pool))]
    BY NewBlockStep
<1>2. used \in [Blk -> 0 .. BlkSpan]
      /\ pool.blk2Lbn \in [Blk -> BlockLbns \cup {0}]
    BY DEF IInv, TypeOK, Rings
<1>3. ASSUME NEW c \in Blk
      PROVE  (IF used'[c] = 0 THEN 0 ELSE pool'.blk2Lbn[c])
                = IF c = b THEN Head(Waiting(pool)) ELSE Held[c]
    BY <1>1, <1>2 DEF Held
<1>4. Held' = [Held EXCEPT ![b] = Head(Waiting(pool))]
    BY <1>3 DEF Held
<1> QED
    BY <1>1, <1>4 DEF Fifo!Open, Held

LEMMA FifoExtend ==
    ASSUME IInv, NEW b \in Blk, WriteToOpenBlock(b)
    PROVE  Fifo!Extend(b)
<1>1. /\ used[b] \in 1 .. BlkSpan - 1
      /\ used' = [used EXCEPT ![b] = used[b] + 1]
      /\ ret' = pool.blk2Lbn[b] + Slice * used[b]
      /\ Waiting(pool') = Waiting(pool)
      /\ pool'.blk2Lbn = pool.blk2Lbn
    BY OpenBlockStep
<1>2. BlkSpan \in Nat \ {0} /\ used \in [Blk -> 0 .. BlkSpan]
    BY RingSizes DEF IInv, TypeOK
<1>3. Held' = Held /\ Held[b] = pool.blk2Lbn[b]
    BY <1>1, <1>2 DEF Held
<1> QED
    BY <1>1, <1>3 DEF Fifo!Extend, Held

LEMMA FifoRelease ==
    ASSUME IInv, NEW b \in Blk, Erase(b)
    PROVE  Fifo!Release(b)
<1>1. /\ used[b] > 0 /\ used' = [used EXCEPT ![b] = 0]
      /\ ret' = ret
      /\ Waiting(pool') = Append(Waiting(pool), pool.blk2Lbn[b])
      /\ pool'.blk2Lbn = pool.blk2Lbn
    BY EraseStep
<1>2. used \in [Blk -> 0 .. BlkSpan]
    BY DEF IInv, TypeOK
<1>3. ASSUME NEW c \in Blk
      PROVE  (IF used'[c] = 0 THEN 0 ELSE pool'.blk2Lbn[c])
                = IF c = b THEN 0 ELSE Held[c]
    BY <1>1, <1>2 DEF Held
<1>4. Held' = [Held EXCEPT ![b] = 0]
    BY <1>3 DEF Held
<1>5. Held[b] = pool.blk2Lbn[b]
    BY <1>1, <1>2 DEF Held
<1> QED
    BY <1>1, <1>4, <1>5 DEF Fifo!Release, Held

LEMMA FifoReset ==
    ASSUME IInv, Reset
    PROVE  Fifo!Reset
<1>1. Waiting(pool') = [i \in 1 .. QDepth |-> BlockLbn(i - 1)]
    BY FullRingWaiting DEF Reset
<1>2. Held' = [b \in Blk |-> 0]
    BY DEF Reset, Held
<1> QED
    BY <1>1, <1>2 DEF Reset, Fifo!Reset, Held

LEMMA FifoStutter ==
    ASSUME UNCHANGED vars
    PROVE  UNCHANGED Fifo!vars
BY DEF vars, Fifo!vars

LEMMA FifoNext == IInv /\ [Next]_vars => [Fifo!Next]_Fifo!vars
<1> SUFFICES ASSUME IInv, [Next]_vars
             PROVE  Fifo!Next \/ UNCHANGED Fifo!vars
    OBVIOUS
<1>1. ASSUME NEW b \in Blk, WriteToNewBlock(b)
      PROVE  Fifo!Next
    BY <1>1, FifoOpen DEF Fifo!Next
<1>2. ASSUME NEW b \in Blk, WriteToOpenBlock(b)
      PROVE  Fifo!Next
    BY <1>2, FifoExtend DEF Fifo!Next
<1>3. ASSUME NEW b \in Blk, Erase(b)
      PROVE  Fifo!Next
    BY <1>3, FifoRelease DEF Fifo!Next
<1>4. CASE Reset
    BY <1>4, FifoReset DEF Fifo!Next
<1>5. CASE UNCHANGED vars
    BY <1>5, FifoStutter
<1> QED
    BY <1>1, <1>2, <1>3, <1>4, <1>5 DEF Next

\* The ring of lbn_mgr is a first-in first-out resource pool: pointers that
\* wrap around and stale pBlk2Lbn entries are not to be seen from outside.
THEOREM LbnRefinesFifo == Spec => RefinesLbnFifo
BY SpecIInv, FifoInit, FifoNext, PTL DEF Spec, RefinesLbnFifo, Fifo!Spec
=============================================================================
