------------------------------- MODULE LbnRing -------------------------------
(***************************************************************************)
(* The LBN manager lbn_mgr of p2l.c, as values and operators.              *)
(*                                                                         *)
(* The LBNs of a flash block are handed out from a ring of block LBNs.     *)
(* Programming the first page of a block takes the LBN at headPtr; the     *)
(* following pages of the block get the next LBNs, five apart, until       *)
(* pChRestLbnNum says the block's share is used up; an erase puts the      *)
(* block LBN back at tailPtr.                                              *)
(*                                                                         *)
(* A ring r is a record:                                                   *)
(*   r.buff      pLbnBuff                                                  *)
(*   r.head      headPtr                                                   *)
(*   r.tail      tailPtr                                                   *)
(*   r.avail     availLbnCnt                                               *)
(*   r.blk2Lbn   pBlk2Lbn[ch][blk]                                         *)
(*   r.rest      pChRestLbnNum[ch][blk]                                    *)
(*   r.alloc     pChAllocLbn[ch][blk]                                      *)
(***************************************************************************)
EXTENDS Geometry

CONSTANT LbnBase    \* lbnEntryCnt / 1024, the first LBN given out

\* LBN 0 means "not programmed" everywhere in p2l.c, so it must not be given
\* out.  The smallest device, 1 GB, has LbnBase = 64.
ASSUME LbnBaseAssumption == LbnBase \in Nat \ {0}

QDepth == ChCnt * BlkCnt    \* lbnQdepth

Slice == 5                  \* LBNs of a page

BlkLbnCnt == BlkSpan * Slice

BlockLbn(i) == LbnBase + i * BlkLbnCnt

BlockLbns == {BlockLbn(i) : i \in 0 .. QDepth - 1}

\* The LBNs of the pages of the block LBN base.
PageLbns(base) == {base + Slice * i : i \in 0 .. BlkSpan - 1}

Lbns == UNION {PageLbns(base) : base \in BlockLbns}

Rings ==
    [buff : [0 .. QDepth - 1 -> BlockLbns],
     head : 0 .. QDepth - 1,
     tail : 0 .. QDepth - 1,
     avail : 0 .. QDepth,
     blk2Lbn : [Blk -> BlockLbns \cup {0}],
     rest : [Blk -> 0 .. BlkSpan - 1],
     alloc : [Blk -> Nat]]

\* iInitDevConfig: every block LBN in the ring; the loop that fills it leaves
\* tailPtr at 0 again.
FullRing ==
    [buff |-> [i \in 0 .. QDepth - 1 |-> BlockLbn(i)],
     head |-> 0,
     tail |-> 0,
     avail |-> QDepth,
     blk2Lbn |-> [b \in Blk |-> 0],
     rest |-> [b \in Blk |-> 0],
     alloc |-> [b \in Blk |-> 0]]

-----------------------------------------------------------------------------
\* iAllocBlkLbn, with availLbnCnt not 0, returns this LBN for the page that
\* opens block b.
FirstLbn(r) == r.buff[r.head]

\* Mutant: the next page of the block gets the LBN of its first page.
AllocBlkRepeatsFirst(r, b) ==
    [r EXCEPT !.blk2Lbn[b] = FirstLbn(r),
              !.rest[b] = BlkSpan - 1,
              !.alloc[b] = FirstLbn(r),
              !.head = (r.head + 1) % QDepth,
              !.avail = r.avail - 1]

\* Mutant: the LBN taken stays at the head of the ring.
AllocBlkKeepsHead(r, b) ==
    [r EXCEPT !.blk2Lbn[b] = FirstLbn(r),
              !.rest[b] = BlkSpan - 1,
              !.alloc[b] = FirstLbn(r) + Slice,
              !.avail = r.avail - 1]

AllocBlkLbn(r, b) ==
    [r EXCEPT !.blk2Lbn[b] = FirstLbn(r),
              !.rest[b] = BlkSpan - 1,
              !.alloc[b] = FirstLbn(r) + Slice,
              !.head = (r.head + 1) % QDepth,
              !.avail = r.avail - 1]

\* iAllocPageLbn returns this LBN for a later page of block b.
NextLbn(r, b) == r.alloc[b]

AllocPageLbn(r, b) ==
    [r EXCEPT !.alloc[b] = r.alloc[b] + Slice,
              !.rest[b] = r.rest[b] - 1]

\* Mutant: the block keeps its share of LBNs over the erase.
RecycleKeepsRest(r, b) ==
    [r EXCEPT !.buff[r.tail] = r.blk2Lbn[b],
              !.alloc[b] = 0,
              !.tail = (r.tail + 1) % QDepth,
              !.avail = r.avail + 1]

\* Mutant: the LBN put back is not counted.
RecycleForgetsCount(r, b) ==
    [r EXCEPT !.buff[r.tail] = r.blk2Lbn[b],
              !.rest[b] = 0,
              !.alloc[b] = 0,
              !.tail = (r.tail + 1) % QDepth]

\* The part of iRecycleBlkLbn before its loop over the P2L entries.
\* pBlk2Lbn keeps the LBN of the block.
RecycleBlkLbn(r, b) ==
    [r EXCEPT !.buff[r.tail] = r.blk2Lbn[b],
              !.rest[b] = 0,
              !.alloc[b] = 0,
              !.tail = (r.tail + 1) % QDepth,
              !.avail = r.avail + 1]

-----------------------------------------------------------------------------
\* The LBNs waiting in the ring, first to be taken first.
Waiting(r) == [i \in 1 .. r.avail |-> r.buff[(r.head + i - 1) % QDepth]]
=============================================================================
