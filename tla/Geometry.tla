------------------------------ MODULE Geometry ------------------------------
(***************************************************************************)
(* Flash geometry and the physical page address (pAddr) of p2l.c.          *)
(*                                                                         *)
(* A pAddr is the bit string CH | BLK | PLANE | PAGE.  p2l.c takes it      *)
(* apart with shifts and masks whose widths are floor(log2(count)), see    *)
(* iInitDevConfig.  For counts that are powers of two a shift is \div, a   *)
(* mask is %, and this module writes the fields that way; DevConfig says   *)
(* which configurations give such counts.                                  *)
(***************************************************************************)
EXTENDS Integers

CONSTANTS
    ChCnt,      \* dev_mgr.chCnt
    BlkCnt,     \* dev_mgr.blkCnt, blocks of a channel
    PlaneCnt,   \* dev_mgr.planeCnt
    PageCnt     \* dev_mgr.pageCnt, pages of a plane of a block

ASSUME CountsPositive ==
    /\ ChCnt \in Nat \ {0}
    /\ BlkCnt \in Nat \ {0}
    /\ PlaneCnt \in Nat \ {0}
    /\ PageCnt \in Nat \ {0}

Channels == 0 .. ChCnt - 1

\* Addresses of one block, and of one channel.
BlkSpan == PlaneCnt * PageCnt
ChSpan == BlkCnt * BlkSpan

Addr == 0 .. ChCnt * ChSpan - 1

\* A block is named by its channel and its number in the channel.
Blk == Channels \X (0 .. BlkCnt - 1)

ChOf(pAddr) == (pAddr \div ChSpan) % ChCnt
BlkOf(pAddr) == (pAddr \div BlkSpan) % BlkCnt
PlaneOf(pAddr) == (pAddr \div PageCnt) % PlaneCnt
PageOf(pAddr) == pAddr % PageCnt

BlkId(pAddr) == <<ChOf(pAddr), BlkOf(pAddr)>>

PAddr(ch, blk, plane, page) ==
    ch * ChSpan + blk * BlkSpan + plane * PageCnt + page

\* pAddr & ~(ch << chSftCnt): the address within its channel.
ChLocal(pAddr) == pAddr - ChOf(pAddr) * ChSpan

\* (pAddr >> blkSftCnt) << blkSftCnt: the first address of the block.
BlkFirst(pAddr) == (pAddr \div BlkSpan) * BlkSpan

BlkAddrs(pAddr) == BlkFirst(pAddr) .. BlkFirst(pAddr) + BlkSpan - 1
=============================================================================
