---------------------------- MODULE AddressFields ----------------------------
(***************************************************************************)
(* The fields of a pAddr, with the shifts and masks iInitDevConfig gives   *)
(* them: floor(log2(count)) bits for each, whatever the count.             *)
(***************************************************************************)
EXTENDS DevConfig, Bitwise

PlaneSftCnt(d) == BitNum(d.pageCnt)

\* Mutant: the plane field is left out of the widths.
BlkSftSkipsPlane(d) == PlaneSftCnt(d)

BlkSftCnt(d) == PlaneSftCnt(d) + BitNum(d.planeCnt)
ChSftCnt(d) == BlkSftCnt(d) + BitNum(d.blkCnt)

Field(pAddr, sftCnt, cnt) == (pAddr \div 2 ^ sftCnt) & (cnt - 1)

\* The pAddr iFlashCmdHandler forms, and the fields it is taken apart into.
Encode(d, x) ==
    (x.ch * 2 ^ ChSftCnt(d)) | (x.blk * 2 ^ BlkSftCnt(d))
        | (x.plane * 2 ^ PlaneSftCnt(d)) | x.page

Decode(d, pAddr) ==
    [ch |-> Field(pAddr, ChSftCnt(d), d.chCnt),
     blk |-> Field(pAddr, BlkSftCnt(d), d.blkCnt),
     plane |-> Field(pAddr, PlaneSftCnt(d), d.planeCnt),
     page |-> Field(pAddr, 0, d.pageCnt)]

\* Values of a field that show each of its bits and its end.
Samples(cnt) == ({2 ^ k : k \in 0 .. BitNum(cnt)} \cap (0 .. cnt - 1))
                    \cup {0, cnt - 1}

Coordinates(d) ==
    [ch : Samples(d.chCnt), blk : {0, 1, d.blkCnt - 1} \cap (0 .. d.blkCnt - 1),
     plane : Samples(d.planeCnt), page : Samples(d.pageCnt)]
        \cup [ch : {0, d.chCnt - 1}, blk : Samples(d.blkCnt),
              plane : {d.planeCnt - 1}, page : {d.pageCnt - 1}]

-----------------------------------------------------------------------------
\* Every page of the device has a pAddr that its coordinates can be taken
\* back from exactly when all four counts are powers of two; iInitDevConfig
\* accepts the other configurations as well.
AddressesDecode ==
    Ready /\ dev.blkCnt >= 1 =>
        (CountsArePowers(dev) <=>
            \A x \in Coordinates(dev) : Decode(dev, Encode(dev, x)) = x)
=============================================================================
