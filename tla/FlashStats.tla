----------------------------- MODULE FlashStats -----------------------------
(***************************************************************************)
(* The counters of the simulator, which interface.cpp shows to the host:   *)
(* hits and lookups of the P2L table, erases and reads of every block, and *)
(* commands of every channel.  They ride on the actions of FlashCmd.       *)
(***************************************************************************)
EXTENDS FlashCmd, FiniteSets

CONSTANT MaxCount   \* bound on every counter

VARIABLES
    hitCnt, chkCnt,     \* p2l_mgr.hitCnt, p2l_mgr.chkCnt
    blkErCnt,           \* pBlkErCntTbl[ch][blk]
    rdCnt,              \* pRdCntTbl[ch][blk]
    ioBurstCnt          \* chIoBurstCnt[ch]

stats == <<hitCnt, chkCnt, blkErCnt, rdCnt, ioBurstCnt>>
allVars == <<vars, stats>>

NoBlkCnt == [b \in Blk |-> 0]
NoChCnt == [ch \in Channels |-> 0]

StatsInit ==
    /\ Init
    /\ hitCnt = 0 /\ chkCnt = 0
    /\ blkErCnt = NoBlkCnt /\ rdCnt = NoBlkCnt
    /\ ioBurstCnt = NoChCnt

BelowMax(b) ==
    /\ chkCnt < MaxCount
    /\ blkErCnt[b] < MaxCount /\ rdCnt[b] < MaxCount
    /\ ioBurstCnt[b[1]] < MaxCount

\* Mutant: the lookup of a page that had to be brought in counts twice.
CountLookupTwice(a) ==
    /\ BelowMax(BlkId(a))
    /\ chkCnt' = chkCnt + (IF InDram(tbl, a) THEN 1 ELSE 2)
    /\ hitCnt' = hitCnt + (IF InDram(tbl, a) THEN 1 ELSE 0)

\* iGetDataLbn
CountLookup(a) ==
    /\ BelowMax(BlkId(a))
    /\ chkCnt' = chkCnt + 1
    /\ hitCnt' = hitCnt + (IF InDram(tbl, a) THEN 1 ELSE 0)

CountIo(a) == ioBurstCnt' = [ioBurstCnt EXCEPT ![ChOf(a)] = @ + 1]

CountRead(a) == rdCnt' = [rdCnt EXCEPT ![BlkId(a)] = @ + 1]

\* Mutant: the erase is counted where the read is.
CountEraseAsRead(a) ==
    rdCnt' = [rdCnt EXCEPT ![BlkId(a)] = @ + 1] /\ UNCHANGED blkErCnt

CountErase(a) ==
    blkErCnt' = [blkErCnt EXCEPT ![BlkId(a)] = @ + 1] /\ UNCHANGED rdCnt

Write(a, v) ==
    /\ WriteToNewBlock(a, v) \/ WriteToOpenBlock(a, v) \/ Overwrite(a, v)
    /\ CountLookup(a)
    /\ IF hung' THEN UNCHANGED ioBurstCnt ELSE CountIo(a)
    /\ UNCHANGED <<blkErCnt, rdCnt>>

\* The read of a page without LBN returns early.
ReadOfBlank(a) ==
    /\ ReadBlank(a)
    /\ CountLookup(a)
    /\ UNCHANGED <<blkErCnt, rdCnt, ioBurstCnt>>

ReadOfData(a) ==
    /\ ReadData(a)
    /\ CountLookup(a)
    /\ IF hung' THEN UNCHANGED <<rdCnt, ioBurstCnt>>
       ELSE CountRead(a) /\ CountIo(a)
    /\ UNCHANGED blkErCnt

\* An erase that finds nothing to erase is counted all the same.
EraseOfBlank(a) ==
    EraseBlank(a) /\ CountLookup(a) /\ CountErase(a) /\ CountIo(a)

EraseStart(a) ==
    /\ EraseBegin(a)
    /\ CountLookup(a)
    /\ UNCHANGED <<blkErCnt, rdCnt, ioBurstCnt>>

\* The lookups of the loop, made by iUpdateDataLbn, are not counted.
EraseTurn ==
    /\ EraseStep
    /\ IF eraseAt' = NoErase
       THEN CountErase(eraseAt) /\ CountIo(eraseAt)
       ELSE UNCHANGED <<blkErCnt, rdCnt, ioBurstCnt>>
    /\ UNCHANGED <<hitCnt, chkCnt>>

Other(a) ==
    OtherCmd(a) /\ CountLookup(a) /\ CountIo(a) /\ UNCHANGED <<blkErCnt, rdCnt>>

\* iInitDevConfig clears p2l_mgr and the tables of the blocks, and leaves the
\* commands of the channels.
StatsReinit ==
    /\ Reinit
    /\ hitCnt' = 0 /\ chkCnt' = 0
    /\ blkErCnt' = NoBlkCnt /\ rdCnt' = NoBlkCnt
    /\ UNCHANGED ioBurstCnt

\* iClearChkHitCnt
ClearChkHitCnt ==
    /\ Idle
    /\ hitCnt' = 0 /\ chkCnt' = 0
    /\ ioBurstCnt' = NoChCnt
    /\ UNCHANGED <<vars, blkErCnt, rdCnt>>

StatsNext ==
    \/ RejectAddr /\ UNCHANGED stats
    \/ \E a \in Addr :
          \/ \E v \in Ver : Write(a, v)
          \/ ReadOfBlank(a) \/ ReadOfData(a)
          \/ EraseOfBlank(a) \/ EraseStart(a)
          \/ Other(a)
    \/ EraseTurn
    \/ StatsReinit
    \/ ClearChkHitCnt

StatsSpec == StatsInit /\ [][StatsNext]_allVars

-----------------------------------------------------------------------------
\* With a frame for every table page the only misses counted are first
\* touches, one for a resident page at the most: neither an erase nor a
\* reset of the counters makes the hit rate worse than that.
ColdMissesOnly ==
    ChSpan \div EntryPerPage <= PagePerBank
        => chkCnt - hitCnt <= Cardinality(tbl.bitmap)

Blank(b) == \A a \in Addr : BlkId(a) = b => LbnOf(tbl, a) = 0

\* A block whose data has been read and is gone has been erased, and the
\* erase shows in its count: the two counters of a block are kept and cleared
\* together.
ErasuresCounted ==
    eraseAt = NoErase =>
        \A b \in Blk : rdCnt[b] > 0 /\ Blank(b) => blkErCnt[b] > 0
=============================================================================
