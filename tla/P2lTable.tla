------------------------------ MODULE P2lTable ------------------------------
(***************************************************************************)
(* The physical-to-LBN table of p2l.c, as values and operators.            *)
(*                                                                         *)
(* The whole table, one LBN per pAddr, lies in pP2lSrcTable.  It is cut    *)
(* into table pages of EntryPerPage entries.  Every channel has a DRAM     *)
(* bank of PagePerBank frames; a table page may sit in one frame only,     *)
(* chosen by its position in the channel (direct mapped).  An entry is     *)
(* read and written in its frame, and a page goes back to pP2lSrcTable     *)
(* when another page takes its frame.                                      *)
(*                                                                         *)
(* A table t is a record:                                                  *)
(*   t.src      pP2lSrcTable, by table page                                *)
(*   t.dram     pP2lDramTable[ch], by frame <<ch, page of the bank>>       *)
(*   t.bitmap   the table pages whose bit is set in pP2lBitmap             *)
(*   t.valid    the frames whose bit is set in pP2lValBitmap[ch]           *)
(*   t.pageIdx  pP2lPageIdx[ch], the table page a frame was loaded with    *)
(***************************************************************************)
EXTENDS Geometry

CONSTANTS
    EntryPerPage,   \* p2l_mgr.entryPerPage, entries of a table page
    PagePerBank     \* p2l_mgr.pagePerBank, frames of a channel's bank

ASSUME TableAssumption ==
    /\ EntryPerPage \in Nat \ {0}
    /\ PagePerBank \in Nat \ {0}
    \* no table page has entries of two channels
    /\ ChSpan % EntryPerPage = 0

TblPages == 0 .. ((ChCnt * ChSpan) \div EntryPerPage) - 1

Frames == Channels \X (0 .. PagePerBank - 1)

Slots == 0 .. EntryPerPage - 1

TblPage(pAddr) == pAddr \div EntryPerPage

Frame(pAddr) ==
    <<ChOf(pAddr), (ChLocal(pAddr) \div EntryPerPage) % PagePerBank>>

Slot(pAddr) == ChLocal(pAddr) % EntryPerPage

\* The tables whose entries are members of L.
Tables(L) ==
    [src : [TblPages -> [Slots -> L]],
     dram : [Frames -> [Slots -> L]],
     bitmap : SUBSET TblPages,
     valid : SUBSET Frames,
     pageIdx : [Frames -> TblPages]]

\* iInitDevConfig clears every part of the table.
EmptyTable ==
    [src |-> [p \in TblPages |-> [s \in Slots |-> 0]],
     dram |-> [f \in Frames |-> [s \in Slots |-> 0]],
     bitmap |-> {},
     valid |-> {},
     pageIdx |-> [f \in Frames |-> 0]]

-----------------------------------------------------------------------------
\* D_CHK_P2L_BITMAP
InDram(t, pAddr) == TblPage(pAddr) \in t.bitmap

ChkP2lValBitmap(t, pAddr) == Frame(pAddr) \in t.valid

GetLbnInfo(t, pAddr) == t.dram[Frame(pAddr)][Slot(pAddr)]

CopyP2lPageToDram(t, pAddr) ==
    [t EXCEPT !.pageIdx[Frame(pAddr)] = TblPage(pAddr),
              !.dram[Frame(pAddr)] = t.src[TblPage(pAddr)],
              !.bitmap = @ \cup {TblPage(pAddr)},
              !.valid = @ \cup {Frame(pAddr)}]

\* Mutant: the page that leaves the frame keeps its bit in pP2lBitmap.
SwapKeepsOldBit(t, pAddr) ==
    LET f == Frame(pAddr)
        p == TblPage(pAddr)
        flushed == [t.src EXCEPT ![t.pageIdx[f]] = t.dram[f]]
    IN  [t EXCEPT !.src = flushed,
                  !.dram[f] = flushed[p],
                  !.bitmap = @ \cup {p},
                  !.pageIdx[f] = p]

\* Mutant: the frame's page index is replaced before the write-back.
SwapFlushesToNewPage(t, pAddr) ==
    LET f == Frame(pAddr)
        p == TblPage(pAddr)
        flushed == [t.src EXCEPT ![p] = t.dram[f]]
    IN  [t EXCEPT !.src = flushed,
                  !.dram[f] = flushed[p],
                  !.bitmap = (@ \ {t.pageIdx[f]}) \cup {p},
                  !.pageIdx[f] = p]

SwapP2lPage(t, pAddr) ==
    LET f == Frame(pAddr)
        p == TblPage(pAddr)
        old == t.pageIdx[f]
        flushed == [t.src EXCEPT ![old] = t.dram[f]]
    IN  [t EXCEPT !.src = flushed,
                  !.dram[f] = flushed[p],
                  !.bitmap = (@ \ {old}) \cup {p},
                  !.pageIdx[f] = p]

\* Both iGetDataLbn and iUpdateDataLbn first make the page resident: a hit
\* leaves the table alone, a miss loads a free frame or takes one over.
BringIn(t, pAddr) ==
    IF InDram(t, pAddr) THEN t
    ELSE IF ChkP2lValBitmap(t, pAddr) THEN SwapP2lPage(t, pAddr)
    ELSE CopyP2lPageToDram(t, pAddr)

\* The value iGetDataLbn returns; BringIn is what it does to the table.
GetDataLbn(t, pAddr) == GetLbnInfo(BringIn(t, pAddr), pAddr)

\* Mutant: the entry is stored in the frame whatever page the frame holds.
UpdateWithoutBringIn(t, pAddr, lbn) ==
    [t EXCEPT !.dram[Frame(pAddr)][Slot(pAddr)] = lbn]

UpdateDataLbn(t, pAddr, lbn) ==
    [BringIn(t, pAddr) EXCEPT !.dram[Frame(pAddr)][Slot(pAddr)] = lbn]

-----------------------------------------------------------------------------
\* What the table means: the LBN of every address, wherever its entry is.
LbnOf(t, pAddr) ==
    IF InDram(t, pAddr) THEN GetLbnInfo(t, pAddr)
    ELSE t.src[TblPage(pAddr)][Slot(pAddr)]

LbnView(t) == [a \in Addr |-> LbnOf(t, a)]

\* The frame of a table page: that of its first address.
PageFrame(page) == Frame(page * EntryPerPage)

\* The three records of residency agree: a page marked resident is the one
\* its frame names, and a frame marked valid names a page marked resident.
TableConsistent(t) ==
    /\ \A p \in t.bitmap :
          PageFrame(p) \in t.valid /\ t.pageIdx[PageFrame(p)] = p
    /\ \A f \in t.valid :
          t.pageIdx[f] \in t.bitmap /\ PageFrame(t.pageIdx[f]) = f
=============================================================================
