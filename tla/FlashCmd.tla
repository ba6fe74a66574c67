------------------------------ MODULE FlashCmd ------------------------------
(***************************************************************************)
(* The flash command handler iFlashCmdHandler of p2l.c, with the P2L       *)
(* table, the LBN manager and the page files it works on.                  *)
(*                                                                         *)
(* The DLL runs one command at a time on the caller's thread, so a command *)
(* is one step, except an erase: iRecycleBlkLbn clears the P2L entries of  *)
(* the block one by one, each with the table page misses it causes, and    *)
(* every turn of that loop is a step here.  No command starts meanwhile.   *)
(***************************************************************************)
EXTENDS P2lTable, PageFiles

CONSTANT Opens      \* outcomes of opening a file: {TRUE} or {TRUE, FALSE}

ASSUME OpensAssumption == Opens \subseteq BOOLEAN /\ TRUE \in Opens

VARIABLES
    tbl,        \* the P2L table, see P2lTable
    pool,       \* the LBN manager, see LbnRing
    store,      \* the page files, see PageFiles
    eraseAt,    \* next address the erase loop clears, NoErase out of it
    hung,       \* the handler is in one of its while (1) loops
    resp        \* what the last command returned

vars == <<tbl, pool, store, eraseAt, hung, resp>>

NoErase == -1

\* The value iFlashCmdHandler returns is 0, 0xFFFFFFFF or an LBN; data is
\* the content of the host's buffer after a read.
Return(ret) == [ret |-> ret, data |-> Nothing]
ReturnData(data) == [ret |-> "lbn", data |-> data]

Responses ==
    [ret : {"none", "zero", "blank", "lbn"},
     data : [addr : Addr \cup {-1}, ver : Ver \cup {0}]]

TypeOK ==
    /\ tbl \in Tables(Lbns \cup {0})
    /\ pool \in Rings
    /\ store \in Stores
    /\ eraseAt \in Addr \cup {NoErase}
    /\ hung \in BOOLEAN
    /\ resp \in Responses

Init ==
    /\ tbl = EmptyTable
    /\ pool = FullRing
    /\ store = FreshStore(NoFiles)
    /\ eraseAt = NoErase
    /\ hung = FALSE
    /\ resp = Return("none")

Idle == eraseAt = NoErase /\ ~hung

\* iChkFlashAddr
ChkFlashAddr(ch, blk, plane, page) ==
    ch >= ChCnt \/ blk >= BlkCnt \/ plane >= PlaneCnt \/ page >= PageCnt

\* Coordinates one past the last are among the inputs.
BadCoordinates ==
    {x \in (0 .. ChCnt) \X (0 .. BlkCnt) \X (0 .. PlaneCnt) \X (0 .. PageCnt) :
        ChkFlashAddr(x[1], x[2], x[3], x[4])}

\* A command for coordinates outside the device.
RejectAddr ==
    /\ Idle
    /\ BadCoordinates # {}
    /\ resp' = Return("zero")
    /\ UNCHANGED <<tbl, pool, store, eraseAt, hung>>

\* iGetDataLbn, which every command starts with.
Lookup(a) == GetDataLbn(tbl, a)

\* iWritePageData and iUpdateDataLbn, which every write ends with.
StorePage(a, v, lbn) ==
    /\ \E opened \in Opens :
          store' = WritePageData(store, lbn, [addr |-> a, ver |-> v],
                                 PageOf(a), PlaneOf(a), opened)
    /\ tbl' = UpdateDataLbn(BringIn(tbl, a), a, lbn)
    /\ resp' = Return("lbn")
    /\ UNCHANGED <<eraseAt, hung>>

WriteToNewBlock(a, v) ==
    /\ Idle
    /\ Lookup(a) = 0
    /\ pool.rest[BlkId(a)] = 0
    /\ IF pool.avail = 0
       THEN /\ hung' = TRUE
            /\ tbl' = BringIn(tbl, a)
            /\ UNCHANGED <<pool, store, eraseAt, resp>>
       ELSE /\ StorePage(a, v, FirstLbn(pool))
            /\ pool' = AllocBlkLbn(pool, BlkId(a))

WriteToOpenBlock(a, v) ==
    /\ Idle
    /\ Lookup(a) = 0
    /\ pool.rest[BlkId(a)] # 0
    /\ StorePage(a, v, NextLbn(pool, BlkId(a)))
    /\ pool' = AllocPageLbn(pool, BlkId(a))

Overwrite(a, v) ==
    /\ Idle
    /\ Lookup(a) # 0
    /\ StorePage(a, v, Lookup(a))
    /\ UNCHANGED pool

ReadBlank(a) ==
    /\ Idle
    /\ Lookup(a) = 0
    /\ tbl' = BringIn(tbl, a)
    /\ resp' = Return("blank")
    /\ UNCHANGED <<pool, store, eraseAt, hung>>

\* The host's buffer is empty or still holds a page it wrote to a.  The
\* handler checks the first word and loops for ever if it is not the address.
ReadData(a) ==
    /\ Idle
    /\ Lookup(a) # 0
    /\ \E opened \in Opens,
          buf \in {Nothing} \cup {[addr |-> a, ver |-> v] : v \in Ver} :
          LET data == ReadPageData(store, Lookup(a), buf,
                                   PageOf(a), PlaneOf(a), opened)
          IN  IF data.addr = a
              THEN resp' = ReturnData(data) /\ UNCHANGED hung
              ELSE hung' = TRUE /\ UNCHANGED resp
    /\ tbl' = BringIn(tbl, a)
    /\ UNCHANGED <<pool, store, eraseAt>>

EraseBlank(a) ==
    /\ Idle
    /\ Lookup(a) = 0
    /\ tbl' = BringIn(tbl, a)
    /\ resp' = Return("blank")
    /\ UNCHANGED <<pool, store, eraseAt, hung>>

\* Up to the loop of iRecycleBlkLbn.
EraseBegin(a) ==
    /\ Idle
    /\ Lookup(a) # 0
    /\ tbl' = BringIn(tbl, a)
    /\ pool' = RecycleBlkLbn(pool, BlkId(a))
    /\ eraseAt' = BlkFirst(a)
    /\ UNCHANGED <<store, hung, resp>>

LastOfBlk(a) == BlkFirst(a) + BlkSpan - 1

\* Mutant: the loop starts over instead of ending.
EraseStepRestarts ==
    /\ eraseAt # NoErase
    /\ tbl' = UpdateDataLbn(tbl, eraseAt, 0)
    /\ eraseAt' = IF eraseAt = LastOfBlk(eraseAt) THEN BlkFirst(eraseAt)
                  ELSE eraseAt + 1
    /\ UNCHANGED <<pool, store, hung, resp>>

\* One turn of the loop; the command returns after the last.
EraseStep ==
    /\ eraseAt # NoErase
    /\ tbl' = UpdateDataLbn(tbl, eraseAt, 0)
    /\ IF eraseAt = LastOfBlk(eraseAt)
       THEN eraseAt' = NoErase /\ resp' = Return("lbn")
       ELSE eraseAt' = eraseAt + 1 /\ UNCHANGED resp
    /\ UNCHANGED <<pool, store, hung>>

\* A command number that is none of the three.
OtherCmd(a) ==
    /\ Idle
    /\ tbl' = BringIn(tbl, a)
    /\ resp' = Return(IF Lookup(a) = 0 THEN "zero" ELSE "lbn")
    /\ UNCHANGED <<pool, store, eraseAt, hung>>

\* Mutant: the P2L table survives the re-initialisation.
ReinitKeepsTable ==
    /\ Idle
    /\ pool' = FullRing
    /\ store' = FreshStore(store.files)
    /\ resp' = Return("none")
    /\ UNCHANGED <<tbl, eraseAt, hung>>

\* iInitDevConfig called again with the same configuration.  The files of
\* the last session stay in the directory.
Reinit ==
    /\ Idle
    /\ tbl' = EmptyTable
    /\ pool' = FullRing
    /\ store' = FreshStore(store.files)
    /\ resp' = Return("none")
    /\ UNCHANGED <<eraseAt, hung>>

Next ==
    \/ RejectAddr
    \/ \E a \in Addr, v \in Ver :
          WriteToNewBlock(a, v) \/ WriteToOpenBlock(a, v) \/ Overwrite(a, v)
    \/ \E a \in Addr :
          \/ ReadBlank(a) \/ ReadData(a)
          \/ EraseBlank(a) \/ EraseBegin(a)
          \/ OtherCmd(a)
    \/ EraseStep
    \/ Reinit

Spec == Init /\ [][Next]_vars

\* The erase loop is bounded code that nothing interrupts.
FairSpec == Spec /\ WF_vars(EraseStep)

-----------------------------------------------------------------------------
UnderErase(a) == eraseAt # NoErase /\ BlkFirst(a) = BlkFirst(eraseAt)

Live(a) == LbnOf(tbl, a) # 0 /\ ~UnderErase(a)

\* No two live pages have the same place in the same file.  data.c finds it
\* from the block part of the LBN, the plane and the page, not from the LBN.
CellsDisjoint ==
    \A a, c \in Addr : Live(a) /\ Live(c) /\ a # c =>
        \/ FileOf(LbnOf(tbl, a), PlaneOf(a)) # FileOf(LbnOf(tbl, c), PlaneOf(c))
        \/ PageOf(a) # PageOf(c)

\* A payload is only ever written to the place of its own page, through failed
\* opens and cached handles; a gap of a file may become zeros besides.
WritesLandHome ==
    [][\A n \in FileNums, p \in Pages :
          LET cell == store'.files[n][p]
          IN  \/ cell = store.files[n][p]
              \/ cell = Zeros
              \/ /\ PageOf(cell.addr) = p
                 /\ FileOf(LbnOf(tbl', cell.addr), PlaneOf(cell.addr)) = n]_vars

\* Every erase command returns.
ErasesReturn == eraseAt # NoErase ~> eraseAt = NoErase

\* Stated by the debug check of iFlashCmdHandler, which loops for ever when it
\* fails: the page read for an address starts with this address.
ReadsOwnAddress == [][\A a \in Addr : ReadData(a) => ~hung']_vars

-----------------------------------------------------------------------------

\* What a live page holds.
Content(a) ==
    IF Live(a)
    THEN Cell(store, LbnOf(tbl, a), PageOf(a), PlaneOf(a)).ver
    ELSE 0

Device == INSTANCE FlashDevice WITH
              Erased <- 0,
              mem <- [a \in Addr |-> Content(a)],
              erasing <- eraseAt # NoErase

\* The simulator is the device its host expects: a read returns what was last
\* written to its address and not erased since, whatever was evicted from the
\* P2L table, recycled through the ring or left in the files in between, as
\* long as text mode finds nothing to interpret in the pages.
RefinesFlashDevice == Device!Spec

=============================================================================
