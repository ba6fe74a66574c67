------------------------------ MODULE SqlLoops ------------------------------
(***************************************************************************)
(* The loops that the flash classes share: which calls of Read and Write   *)
(* an operation on a range of pages makes, in their order.  The classes    *)
(* repeat them with other limits, rows and flags, which are in their own   *)
(* modules.                                                                *)
(*                                                                         *)
(* A job j gives the operation's arguments: block, page, pagecnt, planes   *)
(* (planemode), cache (bCache) and pattern, "select" (patternmode 2, the   *)
(* caller's buffer) or "stamp" (0 and 1, one page with the page number in  *)
(* it).                                                                    *)
(***************************************************************************)
EXTENDS SqlCommand, SequencesExt

(***************************************************************************)
(* Where an operation finds its pages: in SLC mode or not, how many pages  *)
(* it takes a block to have, the rows from one page to the next, and the   *)
(* p_cnt it writes with.                                                   *)
(***************************************************************************)
SlcPages == [slc |-> TRUE, limit |-> MaxPage, rows |-> 1, p_cnt |-> 0]
SlcOfMlc == [slc |-> TRUE, limit |-> MaxPage \div 2, rows |-> 2, p_cnt |-> 0]
RowPages == [slc |-> FALSE, limit |-> MaxPage, rows |-> 1, p_cnt |-> 0]
CellPages == [slc |-> FALSE, limit |-> MaxPage * Cell, rows |-> 1, p_cnt |-> 0]
LastCellPages == [CellPages EXCEPT !.p_cnt = Cell - 1]

\* pagecnt, cut to the block; 0 asks for all that is left of it.
PageCount(j, at) ==
    IF j.page + j.pagecnt > at.limit \/ j.pagecnt = 0 THEN at.limit - j.page ELSE j.pagecnt

Planes(j) == 0 .. j.planes - 1

\* One call per plane, in their order; call is a function of the plane.
PerPlane(j, call) == [b \in 1 .. j.planes |-> call[b - 1]]

\* calls[pg] for every page of the job.
PerPage(cnt, calls) == FlattenSeq([i \in 1 .. cnt |-> calls[i - 1]])

(***************************************************************************)
(* Writes                                                                  *)
(***************************************************************************)
\* bLastPage of the dump writes and of the group writes.
\* Mutant: the page before the last does not end the caching of a range.
LastOfBlock(j, at, pg) == pg = at.limit - 1
DumpLast(j, at, pg) ==
    LET cnt == PageCount(j, at)
    IN (j.cache /\ pg = cnt - 1 /\ cnt # 1) \/ pg = at.limit - 1
GroupLast(j, at, pg) == j.cache /\ pg = PageCount(j, at) - 1

\* A dump write takes the caller's buffer as it is, without seed.
DumpPage(slot) == [data |-> <<"slot", slot>>, seed |-> <<>>]

\* Dev_SQL_GroupWR_Setting(block_seed, pg, ..) precedes the write.
GroupPage(j, pg, slot) ==
    [data |-> IF j.pattern = "select" THEN <<"slot", slot>> ELSE <<"stamp", j.page + pg>>,
     seed |-> <<pg>>]

WriteCall(j, at, blk, row, p_cnt, last, page) ==
    [cmd |-> "write", block |-> j.block + blk, page |-> row, slc |-> at.slc, planes |-> j.planes,
     p_cnt |-> p_cnt, cache |-> j.cache, last |-> last, given |-> page]

\* One page after the other, each in a row of its own.
DumpRows(j, at) ==
    LET cnt == PageCount(j, at)
    IN PerPage(cnt, [pg \in 0 .. cnt - 1 |->
           PerPlane(j, [blk \in Planes(j) |->
               WriteCall(j, at, blk, (j.page + pg) * at.rows, at.p_cnt, DumpLast(j, at, pg),
                         DumpPage(pg))])])
GroupRows(j, at) ==
    LET cnt == PageCount(j, at)
    IN PerPage(cnt, [pg \in 0 .. cnt - 1 |->
           PerPlane(j, [blk \in Planes(j) |->
               WriteCall(j, at, blk, (j.page + pg) * at.rows, at.p_cnt, GroupLast(j, at, pg),
                         GroupPage(j, pg, pg))])])

\* One page after the other, as pages of word lines; each of them passes times.
DumpWordLines(j, at, passes) ==
    LET cnt == PageCount(j, at)
    IN PerPage(cnt * passes, [i \in 0 .. cnt * passes - 1 |->
           LET pg == i \div passes
           IN PerPlane(j, [blk \in Planes(j) |->
                  WriteCall(j, at, blk, (j.page + pg) \div Cell, (j.page + pg) % Cell,
                            DumpLast(j, at, pg), DumpPage(pg))])])
GroupWordLines(j, at) ==
    LET cnt == PageCount(j, at)
    IN PerPage(cnt, [pg \in 0 .. cnt - 1 |->
           PerPlane(j, [blk \in Planes(j) |->
               WriteCall(j, at, blk, (j.page + pg) \div Cell, (j.page + pg) % Cell,
                         GroupLast(j, at, pg), GroupPage(j, pg, pg))])])

\* The slot of a buffer of the whole block that page p_cnt of word line wl is in.
\* Mutant: the slot of the step.
SlotOfStep(wl, p_cnt, pg) == pg * Cell + p_cnt
SlotOf(wl, p_cnt, pg) == wl * Cell + p_cnt

\* For every page of the job a whole word line, WL[j.page + pg], from the slots
\* of the buffer that hold it if the buffer holds the block.
DumpSteps(j, at, WL) ==
    LET cnt == PageCount(j, at)
    IN PerPage(cnt * Cell, [i \in 0 .. cnt * Cell - 1 |->
           LET pg == i \div Cell  p_cnt == i % Cell  wl == WL[j.page + pg]
           IN PerPlane(j, [blk \in Planes(j) |->
                  WriteCall(j, at, blk, wl, p_cnt, DumpLast(j, at, pg),
                            DumpPage(SlotOf(wl, p_cnt, pg)))])])
GroupSteps(j, at, WL) ==
    LET cnt == PageCount(j, at)
    IN PerPage(cnt * Cell, [i \in 0 .. cnt * Cell - 1 |->
           LET pg == i \div Cell  p_cnt == i % Cell  wl == WL[j.page + pg]
           IN PerPlane(j, [blk \in Planes(j) |->
                  WriteCall(j, at, blk, wl, p_cnt, GroupLast(j, at, pg),
                            GroupPage(j, pg, SlotOf(wl, p_cnt, pg)))])])

\* The word line of each position of the programming order, Get_WL_And_Step:
\* two word lines ahead, then three passes behind each other, then the tail.
HeadLine(idx) == CASE idx < 2 -> idx
                   [] idx = 3 -> 2
                   [] OTHER -> (idx \div 2) - (idx % 2) - 1
TailLine(idx) == IF idx % 3 = 1 THEN (idx \div 3) - 1 ELSE idx \div 3
WordLines ==
    [idx \in 0 .. MaxPage * Cell - 1 |->
        CASE idx < 6 -> HeadLine(idx)
          [] idx >= 6 /\ idx >= MaxPage - 3 -> TailLine(idx)
          [] OTHER -> (idx \div 3) + 1 - (idx % 3)]

\* What the classes without that order write all positions to.
FirstWordLine == [idx \in 0 .. MaxPage * Cell - 1 |-> 0]

(***************************************************************************)
(* Reads                                                                   *)
(***************************************************************************)
\* What a read is to return: the page as it is, converted, or its ECC counts.
Raw == "raw"
Converted == "converted"
EccCounts == "ecc"

ReadCall(j, at, kind, blk, pg, slot, flags) ==
    [cmd |-> "read", block |-> j.block + blk, page |-> (j.page + pg) * at.rows, slc |-> at.slc,
     planes |-> j.planes, kind |-> kind, slot |-> slot, cache |-> j.cache,
     send |-> "send" \in flags, data |-> "data" \in flags,
     first |-> "first" \in flags, last |-> "last" \in flags]

\* One plane without cache: command and data in one call, into slot[pg].
SingleReads(j, at, kind, slot) ==
    LET cnt == PageCount(j, at)
    IN [i \in 1 .. cnt |-> ReadCall(j, at, kind, 0, i - 1, slot[i - 1], {"send", "data"})]

\* The commands, and the data, of one page of all planes.
Commands(j, at, kind, pg, flags) ==
    PerPlane(j, [blk \in Planes(j) |-> ReadCall(j, at, kind, blk, pg, 0, {"send"} \cup flags)])
Data(j, at, kind, pg) ==
    PerPlane(j, [blk \in Planes(j) |->
        ReadCall(j, at, kind, blk, pg, blk * PageCount(j, at) + pg, {"data"})])

PlaneReads(j, at, kind) ==
    LET cnt == PageCount(j, at)
    IN PerPage(cnt, [pg \in 0 .. cnt - 1 |->
           Commands(j, at, kind, pg, {}) \o Data(j, at, kind, pg)])

\* The data of a page follow the command of the next.
\* Mutant: without waiting for the next command.
CachedAtOnce(j, at, kind) ==
    LET cnt == PageCount(j, at)
    IN PerPage(cnt, [pg \in 0 .. cnt - 1 |->
           IF pg = 0 THEN Commands(j, at, kind, pg, {"first"})
           ELSE Commands(j, at, kind, pg, {}) \o Data(j, at, kind, pg)])
       \o Commands(j, at, kind, cnt - 1, {"last"}) \o Data(j, at, kind, cnt - 1)
CacheReads(j, at, kind) ==
    LET cnt == PageCount(j, at)
    IN PerPage(cnt, [pg \in 0 .. cnt - 1 |->
           IF pg = 0 THEN Commands(j, at, kind, pg, {"first"})
           ELSE Commands(j, at, kind, pg, {}) \o Data(j, at, kind, pg - 1)])
       \o Commands(j, at, kind, cnt - 1, {"last"}) \o Data(j, at, kind, cnt - 1)

ReadsInto(j, at, kind, slot) ==
    CASE j.planes = 1 /\ ~j.cache -> SingleReads(j, at, kind, slot)
      [] j.planes # 1 /\ ~j.cache -> PlaneReads(j, at, kind)
      [] j.cache -> CacheReads(j, at, kind)

PageReads(j, at, kind) == ReadsInto(j, at, kind, [pg \in 0 .. at.limit - 1 |-> pg])

\* Every page into the first slot.
OverlaidReads(j, at, kind) == ReadsInto(j, at, kind, [pg \in 0 .. at.limit - 1 |-> 0])

=============================================================================
