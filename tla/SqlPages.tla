------------------------------ MODULE SqlPages ------------------------------
(***************************************************************************)
(* Reads and writes of ranges of pages through SQLCmd, one command to the  *)
(* chip at a time.  SQLCmd::Instance has chosen the class for the part;    *)
(* an operation is the sequence of calls its class makes, and it returns   *)
(* at the first that fails.  A command that fails may have reached the     *)
(* chip, and nothing resets it before the next operation.                  *)
(***************************************************************************)
EXTENDS FiniteSets, SqlToshiba, SqlMicron, SqlHynix, SqlYmtc

CONSTANTS
    Parts,      \* parts to consider
    Ranges,     \* Ranges[p]: page and pagecnt of the jobs of part p
    MaxJobs     \* MaxJobs[p]: bound on the jobs of a behaviour with part p

ASSUME JobsAssumption ==
    /\ Parts \subseteq Part
    /\ Ranges \in [Parts -> SUBSET (Nat \X Nat)]
    /\ MaxJobs \in [Parts -> Nat \ {0}]
    /\ PlaneCnt = 2

VARIABLES
    part,       \* the part
    jobs,       \* jobs started
    job,        \* the operation and its arguments
    calls,      \* the calls of Read and Write still to be made
    ret,        \* what it returns so far: 0 is success
    slots,      \* the caller's buffer: what each of its pages was read from
    chip,       \* see NandChip
    afresh      \* history: no page or plane was waiting in the chip when the job began

vars == <<part, jobs, job, calls, ret, slots, chip, afresh>>

SlcReads == {"DumpReadD1", "GroupReadDataD1", "GroupReadEccD1"}
Reads == SlcReads \cup {"DumpRead", "GroupReadData", "GroupReadEcc"}
SlcWrites == {"DumpWriteD1", "GroupWriteD1"}
Writes == SlcWrites \cup {"DumpWrite", "GroupWrite"}
InSlc(j) == j.op \in SlcReads \cup SlcWrites

\* SQLCmd::Instance.
Class(j) ==
    CASE part.maker = "TSB" /\ part.kind = "3D" -> TSB3D(j)
      [] part.maker = "TSB" /\ part.kind = "D3" -> TSBD3(j)
      [] part.maker = "TSB" /\ part.kind = "D2" -> TSBD2(j)
      [] part.maker = "Micron" /\ part.kind = "3D" -> IM3D(j)
      [] part.maker = "Micron" /\ part.kind = "D3" -> IMD3(j)
      [] part.maker = "Micron" /\ part.kind = "D2" -> IMD2(j)
      [] part.maker = "Hynix" /\ part.kind = "3D" -> HYX3D(j)
      [] part.maker = "Hynix" /\ part.kind = "D3" -> HYXD3(j)
      [] part.maker = "Hynix" /\ part.kind = "D2" -> HYXD2(j)
      [] part.maker = "YMTC" /\ part.kind = "3D" -> YMTC3D(j)
      [] part.maker = "YMTC" /\ part.kind = "D3" -> YMTCD3(j)
      [] part.maker = "YMTC" /\ part.kind = "D2" -> YMTCD2(j)

(***************************************************************************)
(* What the operations promise: page n of a block, named the way the part  *)
(* names it, whatever the class does to get there.                         *)
(***************************************************************************)
BlockPages(j) ==
    CASE InSlc(j) -> IF beD3(part) THEN MaxPage ELSE MaxPage \div 2
      [] ~InSlc(j) -> IF beD3(part) THEN MaxPage * Cell ELSE MaxPage

\* Parts whose word lines are addressed by row and prefix.
Prefixed ==
    /\ beD3(part)
    /\ part.maker \in {"TSB", "Hynix"} \/ (part.table /\ ~bIs3D(part))

NameOf(j, blk, n) ==
    CASE InSlc(j) /\ ~beD3(part) -> <<j.block + blk, 2 * n, 0>>
      [] ~InSlc(j) /\ Prefixed -> <<j.block + blk, n \div Cell, n % Cell>>
      [] OTHER -> <<j.block + blk, n, 0>>

\* The pages of the job, counted from its first.
Asked(j) ==
    LET left == BlockPages(j) - j.page
    IN 0 .. (IF j.pagecnt = 0 \/ j.pagecnt > left THEN left ELSE j.pagecnt) - 1

\* IMD3_SQLCmd and YMTCD3_SQLCmd, whose multi page loops are not finished.
Unfinished == part.maker \in {"Micron", "YMTC"} /\ part.kind = "D3"
\* TSBD3_SQLCmd and HYXD3_SQLCmd, which program a word line in three passes.
InPasses == part.maker \in {"TSB", "Hynix"} /\ part.kind = "D3"

(***************************************************************************)
(* The operations                                                          *)
(***************************************************************************)
Job == {[op |-> op, block |-> 0, page |-> r[1], pagecnt |-> r[2], planes |-> n, cache |-> c,
         pattern |-> p] :
            op \in Reads \cup Writes, r \in Ranges[part], n \in {1, 2}, c \in BOOLEAN,
            p \in {"select", "stamp"}}

NoJob == [op |-> "none"]

Init ==
    /\ part \in Parts
    /\ jobs = 0 /\ job = NoJob /\ calls = <<>>
    /\ ret = 0 /\ slots = <<>> /\ afresh = TRUE
    /\ chip = FreshChip

\* A caller asks for pages of the block, with what the part supports.
Admitted(j) ==
    /\ j.page < BlockPages(j)
    /\ Supported(part, j.planes)
    /\ j.pattern = "stamp" => j.op \in {"GroupWriteD1", "GroupWrite"}

\* No plane waits for a confirm, no page for another plane's or a word line's.
NothingWaits == chip.queue = FreshChip.queue /\ chip.staged = <<>> /\ chip.held = <<>>

Start ==
    /\ calls = <<>> /\ jobs < MaxJobs[part]
    /\ \E j \in Job :
          /\ Admitted(j)
          /\ job' = j
          /\ calls' = Class(j)
    /\ jobs' = jobs + 1
    /\ ret' = 0 /\ slots' = <<>>
    /\ chip' = [chip EXCEPT !.programmed = <<>>]    \* only this job's are looked at
    /\ afresh' = NothingWaits
    /\ UNCHANGED part

\* What the chip makes of the next call.
AfterCall(call) ==
    CASE call.cmd = "write" -> Written(chip, Write(part, call), call.given)
      [] call.cmd = "read" /\ call.send -> Sent(chip, part, call)
      [] OTHER -> chip

\* What the data part of a read transfers: raw or converted data or the counts of
\* ECC, of the page in the register of the plane the block is on.
Transferred(call) == [kind |-> call.kind, at |-> Output(chip', call.block % PlaneCnt)]

Filled(call) ==
    IF call.cmd = "read" /\ call.data THEN (call.slot :> Transferred(call)) @@ slots ELSE slots

Issue ==
    /\ calls # <<>>
    /\ chip' = AfterCall(Head(calls))
    /\ slots' = Filled(Head(calls))
    /\ calls' = Tail(calls)
    /\ UNCHANGED <<part, jobs, job, ret, afresh>>

\* Dev_IssueIOCmd fails, before or after the device executed the command.
Fail ==
    /\ calls # <<>>
    /\ chip' \in {chip, AfterCall(Head(calls))}
    /\ ret' = 1 /\ calls' = <<>>
    /\ UNCHANGED <<part, jobs, job, slots, afresh>>

Next == Start \/ Issue \/ Fail

Spec == Init /\ [][Next]_vars

(***************************************************************************)
(* Properties                                                              *)
(***************************************************************************)
Succeeded == jobs > 0 /\ calls = <<>> /\ ret = 0

\* Reads the code cannot serve: the unannounced bytes of HynixSQLCmd, and, with
\* a command table, the prefix on the pages IMD3_SQLCmd and YMTCD3_SQLCmd count as SLC.
Unreadable ==
    \/ ~part.table /\ part.maker = "Hynix" /\ job.cache /\ job.planes = 1
          /\ (~beD3(part) \/ InSlc(job))
    \/ part.table /\ Unfinished /\ InSlc(job)

KindOf(op) ==
    CASE op \in {"DumpReadD1", "DumpRead"} -> Raw
      [] op \in {"GroupReadDataD1", "GroupReadData"} -> Converted
      [] op \in {"GroupReadEccD1", "GroupReadEcc"} -> EccCounts

\* The one loop that overlays the pages it reads.
Overlaid == Unfinished /\ job.op = "GroupReadData" /\ job.planes = 1 /\ ~job.cache

\* A read that returns success has put page n of each plane where the caller looks for
\* it, plane by plane and page by page, although cached and multi plane reads transfer
\* a page one command after the one that asked for it; whatever earlier operations,
\* failed ones too, left in the chip's registers.  IMD3_SQLCmd and YMTCD3_SQLCmd put
\* the pages of a group read of one plane all in the first slot.
ReadsInPlace ==
    Succeeded /\ job.op \in Reads /\ ~Unreadable =>
        LET cnt == Cardinality(Asked(job))
        IN IF Overlaid
           THEN slots = (0 :> [kind |-> Converted, at |-> NameOf(job, 0, job.page + cnt - 1)])
           ELSE slots = [s \in 0 .. job.planes * cnt - 1 |->
                           [kind |-> KindOf(job.op),
                            at |-> NameOf(job, s \div cnt, job.page + (s % cnt))]]

\* Writes the code cannot finish: word lines of which the job does not write all pages,
\* all but the first word line of the unfinished classes, and their SLC writes where the
\* part or the table makes them wait for the rest of a word line.
Unwritable ==
    \/ ~InSlc(job) /\ (part.kind = "D3" \/ Prefixed)
          /\ (job.page % Cell # 0 \/ Cardinality(Asked(job)) % Cell # 0)
    \/ Unfinished /\ (~InSlc(job) \/ part.table \/ part.maker = "YMTC")
\* Classes that take the buffer to hold the whole block can only be given it, and
\* their order is one of word lines of three pages.
NotABlock ==
    /\ InPasses /\ ~InSlc(job)
    /\ Cell # 3 \/ Asked(job) # 0 .. BlockPages(job) - 1

\* What the job was to give page pg of its range.
Meant(pg) ==
    IF job.op \in {"DumpWrite", "DumpWriteD1"} THEN DumpPage(pg) ELSE GroupPage(job, pg, pg)

\* A write that found the chip with nothing waiting in it and returns success has
\* programmed exactly its pages, on every plane, each
\* with its own page of the buffer, and, from page 0 on, with the seed its reader sets.
\* The planes' pages and the pages of a word line wait in the chip for the last of them.
\* In three passes, only the data are what was meant, and only of a caller's buffer.
WritesLand ==
    Succeeded /\ afresh /\ job.op \in Writes /\ ~Unwritable /\ ~NotABlock =>
        /\ DOMAIN chip.programmed =
              {NameOf(job, blk, job.page + pg) : blk \in Planes(job), pg \in Asked(job)}
        /\ \A blk \in Planes(job), pg \in Asked(job) :
              LET page == chip.programmed[NameOf(job, blk, job.page + pg)]
              IN IF InPasses /\ ~InSlc(job)
                 THEN job.pattern = "select" => page.data = <<"slot", pg>>
                 ELSE page = Meant(pg)

\* The caller's buffer goes to a page unchanged in every pass that programs it: with
\* other data a pass would spoil what the earlier one left in the cells.
SameDataEachPass ==
    [][Issue /\ afresh /\ job.op \in Writes /\ job.pattern = "select" /\ ~Unfinished =>
         \A at \in DOMAIN chip.programmed :
            chip'.programmed[at].data = chip.programmed[at].data]_vars

\* An operation that returns success leaves no plane waiting for a confirm and no page
\* given but not programmed, so that the next starts afresh, unless an earlier one left
\* them.  A cached dump write of one page ends with 15h and leaves the program open.
IdleAtReturn ==
    Succeeded /\ afresh /\ ~(job.op \in Writes /\ Unwritable) =>
        /\ NothingWaits
        /\ job.op \in Writes /\ chip.open =>
              job.op \in {"DumpWrite", "DumpWriteD1"} /\ job.cache /\ Cardinality(Asked(job)) = 1

=============================================================================
