----------------------------- MODULE SqlCommand -----------------------------
(***************************************************************************)
(* SQLCmd::Read and SQLCmd::Write and what TSBSQLCmd, MicronSQLCmd,        *)
(* HynixSQLCmd and YMTCSQLCmd make of them: which page a call names, which *)
(* confirm byte it ends with, and what the chip then does.  A call is one  *)
(* SQL program, and the device executes it or not.                         *)
(*                                                                         *)
(* The vendors' versions are used as long as _CmdBuf is NULL; afterwards   *)
(* all calls take SQLCmd's, with the command bytes of that table.  The     *)
(* model assumes the table gives each role the byte the vendor's version   *)
(* has for it.                                                             *)
(***************************************************************************)
EXTENDS NandChip

CONSTANTS
    Cell,       \* pages of a word line of a TLC or QLC part, LogTwo(fh->Cell)
    MaxPage     \* fh->MaxPage, word lines of a block

ASSUME PartAssumption == Cell \in {3, 4} /\ MaxPage \in Nat \ {0}

\* A part: its maker, whether it is MLC (beD3 = 0), planar or 3D TLC, and
\* whether a command table was set.
Part == [maker : {"TSB", "Micron", "Hynix", "YMTC"}, kind : {"D2", "D3", "3D"},
         table : BOOLEAN]

beD3(part) == part.kind # "D2"
bIs3D(part) == part.kind = "3D"

LastPlane(call) == call.block % call.planes = call.planes - 1

\* Pages selected by a prefix, and pages that have a row of their own.
InWordLine(call, row, sub) == <<call.block, row, sub>>
InRow(call) == <<call.block, call.page, 0>>

(***************************************************************************)
(* Write                                                                   *)
(***************************************************************************)
\* The confirm byte.  A part with holds waits for the pages of a word line.
\* Mutant: SLC writes wait for a word line, too.
ConfirmHoldsSlc(call, holds) ==
    CASE ~LastPlane(call) -> "stage"
      [] LastPlane(call) /\ holds /\ call.p_cnt # Cell - 1 -> "hold"
      [] OTHER -> IF call.cache /\ ~call.last THEN "cache program" ELSE "program"
WriteConfirm(call, holds) ==
    CASE ~LastPlane(call) -> "stage"
      [] LastPlane(call) /\ holds /\ call.p_cnt # Cell - 1 /\ ~call.slc -> "hold"
      [] OTHER -> IF call.cache /\ ~call.last THEN "cache program" ELSE "program"

WriteWith(call, prefix, holds) ==
    [at |-> IF prefix /\ ~call.slc THEN InWordLine(call, call.page, call.p_cnt) ELSE InRow(call),
     confirm |-> WriteConfirm(call, holds)]

TSBWrite(part, call) == WriteWith(call, beD3(part), beD3(part))
MicronWrite(part, call) == WriteWith(call, FALSE, FALSE)
HynixWrite(part, call) == WriteWith(call, beD3(part), beD3(part))
YMTCWrite(part, call) == WriteWith(call, FALSE, beD3(part))

\* D3_Mode is sent instead of the prefix.
UsesD3Mode(part) == bIs3D(part) /\ part.maker \in {"Micron", "YMTC"}

BaseWrite(part, call) == WriteWith(call, beD3(part) /\ ~UsesD3Mode(part), beD3(part))

Write(part, call) ==
    CASE part.table -> BaseWrite(part, call)
      [] ~part.table /\ part.maker = "TSB" -> TSBWrite(part, call)
      [] ~part.table /\ part.maker = "Micron" -> MicronWrite(part, call)
      [] ~part.table /\ part.maker = "Hynix" -> HynixWrite(part, call)
      [] ~part.table /\ part.maker = "YMTC" -> YMTCWrite(part, call)

\* What the chip does with a write of page.
Written(chip, cmd, page) ==
    CASE cmd.confirm = "stage" -> Stage(chip, cmd.at, page)
      [] cmd.confirm = "hold" -> Hold(chip, cmd.at, page)
      [] cmd.confirm = "cache program" -> Program(chip, cmd.at, page, TRUE)
      [] cmd.confirm = "program" -> Program(chip, cmd.at, page, FALSE)

(***************************************************************************)
(* Read: the command if call.send, then the data if call.data              *)
(***************************************************************************)
\* Sequential cache read: the page is not named again.
Sequential(part, call) == ~beD3(part) /\ call.cache /\ call.planes = 1 /\ ~call.first

ReadConfirm(part, call) ==
    CASE call.cache /\ call.last -> "finish"
      [] ~(call.cache /\ call.last) /\ Sequential(part, call) -> "sequential"
      [] OTHER -> IF ~LastPlane(call) THEN "queue"
                  ELSE IF call.cache /\ ~call.first THEN "next" ELSE "read"

ReadWith(part, call, prefix) ==
    [at |-> IF prefix /\ ~call.slc
            THEN InWordLine(call, call.page \div Cell, call.page % Cell) ELSE InRow(call),
     confirm |-> ReadConfirm(part, call)]

TSBRead(part, call) == ReadWith(part, call, beD3(part))
MicronRead(part, call) == ReadWith(part, call, FALSE)
YMTCRead(part, call) == ReadWith(part, call, FALSE)

\* The confirm bytes of a sequential cache read are not announced by 0xC2, and
\* the first of them comes without 00h and the address.
Unannounced(part, call) == (~beD3(part) \/ call.slc) /\ call.cache /\ call.planes = 1

HynixRead(part, call) ==
    IF Unannounced(part, call) THEN [at |-> InRow(call), confirm |-> "unannounced"]
    ELSE ReadWith(part, call, beD3(part))

BaseRead(part, call) == ReadWith(part, call, beD3(part) /\ ~UsesD3Mode(part))

Read(part, call) ==
    CASE part.table -> BaseRead(part, call)
      [] ~part.table /\ part.maker = "TSB" -> TSBRead(part, call)
      [] ~part.table /\ part.maker = "Micron" -> MicronRead(part, call)
      [] ~part.table /\ part.maker = "Hynix" -> HynixRead(part, call)
      [] ~part.table /\ part.maker = "YMTC" -> YMTCRead(part, call)

\* In the SLC mode of an MLC part, every other row holds a page.
RowStep(part, call) == IF call.slc /\ ~beD3(part) THEN 2 ELSE 1

\* What the chip does with a read command.  The device has no operation for
\* a byte that is not announced, and the chip never sees it.
Sent(chip, part, call) ==
    LET cmd == Read(part, call)
    IN CASE cmd.confirm = "queue" -> Queue(chip, cmd.at)
         [] cmd.confirm = "read" -> ReadPage(chip, cmd.at)
         [] cmd.confirm = "next" -> ReadNext(chip, cmd.at)
         [] cmd.confirm = "sequential" -> ReadSequential(chip, RowStep(part, call))
         [] cmd.confirm = "finish" -> ReadFinish(chip)
         [] cmd.confirm = "unannounced" -> chip

\* YMTCSQLCmd asserts that MLC parts have no multi plane commands.
Supported(part, planes) == part.maker = "YMTC" /\ ~part.table => beD3(part) \/ planes = 1

=============================================================================
