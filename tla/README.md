# sdsp2l_algo in TLA+

`sdsp2l_algo` is a Windows DLL that simulates the physical-to-LBN (P2L) table
of an SSD controller: a host program issues flash commands by physical
address, the DLL keeps a DRAM-cached P2L table, hands out logical block
numbers (LBNs) to written pages, stores the payloads in files and counts what
happened. The repository also holds the vendor SDK the DLL is to stand in for:
a pattern interpreter over the simulator, sessions with real drives behind a
USB bridge, and a socket to a remote tester. This directory models the DLL and
the stateful parts of the SDK, checks them with TLC and proves the components
everything rests on with TLAPS.

## The system

| Component | Source | State | Operations | Model |
|---|---|---|---|---|
| P2L table | `p2l.c` 9-191, 322-392 | `pP2lSrcTable`, `pP2lDramTable`, `pP2lBitmap`, `pP2lValBitmap`, `pP2lPageIdx` | `iGetDataLbn`, `iUpdateDataLbn`, `iCopyP2lPageToDram`, `iSwapP2lPage` | `P2lTable`, `P2lMap`, `LbnMap` |
| LBN manager | `p2l.c` 194-256, 301-319 | `lbn_mgr`: ring, pointers, share of every block | `iAllocBlkLbn`, `iAllocPageLbn`, `iRecycleBlkLbn` | `LbnRing`, `LbnPool`, `LbnFifo` |
| Page files | `data.c` | files `test_<n>.bin`, `file_mgr` | `iWritePageData`, `iReadPageData` | `PageFiles` |
| Command handler | `p2l.c` 410-508, `interface.cpp` | none of its own | `iFlashCmdHandler`: read, write, erase; `iInitDevConfig` again | `FlashCmd`, `FlashDevice` |
| Counters | `p2l.c`, `interface.cpp` | `p2l_mgr`, `pBlkErCntTbl`, `pRdCntTbl`, `chIoBurstCnt` | bumped by the handler, `iClearChkHitCnt` | `FlashStats` |
| Device configuration | `p2l.c` 23-26, 259-408 | `dev_mgr`, the cut of the host's buffer | `iInitDevConfig` | `DevConfig`, `AddressFields`, `Geometry` |
| Flash command sequences | `flashCmdParse.cpp`, `flashCmdSet.cpp` | node pool | `iInitFlashCmdSeq` | no |
| Virtual device | `universal_fw_sdk/virtual_device` | page register, mode, address | `VirtualDevice_PatternHandler`: one action per token | `VirtualDevice`, `FlashDevice` |
| SDK socket | `universal_fw_sdk/myQtSocket.cpp` | sockets, opcode, what the peer still has to say | `sendMessage`, `sendEcho`, `sendFile`, `recieveMessage`, `reConnectToServer` | `SocketLink`, `Delivery` |
| SDK bridge | `universal_interface/UFWInterface.cpp` | bridge and tester power | `_static_JMS583_Bridge_Flow`, `_static_JMS583_BridgeReset` | `Bridge` |
| SDK controllers | `PCIESCSI5013_ST.cpp` and six others | firmware version last seen | `Dev_InitDrive`: loading the burner of an E13 or E19 | `IspLoader` |
| SDK USB commands | `USBSCSICmd_ST.cpp`, `.h` | `currentBank`, `isFWBank`, `_alwaySyncBank`, `_ForceNoSwitch`; external: the controller's bank | the functions of `CNTCommand` that build a command; `BankInit`, `NT_CustomCmd_Phy` | `UsbCommands`, `DriverCommands`, `FlashCommands`, `BankLink` |
| SDK session | `universal_fw_sdk/ufw/ufw_main.cpp` | `NTCmd`, `isPowerOff`, `isInitFlash` | `InitPhyDrive`, `LoadBurner`, `InitialFlash`, `InitialBurner`, `SetFlashID`, `EndDLL` | `Session` |
| SDK flash commands | `NewSQLCmd.cpp`, `SQL_*.cpp`, `UFWST2Sql.cpp` | `_planemode`, `_bWaitRDY`, `_CmdBuf`, `_status`, retry levels; external: the chip | `SQLCmd::Read`, `Write`, `Erase`; ten page operations of each of twelve flash classes; `ST_Direct..._SQL` | `NandChip`, `SqlCommand`, `SqlLoops`, `SqlToshiba`, `SqlMicron`, `SqlHynix`, `SqlYmtc`, `SqlPages`, `SqlErase`, `PageRead` |
| SDK tables, conversion, utilities | rest of `universal_fw_sdk` | see `PROJECT.json` | | no |

The host calls `interface.cpp`, which calls `iFlashCmdHandler` or
`iInitDevConfig`. The handler asks the P2L table for the LBN of the address,
the LBN manager for a new LBN when a page without one is written, and the page
files to store or fetch the payload; recycling a block calls back into the P2L
table once for each page of the block. The virtual device calls the same
handler with the coordinates it decodes from a command pattern. All this runs
on the caller's thread: there is no concurrency, and what is hard is in the
sequences of commands, in three records of one fact that must agree (which
table page a DRAM frame holds; how much of a block is written; which file the
cached handle is of), in the loop of an erase evicting table pages while it
clears them, in files that outlive the program, and in the arithmetic of
configurations.

The flash commands of the SDK are short programs for a flash chip, one for each
`Read`, `Write` or `Erase`. An operation on a range of pages is a sequence of
them, different for each maker and kind of flash, and its meaning is in the
chip: a page waits there for the other planes, for the other pages of its word
line or for the command after the next, and a command that fails leaves it
waiting. The direct functions wrap these operations in loops of retries.

The same chips are also reached through sorting code that runs on a USB
controller. That code may be larger than the controller's memory: before each
command the SDK sends the bank it is in, if it takes the controller to hold
another. Whether it does is a belief, kept in one variable over switches that
fail, controllers that start anew and a flag that lets one command through.

The rest of the SDK talks to others. A session calls a controller's loader,
which sends NVMe commands through the bridge to a controller that starts up,
refuses, or has done what was reported lost. The socket has a client that
starts a message over on a new connection, and a server that reads one
connection until it ends.

What makes each component correct:

- **P2L table**: the cache is transparent, whatever is evicted when; the
  three residency records agree.
- **LBN manager**: no block LBN is lost, made or owned twice; the ring never
  runs dry; "rest = 0" means what the handler takes it to mean.
- **Page files**: a payload goes to the place of its page and to no other.
- **Handler**: the device behaves like flash: a read returns the last write
  since the last erase, or says blank.
- **Counters**: they stay meaningful across erases and resets.
- **Virtual device**: a read hands out the page it was sent to, a program
  stores what was handed in, an operation uses the address given for it; which
  of this holds for which patterns.
- **Socket**: both ends agree on which item comes next, a call returns, and
  what is confirmed was processed.
- **Bridge, loader, session**: whatever is lost, a load that succeeds leaves
  the burner running; nothing incomplete is started and a burner is not
  stopped; initialising again and again gets there.
- **Flash commands**: a page arrives where the caller looks for it, and is
  programmed once with its own data, whatever waits in the chip meanwhile; an
  erase that failed is reported; a retry leaves the read levels as they were.
- **USB commands**: a command of the sorting code meets its code on the
  controller, whatever commands came before it.
- **Configuration**: every page has an address of its own, tables do not
  overlap, the divisions are safe; and for which arguments that holds.

## Modules

Data structures are modules of operators on records, state machines extend
them, abstract specifications stand apart, and proofs are in `*_proofs`.

- `Geometry`: counts, `pAddr` and its fields. Shifts and masks are written as
  `\div` and `%`, which is what they are for counts that are powers of two;
  `AddressFields` checks with the code's own shifts and masks that these are
  exactly the configurations in which addresses decode.
- `P2lTable`: the table as a record; `CopyP2lPageToDram`, `SwapP2lPage`,
  `BringIn`, `GetDataLbn`, `UpdateDataLbn` are the functions of `p2l.c`.
  `LbnView` says what LBN an address has wherever its entry lies.
- `P2lMap`: any sequence of look-ups, updates and initialisations; `LbnMap` is
  the map it implements. The map hides which address a call is for, so
  `CallsAreMapCalls` adds that a call for an address is the map's for the same.
- `LbnRing`: `lbn_mgr` as a record and its three functions. `LbnPool`: its use
  by the handler, reduced to how many pages of each block have an LBN;
  `LbnFifo` is the resource pool it implements.
- `PageFiles`: `data.c`. Opening a file may fail (`Opens`), a gap is zeros, a
  read past the end leaves the buffer alone, and reads are in text mode.
- `FlashCmd`: `iFlashCmdHandler` over the three; a command is a step, except
  that every turn of the erase loop is one. A handler in an endless loop is
  `hung`. `FlashDevice` is the NAND device it implements; what a
  read returns carries the page's address.
- `FlashStats`: the counters, riding on the actions of `FlashCmd`.
- `DevConfig`: `iInitDevConfig` as arithmetic on real arguments: the limits, the
  block count in 32 bits, the sizes of the bank and the regions the buffer is cut
  into. `AddressFields`, over it: the fields of a `pAddr`, bit by bit.
- `VirtualDevice`: the pattern interpreter, a token at a time, over
  `FlashDevice`, the device that `FlashCmd` implements; `Accepted` is the
  check of coordinates in front of it.
- `SocketLink`: client and server of `myQtSocket.cpp` over connections that
  are sequences of items. A connection may break at any time, and what was
  sent on a closed one may still be read. `Delivery` is what the layer
  promises: the second "end" or the reply confirms the message of this call,
  which has been processed; without it a call returns only after all its
  attempts; messages are processed in the order of the calls. It is not a
  promise about what a call returns, since a caller cannot tell a return with
  confirmation from one after the last attempt (`myQtSocket.cpp:591`, `658`).
- `Bridge`: an NVMe command through the bridge (`Flow`) fails or succeeds,
  and independently of that takes effect or not; the transfers of the reset
  switch the controller off and on. A command to the bridge itself
  (`BridgeCmd`) succeeds if its response can be read, even if the command was
  lost. `unheard` is history: an I2C transfer or a power-on that was lost
  without the SDK being told. The controller is external: it starts
  what it is told to when it likes (`Arrive`), and answers nothing meanwhile.
- `IspLoader`, over `Bridge`: `Dev_InitDrive` down to each command; `lpc` is
  where it is. RAM is an array of sectors, of which `SegOffset` decides the
  place. A key command that fails after the last segment frees the image a
  second time (`PCIESCSI5013_ST.cpp:1319`), after which the program goes on or
  has ended ("aborted").
- `Session`, over `IspLoader`: the calls of `ufw_main.cpp`; `pc` is where the
  call is. A call that fails is back at "idle". A program that has ended is
  started again (`Restart`), with its variables as they start and the drive as
  it was left.
- `NandChip`: the registers of a flash chip and what each confirm byte does to
  them. The chip is external: this is how the code uses it.
- `SqlCommand`, over `NandChip`: which page a `Read` or `Write` names and how
  it is confirmed, in the base class (with a command table) and in the four
  makers' versions. `SqlLoops`: the loops over a range of pages, planes and
  passes as sequences of calls. `SqlToshiba`, `SqlMicron`, `SqlHynix`,
  `SqlYmtc`: which loop each operation of each class is.
- `SqlPages`, over all of these: an operation issues its calls one by one, and
  any may fail before or after it took effect. `MCSqlPages` gives the parts,
  ranges and numbers of operations for TLC.
- `SqlErase`: the erase of one chip or all in the five versions of
  `SQLCmd::Erase`, waited for in the ways `_bWaitRDY` selects, up to the status
  the caller looks at. In boot mode an SLC erase of the base version and of
  Hynix's puts a Hynix chip into its own SLC mode, resets the chip afterwards
  without looking at the result, and waits again. `PageRead`: the three readers
  with read retry, of the data of a page, of the ECC counts of several pages and
  of a page raw. Which counts the loop over several pages meets is left open:
  it reads those of a page to `tmpbuf[page*PageSizeK]` and looks for them at
  `ECCB[page*FrameSizeK]` (`UFWST2Sql.cpp:295`, `305`), the same place only for
  page 0.
- `UsbCommands`, `DriverCommands`, `FlashCommands`: a record for each of the 341
  functions of `CNTCommand` that build a command of their own: the first bytes
  of its CDB, how often and until when it is issued, and what the function looks
  at and does to `_ForceNoSwitch` before. Lengths, timeouts and answers are left
  out. The commands of `DriverCommands` go to the driver without
  `NT_CustomCmd_Phy`: no bank is looked up for them and none switched to, the
  flag waits for the command after, and the function itself tries again.
- `BankLink`, over these: `NT_CustomCmd_Phy` from the lookup of the bank to the
  issue, `BankInit` and `BankSearchByCmd`. A call is any of the commands with
  any argument and `bType`, so every order of commands is covered. The two tries
  of the issue loop are one step: they differ in nothing that is kept; the same
  holds for the tries of a command sent to the driver (`RawIssue`).
  `deviceBank` is external; `sure` and `leftover` are history and say where
  the code itself can no longer know the bank.
- `MCDirect` runs `SqlErase`, `PageRead` and `BankLink`: a behaviour makes
  calls of one kind, since they share no variable and run on one thread.
- `FtlLemmas`: division, the functions of the P2L table and those of the ring,
  as lemmas. `P2lMap_proofs`, `LbnPool_proofs`, `Flash_proofs`,
  `Session_proofs`, `SocketLink_proofs`, `MCDirect_proofs`, `Device_proofs`:
  theorems about the module they are named after; `Flash_proofs` is about
  `FlashCmd` and `FlashStats`, `MCDirect_proofs` about `SqlErase`, `PageRead` and
  `BankLink`, `Device_proofs` about `DevConfig` and `VirtualDevice`.

Abstractions. An LBN is its number; a payload is its first word, in which the
hosts of this simulator put the page's address (the handler's debug check
relies on it), and a version. 1024 entries in a table page become
`EntryPerPage`, the capacity and DDR size become counts; `LbnBase` is
`lbnEntryCnt / 1024`. A failing `malloc`, `_getcwd`, `_lseek` or `_write` is
left out; a failing open is not. `VirtualDevice` has small bytes with the bits
that the fields of an address test. In the session `assert` is compiled out,
the file with the burner is there, the tester is one whose power is switched
over I2C, the bridge is found or not, and the burner is taken to answer the
boot ROM's ID command (`BurnerAnswersBootId`). Of the image freed twice only
that the program goes on or ends is modelled, not what a heap that goes on may
do later. The comments of `data.c` say
18592 bytes for a page where the code moves 18432; nothing in the model depends
on it.

For the flash commands: the bytes of a command table are those the makers'
versions use for the same roles; the prefix of a program step is part of the
page's name; the rows of an MLC part in SLC mode are every other one, also for
its sequential cache read; `SetRetryValue` is that of the two classes that have
one (`TSB3D_SQLCmd`, `IM3D_SQLCmd`), the others assert; a job begins at a block
that is the first of its planes; in reads and writes `_BootMode` is 0. Arguments
of `iInitDevConfig` are not negative. `Unreadable`, `Unwritable`
and `NotABlock` in `SqlPages` name the operations whose loops are not finished
in the code or that need the caller's whole block, and the properties are about
the others.

## Runs

| Run | Instance | Question |
|---|---|---|
| `P2lMap` | 1 channel, 4 table pages, 2 frames | Do evictions lose or mix entries, with free frames, hits and swaps mixed? |
| `LbnPool` | 3 blocks of 3 pages | Ring and shares under any order of writes and erases |
| `FlashCmd` | 2 channels of 1 block of 2 pages, 1 frame each | The whole device: out-of-order writes, erases that swap, old files; every erase returns |
| `FlashStats` | 1 block of 2 planes, any open may fail, counters up to 3 | Where payloads may land; what hit rates and counts can be relied on for |
| `DevConfig` | real arguments, at limits and past them | Which configurations are sound |
| `VirtualDevice` | 2 of each coordinate, up to 5 address cycles | What the register serves and programs, and which pages can be named |
| `SocketLink` | 3 calls of every kind, 2 attempts each | Do both ends stay in step, and does every call return? |
| `Session` | 3 faults, image of 3 sectors in segments of 2, the code's numbers of retries | Does a load do what it reports, and does retrying help? |
| `MCSqlPages` | 24 parts, 6 ranges and the whole of a block of 12 word lines, 1 or 2 planes | Does each page of each operation arrive, in the buffer and in the array? |
| `MCDirect` | 2 chips, 2 polls; 3 frames, 3 tries, 2 pages; 2 banks, 2 types of flash, 5 argument values | Is a failed erase reported, are the read levels restored, does a command meet its bank? |
| `FlashCmd_text` | violation | the handler's check of a page's own address |
| `PageRead_copied` | violation | "copy Pass data to w_buf" |

Why these bounds are enough. A table page is evicted when another page of its
channel takes its frame, so two pages for a frame show every eviction and two
frames in a bank show a free one beside a taken one; two LBN values tell an
entry from any other. The ring is interesting when it wraps, is empty and is
full: three blocks do all three, and a block of three pages has a first, a
middle and a last. For the device, a block in each of two channels makes both
draw on one ring, and two pages of a block over one frame make an erase evict
the table page it has just cleared; an erase that evicts the pages of another
block is in `P2lMap`, with two blocks. With one content per page this run tells
whether a page, the right one and in its place, comes back; it does not tell
which of two contents of a page was the last. The arguments of `DevConfig` are
the limits of the code (8 channels, 8 planes, 4096 pages), one past each,
counts that are no power of two, capacities below 4 GB and both sides of the
int overflow at 2048 GB. `MaxCount` bounds the counters of `FlashStats` in
their guards, `MaxCycles` the address cycles of `VirtualDevice` (five is one
past the last that has a field), `MaxCalls` the calls of `SocketLink`: the
third call meets what the first left behind on a connection two reconnects old.
`MCSqlPages` has the whole block, its first page, pages inside, a word line and
what crosses its end, of word lines of three pages; 12 word lines take the
planar order of three passes through its head, its middle and its tail.
`MaxJobs` makes every part do one operation, and two parts, one of word lines
and one without, a second one after it, since only the chip is left from one
operation to the next; these two leave out the whole block, which the same
classes write and read in the other parts. Word lines of four pages (`Cell` = 4)
are not in the run. In
`MCDirect` two chips make a broadcast, two polls a poll that gives up, and
three frames tell a frame that passed in the first try from one that passed in
a later one and one that never did; they are alike, so they are symmetric. Two
pages make the loop of one page start from what the other left. Two banks beside
the common part, the bank of the sequence buffer and none make every branch of
the lookup and every kind of switch; the table of the run knows the commands up
to 0x5f, and `LinkRunsInItsBank` is about every table; flash of type 4 is the one with a second lookup. The values of `Arg`
select a command of either bank, of the common part and of none; a loop over
chips goes `MaxChips` rounds, since from the second on each is like the one
before. Three faults in `Session` are one more than any single hazard listed
there needs; an image of three sectors has a whole segment and a shorter last
one. Calls are not bounded.

Fairness. `FlashCmd`: weak fairness of `EraseStep`, a turn of a `for` loop on
the caller's thread that nothing interrupts. `SocketLink`: weak fairness of the
client's steps and of the server's, each a thread that does what it can;
connections break, and the host calls, when they like. `Session`: weak fairness
of the program's steps within a call (a synchronous call on the host's thread)
and of the controller's start-up; and a host that keeps calling `InitPhyDrive`
and `InitialFlash`, which is what the property is about, as strong fairness of
the two calls, since each disables the other while it runs; the same host starts
the program again when it has ended, as weak fairness of `Restart`.
`RetriesReachBurner` does not promise the burner where `unheard` is true: the
SDK then takes the drive for switched on and never resets it again. A power-off
that is lost in the same way is not excepted.

Deadlock is checked, which in `FlashCmd` is how an endless loop of the handler
would show, since nothing follows it. It is not checked where the program may
stop: `FlashStats` (a
read whose file cannot be opened ends in the handler's endless loop),
`DevConfig` (a division by zero ends the program), `VirtualDevice` (the
handler's endless loop again), and `SocketLink` and `MCSqlPages` (when all
calls are done).

Findings.

1. Pages are written in binary and read in text mode (`data.c:117`), so an
   address with a byte 0x1A, the first being page 26, or with 0x0D 0x0A never
   comes back as it was written, and the handler loops for ever
   (`FlashCmd_text`). The constants `EofAddr`, `CrLfAddr` and `EofVer` hold
   such addresses and contents. In the other runs they are empty: their
   results are about pages without these bytes.
2. The readers with read retry keep the best ECC count of each frame and
   "copy Pass data" of frames that have passed, from `tmpwbuf`. One of them
   reads the page into `w_buf` and one into `readPageBuffer`, so what is copied
   are zeros; the third copies a passed frame again in every later try
   (`UFWST2Sql.cpp:245`, `PageRead_copied`).

Things the code does that the models state as it does them:

- An erase looks only at the addressed page (`p2l.c:485`), so that addressed to
  an unwritten page of a written block it does nothing and is counted.
- The virtual device never erases, because the erase command selects the read
  mode (`virtural_device.cpp:78`), and reaches no plane, block or channel but
  the first ones, because it shifts their fields back up.
- A function that sets `_ForceNoSwitch` and then returns without sending
  anything (`USBSCSICmd_ST.cpp:14672`) lets the next command through to a bank
  that may not have it, which `RunsInItsBank` excepts.
- `sendFile` and `sendMessage` that have used up their attempts return as after
  a success (`myQtSocket.cpp:591`, `658`); `Delivery` promises nothing about
  what is returned.
- The result of a bridge control's command transfer is replaced by that of its
  response read (`UFWInterface.cpp:1418`, `1428`), so a power-on that was lost
  can count as done: `isPowerOff` is cleared and the drive stays off, which
  `RetriesReachBurner` excepts.

## Proofs

The theorems hold for every value of the constants that satisfies the named
assumptions: any number of channels, blocks, planes and pages, every
`EntryPerPage` that cuts no table page across channels, every bank size and
every `LbnBase` above 0 (`CountsPositive`, `TableAssumption`,
`LbnBaseAssumption`; that the configurations of the code give such constants is
itself a theorem, `ConfigEstablishesAssumptions`); any arguments of
`iInitDevConfig`; any image, segment size and number of retries of the
loader; any number of calls and attempts on the socket; any number of chips,
polls, frames and tries; any table of banks. Two theorems have a hypothesis of
their own, named below.

- `P2lMap_proofs`: type correctness, agreement of the residency records,
  write-back only by eviction, and that the cached table implements `LbnMap`,
  call by call (`P2lRefinesLbnMap`, `P2lCallsAreMapCalls`).
  The inductive invariant is `TypeOK /\ TableInv`: coherence alone is not
  inductive, since whether a swap loses an entry depends on which page the
  frame's index names. `FtlLemmas` has one lemma for each function of the table
  in `p2l.c`: what it returns, and that it leaves `LbnView` alone but for the
  address updated. The arithmetic is there too: two addresses with the same
  table page are in the same channel and frame.
- `LbnPool_proofs`: all invariants of `LbnPool` and that it implements
  `LbnFifo`. No single one is inductive; `RingInv` of `FtlLemmas` joins them
  with `Opened` (a written block's `pBlk2Lbn` is a block LBN, not the 0 it
  starts with). `Conserved` counts LBNs, so a block without one finds one
  waiting; `Share` tells such a block from an open one; `RingPointers` makes an
  erase append behind the waiting LBNs; `OneOwner` then survives.
- `Flash_proofs`: the composition. `CoreInv` is the table's invariant, `RingInv`
  of the ring with the live pages of a block as its use of it, and the file's
  handle, tied together by `LbnsAtHome` (a live page's LBN is a slice of its
  block's) and by `ClearedBehind` (what the erase loop has passed is cleared).
  The last two are what makes a step of the loop keep the rest: a block's LBN
  goes back to the ring at the end, when nothing refers to it any more. From
  `CoreInv` follow that no two live pages share a place (`FlashCellsDisjoint`;
  a place forgets the LBN's page, so two LBNs of one block in the same place
  would be one) and that payloads land where they belong
  (`FlashWritesLandHome`), both with any opens failing.
  `FlashRefinesDevice` adds `Contents` (a live page's place holds its address)
  and that the handler never hangs. Its hypothesis `Reliable` says that files
  open and that text mode finds nothing to interpret: finding 1 is what happens
  otherwise. `StatsInv` adds to `FlashInv` what the counters promise;
  `ErasuresCounted` is inductive only with a clause for a block under erase.
- `Session_proofs`: safety of loader, bridge and session, from `SessionInv`.
  `ControllerOk` says what each of the three places in which the SDK remembers a
  burner implies about the controller, `PowerOk` that a drive counting as
  switched off runs none and that only a reset is under way then, `JumpOk` and
  `LoadOk` where the controller can be while it is sent back to its boot ROM,
  while the image goes in and when the program has ended in between: a program
  that starts again remembers nothing, so it resets the drive, and no burner
  runs that this could stop. `SessionProgramsInRom` and `SessionBurnerStays`
  are action properties of the same invariant.
- `SocketLink_proofs`: `InStep`, and that the socket implements `Delivery`; the
  call is confirmed there where the client has met all it waits for
  (`Status`), and `Retried` is a further attempt or an unconfirmed return.
  `LinkInv` has a part for a connection by itself (`Sound`: what may wait on it,
  who has closed it), one for the order of all that waits on all of them
  (`OrderOk`), and one for the talk on the client's connection (`CurOk`): for
  each place of the client, where the server can be and what lies between them.
  The order matters because messages left on a closed connection are still
  processed, before anything that came later.
- `MCDirect_proofs`: what `SqlErase`, `PageRead` and `BankLink` are checked for,
  for each by itself; `DirectIsEach` says that a behaviour of `MCDirect` is one
  of each. An erase: the chips that a broadcast has come past have settled and
  are out of the SLC mode of the boot mode, and after a poll the status that was
  saved for them is theirs; a chip whose reset was lost, or that a failed erase
  did not reach, is in `lapsed` and promises nothing. Which class erases does not
  change while a call is under way. A read: the levels
  are the default before the loop of a page, in its first try and after it, and a
  page that arrived whole is in the buffer its caller looks at. The link: while
  `sure` holds, `currentBank` is `deviceBank`, and the one-shot flag belongs to
  the command under way or is left over.
- `Device_proofs`, of `DevConfig`: `DividesSafely`, `EstablishesAssumptions` and
  `RegionsApart`. `ConfigInv` says that `dev` is the outcome of an accepted call,
  or of one that divided by zero; the rest is arithmetic. 8 channels of 8 planes
  of 4096 pages are 2^18 pages, which 4 GB have. Counts that are powers of two
  are listed (`PowerOfTwoIs`), their products are powers again
  (`PowersMultiply`), and the pages of a channel come to 2^14 at least, so
  table pages do not straddle channels (`ChannelPages`). Megabytes of DDR over
  1, 2, 4 or 8 channels leave whole words in every bit map (`BankFits`).
- `Device_proofs`, of `VirtualDevice`: the register, the program and the target
  of an operation. `OperationInv` ties the mode to the command that opened it, and an
  address to its operation. `VirtFirstPlaneOnly` has the hypothesis
  `FieldsTooHigh`: the fields of an address, which the code leaves shifted up,
  are above what the check of coordinates lets pass or above the one byte that
  is left of an address. With 256 pages or more, as in the configurations of
  the code, it holds whatever the other counts are.

Only model-checked:

- Liveness (`ErasesReturn`, `CallsReturn`, `RetriesReachBurner`), which is out
  of the prover's reach.
- `AddressesDecode`, whose masks are the recursive operators of `Bitwise`, on the
  configurations of the run.
- `MCSqlPages` (`ReadsInPlace`, `WritesLand`, `IdleAtReturn`,
  `SameDataEachPass`): statements about programs that are sequences, one for
  each of 120 operations, so that a proof is an invariant for each loop of
  `SqlLoops`.
- The two runs that expect a violation.

## Not modelled

- The unfinished command-sequence parser: its loop over `flashCmdSet` advances
  in one of its cases only, and nothing calls it. The quotient in
  `lp2lHitCnt`; `tableSize` and the payload buffer, which the DLL does not
  read; DLL entry points. `chIoBurstCnt` is in `FlashStats`, but no property is
  about what it comes to.
- Which of the three passes `Get_WL_And_Step` says a position is
  (`SQL_TSBD3.cpp:19`, `SQL_HYXD3.cpp:103`), and the prefix of a write that
  depends on it: the model has the word line of each position. So no property
  says that a word line gets its first, second and third pass in this order.
  The function takes its tail from position `MaxPage` - 3 on, while its callers
  go up to `MaxPage * cell` - 1; the model does the same.
- Patterns of the virtual device that end inside a token.
- In the session: drives other than a PCIe bridge with an E13 or E19, handles,
  AP parameters, and the page commands, which build one command from their
  arguments and keep nothing.
- The loaders of the other controllers: control of the same kind over other
  commands, without documentation of what the firmware does in return.
- Of `CNTCommand`: functions that only call others, whose commands are the
  same in sequence; `NT_SendCommand` and `NTU32SS_Command`, which send bytes
  their caller made; `ST_HynixCheckWritePortect`, whose second command depends
  on the answer to the first; `ST_SkipSector`, which returns at once; what the
  buffers hold. `RunsInItsBank` is not about the commands of `DriverCommands`
  nor about `ST_TestINOUT` to a handle, which sends 06 F6 A0 to whatever bank is
  held.
- Most other lines of `universal_fw_sdk`, which are byte layouts of vendor
  commands, tables of flash parts and retry values, and LDPC and scrambler
  arithmetic. They hold no protocol; a model of them would be a
  transliteration.

## What is left

1. Proofs for `SqlPages`: that an operation which returns leaves no page waiting
   in the chip (`IdleAtReturn`), then `WritesLand` and `ReadsInPlace`, loop by
   loop. They need induction over the calls of a loop.
2. The burner loads of the E12 and S11, by the pattern of `IspLoader`.
