---------------------------- MODULE VirtualDevice ----------------------------
(***************************************************************************)
(* The pattern interpreter VirtualDevice_PatternHandler: a host gives it a *)
(* pattern of tokens (command and address cycles, data in, data out), as a *)
(* tester gives a flash chip, and it turns them into commands of           *)
(* iFlashCmdHandler.  What that handler does is FlashDevice, which         *)
(* FlashCmd implements.                                                    *)
(*                                                                         *)
(* A step is one token; between patterns only the page register stays.     *)
(* For counts that are powers of two, see Geometry.                        *)
(***************************************************************************)
EXTENDS Geometry

CONSTANTS
    Byte,       \* values of an address cycle
    Word,       \* first words of the pages the host writes
    Ver,        \* versions of what follows the first word
    MaxCycles   \* bound on the address cycles after a command byte

ASSUME InputsAssumption ==
    /\ Byte \subseteq 0 .. 255
    /\ Word \subseteq Nat
    /\ Ver \subseteq Nat \ {0}
    /\ MaxCycles \in Nat

VARIABLES
    mode,       \* currentMode
    address,    \* the address collected so far
    addressCnt, \* and the number of its cycles
    reg,        \* pCatchRegister, NoReg when it is not allocated
    buf,        \* the host's data buffer
    mem, erasing, resp,     \* the flash, see FlashDevice
    hung,       \* the flash command handler is in its endless loop
    opened,     \* history: the last command byte that starts an operation
    loaded,     \* history: a data-in token was executed since then
    served      \* history: the page last read since then, NoPage if none

local == <<mode, address, addressCnt>>
flash == <<mem, erasing, resp>>
history == <<opened, loaded, served>>
vars == <<local, reg, buf, flash, hung, history>>

\* A page is its first word and a version of the rest.
Page(word, ver) == [word |-> word, ver |-> ver]

AllOnes == -1
Zeros == Page(0, 0)
NoReg == Page(-2, 0)
Erased == Page(-3, 0)
NoPage == -1
Modes == {"standby", "read", "program", "erase", "reset"}

Contents == [word : Word \cup {AllOnes, 0}, ver : Ver \cup {0}]

Device == INSTANCE FlashDevice WITH Ver <- Contents

TypeOK ==
    /\ mode \in Modes /\ opened \in Modes
    /\ address \in 0 .. 255
    /\ addressCnt \in 0 .. MaxCycles
    /\ reg \in Contents \cup {NoReg}
    /\ buf \in Contents
    /\ mem \in [Addr -> Contents \cup {Erased}]
    /\ {hung, loaded} \subseteq BOOLEAN
    /\ served \in Addr \cup {NoPage}

Opened(op) ==
    /\ opened' = op
    /\ loaded' = FALSE /\ served' = NoPage

\* VirtualDevice_Init
Init ==
    /\ mode = "standby" /\ address = 0 /\ addressCnt = 0
    /\ reg = Zeros
    /\ buf = Zeros
    /\ Device!Init
    /\ hung = FALSE
    /\ opened = "standby"
    /\ loaded = FALSE /\ served = NoPage

Running == ~hung /\ reg # NoReg

\* The locals of the handler at the start of a pattern, and after one.
ResetLocals == mode' = "standby" /\ address' = 0 /\ addressCnt' = 0

\* The next pattern.  The host may have filled its buffer since the last.
StartPattern ==
    /\ Running
    /\ ResetLocals /\ Opened("standby")
    /\ \/ UNCHANGED buf
       \/ \E w \in Word, v \in Ver : buf' = Page(w, v)
    /\ UNCHANGED <<reg, flash, hung>>

\* Mutant: the bytes of the last operation's address stay.
KeepsAddress(op) ==
    /\ mode' = IF op = "erase" THEN "read" ELSE op
    /\ addressCnt' = 0
    /\ UNCHANGED address

\* A command byte that starts an operation.  The erase command sets the mode
\* of a read.
StartsOperation(op) ==
    /\ mode' = IF op = "erase" THEN "read" ELSE op
    /\ address' = 0
    /\ addressCnt' = 0

OpenCmd(op) ==
    /\ Running
    /\ StartsOperation(op)
    /\ Opened(op)
    /\ UNCHANGED <<reg, buf, flash, hung>>

\* Mutant: the reset command is ignored.
ResetCmdIgnored ==
    /\ Running
    /\ Opened("reset")
    /\ UNCHANGED <<local, reg, buf, flash, hung>>

ResetCmd ==
    /\ Running
    /\ mode' = "reset"
    /\ Opened("reset")
    /\ UNCHANGED <<address, addressCnt, reg, buf, flash, hung>>

\* The value is a byte, and it is shifted right: only the first cycle leaves
\* anything.  From the fifth on the shift is as wide as an int, which is
\* undefined; it gives the value or nothing.
Shifted(val) ==
    IF addressCnt = 0 THEN {val} ELSE IF addressCnt < 4 THEN {0} ELSE {0, val}

\* address |= byte, bit by bit.
Joined(byte) ==
    LET Bit(w) == IF 1 \in {(address \div w) % 2, (byte \div w) % 2} THEN w ELSE 0
    IN  Bit(1) + Bit(2) + Bit(4) + Bit(8) + Bit(16) + Bit(32) + Bit(64) + Bit(128)

AddrCycle(val) ==
    /\ Running
    /\ addressCnt < MaxCycles
    /\ \E s \in Shifted(val) : address' = Joined(s)
    /\ addressCnt' = addressCnt + 1
    /\ served' = NoPage
    /\ UNCHANGED <<mode, reg, buf, flash, hung, opened, loaded>>

\* The address without its column, when it has one.
RowAddress == IF addressCnt >= 5 THEN address \div 65536 ELSE address

\* Mutant: the fields are shifted down, and stay so.
FieldsShiftedDown ==
    [page |-> RowAddress % PageCnt,
     plane |-> (RowAddress \div PageCnt) % PlaneCnt,
     block |-> (RowAddress \div BlkSpan) % BlkCnt,
     ch |-> (RowAddress \div ChSpan) % ChCnt]

\* Every field but the page is shifted back up to its place in the address.
GenAddress ==
    [page |-> RowAddress % PageCnt,
     plane |-> ((RowAddress \div PageCnt) % PlaneCnt) * PageCnt,
     block |-> ((RowAddress \div BlkSpan) % BlkCnt) * BlkSpan,
     ch |-> ((RowAddress \div ChSpan) % ChCnt) * ChSpan]

\* iChkFlashAddr lets the command pass.
Accepted ==
    /\ GenAddress.ch < ChCnt /\ GenAddress.block < BlkCnt
    /\ GenAddress.plane < PlaneCnt /\ GenAddress.page < PageCnt

Target == PAddr(GenAddress.ch, GenAddress.block, GenAddress.plane, GenAddress.page)

\* The confirm byte of a read, 0x30.  A page never written only sets the first
\* word of the register.  The flash handler checks the first word.
ReadConfirm ==
    /\ Running
    /\ mode = "read"
    /\ IF Accepted
       THEN /\ Device!Read(Target)
            /\ reg' = IF mem[Target] = Erased THEN [reg EXCEPT !.word = AllOnes]
                      ELSE mem[Target]
            /\ hung' = (mem[Target] # Erased /\ mem[Target].word # Target)
            /\ served' = Target
       ELSE Device!Refuse /\ UNCHANGED <<reg, hung, served>>
    /\ UNCHANGED <<local, buf, opened, loaded>>

\* The confirm byte of a program, 0x10.
ProgramConfirm ==
    /\ Running
    /\ mode = "program"
    /\ IF Accepted THEN Device!Write(Target, reg) ELSE Device!Refuse
    /\ UNCHANGED <<local, reg, buf, hung, history>>

\* The confirm byte of an erase, 0xD0, in the case the mode never reaches
\* and in the other, where it does nothing.
EraseConfirm ==
    /\ Running
    /\ IF mode # "erase" THEN UNCHANGED flash
       ELSE IF ~Accepted THEN Device!Refuse
       ELSE Device!EraseNothing(Target) \/ Device!BeginErase(Target)
    /\ UNCHANGED <<local, reg, buf, hung, opened, loaded, served>>

\* PATTERN_TOKEN_READ_DATA_WITH_KBYTES: the whole register, in read mode.
DataOut ==
    /\ Running
    /\ mode = "read"
    /\ buf' = reg
    /\ UNCHANGED <<local, reg, flash, hung, history>>

\* Mutant: the mode is not looked at.
DataInAnyMode ==
    /\ Running
    /\ reg' = buf
    /\ loaded' = TRUE
    /\ UNCHANGED <<local, buf, flash, hung, opened, served>>

\* PATTERN_TOKEN_WRITE_DATA: the whole register, in program mode.
DataIn ==
    /\ Running
    /\ mode = "program"
    /\ reg' = buf
    /\ loaded' = TRUE
    /\ UNCHANGED <<local, buf, flash, hung, opened, served>>

\* Between patterns the host may free the register and allocate it again.
Deinit ==
    /\ Running
    /\ mode = "standby" /\ addressCnt = 0
    /\ reg' = NoReg
    /\ UNCHANGED <<local, buf, flash, hung, history>>

InitAgain ==
    /\ reg = NoReg
    /\ reg' = Zeros
    /\ UNCHANGED <<local, buf, flash, hung, history>>

Next ==
    \/ StartPattern
    \/ \E op \in {"read", "program", "erase"} : OpenCmd(op)
    \/ ResetCmd
    \/ \E val \in Byte : AddrCycle(val)
    \/ ReadConfirm \/ ProgramConfirm \/ EraseConfirm
    \/ DataOut \/ DataIn
    \/ Deinit \/ InitAgain

Spec == Init /\ [][Next]_vars

-----------------------------------------------------------------------------

\* What a host reads in read mode after the confirm byte is the page the
\* address named, or an all-ones first word, whatever tokens come in between:
\* the register is shared by reads and programs, and survives patterns.
RegisterServesRead ==
    mode = "read" /\ served # NoPage /\ ~hung =>
        IF mem[served] = Erased THEN reg.word = AllOnes ELSE reg = mem[served]

\* The flash changes only under an operation opened as a program and neither
\* reset nor followed by another command, and then, when data was sent, one
\* page takes the host's data.
ProgramsAsOpened ==
    [][mem' # mem =>
          /\ opened = "program"
          /\ loaded => \E a \in Addr : mem' = [mem EXCEPT ![a] = buf]]_vars

\* An operation that has no address cycles yet is for page 0: no address
\* carries over from an earlier operation, a reset or an earlier pattern.
TargetIsOwn == addressCnt = 0 /\ mode \in {"read", "program"} => Target = 0

\* No pattern reaches a page outside the first plane of the first block of the
\* first channel: a field that is not zero comes out of VirtualDevice_GenAddress
\* at its place in the address, past every count.
FirstPlaneOnly ==
    /\ \A a \in Addr : mem[a] # Erased => a < PageCnt
    /\ served # NoPage => served < PageCnt
=============================================================================
