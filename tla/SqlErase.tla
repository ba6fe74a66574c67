------------------------------ MODULE SqlErase ------------------------------
(***************************************************************************)
(* Erasing a block through SQLCmd: on one chip, or on all of them when the *)
(* chip enable is fh->FlhNumber.  How the erase is waited for depends on   *)
(* _bWaitRDY: 1 waits with the command, 0 polls the status, and any other  *)
(* value does neither.  An SLC erase in boot mode puts the chip into FW    *)
(* SLC mode, and a reset takes it out of it.                               *)
(* ST_DirectOneBlockErase_SQL then looks at the saved status if            *)
(* Parm_FunctionMode says so.  The planes of a chip are erased by one      *)
(* command and count as one here, and assertions are compiled out.         *)
(***************************************************************************)
EXTENDS Naturals

CONSTANTS
    FlhNumber,      \* chips
    MaxPolls        \* 4000, status reads before the poll gives up

ASSUME EraseAssumption == FlhNumber \in Nat \ {0} /\ MaxPolls \in Nat

CE == 0 .. FlhNumber - 1

\* What a status byte says, and what the array did with the erase.
Status == {"busy", "passed", "failed"}
Ready == {"passed", "failed"}

Maker == {"TSB", "Micron", "Hynix", "YMTC"}

\* A chip is in normal mode, in the mode 0xDA puts it into, or resetting.
Mode == {"normal", "FW SLC", "resetting"}

VARIABLES
    maker,          \* of the part, whose class this is
    checks,         \* (Parm_FunctionMode & 0x08) = 0: "check status"
    bWaitRDY,       \* _bWaitRDY
    table,          \* _CmdBuf is set: SQLCmd::Erase, not the vendor's
    bootMode,       \* _BootMode
    pc,             \* where ST_DirectOneBlockErase_SQL is
    bChipEnable,    \* its argument
    slc,            \* the argument bSLCMode of Erase
    ce,             \* the chip of the loop
    timeout,        \* status reads of the poll
    ret,            \* what Erase returns
    result,         \* what ST_DirectOneBlockErase_SQL returned
    status,         \* _status
    block,          \* external: the block on each chip
    mode,           \* external: the mode of each chip
    lapsed          \* history: chips the erase did not reach, whose poll gave up, whose wait,
                    \* status read or reset failed, or that were still busy when the command came

settings == <<maker, checks, bWaitRDY, table, bootMode>>
args == <<bChipEnable, slc>>
vars == <<settings, args, pc, ce, timeout, ret, result, status, block, mode, lapsed>>

Init ==
    /\ maker \in Maker
    /\ checks \in BOOLEAN /\ bWaitRDY = 1 /\ table = FALSE /\ bootMode = FALSE
    /\ pc = "idle" /\ bChipEnable = 0 /\ slc = FALSE /\ ce = 0 /\ timeout = 0
    /\ ret = 0 /\ result = 0
    /\ status \in [CE -> Status]        \* not initialized
    /\ block = [c \in CE |-> "passed"]
    /\ mode = [c \in CE |-> "normal"]
    /\ lapsed = {}

Broadcast == bChipEnable = FlhNumber /\ FlhNumber # 1

\* ST_SetGet_Parameter, setting, and ST_SetGet_Parameter_SQL.
SetParameter ==
    /\ pc = "idle"
    /\ checks' \in BOOLEAN
    /\ bWaitRDY' = IF checks' THEN 0 ELSE 8
    /\ table' = TRUE
    /\ UNCHANGED <<maker, bootMode, args, pc, ce, timeout, ret, result, status, block>>
    /\ UNCHANGED <<mode, lapsed>>

\* ST_SetGet_Parameter, getting: SQLCmd is not told.
GetParameter ==
    /\ pc = "idle"
    /\ checks' \in BOOLEAN
    /\ UNCHANGED <<maker, bWaitRDY, table, bootMode, args, pc, ce, timeout, ret, result, status,
                   block, mode, lapsed>>

\* ST_HynixTLC16ModeSwitch, which any part can be given.
SetBootMode ==
    /\ pc = "idle"
    /\ bootMode' \in BOOLEAN
    /\ UNCHANGED <<maker, checks, bWaitRDY, table, args, pc, ce, timeout, ret, result, status,
                   block, mode, lapsed>>

Start ==
    /\ pc = "idle"
    /\ bChipEnable' \in CE \cup {FlhNumber}
    /\ slc' \in BOOLEAN
    /\ ce' = IF bChipEnable' \in CE THEN bChipEnable' ELSE 0
    /\ pc' = "command" /\ result' = 0
    /\ UNCHANGED <<settings, timeout, ret, status, block, mode, lapsed>>

(***************************************************************************)
(* Erase: whether the class's version puts a chip into FW SLC mode,        *)
(* resets it afterwards, and has a broadcast wait for the chips            *)
(***************************************************************************)
SQLErase ==
    [fwSlc |-> slc /\ bootMode /\ maker = "Hynix", resets |-> slc /\ bootMode,
     waits |-> bWaitRDY = 1]
HynixErase == [fwSlc |-> slc /\ bootMode, resets |-> slc /\ bootMode, waits |-> bWaitRDY = 1]
TSBErase == [fwSlc |-> FALSE, resets |-> FALSE, waits |-> bWaitRDY # 0]
MicronErase == [fwSlc |-> FALSE, resets |-> FALSE, waits |-> bWaitRDY = 1]
YMTCErase == [fwSlc |-> FALSE, resets |-> FALSE, waits |-> bWaitRDY = 1]

Erase ==
    CASE table -> SQLErase
      [] ~table /\ maker = "Hynix" -> HynixErase
      [] ~table /\ maker = "TSB" -> TSBErase
      [] ~table /\ maker = "Micron" -> MicronErase
      [] ~table /\ maker = "YMTC" -> YMTCErase

Busy(c) == block[c] = "busy" \/ mode[c] = "resetting"

\* Whether the command itself waits, and resets the chip.
WithCommand == ~Broadcast /\ bWaitRDY = 1

\* The chip's block and mode after the command.
Erased == IF WithCommand THEN Ready ELSE {"busy"}
Entered ==
    IF WithCommand /\ Erase.resets THEN "normal"
    ELSE IF Erase.fwSlc THEN "FW SLC" ELSE mode[ce]

\* Where the chips of a broadcast are waited for, one after the other.
Waits ==
    CASE bWaitRDY = 0 -> "poll"
      [] bWaitRDY # 0 /\ Erase.waits -> "wait"
      [] bWaitRDY # 0 /\ ~Erase.waits -> "report"

\* Mutant: a broadcast waits for the last chip only.
WaitsForLast == ce' = FlhNumber - 1 /\ pc' = Waits
\* The chips of a broadcast are commanded first, and then waited for.
WaitStart == ce' = 0 /\ pc' = Waits

AfterCommand ==
    IF Broadcast
    THEN IF ce + 1 \in CE THEN ce' = ce + 1 /\ pc' = "command" ELSE WaitStart
    ELSE ce' = ce /\ pc' = IF bWaitRDY = 0 THEN "poll" ELSE "report"

Command ==
    /\ pc = "command"
    /\ \E b \in Erased : block' = [block EXCEPT ![ce] = b]
    /\ mode' = [mode EXCEPT ![ce] = Entered]
    /\ lapsed' = IF Busy(ce) THEN lapsed \cup {ce} ELSE lapsed
    /\ AfterCommand
    /\ UNCHANGED <<settings, args, timeout, ret, result, status>>

\* Dev_IssueIOCmd fails, before the chip has the command or while it erases.  A
\* broadcast goes on to wait for every chip.
CommandFails ==
    /\ pc = "command"
    /\ \/ /\ UNCHANGED <<block, mode>>
          /\ lapsed' = lapsed \cup {c \in CE : c >= ce}
       \/ /\ block' = [block EXCEPT ![ce] = "busy"]
          /\ mode' = [mode EXCEPT ![ce] = IF Erase.fwSlc THEN "FW SLC" ELSE @]
          /\ lapsed' = lapsed \cup {c \in CE : c > ce \/ (c = ce /\ Busy(c))}
    /\ ret' = 1
    /\ IF Broadcast THEN WaitStart ELSE ce' = ce /\ pc' = "report"
    /\ UNCHANGED <<settings, args, timeout, result, status>>

AfterChip ==
    IF Broadcast /\ ce + 1 \in CE THEN ce' = ce + 1 /\ pc' = Waits
    ELSE ce' = ce /\ pc' = "report"

\* The chip has been waited for, and again if it was reset.
AfterWait ==
    IF pc \in {"poll", "wait"} /\ Erase.resets THEN ce' = ce /\ pc' = "reset"
    ELSE AfterChip

\* GetStatus: the byte it returns and saves.  Where the read fails, that is one that
\* was never written.
GetStatus(fails) ==
    IF fails THEN Status ELSE {IF Busy(ce) THEN "busy" ELSE block[ce]}

\* The poll that follows a reset does not save the status, whose fail bit the
\* reset has cleared.
Saved(s) == IF pc = "poll" THEN [status EXCEPT ![ce] = s] ELSE status

GaveUp(s) == s \notin Ready /\ timeout >= MaxPolls

Poll(fails) ==
    /\ pc \in {"poll", "repoll"}
    /\ \E s \in GetStatus(fails) :
          /\ status' = Saved(s)
          /\ lapsed' = IF fails \/ GaveUp(s) THEN lapsed \cup {ce} ELSE lapsed
          /\ IF s \in Ready \/ GaveUp(s)
             THEN AfterWait /\ timeout' = 0
             ELSE timeout' = timeout + 1 /\ UNCHANGED <<ce, pc>>
    /\ UNCHANGED <<settings, args, ret, result, block, mode>>

\* A chip ends what it is doing.
Ends(c) ==
    /\ IF block[c] = "busy"
       THEN \E b \in Ready : block' = [block EXCEPT ![c] = b]
       ELSE block' = block
    /\ mode' = [mode EXCEPT ![c] = IF @ = "resetting" THEN "normal" ELSE @]

\* OnlyWiatRDY, whose result is not looked at.
Wait ==
    /\ pc \in {"wait", "rewait"}
    /\ Ends(ce)
    /\ AfterWait
    /\ UNCHANGED <<settings, args, timeout, ret, result, status, lapsed>>

WaitFails ==
    /\ pc \in {"wait", "rewait"}
    /\ lapsed' = lapsed \cup {ce}
    /\ AfterWait
    /\ UNCHANGED <<settings, args, timeout, ret, result, status, block, mode>>

\* FlashReset, whose wait comes after the end of its program: it returns while the
\* chip resets.  An erase that has not ended is aborted.
FlashReset ==
    /\ pc = "reset"
    /\ \E b \in IF block[ce] = "busy" THEN Ready ELSE {block[ce]} :
          block' = [block EXCEPT ![ce] = b]
    /\ mode' = [mode EXCEPT ![ce] = "resetting"]
    /\ ce' = ce /\ pc' = IF bWaitRDY = 0 THEN "repoll" ELSE "rewait"
    /\ UNCHANGED <<settings, args, timeout, ret, result, status, lapsed>>

\* Its result is not looked at either.
FlashResetFails ==
    /\ pc = "reset"
    /\ lapsed' = lapsed \cup {ce}
    /\ ce' = ce /\ pc' = IF bWaitRDY = 0 THEN "repoll" ELSE "rewait"
    /\ UNCHANGED <<settings, args, timeout, ret, result, status, block, mode>>

\* The byte of stauts the rest of ST_DirectOneBlockErase_SQL looks at; for a chip
\* enable that is not a chip's it was never written.
\* Mutant: the status of the first chip.
SeenOfFirst == {status[0]}
Seen == IF bChipEnable \in CE THEN {status[bChipEnable]} ELSE Status

Report ==
    /\ pc = "report"
    /\ IF ret # 0 THEN result' = ret
       ELSE IF checks THEN \E s \in Seen : result' = IF s = "failed" THEN 1 ELSE 0
       ELSE result' = 0
    /\ pc' = "idle" /\ bChipEnable' = 0 /\ slc' = FALSE /\ ce' = 0 /\ timeout' = 0 /\ ret' = 0
    /\ lapsed' = {}
    /\ UNCHANGED <<settings, status, block, mode>>

\* External: a chip ends its erase, or its reset.
Finish(c) ==
    /\ Busy(c)
    /\ Ends(c)
    /\ UNCHANGED <<settings, args, pc, ce, timeout, ret, result, status, lapsed>>

Erasing ==
    Command \/ CommandFails \/ Poll(FALSE) \/ Poll(TRUE) \/ Wait \/ WaitFails
        \/ FlashReset \/ FlashResetFails \/ Report

Next ==
    SetParameter \/ GetParameter \/ SetBootMode \/ Start \/ Erasing \/ \E c \in CE : Finish(c)

Spec == Init /\ [][Next]_vars

(***************************************************************************)
(* Properties                                                              *)
(***************************************************************************)
Targets == IF Broadcast THEN CE ELSE {ce}

\* ST_GetReadWriteStatus_SQL: the chips it sets a bit for.
FailedChips == {c \in CE : status[c] # "passed"}

\* An erase that polls returns failure exactly if the block of its chip did not erase,
\* and after a broadcast the fail bits are those of the blocks that did not, although
\* the status is saved by one function, tested by another and never cleared, and a
\* reset before the return clears the chip's own.  It says
\* nothing of chips that lapsed: a poll that gives up saves a busy status, which has
\* no fail bit.
FailureReported ==
    [][Report /\ bWaitRDY = 0 =>
         /\ bChipEnable \in CE \ lapsed /\ checks =>
               (result' # 0 <=> ret # 0 \/ block[bChipEnable] = "failed")
         /\ Broadcast => \A c \in CE \ lapsed : c \in FailedChips <=> block[c] = "failed"]_vars

\* When an erase that waits or polls returns, its chips have ended, also those that a
\* broadcast had commanded before it failed at another, and in boot mode an SLC erase
\* has taken them back to normal mode, whichever way it waited.
SettledAtReturn ==
    [][Report /\ bWaitRDY \in {0, 1} /\ (Broadcast \/ ret = 0) =>
         \A c \in Targets \ lapsed :
            ~Busy(c) /\ (Erase.resets => mode[c] = "normal")]_vars

=============================================================================
