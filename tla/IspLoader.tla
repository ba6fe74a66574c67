------------------------------ MODULE IspLoader ------------------------------
(***************************************************************************)
(* PCIESCSI5013_ST::Dev_InitDrive: how an E13 or E19 controller is brought *)
(* to run the burner.  It is sent back to its boot ROM, the burner image   *)
(* is programmed into its RAM segment by segment, and started; after every *)
(* change its firmware version tells what it runs.                         *)
(*                                                                         *)
(* A step is one command.  NVMe_SetAPKey comes before every command; it is *)
(* a step where its result is looked at.                                   *)
(***************************************************************************)
EXTENDS Bridge

CONSTANTS
    UbCount,        \* ubCount, sectors of a segment
    JumpLoops,      \* calls of Dev_CheckJumpBackISP
    JumpRetries,    \* retries in it
    SettleRetries   \* identifies at the end

ASSUME LoaderAssumption ==
    {UbCount, JumpLoops, JumpRetries, SettleRetries} \subseteq Nat \ {0}

VARIABLES
    lpc,        \* what Dev_InitDrive does next, or what it has returned
    loop, retry, seg,
    fw          \* _fwVersion[2] of NTCmd: "unset" in a new one, "null" if none

counters == <<loop, retry, seg>>
loader == <<lpc, counters, fw>>

Returned == lpc \in {"true", "false"}
Aborted == lpc = "aborted"

LoaderTypeOK ==
    /\ lpc \in {"true", "false", "aborted", "probe", "probe again", "jump back", "force",
               "key", "segment", "start", "look", "check", "settle"}
    /\ loop \in 0 .. JumpLoops - 1
    /\ retry \in 0 .. JumpRetries + SettleRetries - 1
    /\ seg \in 0 .. SectorNo
    /\ fw \in {"null", "unset", "F", "R", "B"}

LoaderInit == lpc = "false" /\ loop = 0 /\ retry = 0 /\ seg = 0 /\ fw = "null"

\* The letter of the version: firmware, boot ROM or burner.
Letter == IF mode = "firmware" THEN "F" ELSE IF mode = "rom" THEN "R" ELSE "B"

\* NVMe_Identify.  When it fails _fwVersion stays what it was.
Identify(ok) ==
    /\ \E done \in BOOLEAN : Flow(FALSE, done, ok)
    /\ fw' = IF ok THEN Letter ELSE fw
    /\ UNCHANGED <<controller, tester, unheard>>

BeginInitDrive == lpc' = "probe" /\ UNCHANGED <<counters, fw>>

Probe ==
    /\ lpc = "probe"
    /\ \E ok \in BOOLEAN :
          Identify(ok) /\ lpc' = IF ok THEN "probe again" ELSE "false"
    /\ UNCHANGED counters

ProbeAgain ==
    /\ lpc = "probe again"
    /\ \E ok \in BOOLEAN :
          /\ Identify(ok)
          /\ lpc' = IF ~ok THEN "false" ELSE IF fw' = "B" THEN "settle" ELSE "jump back"
    /\ loop' = 0 /\ retry' = 0 /\ UNCHANGED seg

\* A retry of Dev_CheckJumpBackISP: whether the identify fails is not looked
\* at, the version is.
JumpBack ==
    /\ lpc = "jump back"
    /\ \E ok \in BOOLEAN : Identify(ok)
    /\ lpc' = IF fw' = "R" THEN "key" ELSE "force"
    /\ seg' = 0 /\ UNCHANGED <<loop, retry>>

\* The next retry, the next loop, or the end.
NextRetry ==
    IF retry < JumpRetries - 1
    THEN lpc' = "jump back" /\ retry' = retry + 1 /\ UNCHANGED loop
    ELSE /\ retry' = 0
         /\ IF loop < JumpLoops - 1
            THEN lpc' = "jump back" /\ loop' = loop + 1
            ELSE lpc' = "false" /\ UNCHANGED loop

\* Mutant: a jump that was accepted is not followed by a look at the version.
ForceTrusted ==
    /\ lpc = "force"
    /\ \E done, ret \in BOOLEAN :
          /\ Flow(TRUE, done, ret)
          /\ IF done THEN StartsUp("rom") ELSE UNCHANGED controller
          /\ IF ret THEN lpc' = "key" /\ UNCHANGED <<loop, retry>> ELSE NextRetry
    /\ UNCHANGED <<seg, fw, tester, unheard>>

\* NVMe_ForceToBootRom(1).
ForceToBootRom ==
    /\ lpc = "force"
    /\ \E done, ret \in BOOLEAN :
          Flow(TRUE, done, ret) /\ IF done THEN StartsUp("rom") ELSE UNCHANGED controller
    /\ NextRetry
    /\ UNCHANGED <<seg, fw, tester, unheard>>

Segments == (SectorNo + UbCount - 1) \div UbCount

\* A key command that fails: the image is freed, and false is returned, which
\* the caller takes for success.  After the last segment the image has been
\* freed before, and the program goes on or ends.
KeyFails ==
    \/ lpc' = "settle"
    \/ seg = Segments /\ lpc' = "aborted"

\* NVMe_SetAPKey in NVMe_ISPProgPRAM.
Key ==
    /\ lpc = "key"
    /\ \E done, ret \in BOOLEAN :
          /\ Flow(FALSE, done, ret)
          /\ \/ ret /\ lpc' = IF seg < Segments THEN "segment" ELSE "start"
             \/ ~ret /\ KeyFails
    /\ retry' = 0
    /\ UNCHANGED <<loop, seg, fw, controller, tester, unheard>>

SegSize(s) == IF s * UbCount + UbCount <= SectorNo THEN UbCount ELSE SectorNo % UbCount

\* Mutant: the last, shorter segment counts with its own size.
OffsetByOwnSize(s) == SegSize(s) * s

\* The last segment is placed as if all were whole.
SegOffset(s) == (IF s = Segments - 1 THEN UbCount ELSE SegSize(s)) * s

\* NVMe_ISPProgramPRAM.
Programmed(s) ==
    [p \in Place |-> IF p \in SegOffset(s) .. SegOffset(s) + SegSize(s) - 1
                     THEN s * UbCount + p - SegOffset(s) ELSE pram[p]]

Segment ==
    /\ lpc = "segment"
    /\ \E done, ret \in BOOLEAN :
          /\ Flow(FALSE, done, ret)
          /\ pram' = IF done THEN Programmed(seg) ELSE pram
          /\ IF ret THEN lpc' = "key" /\ seg' = seg + 1
             ELSE lpc' = "false" /\ UNCHANGED seg
    /\ UNCHANGED <<mode, next, loop, retry, fw, tester, unheard>>

\* NVMe_ForceToBootRom(2): the controller starts what its RAM holds.
Start ==
    /\ lpc = "start"
    /\ \E done, ret \in BOOLEAN :
          /\ Flow(TRUE, done, ret)
          /\ IF done THEN StartsUp(IF Complete THEN "burner" ELSE "lost")
             ELSE UNCHANGED controller
          /\ lpc' = IF ret THEN "look" ELSE "false"
    /\ UNCHANGED <<counters, fw, tester, unheard>>

Look ==
    /\ lpc = "look"
    /\ \E ok \in BOOLEAN : Identify(ok)
    /\ lpc' = "check"
    /\ UNCHANGED counters

Check ==
    /\ lpc = "check"
    /\ \E ok \in BOOLEAN :
          Identify(ok) /\ lpc' = IF ok /\ fw' = "B" THEN "settle" ELSE "false"
    /\ UNCHANGED counters

\* Mutant: the version is not looked at after the last identify.
SettleGivesUp ==
    /\ lpc = "settle"
    /\ \E ok \in BOOLEAN :
          /\ Identify(ok)
          /\ IF ok /\ fw' = "B" THEN lpc' = "true" /\ UNCHANGED retry
             ELSE IF retry < SettleRetries - 1
             THEN UNCHANGED lpc /\ retry' = retry + 1
             ELSE lpc' = "true" /\ UNCHANGED retry
    /\ UNCHANGED <<loop, seg>>

\* The version decides, even one that the last identify did not renew.
Settle ==
    /\ lpc = "settle"
    /\ \E ok \in BOOLEAN :
          /\ Identify(ok)
          /\ IF ok /\ fw' = "B" THEN lpc' = "true" /\ UNCHANGED retry
             ELSE IF retry < SettleRetries - 1
             THEN UNCHANGED lpc /\ retry' = retry + 1
             ELSE lpc' = (IF fw' = "B" THEN "true" ELSE "false") /\ UNCHANGED retry
    /\ UNCHANGED <<loop, seg>>

LoaderStep ==
    \/ Probe \/ ProbeAgain \/ JumpBack \/ ForceToBootRom
    \/ Key \/ Segment \/ Start \/ Look \/ Check \/ Settle
=============================================================================
