------------------------------ MODULE Session ------------------------------
(***************************************************************************)
(* The session of ufw_main.cpp with one E13 or E19 drive behind a PCIe     *)
(* bridge: the calls that make a drive's object and load its burner, in    *)
(* any order.  A step is one command to the drive or the bridge; a call    *)
(* that fails goes back to "idle" from where it failed.                    *)
(*                                                                         *)
(* Flash IDs are known or not; those that only select parameters or a file *)
(* are left out.                                                           *)
(***************************************************************************)
EXTENDS IspLoader

CONSTANT BurnerAnswersBootId    \* the burner answers the boot ROM's ID command

VARIABLES
    pc,         \* where the call is, "idle" between calls
    call,       \* what LoadBurner was called for
    isPowerOff, isInitFlash,
    sql         \* NTCmd has its _sql

flags == <<isPowerOff, isInitFlash, sql>>
session == <<pc, call, flags>>
vars == <<bridgeVars, loader, session>>

Calls == {"LoadBurner", "InitialFlash", "InitialBurner"}

TypeOK ==
    /\ BridgeTypeOK /\ LoaderTypeOK
    /\ pc \in {"idle", "inquiry", "reset", "i2c init", "power off", "i2c power",
               "power on", "identify", "id", "init drive", "fw version",
               "init again", "fw version again", "last id", "parameters"}
    /\ call \in Calls
    /\ {isPowerOff, isInitFlash, sql} \subseteq BOOLEAN

Init ==
    /\ BridgeInit /\ LoaderInit
    /\ pc = "idle" /\ call = "LoadBurner"
    /\ isPowerOff = TRUE /\ isInitFlash = FALSE /\ sql = FALSE

\* Goes on, or ends the call with an error.
GoOn(ok, where) == pc' = IF ok THEN where ELSE "idle"

-----------------------------------------------------------------------------
\* InitPhyDrive

InitPhyDrive == pc = "idle" /\ pc' = "inquiry" /\ UNCHANGED <<call, flags, bridgeVars, loader>>

Detect ==
    /\ pc = "inquiry"
    /\ \E ok \in BOOLEAN :
          Inquiry(ok) /\ GoOn(ok, IF isPowerOff THEN "reset" ELSE "identify")
    /\ UNCHANGED <<call, flags, loader>>

\* _static_JMS583_BridgeReset
ResetInquiry ==
    /\ pc = "reset"
    /\ \E ok \in BOOLEAN : Inquiry(ok) /\ GoOn(ok, "i2c init")
    /\ UNCHANGED <<call, flags, loader>>

ResetI2c ==
    /\ pc = "i2c init" /\ I2cInit /\ pc' = "power off"
    /\ UNCHANGED <<call, flags, loader>>

ResetOff ==
    /\ pc = "power off"
    /\ \E ret \in BOOLEAN : PowerOff(ret) /\ GoOn(ret, "i2c power")
    /\ UNCHANGED <<call, flags, loader>>

ResetSwitch ==
    /\ pc = "i2c power" /\ I2cPower /\ pc' = "power on"
    /\ UNCHANGED <<call, flags, loader>>

\* Mutant: the drive counts as switched on before the result is looked at.
ResetOnTrusted ==
    /\ pc = "power on"
    /\ \E ret \in BOOLEAN : PowerOn(ret) /\ GoOn(ret, "identify")
    /\ isPowerOff' = FALSE
    /\ UNCHANGED <<call, isInitFlash, sql, loader>>

\* Mutant: isPowerOff is not cleared.
ResetOnForgotten ==
    /\ pc = "power on"
    /\ \E ret \in BOOLEAN : PowerOn(ret) /\ GoOn(ret, "identify")
    /\ UNCHANGED <<call, flags, loader>>

\* The wait for the controller that follows ends after 20 looks or 5 seconds,
\* as a success whatever it saw.
ResetOn ==
    /\ pc = "power on"
    /\ \E ret \in BOOLEAN :
          PowerOn(ret) /\ GoOn(ret, "identify") /\ isPowerOff' = (isPowerOff /\ ~ret)
    /\ UNCHANGED <<call, isInitFlash, sql, loader>>

\* _static_IdentifyNVMe, and a new object for the drive.  isInitFlash stays.
NewDrive ==
    /\ pc = "identify" /\ pc' = "idle"
    /\ \E done, ret \in BOOLEAN :
          /\ Flow(FALSE, done, ret)
          /\ IF ret THEN fw' = "unset" /\ sql' = FALSE ELSE UNCHANGED <<fw, sql>>
    /\ UNCHANGED <<controller, tester, unheard, call, isPowerOff, isInitFlash, lpc, counters>>

-----------------------------------------------------------------------------
\* LoadBurner and LoadBurner_E19, for InitialFlash, InitialBurner or the host

Load(c) ==
    /\ pc = "idle" /\ fw # "null"
    /\ pc' = "id" /\ call' = c
    /\ UNCHANGED <<flags, bridgeVars, loader>>

\* A command that changes nothing in the controller, which must understand it.
Ask(understood, ok) ==
    /\ \E done, ret \in BOOLEAN : Flow(FALSE, done, ret) /\ ok = (ret /\ understood)
    /\ UNCHANGED <<controller, tester, unheard>>

\* NT_GetFlashExtendID: the version that the object last saw chooses the
\* command.
IdAnswered ==
    IF fw = "B" THEN mode = "burner" ELSE mode = "burner" => BurnerAnswersBootId

\* An ID that cannot be read is not in flashInfo.csv.
FirstId ==
    /\ pc = "id"
    /\ \E ok \in BOOLEAN :
          /\ Ask(IdAnswered, ok)
          /\ GoOn(ok, "init drive")
          /\ IF ok THEN BeginInitDrive ELSE UNCHANGED loader
    /\ UNCHANGED <<call, flags>>

InitDrive == pc \in {"init drive", "init again"} /\ LoaderStep /\ UNCHANGED session

\* The program has ended in NVMe_ISPProgPRAM, and the host starts it again.
\* The drive stays as it is.
Restart ==
    /\ Aborted
    /\ lpc' = "false" /\ fw' = "null"
    /\ pc' = "idle" /\ isPowerOff' = TRUE /\ isInitFlash' = FALSE /\ sql' = FALSE
    /\ UNCHANGED <<bridgeVars, counters, call>>

InitDriveDone ==
    /\ pc = "init drive" /\ Returned
    /\ GoOn(lpc = "true", "fw version")
    /\ sql' = (sql \/ lpc = "true")
    /\ UNCHANGED <<call, isPowerOff, isInitFlash, bridgeVars, loader>>

\* GetFwVersion, and whether the part is known: the burner of one that is not
\* is loaded again.
FwVersion ==
    /\ pc = "fw version"
    /\ \E ok \in BOOLEAN : Identify(ok)
    /\ \/ pc' = "last id" /\ UNCHANGED lpc
       \/ call # "InitialBurner" /\ pc' = "init again" /\ lpc' = "probe"
    /\ UNCHANGED <<call, flags, counters>>

\* A second load that fails is logged.
InitAgainDone ==
    /\ pc = "init again" /\ Returned
    /\ pc' = IF lpc = "true" THEN "fw version again" ELSE "last id"
    /\ UNCHANGED <<call, flags, bridgeVars, loader>>

FwVersionAgain ==
    /\ pc = "fw version again"
    /\ \E ok \in BOOLEAN : Identify(ok)
    /\ pc' = "last id"
    /\ UNCHANGED <<call, flags, lpc, counters>>

\* The flash ID once more; LoadBurner_E19 has the burner run a command
\* sequence for it.
LastId ==
    /\ pc = "last id"
    /\ \E ok \in BOOLEAN :
          /\ Ask(IF call = "InitialBurner" THEN mode = "burner" ELSE IdAnswered, ok)
          /\ GoOn(ok /\ call = "InitialFlash", "parameters")
          /\ isInitFlash' = (isInitFlash \/ (ok /\ call = "InitialBurner"))
    /\ UNCHANGED <<call, isPowerOff, sql, loader>>

\* SetInitialAPParameter: the ID, the parameters written twice and read back.
Parameters ==
    /\ pc = "parameters" /\ pc' = "idle"
    /\ \E ok \in BOOLEAN :
          Ask(IdAnswered /\ mode = "burner", ok) /\ isInitFlash' = (isInitFlash \/ ok)
    /\ UNCHANGED <<call, isPowerOff, sql, loader>>

\* SetFlashID reads the ID and makes a _sql where there is none.
SetFlashID ==
    /\ pc = "idle" /\ fw # "null"
    /\ \E ok \in BOOLEAN : Ask(IdAnswered, ok)
    /\ sql' = TRUE
    /\ UNCHANGED <<pc, call, isPowerOff, isInitFlash, loader>>

\* NTCmd is deleted and keeps its value; the host does not use it again
\* before InitPhyDrive makes another.
EndDLL ==
    /\ pc = "idle" /\ fw # "null"
    /\ fw' = "null" /\ sql' = FALSE
    /\ UNCHANGED <<bridgeVars, lpc, counters, pc, call, isPowerOff, isInitFlash>>

-----------------------------------------------------------------------------
\* What the SDK does by itself within a call.
Work ==
    \/ Detect \/ ResetInquiry \/ ResetI2c \/ ResetOff \/ ResetSwitch \/ ResetOn \/ NewDrive
    \/ FirstId \/ InitDrive \/ InitDriveDone \/ FwVersion \/ InitAgainDone
    \/ FwVersionAgain \/ LastId \/ Parameters

Next ==
    \/ InitPhyDrive \/ (\E c \in Calls : Load(c)) \/ SetFlashID \/ EndDLL
    \/ Work
    \/ Restart
    \/ Arrive /\ UNCHANGED <<loader, session>>

Spec == Init /\ [][Next]_vars

\* The program and the controller go on, and the host starts the program again
\* and keeps calling InitPhyDrive and InitialFlash.
FairSpec ==
    /\ Spec
    /\ WF_vars(Work) /\ WF_vars(Restart) /\ WF_vars(Arrive /\ UNCHANGED <<loader, session>>)
    /\ SF_vars(InitPhyDrive) /\ SF_vars(Load("InitialFlash"))

-----------------------------------------------------------------------------
\* A load that returned true, and with it a flash that counts as initialised
\* (CheckDLLFuncInit), means that the controller runs the burner, then and
\* ever after, whatever was lost on the way.
LoadedMeansBurner == lpc = "true" \/ isInitFlash => mode = "burner" /\ next = "none"

\* The controller is never told to start an incomplete image.
StartsWholeImage == "lost" \notin {mode, next}

\* The image is programmed into the RAM of a controller that waits for it in
\* its boot ROM, never into one that runs something.
ProgramsInRom == [][pram' # pram /\ pram' # NoImage => mode = "rom" /\ next = "none"]_vars

\* A burner that runs is not stopped: neither by calling InitPhyDrive again
\* nor by loading again.
BurnerStays == [][mode = "burner" => mode' = "burner" /\ next' = "none"]_vars

\* A host that keeps initialising reaches the burner, unless the SDK was not
\* told of a loss while the drive was switched on: an I2C transfer that failed,
\* or a power-on command whose response could be read all the same.  Such a
\* drive counts as switched on and may stay off.  A power-off that is lost in
\* the same way is no exception.
RetriesReachBurner == <>isInitFlash \/ <>unheard

=============================================================================
