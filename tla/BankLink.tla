------------------------------ MODULE BankLink ------------------------------
(***************************************************************************)
(* The sorting code that runs on a USB controller may be larger than the   *)
(* controller's memory: its commands are then spread over banks, of which  *)
(* the controller holds one besides the common part.  CNTCommand looks up  *)
(* the bank of each vendor command before it sends it, and sends the bank  *)
(* first if the controller, as far as CNTCommand knows, holds another.     *)
(*                                                                         *)
(* The commands are those of FlashCommands.  Calls follow one another; the *)
(* controller may lose its bank between any two exchanges.                 *)
(***************************************************************************)
EXTENDS FlashCommands, Sequences

CONSTANTS
    BankTable,      \* the entries at 0x40 of the bank buffer
    FlashTypes      \* the types of flash that are told apart

\* Types of flash.
TSB == 0
TSB3D == 1
Micron == 2
Micron3D == 3
Micron3D_N18_B27_N28 == 4
YMTC == 5

Byte == 0 .. 255
AllTypes == \hff    \* of an entry
Common == \h99      \* an entry says \hff
Unknown == \hff     \* no entry
SqlBank == 8

BankAssumption ==
    /\ BankTable \in Seq([command : Byte, bank : Byte, types : TSB .. YMTC \cup {AllTypes}])
    /\ FlashTypes \subseteq TSB .. YMTC

\* mCMD2BankMapping_NEW as BankInfoCreateFromFile leaves it: later entries win.
BankInfoCreateFromFile ==
    [type \in TSB .. YMTC, command \in Byte |->
        LET entries == {i \in DOMAIN BankTable : /\ BankTable[i].command = command
                                                 /\ BankTable[i].types \in {type, AllTypes}}
            last == BankTable[CHOOSE i \in entries : \A j \in entries : j <= i]
        IN  IF entries = {} THEN Unknown
            ELSE IF last.bank = \hff THEN Common ELSE last.bank]

\* The commands of the sequence buffer have their own bank, the others go by CDB[2].
BankSearchByCmd(type, cdb) ==
    LET Mapped(t) == BankInfoCreateFromFile[t, cdb[3]]
    IN  IF cdb[2] \in {\he6, \he7} \cup (\hfa .. \hff) THEN SqlBank
        ELSE IF type = Micron3D_N18_B27_N28 /\ Mapped(type) = Unknown THEN Mapped(Micron3D)
        ELSE Mapped(type)

VARIABLES
    pc,                 \* where the call is
    call,               \* the command it sends
    left,               \* times it may still issue it
    flash,              \* the type of _fh
    isFWBank, currentBank, _alwaySyncBank, _ForceNoSwitch,
    deviceBank,         \* external: the bank the controller holds
    sure,               \* history: the controller kept the bank since CNTCommand last knew it
    leftover            \* history: the flag stands from a call that set it and sent nothing

settings == <<flash, isFWBank, _alwaySyncBank>>
bankVars == <<pc, call, left, flash, isFWBank, currentBank, _alwaySyncBank, _ForceNoSwitch,
              deviceBank, sure, leftover>>

Banks == {0, SqlBank} \cup ({BankTable[i].bank : i \in DOMAIN BankTable} \ {\hff})

\* What is kept of a command while it is sent; BankSearchByCmd finds bank.
Pending(c, cdb) ==
    [vendor |-> cdb[1] = \h06, f6 |-> cdb[1] = \h06 /\ cdb[2] = \hf6 /\ c.force # "set",
     bank |-> BankSearchByCmd(flash, cdb), until |-> c.until]

NoCall == [vendor |-> FALSE, f6 |-> FALSE, bank |-> Common, until |-> "never"]

Init ==
    /\ pc = "idle" /\ call = NoCall /\ left = 0
    /\ flash \in FlashTypes /\ isFWBank = FALSE /\ currentBank = 0
    /\ _alwaySyncBank = FALSE /\ _ForceNoSwitch = 0
    /\ deviceBank \in Banks /\ sure = FALSE /\ leftover = FALSE

SetAlwasySync ==
    /\ pc = "idle"
    /\ _alwaySyncBank' \in BOOLEAN
    /\ UNCHANGED <<pc, call, left, flash, isFWBank, currentBank, _ForceNoSwitch, deviceBank,
                   sure, leftover>>

(***************************************************************************)
(* ST_BankSynchronize and ST_BankSwitch, sent around the lookup.           *)
(***************************************************************************)
ST_BankSynchronize ==
    \/ currentBank' = deviceBank /\ sure' = TRUE
    \/ UNCHANGED <<currentBank, sure>>      \* fails

\* One that fails may have reached the controller.
ST_BankSwitch(bank, passed) ==
    \/ deviceBank' = bank /\ sure' = passed
    \/ ~passed /\ UNCHANGED <<deviceBank, sure>>

(***************************************************************************)
(* BankInit: the inquiry, and the code version if that names the tester,   *)
(* clear the flag if they are sent.  What they return is not looked at.    *)
(***************************************************************************)
BankInit ==
    /\ pc = "idle"
    /\ flash' \in FlashTypes
    /\ \/ _ForceNoSwitch' = 0 /\ leftover' = FALSE
       \/ UNCHANGED <<_ForceNoSwitch, leftover>>
    /\ \/ isFWBank' = FALSE /\ UNCHANGED <<currentBank, sure>>
       \/ isFWBank' = TRUE /\ ST_BankSynchronize
    /\ UNCHANGED <<pc, call, left, _alwaySyncBank, deviceBank>>

(***************************************************************************)
(* A call.  bType 0 is a drive, to be opened, 1 a handle, 2 a path.        *)
(***************************************************************************)
Sends(c, bType) == bType < 2 \/ ~c.typed \/ (bType = 2 /\ c.byPath)

\* _ForceNoSwitch when the command reaches its sending.
Flag(c) == CASE c.force = "set" -> 1 [] c.force = "cleared" -> 0 [] OTHER -> _ForceNoSwitch

Inherits(c) == leftover /\ c.force \notin {"set", "cleared"}

\* A setting, or an argument looked at before the flag is set: nothing happens.
ReturnsAtOnce == UNCHANGED bankVars

\* The bType is none it sends for, the drive does not open, or an argument is
\* looked at too late: what the function did to the flag stays.
ReturnsUnsent(c, bType) ==
    /\ ~Sends(c, bType) \/ bType # 1 \/ (c.guarded /\ c.late)
    /\ _ForceNoSwitch' = Flag(c) /\ leftover' = (c.force = "set" \/ Inherits(c))
    /\ UNCHANGED <<pc, call, left>>

Proceeds(c, bType) ==
    /\ Sends(c, bType)
    /\ IF bType \in c.raw
       THEN pc' = "raw" /\ UNCHANGED call
       ELSE pc' = "lookup" /\ \E cdb \in c.cdb : call' = Pending(c, cdb)
    /\ left' \in 1 .. c.times
    /\ _ForceNoSwitch' = Flag(c)
    /\ leftover' = Inherits(c)

Begin ==
    /\ pc = "idle"
    /\ \E c \in Commands, bType \in 0 .. 2 :
          \/ (c.skips \/ (c.guarded /\ ~c.late)) /\ ReturnsAtOnce
          \/ /\ ReturnsUnsent(c, bType) \/ Proceeds(c, bType)
             /\ isFWBank' = (isFWBank /\ ~c.endsBanking)
             /\ UNCHANGED <<flash, currentBank, _alwaySyncBank, deviceBank, sure>>

\* The result of one round goes back to the function, which may go another.
Returned(passed) ==
    LET again == left > 1 /\ call.until # IF passed THEN "passed" ELSE "failed"
    IN  IF again
        THEN pc' = "lookup" /\ left' = left - 1 /\ UNCHANGED call
        ELSE pc' = "idle" /\ left' = 0 /\ call' = NoCall

(***************************************************************************)
(* NT_CustomCmd_Phy, which NT_CustomCmd and, as far as its callers go,     *)
(* ST_CustomCmd_Path come to as well.                                      *)
(***************************************************************************)
LooksUp == isFWBank /\ call.vendor /\ _ForceNoSwitch = 0
NeedsSwitch(bank) == call.bank \notin {bank, Common}
Synchronizes == _alwaySyncBank /\ NeedsSwitch(currentBank) /\ call.bank # SqlBank

\* Where the code goes for its bank when it takes the controller's to be bank.
ToBank(bank) == pc' = IF NeedsSwitch(bank) THEN "switch" ELSE "issue"

\* The buffer is missing or too long, the handle is not valid.
Phy_ReturnsEarly ==
    /\ pc = "lookup"
    /\ Returned(FALSE)
    /\ leftover' = (_ForceNoSwitch = 1)
    /\ UNCHANGED <<settings, currentBank, _ForceNoSwitch, deviceBank, sure>>

Phy_Lookup ==
    /\ pc = "lookup"
    /\ IF ~LooksUp THEN pc' = "issue" /\ UNCHANGED <<call, left>>
       ELSE IF call.bank = Unknown THEN Returned(FALSE)
       ELSE IF Synchronizes THEN pc' = "sync" /\ UNCHANGED <<call, left>>
       ELSE ToBank(currentBank) /\ UNCHANGED <<call, left>>
    /\ UNCHANGED <<settings, currentBank, _ForceNoSwitch, deviceBank, sure, leftover>>

Phy_Synchronize ==
    /\ pc = "sync"
    /\ ST_BankSynchronize
    /\ ToBank(currentBank')
    /\ UNCHANGED <<call, left, settings, _ForceNoSwitch, deviceBank, leftover>>

Phy_Switch ==
    /\ pc = "switch"
    /\ \/ /\ ST_BankSwitch(call.bank, TRUE) /\ currentBank' = call.bank
          /\ pc' = "issue" /\ UNCHANGED <<call, left>>
       \/ /\ ST_BankSwitch(call.bank, FALSE) /\ UNCHANGED currentBank
          /\ Returned(FALSE)
    /\ UNCHANGED <<settings, _ForceNoSwitch, leftover>>

\* Mutant: the flag outlives the command it was set for.
Phy_IssueKeepsFlag ==
    /\ pc = "issue"
    /\ UNCHANGED <<_ForceNoSwitch, leftover>>
    /\ \E passed \in BOOLEAN : Returned(passed)
    /\ UNCHANGED <<settings, currentBank, deviceBank, sure>>

\* Its two tries, or its return for a lost handle: either way the flag is spent.
Phy_Issue ==
    /\ pc = "issue"
    /\ _ForceNoSwitch' = 0 /\ leftover' = FALSE
    /\ \E passed \in BOOLEAN : Returned(passed)
    /\ UNCHANGED <<settings, currentBank, deviceBank, sure>>

\* A command that goes to the driver without NT_CustomCmd_Phy: no bank is looked
\* up, the flag is not spent, and a status of the device sends it again.
RawIssue ==
    /\ pc = "raw"
    /\ \/ left > 1 /\ left' = left - 1 /\ UNCHANGED pc
       \/ pc' = "idle" /\ left' = 0
    /\ leftover' = (_ForceNoSwitch = 1)
    /\ UNCHANGED <<call, settings, currentBank, _ForceNoSwitch, deviceBank, sure>>

\* External: the controller starts anew, with bank 0.
ControllerRestarts ==
    /\ deviceBank' = 0 /\ sure' = FALSE
    /\ UNCHANGED <<pc, call, left, settings, currentBank, _ForceNoSwitch, leftover>>

Next ==
    \/ SetAlwasySync \/ BankInit \/ Begin
    \/ Phy_ReturnsEarly \/ Phy_Lookup \/ Phy_Synchronize \/ Phy_Switch \/ Phy_Issue
    \/ RawIssue \/ ControllerRestarts

Spec == Init /\ [][Next]_bankVars

\* A flash command of the sorting code finds its own code on the controller:
\* it is sent only while the common part or the bank the controller holds has
\* it, whatever commands, forced, retried or failed, came before.  That is
\* promised while the controller has kept its bank since the last switch or
\* synchronization (a failed switch may have moved it), and not to a command
\* that finds the one-shot flag of a call that ended before it sent anything.
RunsInItsBank ==
    pc = "issue" /\ isFWBank /\ call.f6 /\ sure /\ ~leftover
        => call.bank \in {deviceBank, Common}

=============================================================================
