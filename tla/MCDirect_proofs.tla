--------------------------- MODULE MCDirect_proofs ---------------------------
(***************************************************************************)
(* Proofs about the direct erase (SqlErase), the direct read (PageRead)    *)
(* and the link with banks (BankLink), each for its own specification and  *)
(* every value of its constants: any number of chips, polls, frames and    *)
(* tries, and any table of banks.  MCDirect runs the three.                *)
(***************************************************************************)
EXTENDS MCDirect, TLAPS

-----------------------------------------------------------------------------
(* The erase.                                                              *)

Waiting == {"poll", "wait", "reset", "repoll", "rewait"}

EraseTypes ==
    /\ maker \in Maker
    /\ bWaitRDY \in {0, 1, 8}
    /\ table \in BOOLEAN /\ bootMode \in BOOLEAN /\ slc \in BOOLEAN
    /\ pc \in {"idle", "command", "report"} \cup Waiting
    /\ ce \in CE
    /\ bChipEnable \in CE \cup {FlhNumber}
    /\ ret \in {0, 1}
    /\ timeout \in Nat
    /\ block \in [CE -> Status]
    /\ status \in [CE -> Status]
    /\ mode \in [CE -> Mode]

\* The chip has ended its erase, and after a poll its saved status says how.
Ended(c) ==
    /\ block[c] \in Ready
    /\ bWaitRDY = 0 => status[c] = block[c]

\* The chip has ended its reset, too, and left FW SLC mode by it.
Settled(c) ==
    /\ Ended(c)
    /\ mode[c] # "resetting"
    /\ Erase.resets => mode[c] = "normal"

\* What is known of the chip that is being reset.
Resetting(c) ==
    /\ Ended(c)
    /\ pc = "reset" => mode[c] # "resetting"
    /\ pc \in {"repoll", "rewait"} => mode[c] \in {"resetting", "normal"}

\* The chips a broadcast has waited for, or the one chip of a command that
\* passed, have settled unless they lapsed.
EraseInv ==
    /\ EraseTypes
    /\ pc # "idle" /\ bChipEnable \in CE => ce = bChipEnable
    /\ pc \in {"poll", "repoll"} => bWaitRDY = 0
    /\ pc \in {"wait", "rewait"} => Broadcast /\ bWaitRDY # 0 /\ Erase.waits
    /\ pc = "reset" => bWaitRDY = 0 \/ (Broadcast /\ Erase.waits)
    /\ pc \in {"reset", "repoll", "rewait"} => Erase.resets
    /\ pc \in {"reset", "repoll", "rewait"} /\ ce \notin lapsed => Resetting(ce)
    /\ pc \in Waiting /\ Broadcast => \A c \in CE \ lapsed : c < ce => Settled(c)
    /\ pc = "report" /\ Broadcast /\ bWaitRDY \in {0, 1} =>
          \A c \in CE \ lapsed : Settled(c)
    /\ pc = "report" /\ ~Broadcast /\ ret = 0 /\ bWaitRDY \in {0, 1} /\ ce \notin lapsed =>
          Settled(ce)

LEMMA Chips == 0 \in CE /\ CE \subseteq Nat /\ FlhNumber \notin CE
BY EraseAssumption DEF CE

LEMMA EraseIs ==
    ASSUME EraseTypes
    PROVE  /\ Erase \in [fwSlc : BOOLEAN, resets : BOOLEAN, waits : BOOLEAN]
           /\ bWaitRDY = 1 => Erase.waits
<1>1. CASE table
    BY <1>1 DEF Erase, SQLErase, EraseTypes
<1>2. CASE ~table /\ maker = "Hynix"
    BY <1>2 DEF Erase, HynixErase, EraseTypes
<1>3. CASE ~table /\ maker = "TSB"
    <2>1. Erase = TSBErase
        BY <1>3 DEF Erase
    <2>2. CASE bWaitRDY = 0
        BY <2>1, <2>2 DEF TSBErase
    <2>3. CASE bWaitRDY # 0
        BY <2>1, <2>3 DEF TSBErase
    <2> QED
        BY <2>2, <2>3
<1>4. CASE ~table /\ maker = "Micron"
    BY <1>4 DEF Erase, MicronErase, EraseTypes
<1>5. CASE ~table /\ maker = "YMTC"
    BY <1>5 DEF Erase, YMTCErase, EraseTypes
<1> QED
    BY <1>1, <1>2, <1>3, <1>4, <1>5 DEF EraseTypes, Maker

\* While an erase runs nothing changes what is asked of it.
LEMMA SameErase ==
    ASSUME UNCHANGED <<settings, args>>
    PROVE  /\ Erase' = Erase /\ (Broadcast <=> Broadcast') /\ Waits' = Waits
           /\ UNCHANGED <<maker, bWaitRDY, table, bootMode, bChipEnable, slc>>
BY DEF Erase, SQLErase, HynixErase, TSBErase, MicronErase, YMTCErase, Broadcast, Waits,
       settings, args

LEMMA WaitsIs ==
    ASSUME EraseTypes
    PROVE  \/ Waits = "poll" /\ bWaitRDY = 0
           \/ Waits = "wait" /\ bWaitRDY # 0 /\ Erase.waits
           \/ Waits = "report" /\ bWaitRDY = 8
<1>1. bWaitRDY \in {0, 1, 8} /\ Erase.waits \in BOOLEAN /\ (bWaitRDY = 1 => Erase.waits)
    BY EraseIs DEF EraseTypes
<1>2. CASE bWaitRDY = 0
    BY <1>2 DEF Waits
<1>3. CASE bWaitRDY # 0 /\ Erase.waits
    BY <1>3 DEF Waits
<1>4. CASE bWaitRDY # 0 /\ ~Erase.waits
    BY <1>1, <1>4 DEF Waits
<1> QED
    BY <1>1, <1>2, <1>3, <1>4

LEMMA EraseInit == Init => EraseInv
BY Chips DEF Init, EraseInv, EraseTypes, Status, Ready, Waiting, Mode, Maker

LEMMA SettingsStep ==
    ASSUME EraseInv, SetParameter \/ GetParameter \/ SetBootMode
    PROVE  EraseInv'
<1>1. pc' = "idle" /\ EraseTypes'
    BY DEF EraseInv, EraseTypes, SetParameter, GetParameter, SetBootMode, args
<1> QED
    BY <1>1 DEF EraseInv, Waiting

LEMMA StartStep ==
    ASSUME EraseInv, Start
    PROVE  EraseInv'
<1>1. pc' = "command" /\ EraseTypes' /\ (bChipEnable' \in CE => ce' = bChipEnable')
    BY Chips DEF EraseInv, EraseTypes, Start, settings
<1> QED
    BY <1>1 DEF EraseInv, Waiting

\* A broadcast that begins to wait has no chip behind it.
LEMMA WaitStartStep ==
    ASSUME EraseTypes, EraseTypes', Broadcast, WaitStart, UNCHANGED <<settings, args>>
    PROVE  EraseInv'
<1>1. Broadcast' /\ Erase' = Erase /\ bWaitRDY' = bWaitRDY /\ bChipEnable' \notin CE
    BY SameErase, Chips DEF Broadcast
<1>2. ce' = 0 /\ \A c \in CE : ~(c < 0)
    BY DEF WaitStart, CE
<1>3. \/ pc' = "poll" /\ bWaitRDY = 0
      \/ pc' = "wait" /\ bWaitRDY # 0 /\ Erase.waits
      \/ pc' = "report" /\ bWaitRDY = 8
    BY WaitsIs DEF WaitStart
<1> QED
    BY <1>1, <1>2, <1>3 DEF EraseInv

LEMMA CommandStep ==
    ASSUME EraseInv, Command
    PROVE  EraseInv'
<1>0. EraseTypes /\ UNCHANGED <<settings, args>> /\ pc = "command"
      /\ UNCHANGED <<timeout, ret, status>>
    BY DEF Command, EraseInv
<1>1. PICK b \in Erased : block' = [block EXCEPT ![ce] = b]
    BY DEF Command
<1>2. mode' = [mode EXCEPT ![ce] = Entered] /\ Entered \in Mode
    BY <1>0 DEF Command, Entered, EraseTypes, Mode
<1>3. b \in Status /\ (WithCommand => b \in Ready)
    BY DEF Erased, Ready, Status
<1>4. ce' \in CE /\ pc' \in {"command", "report"} \cup Waiting
    BY <1>0, Chips, WaitsIs DEF Command, AfterCommand, WaitStart, EraseTypes, Waiting
<1>5. EraseTypes'
    BY <1>0, <1>1, <1>2, <1>3, <1>4, SameErase DEF EraseTypes
<1>6. CASE Broadcast
    <2>1. CASE ce + 1 \in CE
        <3>1. pc' = "command" /\ Broadcast' /\ bChipEnable' \notin CE
            BY <1>0, <1>6, <2>1, SameErase, Chips DEF Command, AfterCommand, Broadcast
        <3> QED
            BY <1>5, <3>1 DEF EraseInv, Waiting
    <2>2. CASE ce + 1 \notin CE
        BY <1>0, <1>5, <1>6, <2>2, WaitStartStep DEF Command, AfterCommand
    <2> QED
        BY <2>1, <2>2
<1>7. CASE ~Broadcast
    <2>1. ce' = ce /\ ~Broadcast' /\ pc' = (IF bWaitRDY = 0 THEN "poll" ELSE "report")
          /\ bWaitRDY' = bWaitRDY /\ Erase' = Erase /\ bChipEnable' = bChipEnable
        BY <1>0, <1>7, SameErase DEF Command, AfterCommand
    <2>2. ASSUME bWaitRDY = 1, ce \notin lapsed'
          PROVE  Settled(ce)'
        <3>1. ~Busy(ce)
            BY <2>2 DEF Command
        <3>2. WithCommand
            BY <1>7, <2>2 DEF WithCommand
        <3>3. block'[ce] \in Ready /\ mode'[ce] = Entered
            BY <1>0, <1>1, <1>2, <1>3, <3>2 DEF EraseTypes
        <3>4. Entered # "resetting" /\ (Erase.resets => Entered = "normal")
            BY <3>1, <3>2 DEF Entered, Busy
        <3> QED
            BY <2>1, <2>2, <3>3, <3>4 DEF Settled, Ended
    <2>3. pc # "idle" /\ (bChipEnable \in CE => ce = bChipEnable)
        BY <1>0 DEF EraseInv
    <2> QED
        BY <1>5, <2>1, <2>2, <2>3 DEF EraseInv, Waiting
<1> QED
    BY <1>6, <1>7

LEMMA CommandFailsStep ==
    ASSUME EraseInv, CommandFails
    PROVE  EraseInv'
<1>0. EraseTypes /\ UNCHANGED <<settings, args>> /\ pc = "command" /\ ret' = 1
      /\ UNCHANGED <<timeout, status>>
    BY DEF CommandFails, EraseInv
<1>1. block' \in [CE -> Status] /\ mode' \in [CE -> Mode]
    <2>1. ASSUME NEW m \in Mode, mode' = [mode EXCEPT ![ce] = m]
          PROVE  mode' \in [CE -> Mode]
        BY <1>0, <2>1 DEF EraseTypes
    <2>2. mode' = mode \/ \E m \in Mode : mode' = [mode EXCEPT ![ce] = m]
        BY <1>0 DEF CommandFails, EraseTypes, Mode
    <2>3. block' \in [CE -> Status]
        BY <1>0 DEF CommandFails, EraseTypes, Status
    <2> QED
        BY <1>0, <2>1, <2>2, <2>3 DEF EraseTypes
<1>2. ce' \in CE /\ pc' \in {"report"} \cup Waiting
    BY <1>0, Chips, WaitsIs DEF CommandFails, WaitStart, EraseTypes, Waiting
<1>3. EraseTypes'
    BY <1>0, <1>1, <1>2, SameErase DEF EraseTypes
<1>4. CASE Broadcast
    BY <1>0, <1>3, <1>4, WaitStartStep DEF CommandFails
<1>5. CASE ~Broadcast
    <2>1. ce' = ce /\ ~Broadcast' /\ pc' = "report" /\ bChipEnable' = bChipEnable
        BY <1>0, <1>5, SameErase DEF CommandFails
    <2> QED
        BY <1>0, <1>3, <2>1 DEF EraseInv, Waiting
<1> QED
    BY <1>4, <1>5

\* The next chip, or the report: the chips before it, and this one, have settled.
LEMMA AfterChipStep ==
    ASSUME EraseInv, pc \in Waiting, AfterChip, EraseTypes',
           UNCHANGED <<settings, args>>, lapsed \subseteq lapsed',
           \A c \in CE : c # ce =>
              block'[c] = block[c] /\ status'[c] = status[c] /\ mode'[c] = mode[c],
           \A c \in CE \ lapsed' : c = ce => Settled(c)'
    PROVE  EraseInv'
<1>0. /\ Erase' = Erase /\ bWaitRDY' = bWaitRDY /\ bChipEnable' = bChipEnable
      /\ (Broadcast <=> Broadcast') /\ EraseTypes /\ ce \in CE
    BY SameErase DEF EraseInv, EraseTypes
<1>1. CASE Broadcast
    <2>1. bChipEnable \notin CE
        BY <1>1, Chips DEF Broadcast
    <2>2. \A c \in CE \ lapsed' : c < ce => Settled(c)'
        BY <1>0, <1>1, Chips DEF EraseInv, Settled, Ended
    <2>3. \A c \in CE \ lapsed' : c <= ce => Settled(c)'
        BY <1>0, <2>2, Chips
    <2>4. CASE ce + 1 \in CE
        <3>1. ce' = ce + 1 /\ pc' = Waits
            BY <1>1, <2>4 DEF AfterChip
        <3>2. \A c \in CE \ lapsed' : c < ce' => Settled(c)'
            BY <1>0, <2>3, <3>1, Chips
        <3>3. \/ pc' = "poll" /\ bWaitRDY = 0
              \/ pc' = "wait" /\ bWaitRDY # 0 /\ Erase.waits
              \/ pc' = "report" /\ bWaitRDY = 8
            BY <1>0, <3>1, WaitsIs
        <3> QED
            BY <1>0, <1>1, <2>1, <3>2, <3>3 DEF EraseInv
    <2>5. CASE ce + 1 \notin CE
        <3>1. ce' = ce /\ pc' = "report"
            BY <2>5 DEF AfterChip
        <3>2. \A c \in CE : c <= ce
            BY <1>0, <2>5, EraseAssumption DEF CE
        <3>3. \A c \in CE \ lapsed' : Settled(c)'
            BY <2>3, <3>2
        <3> QED
            BY <1>0, <1>1, <2>1, <3>1, <3>3 DEF EraseInv, Waiting
    <2> QED
        BY <2>4, <2>5
<1>2. CASE ~Broadcast
    <2>1. ce' = ce /\ pc' = "report"
        BY <1>2 DEF AfterChip
    <2>2. bChipEnable \in CE => ce = bChipEnable
        BY DEF EraseInv, Waiting
    <2> QED
        BY <1>0, <1>2, <2>1, <2>2 DEF EraseInv, Waiting
<1> QED
    BY <1>1, <1>2

\* The chip that was waited for is reset, or has settled.
LEMMA AfterWaitStep ==
    ASSUME EraseInv, pc \in {"poll", "wait", "repoll", "rewait"}, AfterWait, EraseTypes',
           UNCHANGED <<settings, args>>, lapsed \subseteq lapsed',
           \A c \in CE : c # ce =>
              block'[c] = block[c] /\ status'[c] = status[c] /\ mode'[c] = mode[c],
           \A c \in CE \ lapsed' : c = ce => Ended(c)' /\ mode'[c] # "resetting",
           ce \notin lapsed' /\ pc \in {"repoll", "rewait"} => mode'[ce] = "normal"
    PROVE  EraseInv'
<1>0. /\ Erase' = Erase /\ bWaitRDY' = bWaitRDY /\ bChipEnable' = bChipEnable
      /\ (Broadcast <=> Broadcast') /\ EraseTypes /\ ce \in CE /\ pc \in Waiting
    BY SameErase DEF EraseInv, EraseTypes, Waiting
<1>1. CASE pc \in {"poll", "wait"} /\ Erase.resets
    <2>1. ce' = ce /\ pc' = "reset"
        BY <1>1 DEF AfterWait
    <2>2. (ce \notin lapsed => Resetting(ce))'
        BY <1>0, <2>1 DEF Resetting
    <2>3. Broadcast => \A c \in CE \ lapsed' : c < ce => Settled(c)'
        BY <1>0, Chips DEF EraseInv, Settled, Ended
    <2>4. bWaitRDY = 0 \/ (Broadcast /\ Erase.waits)
        BY <1>1 DEF EraseInv
    <2>5. bChipEnable \in CE => ce = bChipEnable
        BY <1>1 DEF EraseInv
    <2> QED
        BY <1>0, <1>1, <2>1, <2>2, <2>3, <2>4, <2>5 DEF EraseInv
<1>2. CASE ~(pc \in {"poll", "wait"} /\ Erase.resets)
    <2>1. AfterChip
        BY <1>2 DEF AfterWait
    <2>2. \A c \in CE \ lapsed' : c = ce => Settled(c)'
        BY <1>0, <1>2 DEF Settled
    <2> QED
        BY <1>0, <2>1, <2>2, AfterChipStep
<1> QED
    BY <1>1, <1>2

LEMMA PollStep ==
    ASSUME EraseInv, NEW fails \in BOOLEAN, Poll(fails)
    PROVE  EraseInv'
<1>0. /\ EraseTypes /\ pc \in {"poll", "repoll"} /\ bWaitRDY = 0 /\ ce \in CE
      /\ UNCHANGED <<settings, args, ret, block, mode>>
    BY DEF Poll, EraseInv, EraseTypes
<1>1. PICK s \in GetStatus(fails) :
          /\ status' = Saved(s)
          /\ lapsed' = IF fails \/ GaveUp(s) THEN lapsed \cup {ce} ELSE lapsed
          /\ IF s \in Ready \/ GaveUp(s)
             THEN AfterWait /\ timeout' = 0
             ELSE timeout' = timeout + 1 /\ UNCHANGED <<ce, pc>>
    BY DEF Poll
<1>2. s \in Status /\ (fails \/ s = IF Busy(ce) THEN "busy" ELSE block[ce])
    BY <1>0 DEF GetStatus, EraseTypes, Status
<1>3. /\ status' \in [CE -> Status]
      /\ pc = "poll" => status'[ce] = s
      /\ pc = "repoll" => status' = status
      /\ \A c \in CE : c # ce => status'[c] = status[c]
    BY <1>0, <1>1, <1>2 DEF Saved, EraseTypes
<1>4. ce' \in CE /\ pc' \in {"report"} \cup Waiting /\ timeout' \in Nat
    BY <1>0, <1>1, WaitsIs DEF AfterWait, AfterChip, EraseTypes, Waiting
<1>5. EraseTypes'
    BY <1>0, <1>3, <1>4, SameErase DEF EraseTypes
<1>6. lapsed \subseteq lapsed'
    BY <1>1
<1>7. CASE s \in Ready \/ GaveUp(s)
    <2>1. ASSUME ce \notin lapsed', NEW c \in CE, c = ce
          PROVE  /\ Ended(c)' /\ mode'[c] # "resetting"
                 /\ pc = "repoll" => mode'[c] = "normal"
        <3>1. ~fails /\ s \in Ready /\ ce \notin lapsed
            BY <1>1, <1>7, <2>1
        <3>2. ~Busy(ce) /\ s = block[ce]
            BY <1>2, <3>1 DEF Ready
        <3>3. pc = "repoll" => Resetting(ce)
            BY <3>1 DEF EraseInv
        <3>4. pc = "repoll" => status[ce] = block[ce] /\ mode[ce] = "normal"
            BY <1>0, <3>2, <3>3 DEF Resetting, Ended, Busy
        <3>5. Ended(c)'
            BY <1>0, <1>3, <2>1, <3>1, <3>2, <3>4 DEF Ended
        <3> QED
            BY <1>0, <2>1, <3>2, <3>4, <3>5 DEF Busy
    <2> QED
        BY <1>0, <1>1, <1>3, <1>5, <1>6, <1>7, <2>1, AfterWaitStep
<1>8. CASE ~(s \in Ready \/ GaveUp(s))
    <2>1. UNCHANGED <<ce, pc>> /\ (Broadcast <=> Broadcast') /\ Erase' = Erase
          /\ bWaitRDY' = bWaitRDY /\ bChipEnable' = bChipEnable
        BY <1>0, <1>1, <1>8, SameErase
    <2>2. \A c \in CE \ lapsed' : c < ce /\ Settled(c) => Settled(c)'
        BY <1>0, <1>3, <1>6, <2>1, Chips DEF Settled, Ended
    <2>3. pc = "repoll" /\ ce \notin lapsed' /\ Resetting(ce) => Resetting(ce)'
        BY <1>0, <1>3, <2>1 DEF Resetting, Ended
    <2> QED
        BY <1>0, <1>5, <1>6, <2>1, <2>2, <2>3 DEF EraseInv
<1> QED
    BY <1>7, <1>8

LEMMA EndsIs ==
    ASSUME EraseTypes, NEW c \in CE, Ends(c)
    PROVE  /\ block' \in [CE -> Status] /\ mode' \in [CE -> Mode]
           /\ block'[c] \in Ready /\ (block[c] \in Ready => block'[c] = block[c])
           /\ mode'[c] # "resetting" /\ (mode[c] # "resetting" => mode'[c] = mode[c])
           /\ mode[c] = "resetting" => mode'[c] = "normal"
           /\ \A d \in CE : d # c => block'[d] = block[d] /\ mode'[d] = mode[d]
<1>1. /\ block' \in [CE -> Status] /\ block'[c] \in Ready
      /\ block[c] \in Ready => block'[c] = block[c]
      /\ \A d \in CE : d # c => block'[d] = block[d]
    BY DEF Ends, EraseTypes, Status, Ready
<1>2. PICK m \in Mode : /\ mode' = [mode EXCEPT ![c] = m]
                       /\ m = IF mode[c] = "resetting" THEN "normal" ELSE mode[c]
    BY DEF Ends, EraseTypes, Mode
<1>3. mode' \in [CE -> Mode] /\ mode'[c] = m /\ \A d \in CE : d # c => mode'[d] = mode[d]
    BY <1>2 DEF EraseTypes
<1> QED
    BY <1>1, <1>2, <1>3

LEMMA WaitStep ==
    ASSUME EraseInv, Wait \/ WaitFails
    PROVE  EraseInv'
<1>0. /\ EraseTypes /\ pc \in {"wait", "rewait"} /\ bWaitRDY # 0 /\ ce \in CE /\ AfterWait
      /\ UNCHANGED <<settings, args, timeout, ret, status>> /\ lapsed \subseteq lapsed'
    BY DEF Wait, WaitFails, EraseInv, EraseTypes
<1>1. /\ block' \in [CE -> Status] /\ mode' \in [CE -> Mode]
      /\ \A c \in CE : c # ce => block'[c] = block[c] /\ mode'[c] = mode[c]
    BY <1>0, EndsIs DEF Wait, WaitFails, EraseTypes
<1>2. ce' \in CE /\ pc' \in {"report"} \cup Waiting
    BY <1>0, WaitsIs DEF AfterWait, AfterChip, EraseTypes, Waiting
<1>3. EraseTypes'
    BY <1>0, <1>1, <1>2, SameErase DEF EraseTypes
<1>4. ASSUME ce \notin lapsed', NEW c \in CE, c = ce
      PROVE  /\ Ended(c)' /\ mode'[c] # "resetting"
             /\ pc = "rewait" => mode'[c] = "normal"
    <2>1. Wait /\ ce \notin lapsed
        BY <1>4 DEF WaitFails, Wait
    <2>2. /\ block'[ce] \in Ready /\ mode'[ce] # "resetting"
          /\ mode[ce] # "resetting" => mode'[ce] = mode[ce]
          /\ mode[ce] = "resetting" => mode'[ce] = "normal"
        BY <1>0, <2>1, EndsIs DEF Wait
    <2>3. bWaitRDY' # 0
        BY <1>0, SameErase
    <2>4. pc = "rewait" => mode[ce] \in {"resetting", "normal"}
        BY <2>1 DEF EraseInv, Resetting
    <2> QED
        BY <1>4, <2>2, <2>3, <2>4 DEF Ended
<1> QED
    BY <1>0, <1>1, <1>3, <1>4, AfterWaitStep

LEMMA FlashResetStep ==
    ASSUME EraseInv, FlashReset \/ FlashResetFails
    PROVE  EraseInv'
<1>0. /\ EraseTypes /\ pc = "reset" /\ ce' = ce /\ ce \in CE
      /\ pc' = (IF bWaitRDY = 0 THEN "repoll" ELSE "rewait")
      /\ UNCHANGED <<settings, args, timeout, ret, status>> /\ lapsed \subseteq lapsed'
    BY DEF FlashReset, FlashResetFails, EraseInv, EraseTypes
<1>1. /\ Erase' = Erase /\ bWaitRDY' = bWaitRDY /\ bChipEnable' = bChipEnable
      /\ (Broadcast <=> Broadcast')
    BY <1>0, SameErase
<1>2. /\ block' \in [CE -> Status] /\ mode' \in [CE -> Mode]
      /\ \A c \in CE : c # ce => block'[c] = block[c] /\ mode'[c] = mode[c]
      /\ block[ce] \in Ready => block'[ce] = block[ce]
      /\ ce \notin lapsed' => mode'[ce] = "resetting"
    BY <1>0 DEF FlashReset, FlashResetFails, EraseTypes, Status, Ready, Mode
<1>3. EraseTypes'
    BY <1>0, <1>2, SameErase DEF EraseTypes, Waiting
<1>4. ce \notin lapsed' => Resetting(ce)'
    BY <1>0, <1>1, <1>2 DEF EraseInv, Resetting, Ended
<1>5. Broadcast => \A c \in CE \ lapsed' : c < ce => Settled(c)'
    BY <1>0, <1>1, <1>2, Chips DEF EraseInv, Settled, Ended, Waiting
<1>6. /\ bChipEnable \in CE => ce = bChipEnable
      /\ Erase.resets /\ (bWaitRDY = 0 \/ (Broadcast /\ Erase.waits))
    BY <1>0 DEF EraseInv
<1> QED
    BY <1>0, <1>1, <1>3, <1>4, <1>5, <1>6 DEF EraseInv

LEMMA ReportStep ==
    ASSUME EraseInv, Report
    PROVE  EraseInv'
<1>1. pc' = "idle" /\ EraseTypes'
    BY Chips DEF EraseInv, EraseTypes, Report, settings
<1> QED
    BY <1>1 DEF EraseInv, Waiting

\* A chip that ends later had not settled.
LEMMA FinishStep ==
    ASSUME EraseInv, NEW f \in CE, Finish(f)
    PROVE  EraseInv'
<1>0. /\ EraseTypes /\ Ends(f) /\ UNCHANGED <<settings, args>>
      /\ UNCHANGED <<pc, ce, timeout, ret, status, lapsed>>
    BY DEF Finish, EraseInv
<1>1. /\ Erase' = Erase /\ bWaitRDY' = bWaitRDY /\ bChipEnable' = bChipEnable
      /\ (Broadcast <=> Broadcast')
    BY <1>0, SameErase
<1>2. /\ block' \in [CE -> Status] /\ mode' \in [CE -> Mode]
      /\ \A c \in CE : block[c] \in Ready => block'[c] = block[c]
      /\ \A c \in CE : mode[c] # "resetting" => mode'[c] = mode[c]
      /\ \A c \in CE : mode[c] = "resetting" => mode'[c] \in {"resetting", "normal"}
    BY <1>0, EndsIs
<1>3. EraseTypes'
    BY <1>0, <1>2, SameErase DEF EraseTypes
<1>4. \A c \in CE : Settled(c) => Settled(c)'
    BY <1>0, <1>1, <1>2 DEF Settled, Ended
<1>5. \A c \in CE : Resetting(c) => Resetting(c)'
    BY <1>0, <1>1, <1>2 DEF Resetting, Ended
<1> QED
    BY <1>0, <1>1, <1>3, <1>4, <1>5 DEF EraseInv, EraseTypes

LEMMA EraseStep == EraseInv /\ [Next]_vars => EraseInv'
<1> SUFFICES ASSUME EraseInv, [Next]_vars
             PROVE  EraseInv'
    OBVIOUS
<1>1. CASE Next
    BY <1>1, SettingsStep, StartStep, CommandStep, CommandFailsStep, PollStep, WaitStep,
       FlashResetStep, ReportStep, FinishStep DEF Next, Erasing
<1>2. CASE UNCHANGED vars
    <2>1. Erase' = Erase /\ (Broadcast <=> Broadcast') /\ UNCHANGED <<settings, args>>
        BY <1>2, SameErase DEF vars
    <2> QED
        BY <1>2, <2>1 DEF vars, settings, args, EraseInv, EraseTypes, Settled, Ended, Resetting
<1> QED
    BY <1>1, <1>2

\* An erase that polls returns failure exactly if the block of its chip did not
\* erase, and the fail bits after a broadcast are those of the blocks that did not.
THEOREM EraseFailureReported == Spec => FailureReported
<1> DEFINE Reported ==
        Report /\ bWaitRDY = 0 =>
            /\ bChipEnable \in CE \ lapsed /\ checks =>
                  (result' # 0 <=> ret # 0 \/ block[bChipEnable] = "failed")
            /\ Broadcast => \A c \in CE \ lapsed : c \in FailedChips <=> block[c] = "failed"
<1>1. EraseInv => Reported
    <2> SUFFICES ASSUME EraseInv, Report, bWaitRDY = 0
                 PROVE  Reported
        OBVIOUS
    <2>1. ASSUME bChipEnable \in CE \ lapsed, checks
          PROVE  result' # 0 <=> ret # 0 \/ block[bChipEnable] = "failed"
        <3>1. ce = bChipEnable /\ ~Broadcast
            BY <2>1, Chips DEF EraseInv, Report, Broadcast
        <3>2. ret = 0 => status[bChipEnable] = block[bChipEnable]
            BY <2>1, <3>1 DEF EraseInv, Report, Settled, Ended
        <3>3. ret = 0 => result' = IF status[bChipEnable] = "failed" THEN 1 ELSE 0
            BY <2>1 DEF Report, Seen
        <3>4. ret # 0 => result' = ret
            BY DEF Report
        <3> QED
            BY <3>2, <3>3, <3>4
    <2>2. ASSUME Broadcast, NEW c \in CE \ lapsed
          PROVE  c \in FailedChips <=> block[c] = "failed"
        BY <2>2 DEF EraseInv, Report, Settled, Ended, FailedChips, Ready
    <2> QED
        BY <2>1, <2>2
<1>2. EraseInv /\ [Next]_vars => [Reported]_vars
    BY <1>1
<1> QED
    BY <1>2, EraseInit, EraseStep, PTL DEF Spec, FailureReported

\* When an erase that waits or polls returns, its chips have ended, also those
\* that a broadcast had commanded before it failed at another, and an SLC erase
\* in boot mode has left no chip in FW SLC mode.
THEOREM EraseSettledAtReturn == Spec => SettledAtReturn
<1> DEFINE Back ==
        Report /\ bWaitRDY \in {0, 1} /\ (Broadcast \/ ret = 0) =>
            \A c \in Targets \ lapsed :
               ~Busy(c) /\ (Erase.resets => mode[c] = "normal")
<1>1. EraseInv => Back
    BY DEF EraseInv, Report, Targets, Settled, Ended, Ready, Busy
<1>2. EraseInv /\ [Next]_vars => [Back]_vars
    BY <1>1
<1> QED
    BY <1>2, EraseInit, EraseStep, PTL DEF Spec, SettledAtReturn

-----------------------------------------------------------------------------
(* The read.                                                               *)

ReadTypes ==
    /\ call.retryRead \in BOOLEAN /\ call.what \in {"data", "counts", "raw"}
    /\ call.by \in {"page", "page a2", "block"}
    /\ Loop \in Nat
    /\ readPc \in {"idle", "try", "read", "count", "leave",
                  "page", "read counts", "raw", "dump", "raw leave"}
    /\ readPc \in {"raw", "dump", "raw leave"} => call.what = "raw"
    /\ readPc \in {"page", "read counts"} => call.what = "counts"
    /\ readPc \in {"read", "count"} => call.what = "data"
    /\ readPc \in {"try", "leave"} => call.what # "raw"
    /\ readPc \in {"try", "leave", "read counts"} /\ call.what = "counts" => call.retryRead
    /\ readPc = "count" => call.retryRead
    /\ onDevice \subseteq Frame /\ tmpbuf \subseteq Frame /\ eccbuf \subseteq Frame

\* Unless a SetRetryValue failed the levels are the default: before the loop,
\* after it, in its first try, and for a read without retry; before and after
\* the loop of each page.
LevelsInv ==
    ~unset =>
        /\ readPc \in {"idle", "page", "raw"} => shift = 0
        /\ readPc \in {"try", "read", "read counts", "count", "leave"} =>
              (Loop = 0 \/ ~call.retryRead => shift = 0)
        /\ readPc \in {"dump", "raw leave"} /\ ~call.retryRead => shift = 0

\* Where a page that was read whole is, until the read returns.  No read
\* follows one that was whole and counted.
WholeInv ==
    whole /\ ~missed =>
        /\ readPc \notin {"raw", "dump", "try", "read"} /\ call.what # "counts"
        /\ readPc = "count" => onDevice = Frame
        /\ readPc = "count" /\ call.by = "page a2" => tmpwbuf = R!Filled("correct")
        /\ readPc = "leave" /\ call.by = "page a2" =>
              IF call.retryRead THEN w_buf = R!Filled("correct")
              ELSE tmpwbuf = R!Filled("correct")
        /\ readPc = "leave" /\ call.by = "block" /\ ~call.retryRead =>
              readPageBuffer = R!Filled("correct")
        /\ readPc = "raw leave" => w_buf = R!Filled("correct")

ReadInv == ReadTypes /\ LevelsInv /\ WholeInv /\ R!WholeReadArrives

LEMMA CallFields ==
    ASSUME NEW c \in R!Call
    PROVE  /\ c.retryRead \in BOOLEAN /\ c.what \in {"data", "counts", "raw"}
           /\ c.by \in {"page", "page a2", "block"}
BY DEF R!Call

LEMMA ReadInit == R!Init => ReadInv
<1> SUFFICES ASSUME R!Init
             PROVE  ReadInv
    OBVIOUS
<1>1. ReadTypes
    BY CallFields DEF R!Init, ReadTypes
<1>2. LevelsInv /\ WholeInv /\ R!WholeReadArrives
    BY DEF R!Init, LevelsInv, WholeInv, R!WholeReadArrives
<1> QED
    BY <1>1, <1>2 DEF ReadInv

LEMMA BeginStep ==
    ASSUME ReadInv, R!Begin
    PROVE  ReadInv'
<1>1. ReadTypes'
    <2>1. /\ call' \in R!Call
          /\ readPc' = CASE call'.what = "data" -> "try" [] call'.what = "counts" -> "page"
                         [] call'.what = "raw" -> "raw"
        BY DEF R!Begin
    <2>2. /\ call'.retryRead \in BOOLEAN /\ call'.what \in {"data", "counts", "raw"}
          /\ call'.by \in {"page", "page a2", "block"}
        BY <2>1, CallFields
    <2>3. Loop' \in Nat /\ onDevice' \subseteq Frame /\ tmpbuf' \subseteq Frame
          /\ eccbuf' \subseteq Frame
        BY DEF R!Begin, ReadInv, ReadTypes
    <2> QED
        BY <2>1, <2>2, <2>3 DEF ReadTypes
<1>2. LevelsInv'
    BY DEF R!Begin, R!Call, LevelsInv, ReadInv
<1>3. WholeInv' /\ R!WholeReadArrives'
    BY DEF R!Begin, WholeInv, R!WholeReadArrives
<1> QED
    BY <1>1, <1>2, <1>3 DEF ReadInv

LEMMA TryStep ==
    ASSUME ReadInv, R!Try
    PROVE  ReadInv'
<1> USE DEF R!Try, R!buffers, R!eccs
<1>1. ReadTypes'
    BY DEF ReadInv, ReadTypes, R!SetRetryValue, R!LevelsSet, R!LevelsNotSet
<1>2. LevelsInv'
    <2> SUFFICES ASSUME ~unset'
                 PROVE  LevelsInv'
        BY DEF LevelsInv
    <2>1. readPc' \in {"read", "read counts"} /\ UNCHANGED <<call, Loop>> /\ readPc = "try"
        OBVIOUS
    <2>2. CASE call.retryRead
        <3>1. shift' = Loop
            BY <2>2 DEF R!SetRetryValue, R!LevelsSet, R!LevelsNotSet
        <3> QED
            BY <2>1, <2>2, <3>1, Zenon DEF LevelsInv
    <2>3. CASE ~call.retryRead
        <3>1. UNCHANGED <<shift, unset>>
            BY <2>3
        <3>2. shift = 0
            BY <2>1, <2>3, <3>1 DEF ReadInv, LevelsInv
        <3> QED
            BY <2>1, <3>1, <3>2 DEF LevelsInv
    <2> QED
        BY <2>2, <2>3
<1>3. WholeInv' /\ R!WholeReadArrives'
    BY DEF ReadInv, WholeInv, R!WholeReadArrives
<1> QED
    BY <1>1, <1>2, <1>3 DEF ReadInv

LEMMA GroupReadStep ==
    ASSUME ReadInv, R!GroupReadData
    PROVE  ReadInv'
<1> USE DEF R!GroupReadData, R!AfterRead
<1>1. ReadTypes'
    BY DEF ReadInv, ReadTypes
<1>2. LevelsInv'
    BY DEF ReadInv, LevelsInv
<1>3. WholeInv'
    <2>1. PICK good \in SUBSET Frame :
             /\ R!ReadInto([f \in Frame |-> IF f \in good THEN "correct" ELSE "wrong"])
             /\ onDevice' = good
             /\ whole' = (good = Frame)
        OBVIOUS
    <2>2. good = Frame
          => [f \in Frame |-> IF f \in good THEN "correct" ELSE "wrong"] = R!Filled("correct")
        BY DEF R!Filled
    <2>3. readPc' \in {"count", "leave"} /\ (readPc' = "count" <=> call.retryRead)
          /\ UNCHANGED <<call, missed>> /\ call.what = "data"
        BY DEF ReadInv, ReadTypes
    <2>4. CASE readPc' = "leave"
        BY <2>1, <2>2, <2>3, <2>4 DEF WholeInv, R!ReadInto, R!Filled
    <2>5. CASE readPc' = "count"
        BY <2>1, <2>2, <2>3, <2>5 DEF WholeInv, R!ReadInto, R!Filled
    <2> QED
        BY <2>3, <2>4, <2>5
<1>4. R!WholeReadArrives'
    BY DEF R!WholeReadArrives
<1> QED
    BY <1>1, <1>2, <1>3, <1>4 DEF ReadInv

LEMMA ReadFailsStep ==
    ASSUME ReadInv, R!ReadFails
    PROVE  ReadInv'
<1> USE DEF R!ReadFails, R!AfterRead, R!buffers, R!eccs
<1>1. ReadTypes'
    BY DEF ReadInv, ReadTypes
<1>2. LevelsInv'
    BY DEF ReadInv, LevelsInv
<1>3. WholeInv' /\ R!WholeReadArrives'
    BY DEF WholeInv, R!WholeReadArrives
<1> QED
    BY <1>1, <1>2, <1>3 DEF ReadInv

\* Counts that were fetched after a whole read end the loop, and the overload
\* that takes a2command then has all frames to copy.
LEMMA CheckEccStep ==
    ASSUME ReadInv, NEW fetched \in BOOLEAN, R!CheckEcc(fetched)
    PROVE  ReadInv'
<1> USE DEF R!CheckEcc, R!Passed, R!PassData
<1>1. ReadTypes'
    <2>1. /\ UNCHANGED <<call, onDevice>> /\ readPc' \in {"leave", "try"}
          /\ readPc = "count" /\ Loop' \in {Loop, Loop + 1}
        OBVIOUS
    <2>2. tmpbuf' \in {onDevice, tmpbuf} /\ eccbuf' = eccbuf \cup tmpbuf'
        OBVIOUS
    <2> HIDE DEF R!CheckEcc
    <2>3. Loop' \in Nat
        <3>1. Loop \in Nat
            BY DEF ReadInv, ReadTypes
        <3> QED
            BY <2>1, <3>1
    <2>4. onDevice' \subseteq Frame /\ tmpbuf' \subseteq Frame /\ eccbuf' \subseteq Frame
        BY <2>1, <2>2 DEF ReadInv, ReadTypes
    <2> QED
        BY <2>1, <2>3, <2>4 DEF ReadInv, ReadTypes
<1>2. LevelsInv'
    <2>1. Loop \in Nat /\ call.retryRead
        BY DEF ReadInv, ReadTypes
    <2>2. readPc' = "try" => Loop' # 0
        BY <2>1
    <2>3. readPc' = "leave" => Loop' = Loop
        OBVIOUS
    <2>4. readPc' \in {"try", "leave"} /\ UNCHANGED <<call, shift, unset>> /\ readPc = "count"
        OBVIOUS
    <2> HIDE DEF R!CheckEcc
    <2> QED
        BY <2>1, <2>2, <2>3, <2>4 DEF LevelsInv, ReadInv
<1>3. WholeInv'
    <2> SUFFICES ASSUME whole', ~missed'
                 PROVE  WholeInv'
        BY DEF WholeInv
    <2>1. whole /\ ~missed /\ fetched /\ UNCHANGED call /\ readPc = "count"
        OBVIOUS
    <2>2. onDevice = Frame /\ call.retryRead /\ call.what = "data"
          /\ (call.by = "page a2" => tmpwbuf = R!Filled("correct"))
        BY <2>1 DEF ReadInv, ReadTypes, WholeInv
    <2>3. eccbuf' = Frame
        BY <2>1, <2>2 DEF ReadInv, ReadTypes
    <2>4. call.by = "page a2" => w_buf' = R!Filled("correct")
        BY <2>2, <2>3 DEF R!Filled
    <2>5. readPc' = "leave"
        BY <2>3
    <2> QED
        BY <2>1, <2>2, <2>4, <2>5 DEF WholeInv
<1>4. R!WholeReadArrives'
    BY DEF R!WholeReadArrives
<1> QED
    BY <1>1, <1>2, <1>3, <1>4 DEF ReadInv

LEMMA OutOfTriesStep ==
    ASSUME ReadInv, R!OutOfTries
    PROVE  ReadInv'
<1> USE DEF R!OutOfTries, R!buffers, R!eccs, R!history
<1>1. ReadTypes'
    BY DEF ReadInv, ReadTypes
<1>2. LevelsInv'
    BY DEF ReadInv, LevelsInv
<1>3. WholeInv' /\ R!WholeReadArrives'
    BY DEF ReadInv, WholeInv, R!WholeReadArrives
<1> QED
    BY <1>1, <1>2, <1>3 DEF ReadInv

LEMMA LeaveStep ==
    ASSUME ReadInv, R!Leave
    PROVE  ReadInv'
<1>1. /\ readPc = "leave" /\ readPc' = "idle" /\ call.what = "data"
      /\ UNCHANGED <<call, Loop, onDevice, tmpbuf, eccbuf, tmpwbuf, readPageBuffer,
                     missed, whole>>
    BY DEF R!Leave, R!eccs, ReadInv, ReadTypes
<1>2. ReadTypes'
    BY <1>1 DEF ReadInv, ReadTypes
<1>3. LevelsInv'
    <2> SUFFICES ASSUME ~unset'
                 PROVE  shift' = 0
        BY <1>1 DEF LevelsInv
    <2>1. CASE call.retryRead /\ R!Restores
        BY <2>1 DEF R!Leave, R!SetRetryValue, R!LevelsSet, R!LevelsNotSet
    <2>2. CASE ~(call.retryRead /\ R!Restores)
        <3>1. UNCHANGED <<shift, unset>>
            BY <2>2 DEF R!Leave
        <3> QED
            BY <1>1, <2>2, <3>1 DEF ReadInv, LevelsInv, R!Restores
    <2> QED
        BY <2>1, <2>2
<1>4. WholeInv'
    BY <1>1 DEF WholeInv
<1>5. R!WholeReadArrives'
    <2> SUFFICES ASSUME whole, ~missed,
                        call.by = "page a2" \/ (call.by = "block" /\ ~call.retryRead)
                 PROVE  w_buf' = R!Filled("correct")
        BY <1>1 DEF R!WholeReadArrives, R!Filled
    <2>1. CASE call.retryRead
        BY <1>1, <2>1 DEF R!Leave, ReadInv, WholeInv
    <2>2. CASE ~call.retryRead /\ call.by = "page a2"
        BY <1>1, <2>2 DEF R!Leave, ReadInv, WholeInv
    <2>3. CASE ~call.retryRead /\ call.by = "block"
        BY <1>1, <2>3 DEF R!Leave, ReadInv, WholeInv
    <2> QED
        BY <2>1, <2>2, <2>3
<1> QED
    BY <1>2, <1>3, <1>4, <1>5 DEF ReadInv

LEMMA PageStep ==
    ASSUME ReadInv, R!SkipPage \/ R!TryPage
    PROVE  ReadInv'
<1>1. /\ readPc = "page" /\ readPc' \in {"page", "try"} /\ call.retryRead
      /\ UNCHANGED <<call, shift, onDevice, tmpbuf, unset, missed, whole>>
      /\ eccbuf' \in {eccbuf, {}}
      /\ (Loop' = Loop /\ readPc' = "page") \/ Loop' = 0
    BY DEF R!SkipPage, R!TryPage, R!buffers, R!eccs, R!history
<1>2. ReadTypes'
    <2>1. Loop \in Nat /\ eccbuf \subseteq Frame /\ call.what = "counts"
        BY <1>1 DEF ReadInv, ReadTypes
    <2>2. Loop' = Loop \/ Loop' = 0
        BY <1>1
    <2>3. Loop' \in Nat
        BY <2>1, <2>2
    <2>4. eccbuf' \subseteq Frame
        <3>1. CASE eccbuf' = eccbuf
            BY <2>1, <3>1
        <3>2. CASE eccbuf' = {}
            BY <3>2
        <3> QED
            BY <1>1, <3>1, <3>2
    <2> QED
        BY <1>1, <2>1, <2>3, <2>4 DEF ReadInv, ReadTypes
<1>3. LevelsInv'
    <2>1. ~unset => shift = 0
        BY <1>1 DEF ReadInv, LevelsInv
    <2> QED
        BY <1>1, <2>1 DEF LevelsInv
<1>4. WholeInv' /\ R!WholeReadArrives'
    BY <1>1 DEF ReadInv, ReadTypes, WholeInv, R!WholeReadArrives
<1> QED
    BY <1>2, <1>3, <1>4 DEF ReadInv

LEMMA GroupReadEccStep ==
    ASSUME ReadInv, R!GroupReadEcc
    PROVE  ReadInv'
<1>1. /\ readPc = "read counts" /\ readPc' \in {"leave", "try"}
      /\ UNCHANGED <<call, shift, unset, missed, whole>>
      /\ onDevice' \subseteq Frame /\ tmpbuf' \subseteq Frame /\ eccbuf' = eccbuf \cup tmpbuf'
    BY DEF R!GroupReadEcc, R!buffers, R!history
<1>2. (readPc' = "leave" /\ Loop' = Loop) \/ (readPc' = "try" /\ Loop' = Loop + 1)
    BY DEF R!GroupReadEcc
<1>3. call.what = "counts" /\ call.retryRead /\ Loop \in Nat /\ eccbuf \subseteq Frame
    BY <1>1 DEF ReadInv, ReadTypes
<1>4. Loop' \in Nat /\ (readPc' = "try" => Loop' # 0)
    BY <1>2, <1>3
<1>5. ReadTypes'
    BY <1>1, <1>3, <1>4 DEF ReadInv, ReadTypes
<1>6. LevelsInv'
    BY <1>1, <1>2, <1>3, <1>4 DEF ReadInv, LevelsInv
<1>7. WholeInv' /\ R!WholeReadArrives'
    BY <1>1, <1>3 DEF ReadInv, WholeInv, R!WholeReadArrives
<1> QED
    BY <1>5, <1>6, <1>7 DEF ReadInv

LEMMA RestoreStep ==
    ASSUME ReadInv, R!RestoreAfterPage
    PROVE  ReadInv'
<1>1. /\ readPc = "leave" /\ readPc' = "page" /\ call.what = "counts"
      /\ UNCHANGED <<call, Loop, onDevice, tmpbuf, eccbuf, missed, whole>>
    BY DEF R!RestoreAfterPage, R!eccs, R!buffers
<1>2. ReadTypes'
    BY <1>1 DEF ReadInv, ReadTypes
<1>3. ~unset' => shift' = 0
    <2>1. CASE R!Restores
        BY <2>1 DEF R!RestoreAfterPage, R!SetRetryValue, R!LevelsSet, R!LevelsNotSet
    <2>2. CASE ~R!Restores
        BY <1>1, <2>2 DEF R!RestoreAfterPage, R!Restores, ReadInv, LevelsInv
    <2> QED
        BY <2>1, <2>2
<1>4. LevelsInv'
    BY <1>1, <1>3 DEF LevelsInv
<1>5. WholeInv' /\ R!WholeReadArrives'
    BY <1>1 DEF ReadInv, WholeInv, R!WholeReadArrives
<1> QED
    BY <1>2, <1>4, <1>5 DEF ReadInv

LEMMA ReturnCountsStep ==
    ASSUME ReadInv, R!ReturnCounts
    PROVE  ReadInv'
<1>1. /\ readPc = "page" /\ readPc' = "idle"
      /\ UNCHANGED <<call, Loop, shift, tmpbuf, eccbuf, unset, missed, whole>>
      /\ onDevice' \subseteq Frame
    BY DEF R!ReturnCounts, R!history, ReadInv, ReadTypes
<1>2. call.what = "counts"
    BY <1>1 DEF ReadInv, ReadTypes
<1>3. ReadTypes'
    BY <1>1 DEF ReadInv, ReadTypes
<1>4. LevelsInv'
    BY <1>1 DEF ReadInv, LevelsInv
<1>5. WholeInv' /\ R!WholeReadArrives'
    BY <1>1, <1>2 DEF ReadInv, WholeInv, R!WholeReadArrives
<1> QED
    BY <1>3, <1>4, <1>5 DEF ReadInv

LEMMA RawStep ==
    ASSUME ReadInv, R!RawSet \/ R!DumpRead \/ R!RawLeave
    PROVE  ReadInv'
<1>1. CASE R!RawSet
    <2>1. /\ readPc = "raw" /\ readPc' = "dump"
          /\ UNCHANGED <<call, Loop, onDevice, tmpbuf, eccbuf, missed, whole>>
        BY <1>1 DEF R!RawSet, R!eccs
    <2>2. ~unset' /\ ~call.retryRead => shift' = 0
        BY <1>1, <2>1 DEF R!RawSet, ReadInv, LevelsInv
    <2>3. ReadTypes'
        BY <2>1 DEF ReadInv, ReadTypes
    <2>4. LevelsInv'
        BY <2>1, <2>2 DEF LevelsInv
    <2>5. WholeInv' /\ R!WholeReadArrives'
        BY <2>1 DEF ReadInv, WholeInv, R!WholeReadArrives
    <2> QED
        BY <2>3, <2>4, <2>5 DEF ReadInv
<1>2. CASE R!DumpRead
    <2>1. /\ readPc = "dump" /\ readPc' = "raw leave"
          /\ UNCHANGED <<call, Loop, shift, onDevice, tmpbuf, eccbuf, unset>>
          /\ call.what = "raw"
        BY <1>2 DEF R!DumpRead, R!buffers, R!eccs, ReadInv, ReadTypes
    <2>2. ReadTypes'
        BY <2>1 DEF ReadInv, ReadTypes
    <2>3. LevelsInv'
        BY <2>1 DEF ReadInv, LevelsInv
    <2>4. whole' /\ ~missed' => w_buf' = R!Filled("correct")
        <3>1. CASE missed'
            BY <3>1
        <3>2. CASE ~missed'
            <4>1. PICK good \in SUBSET Frame :
                     /\ w_buf' = [f \in Frame |-> IF f \in good THEN "correct" ELSE "wrong"]
                     /\ whole' = (good = Frame)
                BY <1>2, <3>2 DEF R!DumpRead
            <4> QED
                BY <4>1 DEF R!Filled
        <3> QED
            BY <3>1, <3>2
    <2>5. WholeInv' /\ R!WholeReadArrives'
        BY <2>1, <2>4 DEF WholeInv, R!WholeReadArrives
    <2> QED
        BY <2>2, <2>3, <2>5 DEF ReadInv
<1>3. CASE R!RawLeave
    <2>1. /\ readPc = "raw leave" /\ readPc' = "idle"
          /\ UNCHANGED <<call, Loop, onDevice, tmpbuf, eccbuf, w_buf, missed, whole>>
        BY <1>3 DEF R!RawLeave, R!buffers, R!eccs
    <2>2. ReadTypes'
        BY <2>1 DEF ReadInv, ReadTypes
    <2>3. ~unset' => shift' = 0
        BY <1>3, <2>1 DEF R!RawLeave, R!LevelsSet, R!LevelsNotSet, ReadInv, LevelsInv
    <2>4. LevelsInv'
        BY <2>1, <2>3 DEF LevelsInv
    <2>5. WholeInv' /\ R!WholeReadArrives'
        BY <2>1 DEF ReadInv, WholeInv, R!WholeReadArrives, R!Filled
    <2> QED
        BY <2>2, <2>4, <2>5 DEF ReadInv
<1> QED
    BY <1>1, <1>2, <1>3

LEMMA ReadStep == ReadInv /\ [R!Next]_(R!vars) => ReadInv'
<1> SUFFICES ASSUME ReadInv, [R!Next]_(R!vars)
             PROVE  ReadInv'
    OBVIOUS
<1>1. CASE R!Next
    BY <1>1, BeginStep, TryStep, GroupReadStep, ReadFailsStep, CheckEccStep, OutOfTriesStep,
       LeaveStep, PageStep, GroupReadEccStep, RestoreStep, ReturnCountsStep, RawStep DEF R!Next
<1>2. CASE UNCHANGED R!vars
    BY <1>2 DEF R!vars, R!eccs, ReadInv, ReadTypes, LevelsInv, WholeInv,
                R!WholeReadArrives, R!Filled
<1> QED
    BY <1>1, <1>2

\* A read leaves the chip at the read levels it found it with, whatever the try
\* that passed and whatever failed, as long as setting the levels did not.
THEOREM ReadLevelsRestored == R!Spec => []LevelsRestored
<1>1. ReadInv => LevelsRestored
    BY DEF ReadInv, LevelsInv, LevelsRestored, R!LevelsRestored
<1> QED
    BY <1>1, ReadInit, ReadStep, PTL DEF R!Spec

\* A page whose last read had all frames within bECCBit arrives whole, whatever
\* the tries before it left, from the readers of which this can be promised.
THEOREM ReadWholeArrives == R!Spec => []WholeReadArrives
<1>1. ReadInv => WholeReadArrives
    BY DEF ReadInv, WholeReadArrives
<1> QED
    BY <1>1, ReadInit, ReadStep, PTL DEF R!Spec

-----------------------------------------------------------------------------
(* The link.                                                               *)

\* The one-shot flag belongs to the command under way, which is then not held
\* to its bank, or is left over; a command goes out with its own bank as far
\* as CNTCommand knows; and that is right while it is sure.
BankInv ==
    /\ sure => currentBank = deviceBank
    /\ _ForceNoSwitch \in {0, 1}
    /\ _ForceNoSwitch = 1 => leftover \/ (linkPc # "idle" /\ ~linkCall.f6)
    /\ linkPc \in {"sync", "switch"} => _ForceNoSwitch = 0
    /\ linkCall.f6 => linkCall.vendor
    /\ linkPc \in {"idle", "lookup", "sync", "switch", "issue", "raw"}
    /\ linkPc \in {"idle", "raw"} => ~linkCall.f6
    /\ linkPc = "issue" /\ isFWBank /\ linkCall.f6 /\ ~leftover =>
          linkCall.bank \in {currentBank, B!Common}

LEMMA BankInit == B!Init => BankInv
BY DEF B!Init, BankInv, B!NoCall

\* After a round the function issues again, or is done.
LEMMA ReturnedIs ==
    ASSUME NEW passed \in BOOLEAN, B!Returned(passed)
    PROVE  \/ linkPc' = "lookup" /\ linkCall' = linkCall
           \/ linkPc' = "idle" /\ ~linkCall'.f6
BY DEF B!Returned, B!NoCall

LEMMA IdleSteps ==
    ASSUME BankInv, B!SetAlwasySync \/ B!BankInit
    PROVE  BankInv'
<1>1. CASE B!SetAlwasySync
    BY <1>1 DEF B!SetAlwasySync, BankInv
<1>2. CASE B!BankInit
    BY <1>2 DEF B!BankInit, B!ST_BankSynchronize, BankInv
<1> QED
    BY <1>1, <1>2

LEMMA BeginCallStep ==
    ASSUME BankInv, B!Begin
    PROVE  BankInv'
<1>1. PICK c \in B!Commands, bType \in 0 .. 2 :
         \/ UNCHANGED B!bankVars
         \/ /\ B!ReturnsUnsent(c, bType) \/ B!Proceeds(c, bType)
            /\ UNCHANGED <<flash, currentBank, _alwaySyncBank, deviceBank, sure>>
    BY DEF B!Begin, B!ReturnsAtOnce
<1>2. linkPc = "idle"
    BY DEF B!Begin
<1>3. /\ B!Flag(c) \in {0, 1}
      /\ B!Flag(c) = 1 => c.force = "set" \/ (leftover /\ c.force # "cleared")
    BY <1>2 DEF B!Flag, BankInv
<1>4. CASE UNCHANGED B!bankVars
    BY <1>4 DEF B!bankVars, BankInv
<1>5. CASE B!ReturnsUnsent(c, bType) /\ UNCHANGED <<currentBank, deviceBank, sure>>
    BY <1>2, <1>3, <1>5 DEF B!ReturnsUnsent, B!Inherits, BankInv
<1>6. CASE B!Proceeds(c, bType) /\ UNCHANGED <<currentBank, deviceBank, sure>>
    <2>1. CASE bType \in c.raw
        BY <1>2, <1>3, <1>6, <2>1 DEF B!Proceeds, B!Inherits, BankInv
    <2>2. CASE bType \notin c.raw
        <3>1. PICK cdb \in c.cdb : linkCall' = B!Pending(c, cdb)
            BY <1>6, <2>2 DEF B!Proceeds
        <3>2. /\ linkCall'.f6 => linkCall'.vendor
              /\ linkCall'.f6 => c.force # "set"
            BY <3>1 DEF B!Pending
        <3> QED
            BY <1>2, <1>3, <1>6, <2>2, <3>2 DEF B!Proceeds, B!Inherits, BankInv
    <2> QED
        BY <2>1, <2>2
<1> QED
    BY <1>1, <1>4, <1>5, <1>6

LEMMA LookupStep ==
    ASSUME BankInv, B!Phy_Lookup
    PROVE  BankInv'
<1>1. /\ linkPc = "lookup"
      /\ UNCHANGED <<isFWBank, currentBank, _ForceNoSwitch, deviceBank, sure, leftover>>
    BY DEF B!Phy_Lookup, B!settings
<1>2. CASE ~B!LooksUp
    <2>1. linkPc' = "issue" /\ UNCHANGED linkCall
        BY <1>2 DEF B!Phy_Lookup
    <2>2. isFWBank /\ linkCall.f6 => _ForceNoSwitch = 1
        BY <1>2 DEF BankInv, B!LooksUp
    <2> QED
        BY <1>1, <2>1, <2>2 DEF BankInv
<1>3. CASE B!LooksUp /\ linkCall.bank = B!Unknown
    <2>1. B!Returned(FALSE) /\ _ForceNoSwitch = 0
        BY <1>3 DEF B!Phy_Lookup, B!LooksUp
    <2>2. \/ linkPc' = "lookup" /\ linkCall' = linkCall
          \/ linkPc' = "idle" /\ ~linkCall'.f6
        BY <2>1, ReturnedIs
    <2> QED
        BY <1>1, <2>1, <2>2 DEF BankInv
<1>4. CASE B!LooksUp /\ linkCall.bank # B!Unknown /\ B!Synchronizes
    <2>1. linkPc' = "sync" /\ UNCHANGED linkCall /\ _ForceNoSwitch = 0
        BY <1>4 DEF B!Phy_Lookup, B!LooksUp
    <2> QED
        BY <1>1, <2>1 DEF BankInv
<1>5. CASE B!LooksUp /\ linkCall.bank # B!Unknown /\ ~B!Synchronizes
    <2>1. B!ToBank(currentBank) /\ UNCHANGED linkCall /\ _ForceNoSwitch = 0
        BY <1>5 DEF B!Phy_Lookup, B!LooksUp
    <2> QED
        BY <1>1, <2>1 DEF B!ToBank, B!NeedsSwitch, BankInv
<1> QED
    BY <1>2, <1>3, <1>4, <1>5

LEMMA ReturnsEarlyStep ==
    ASSUME BankInv, B!Phy_ReturnsEarly
    PROVE  BankInv'
<1>1. \/ linkPc' = "lookup" /\ linkCall' = linkCall
      \/ linkPc' = "idle" /\ ~linkCall'.f6
    BY ReturnedIs DEF B!Phy_ReturnsEarly
<1> QED
    BY <1>1 DEF B!Phy_ReturnsEarly, BankInv

LEMMA SynchronizeStep ==
    ASSUME BankInv, B!Phy_Synchronize
    PROVE  BankInv'
<1>1. /\ linkPc = "sync"
      /\ linkPc' = IF linkCall.bank \notin {currentBank', B!Common} THEN "switch" ELSE "issue"
      /\ UNCHANGED <<linkCall, isFWBank, _ForceNoSwitch, deviceBank, leftover>>
    BY DEF B!Phy_Synchronize, B!ToBank, B!NeedsSwitch, B!settings
<1>2. sure' => currentBank' = deviceBank
    BY DEF B!Phy_Synchronize, B!ST_BankSynchronize, BankInv
<1> QED
    BY <1>1, <1>2 DEF BankInv

LEMMA SwitchStep ==
    ASSUME BankInv, B!Phy_Switch
    PROVE  BankInv'
<1>1. linkPc = "switch" /\ UNCHANGED <<isFWBank, _ForceNoSwitch, leftover>>
    BY DEF B!Phy_Switch, B!settings
<1>2. CASE /\ B!ST_BankSwitch(linkCall.bank, TRUE) /\ currentBank' = linkCall.bank
           /\ linkPc' = "issue" /\ UNCHANGED <<linkCall, left>>
    <2>1. deviceBank' = linkCall.bank
        BY <1>2 DEF B!ST_BankSwitch
    <2> QED
        BY <1>1, <1>2, <2>1 DEF BankInv
<1>3. CASE /\ B!ST_BankSwitch(linkCall.bank, FALSE) /\ UNCHANGED currentBank
           /\ B!Returned(FALSE)
    <2>1. \/ linkPc' = "lookup" /\ linkCall' = linkCall
          \/ linkPc' = "idle" /\ ~linkCall'.f6
        BY <1>3, ReturnedIs
    <2>2. sure' => currentBank' = deviceBank'
        BY <1>3 DEF B!ST_BankSwitch, BankInv
    <2>3. CASE linkPc' = "lookup" /\ linkCall' = linkCall
        BY <1>1, <2>2, <2>3 DEF BankInv
    <2>4. CASE linkPc' = "idle" /\ ~linkCall'.f6
        BY <1>1, <2>2, <2>4 DEF BankInv
    <2> QED
        BY <2>1, <2>3, <2>4
<1> QED
    BY <1>2, <1>3 DEF B!Phy_Switch

LEMMA IssueStep ==
    ASSUME BankInv, B!Phy_Issue
    PROVE  BankInv'
<1>1. PICK passed \in BOOLEAN : B!Returned(passed)
    BY DEF B!Phy_Issue
<1>2. \/ linkPc' = "lookup" /\ linkCall' = linkCall
      \/ linkPc' = "idle" /\ ~linkCall'.f6
    BY <1>1, ReturnedIs
<1> QED
    BY <1>2 DEF B!Phy_Issue, BankInv

LEMMA RawIssueStep ==
    ASSUME BankInv, B!RawIssue
    PROVE  BankInv'
BY DEF B!RawIssue, B!settings, BankInv

LEMMA RestartsStep ==
    ASSUME BankInv, B!ControllerRestarts
    PROVE  BankInv'
BY DEF B!ControllerRestarts, B!settings, BankInv

LEMMA BankStep == BankInv /\ [B!Next]_(B!bankVars) => BankInv'
<1> SUFFICES ASSUME BankInv, [B!Next]_(B!bankVars)
             PROVE  BankInv'
    OBVIOUS
<1>1. CASE B!Next
    BY <1>1, IdleSteps, BeginCallStep, ReturnsEarlyStep, LookupStep, SynchronizeStep,
       SwitchStep, IssueStep, RawIssueStep, RestartsStep DEF B!Next
<1>2. CASE UNCHANGED B!bankVars
    BY <1>2 DEF B!bankVars, BankInv
<1> QED
    BY <1>1, <1>2

\* A flash command of the sorting code is sent only while the common part or the
\* bank the controller holds has it, whatever commands came before, for every
\* table of banks and every type of flash.
THEOREM LinkRunsInItsBank == B!Spec => []RunsInItsBank
<1>1. BankInv => RunsInItsBank
    BY DEF BankInv, RunsInItsBank, B!RunsInItsBank
<1> QED
    BY <1>1, BankInit, BankStep, PTL DEF B!Spec

-----------------------------------------------------------------------------
(* A behaviour of MCDirect is one of each of the three.                    *)

THEOREM DirectIsEach == MCSpec => Spec /\ R!Spec /\ B!Spec
<1>1. MCInit => Init /\ R!Init /\ B!Init
    BY DEF MCInit
<1>2. [MCNext]_<<vars, readVars, linkVars, kind>>
      => [Next]_vars /\ [R!Next]_(R!vars) /\ [B!Next]_(B!bankVars)
    BY DEF MCNext, readVars, linkVars, R!vars, B!bankVars
<1> QED
    BY <1>1, <1>2, PTL DEF MCSpec, Spec, R!Spec, B!Spec
=============================================================================
