------------------------------- MODULE Bridge -------------------------------
(***************************************************************************)
(* The JMS583 bridge of UFWInterface.cpp: how the SDK passes NVMe commands *)
(* to the controller behind it, and how it switches that controller on.    *)
(*                                                                         *)
(* The controller and the tester's power switches are not part of the      *)
(* repository; they are modelled from what the SDK asks of them.           *)
(***************************************************************************)
EXTENDS Naturals

CONSTANTS
    MaxFaults,  \* bound on the transfers that fail
    SectorNo    \* sectors of the burner image

ASSUME BridgeAssumption == MaxFaults \in Nat /\ SectorNo \in Nat \ {0}

VARIABLES
    mode,       \* what the controller runs
    next,       \* what it is starting, "none" when it answers
    pram,       \* pram[p]: the sector of the image at place p, or Blank
    outputs,    \* the pins of the tester's power switch are outputs
    rail,       \* and it is on
    faults,
    unheard     \* history: an I2C transfer or a power-on was lost, and nobody told

controller == <<mode, next, pram>>
tester == <<outputs, rail>>
bridgeVars == <<controller, tester, faults, unheard>>

Blank == SectorNo
Place == 0 .. SectorNo - 1
NoImage == [p \in Place |-> Blank]
Complete == \A p \in Place : pram[p] = p

Modes == {"off", "firmware", "rom", "burner", "lost"}

BridgeTypeOK ==
    /\ mode \in Modes /\ next \in Modes \cup {"none"}
    /\ pram \in [Place -> Place \cup {Blank}]
    /\ {outputs, rail, unheard} \subseteq BOOLEAN
    /\ faults \in 0 .. MaxFaults

BridgeInit ==
    /\ mode = "off" /\ next = "none" /\ pram = NoImage
    /\ outputs = FALSE /\ rail = FALSE
    /\ faults = 0 /\ unheard = FALSE

Answers == mode \in {"firmware", "rom", "burner"} /\ next = "none"

Fault == faults < MaxFaults /\ faults' = faults + 1

\* A command to the bridge itself, and its response: whether it was done, and
\* whether the SDK is told so.  Only the reading of the response is looked at:
\* a command that was lost counts as done when that succeeds.
BridgeCmd(done, ret) ==
    \/ done /\ ret /\ UNCHANGED faults
    \/ Fault

\* I2C writes and reads: a failure is logged, "but don't care".
I2c(done) ==
    \/ done /\ UNCHANGED <<faults, unheard>>
    \/ ~done /\ Fault /\ unheard' = TRUE

\* _static_JMS583_Bridge_Flow: the submission, the data or the trigger, and
\* the completion.  A transfer may fail before or after the controller has
\* seen the command, and the controller may refuse it; of that only the
\* completion tells, which is not read when the command's first byte is 2.
Flow(skipCq, done, ret) ==
    \/ ~Answers /\ ~done /\ ~ret /\ UNCHANGED faults
    \/ Answers /\ done /\ ret /\ UNCHANGED faults
    \/ Answers /\ Fault /\ (ret => skipCq /\ ~done)

\* The controller starts something else, which takes it a while.
StartsUp(what) == next' = what /\ pram' = NoImage /\ UNCHANGED mode

Arrive ==
    /\ next # "none"
    /\ mode' = next /\ next' = "none"
    /\ UNCHANGED <<pram, tester, faults, unheard>>

-----------------------------------------------------------------------------
\* The transfers of _static_JMS583_BridgeReset, in its order; ret and ok tell
\* whether the function goes on.

\* _static_Inquiry: one fault is three attempts that fail.
Inquiry(ok) ==
    /\ IF ok THEN UNCHANGED faults ELSE Fault
    /\ UNCHANGED <<controller, tester, unheard>>

\* GPIO 3 and 4 stay inputs, the other pins become outputs.
I2cInit ==
    /\ \E done \in BOOLEAN : I2c(done) /\ outputs' = (outputs \/ done)
    /\ UNCHANGED <<controller, rail>>

\* Control 1, twice; one fault may be of both.
PowerOff(ret) ==
    /\ \E done \in BOOLEAN :
          /\ BridgeCmd(done, ret)
          /\ IF done THEN mode' = "off" /\ next' = "none" /\ pram' = NoImage
             ELSE UNCHANGED controller
    /\ UNCHANGED <<tester, unheard>>

\* The switch is opened and closed.  A lost write leaves it either way.
I2cPower ==
    /\ \E done \in BOOLEAN :
          I2c(done) /\ IF done THEN rail' = outputs ELSE rail' \in {FALSE, outputs}
    /\ UNCHANGED <<controller, outputs>>

\* Control 4: the controller boots, when it has power.
PowerOn(ret) ==
    /\ \E done \in BOOLEAN :
          /\ BridgeCmd(done, ret)
          /\ unheard' = (unheard \/ (ret /\ ~done))
          /\ IF done /\ rail
             THEN \E what \in {"firmware", "rom"} : StartsUp(what)
             ELSE UNCHANGED controller
    /\ UNCHANGED tester
=============================================================================
