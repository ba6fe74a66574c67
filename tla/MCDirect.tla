------------------------------ MODULE MCDirect ------------------------------
(***************************************************************************)
(* The direct block erase, the direct page read, and the sending of flash  *)
(* commands over a link with banks, for TLC.  They run on the caller's     *)
(* thread, one call at a time, and share no variable, so a behaviour with  *)
(* all shows nothing that those with one kind of call do not: a behaviour  *)
(* makes calls of one kind.                                                *)
(***************************************************************************)
EXTENDS SqlErase, TLC

CONSTANTS Frame, MaxTries, MaxPages, Arg, FlashTypes, BankTable

ASSUME TriesAssumption == MaxTries \in Nat

VARIABLES call, LoopCnt, readPc, Loop, pagesLeft, shift, onDevice, tmpbuf, eccbuf, w_buf, tmpwbuf,
          readPageBuffer, rtn, unset, missed, whole
VARIABLES linkPc, linkCall, left, flash, isFWBank, currentBank, _alwaySyncBank,
          _ForceNoSwitch, deviceBank, sure, leftover
VARIABLE kind   \* of the calls of the behaviour

readVars == <<call, LoopCnt, readPc, Loop, pagesLeft, shift, onDevice, tmpbuf, eccbuf, w_buf,
              tmpwbuf, readPageBuffer, rtn, unset, missed, whole>>

linkVars == <<linkPc, linkCall, left, flash, isFWBank, currentBank, _alwaySyncBank,
              _ForceNoSwitch, deviceBank, sure, leftover>>

R == INSTANCE PageRead WITH pc <- readPc, left <- pagesLeft

\* Command codes dealt out to two banks and the common part; some differ by the type
\* of flash, and those above \h5f have none.
DealtOut ==
    [i \in 1 .. 96 |->
        [command |-> i - 1,
         bank |-> IF i % 5 = 4 THEN \hff ELSE i % 2,
         types |-> IF i % 7 = 0 THEN 3 ELSE IF i % 11 = 0 THEN 4 ELSE \hff]]

B == INSTANCE BankLink WITH pc <- linkPc, call <- linkCall

ASSUME LinkAssumption == B!ArgAssumption /\ B!BankAssumption

NoReads ==
    call = [by |-> "page", what |-> "data", retryRead |-> FALSE] /\ onDevice = Frame

NoCommands ==
    ~isFWBank /\ flash = 0 /\ deviceBank = 0

\* The frames of a page are alike.
Symmetry == Permutations(Frame)

NoErases == checks /\ maker = "TSB" /\ status = [c \in CE |-> "passed"]

MCInit ==
    /\ R!Init /\ Init /\ B!Init
    /\ \/ kind = "erase" /\ NoReads /\ NoCommands
       \/ kind = "read" /\ NoErases /\ NoCommands
       \/ kind = "send" /\ NoErases /\ NoReads

MCNext ==
    \/ kind = "erase" /\ Next /\ UNCHANGED <<readVars, linkVars, kind>>
    \/ kind = "read" /\ R!Next /\ UNCHANGED <<vars, linkVars, kind>>
    \/ kind = "send" /\ B!Next /\ UNCHANGED <<vars, readVars, kind>>

MCSpec == MCInit /\ [][MCNext]_<<vars, readVars, linkVars, kind>>

\* See PageRead: a read leaves the chip at the read levels it found it with.
LevelsRestored == R!LevelsRestored

\* See PageRead: a page whose last read had all frames within bECCBit arrives whole.
WholeReadArrives == R!WholeReadArrives

\* See BankLink: a flash command is sent while the controller holds its bank.
RunsInItsBank == B!RunsInItsBank

=============================================================================
