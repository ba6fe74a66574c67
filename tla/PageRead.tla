------------------------------ MODULE PageRead ------------------------------
(***************************************************************************)
(* Reading with read retry, as the three SQL readers of USBSCSICmd_ST do   *)
(* it: the two overloads of ST_DirectPageRead_SQL, here "page" and         *)
(* "page a2", and ST_DirectOneBlockRead_SQL, "block".  Each reads the data *)
(* of a page, the ECC counts of several, or a page raw.                    *)
(*                                                                         *)
(* A page consists of frames with an ECC each.  The loop sets the read     *)
(* levels of a try, reads, fetches the ECC counts, and keeps for every     *)
(* frame the best count so far, eccbuf; frames whose best count is within  *)
(* bECCBit have passed.  A buffer holds for every frame what was read into *)
(* it: "correct", "wrong" (more bit errors than bECCBit), "zeros",         *)
(* "counts", or what was there before, "caller" in w_buf and "fresh"       *)
(* elsewhere.                                                              *)
(***************************************************************************)
EXTENDS Integers

CONSTANTS
    Frame,      \* frames of a page
    MaxTries,   \* bound on _Retry_RT[0], the tries of the retry table
    MaxPages    \* bound on the pages that ECC counts are read of

VARIABLES
    call,       \* who reads what, with retry or not
    LoopCnt,
    pc,
    Loop,
    left,       \* pages whose ECC counts are still to be read
    shift,      \* the chip's read levels: the try they belong to, 0 the default
    onDevice,   \* frames within bECCBit by the counts the device has
    tmpbuf,     \* frames within bECCBit by the counts last fetched
    eccbuf,     \* frames within bECCBit by the best counts
    w_buf, tmpwbuf, readPageBuffer,     \* the buffers, by frame
    rtn,        \* the result so far, then the one returned
    unset,      \* history: a SetRetryValue failed since the levels were the default
    missed,     \* history: a read, or fetching the counts, failed
    whole       \* history: the last read had all frames within bECCBit

vars == <<call, LoopCnt, pc, Loop, left, shift, onDevice, tmpbuf, eccbuf, w_buf, tmpwbuf,
          readPageBuffer, rtn, unset, missed, whole>>
eccs == <<onDevice, tmpbuf, eccbuf>>
buffers == <<w_buf, tmpwbuf, readPageBuffer>>
history == <<unset, missed, whole>>

Filled(content) == [f \in Frame |-> content]

Call ==
    [by : {"page", "page a2", "block"}, what : {"data", "counts", "raw"}, retryRead : BOOLEAN]

Init ==
    /\ call \in Call /\ LoopCnt = 0 /\ pc = "idle" /\ Loop = 0 /\ left = 0
    /\ shift = 0 /\ onDevice \in SUBSET Frame
    /\ tmpbuf = Frame /\ eccbuf = {}
    /\ w_buf = Filled("caller") /\ tmpwbuf = Filled("zeros") /\ readPageBuffer = Filled("fresh")
    /\ rtn = 0 /\ unset = FALSE /\ missed = FALSE /\ whole = FALSE

\* The local buffers are cleared: no count is larger than 0, and no best count there yet.
Begin ==
    /\ pc = "idle"
    /\ call' \in Call
    /\ LoopCnt' \in IF call'.retryRead THEN 0 .. MaxTries ELSE {1}
    /\ pc' = CASE call'.what = "data" -> "try" [] call'.what = "counts" -> "page"
               [] call'.what = "raw" -> "raw"
    /\ left' \in IF call'.what = "counts" THEN 0 .. MaxPages ELSE {0}
    /\ Loop' = 0 /\ rtn' = 0
    /\ tmpbuf' = Frame /\ eccbuf' = {}
    /\ w_buf' = Filled("caller") /\ tmpwbuf' = Filled("zeros") /\ readPageBuffer' = Filled("fresh")
    /\ unset' = (shift # 0) /\ missed' = FALSE /\ whole' = FALSE
    /\ UNCHANGED <<shift, onDevice>>

(***************************************************************************)
(* Data, "read data with ecc protected aka group read"                     *)
(***************************************************************************)
\* SetRetryValue(.., &_Retry_RT[2 + try * RetryLen]); its result is not looked at.
LevelsSet(try) == shift' = try /\ unset' = unset
LevelsNotSet == shift' = shift /\ unset' = TRUE
SetRetryValue(try) == LevelsSet(try) \/ LevelsNotSet

Try ==
    /\ pc = "try" /\ Loop < LoopCnt
    /\ IF call.retryRead THEN SetRetryValue(Loop) ELSE UNCHANGED <<shift, unset>>
    /\ pc' = IF call.what = "data" THEN "read" ELSE "read counts"
    /\ UNCHANGED <<call, LoopCnt, Loop, left, eccs, buffers, rtn, missed, whole>>

\* Where the read puts the page.
ReadInto(content) ==
    /\ w_buf' = IF call.by = "page" THEN content ELSE w_buf
    /\ tmpwbuf' = IF call.by = "page a2" THEN content ELSE tmpwbuf
    /\ readPageBuffer' = IF call.by = "block" THEN content ELSE readPageBuffer

AfterRead == IF call.retryRead THEN "count" ELSE "leave"

GroupReadData ==
    /\ pc = "read"
    /\ \E good \in SUBSET Frame :
          /\ ReadInto([f \in Frame |-> IF f \in good THEN "correct" ELSE "wrong"])
          /\ onDevice' = good
          /\ whole' = (good = Frame)
    /\ rtn' = 0
    /\ pc' = AfterRead
    /\ UNCHANGED <<call, LoopCnt, Loop, left, shift, tmpbuf, eccbuf, unset, missed>>

ReadFails ==
    /\ pc = "read"
    /\ rtn' = 1 /\ missed' = TRUE
    /\ pc' = AfterRead
    /\ UNCHANGED <<call, LoopCnt, Loop, left, shift, eccs, buffers, unset, whole>>

\* What ST_DirectOneBlockRead_SQL and ST_DirectPageRead_SQL copy the frames from.
PassData == tmpwbuf

\* The frames whose data are copied.
\* Mutant: those that had passed before this try.
PassedBefore == eccbuf
Passed == eccbuf'

\* _ReadDDR, whose result is not looked at, the best counts, and the frames that
\* have passed; the loop ends when all have.
CheckEcc(fetched) ==
    /\ pc = "count"
    /\ tmpbuf' = IF fetched THEN onDevice ELSE tmpbuf
    /\ eccbuf' = eccbuf \cup tmpbuf'
    /\ w_buf' = [f \in Frame |-> IF f \in Passed THEN PassData[f] ELSE w_buf[f]]
    /\ IF eccbuf' = Frame
       THEN Loop' = Loop /\ pc' = "leave"
       ELSE Loop' = Loop + 1 /\ pc' = "try"
    /\ missed' = (missed \/ ~fetched)
    /\ UNCHANGED <<call, LoopCnt, left, shift, onDevice, tmpwbuf, readPageBuffer, rtn,
                   unset, whole>>

OutOfTries ==
    /\ pc = "try" /\ Loop >= LoopCnt
    /\ pc' = "leave"
    /\ UNCHANGED <<call, LoopCnt, Loop, left, shift, eccs, buffers, rtn, history>>

\* "Loop 0 retry pass, no need restore again".
\* Mutant: a loop that ends with its last try is taken to have restored.
RestoresUnlessLast == Loop # 0 /\ Loop # LoopCnt - 1
Restores == Loop # 0

\* The first branch of ST_DirectOneBlockRead_SQL does not return rtn, and ends at -1.
Leave ==
    /\ pc = "leave" /\ call.what = "data"
    /\ IF call.retryRead /\ Restores THEN SetRetryValue(0) ELSE UNCHANGED <<shift, unset>>
    /\ w_buf' = CASE call.retryRead -> w_buf
                  [] ~call.retryRead /\ call.by # "block" -> tmpwbuf
                  [] ~call.retryRead /\ call.by = "block" -> readPageBuffer
    /\ rtn' = IF call.by = "block" THEN -1 ELSE rtn
    /\ pc' = "idle"
    /\ UNCHANGED <<call, LoopCnt, Loop, left, eccs, tmpwbuf, readPageBuffer, missed, whole>>

(***************************************************************************)
(* The ECC counts of several pages, "read ecc per pages".  With retry each *)
(* page has a loop of its own, which Try, OutOfTries and RestoreAfterPage  *)
(* are part of.                                                            *)
(***************************************************************************)
\* Check_PageMapping_Bit leaves pages out.
SkipPage ==
    /\ pc = "page" /\ call.retryRead /\ left > 0
    /\ left' = left - 1
    /\ UNCHANGED <<call, LoopCnt, pc, Loop, shift, eccs, buffers, rtn, history>>

TryPage ==
    /\ pc = "page" /\ call.retryRead /\ left > 0
    /\ Loop' = 0 /\ eccbuf' = {} /\ pc' = "try"
    /\ UNCHANGED <<call, LoopCnt, left, shift, onDevice, tmpbuf, buffers, rtn, history>>

\* The counts that the loop looks at lie at another place than they are read to, but
\* for the first page: they may be any.
GroupReadEcc ==
    /\ pc = "read counts"
    /\ onDevice' \in SUBSET Frame /\ tmpbuf' \in SUBSET Frame
    /\ eccbuf' = eccbuf \cup tmpbuf'
    /\ rtn' \in {0, 1}
    /\ IF eccbuf' = Frame
       THEN Loop' = Loop /\ pc' = "leave"
       ELSE Loop' = Loop + 1 /\ pc' = "try"
    /\ UNCHANGED <<call, LoopCnt, left, shift, buffers, history>>

RestoreAfterPage ==
    /\ pc = "leave" /\ call.what = "counts"
    /\ IF Restores THEN SetRetryValue(0) ELSE UNCHANGED <<shift, unset>>
    /\ left' = left - 1 /\ pc' = "page"
    /\ UNCHANGED <<call, LoopCnt, Loop, eccs, buffers, rtn, missed, whole>>

\* Without retry one command reads the counts of all pages.
ReturnCounts ==
    /\ pc = "page"
    /\ \/ call.retryRead /\ left = 0 /\ UNCHANGED <<onDevice, rtn>>
       \/ ~call.retryRead /\ onDevice' \in SUBSET Frame /\ rtn' \in {0, 1}
    /\ w_buf' = Filled("counts")
    /\ left' = 0 /\ pc' = "idle"
    /\ UNCHANGED <<call, LoopCnt, Loop, shift, tmpbuf, eccbuf, tmpwbuf, readPageBuffer, history>>

(***************************************************************************)
(* Raw, "Dump read only retry once"                                        *)
(***************************************************************************)
\* The levels of the second try, whatever the table's length.
RawSet ==
    /\ pc = "raw"
    /\ IF call.retryRead THEN SetRetryValue(1) ELSE UNCHANGED <<shift, unset>>
    /\ pc' = "dump"
    /\ UNCHANGED <<call, LoopCnt, Loop, left, eccs, buffers, rtn, missed, whole>>

DumpRead ==
    /\ pc = "dump"
    /\ \/ \E good \in SUBSET Frame :
             /\ w_buf' = [f \in Frame |-> IF f \in good THEN "correct" ELSE "wrong"]
             /\ whole' = (good = Frame)
             /\ rtn' = 0 /\ missed' = missed
       \/ rtn' = 1 /\ missed' = TRUE /\ UNCHANGED <<w_buf, whole>>
    /\ pc' = "raw leave"
    /\ UNCHANGED <<call, LoopCnt, Loop, left, shift, eccs, tmpwbuf, readPageBuffer, unset>>

\* ST_DirectOneBlockRead_SQL returns the result of restoring the levels instead of the read's.
RawLeave ==
    /\ pc = "raw leave"
    /\ \/ ~call.retryRead /\ UNCHANGED <<shift, unset, rtn>>
       \/ call.retryRead /\ LevelsSet(0) /\ rtn' = IF call.by = "block" THEN 0 ELSE rtn
       \/ call.retryRead /\ LevelsNotSet /\ rtn' = IF call.by = "block" THEN 1 ELSE rtn
    /\ pc' = "idle"
    /\ UNCHANGED <<call, LoopCnt, Loop, left, eccs, buffers, missed, whole>>

Next ==
    \/ Begin \/ Try \/ GroupReadData \/ ReadFails \/ CheckEcc(TRUE) \/ CheckEcc(FALSE)
    \/ OutOfTries \/ Leave
    \/ SkipPage \/ TryPage \/ GroupReadEcc \/ RestoreAfterPage \/ ReturnCounts
    \/ RawSet \/ DumpRead \/ RawLeave

Spec == Init /\ [][Next]_vars

(***************************************************************************)
(* Properties                                                              *)
(***************************************************************************)
\* A read leaves the chip at the read levels it found it with, whatever the try that
\* passed and whatever failed, as long as setting the levels did not: the next read,
\* which may be without retry, uses them.  Where the counts of several pages are read,
\* so does the loop of each page.
LevelsRestored == pc \in {"idle", "page"} /\ ~unset => shift = 0

\* A page whose last read had all frames within bECCBit arrives whole, whatever the tries
\* before it left in w_buf: by the overload that takes a2command, by one block reads
\* without retry, which return -1 nevertheless, and raw.
WholeReadArrives ==
    /\ pc = "idle" /\ whole /\ ~missed
    /\ call.what = "raw" \/ call.by = "page a2" \/ (call.by = "block" /\ ~call.retryRead)
    => w_buf = Filled("correct")

\* Refuted: where a frame's best count passes, "Ecc pass", its pass data are copied to
\* w_buf.  The overload without a2command, and one block reads with retry, read into
\* another buffer than the one they copy from; the other overload copies a passed frame
\* again in every later try, whatever that try read.
PassDataCopied ==
    pc = "idle" /\ call.what = "data" /\ call.retryRead /\ ~missed =>
        \A f \in eccbuf : w_buf[f] = "correct"

=============================================================================
