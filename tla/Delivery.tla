------------------------------ MODULE Delivery ------------------------------
(***************************************************************************)
(* What the socket layer does for its client: messages are processed in    *)
(* the order of the calls, perhaps several times or not at all; a call     *)
(* that is confirmed has been processed; and only a call that has used up  *)
(* its attempts returns unconfirmed.  The caller sees "returned" either    *)
(* way.                                                                    *)
(***************************************************************************)
EXTENDS Integers, SequencesExt

CONSTANTS
    Kinds,      \* kinds of call
    Answered,   \* the kinds whose call waits for the outcome
    Repeated,   \* the kinds that are tried again
    Retry,      \* how often they are tried
    MaxCalls    \* bound on the calls of a behaviour

VARIABLES
    call,       \* the last call, numbered from 1
    status,     \* "none" until it is confirmed, returns or throws
    attempts,   \* those of the call that failed and were followed by another
    log         \* numbers of the messages processed, in order

vars == <<call, status, attempts, log>>

Init ==
    /\ call = [kind |-> "none", id |-> 0]
    /\ status = "idle"
    /\ attempts = 0
    /\ log = <<>>

Begin(kind) ==
    /\ status \in {"idle", "returned", "threw"}
    /\ call.id < MaxCalls
    /\ call' = [kind |-> kind, id |-> call.id + 1]
    /\ status' = "none" /\ attempts' = 0
    /\ UNCHANGED log

\* A message may still be processed when its call has ended unconfirmed, but
\* not after any later one.
Process(id) ==
    /\ id \in 1 .. call.id
    /\ log # <<>> => id >= Last(log)
    /\ log' = Append(log, id)
    /\ UNCHANGED <<call, status, attempts>>

Confirm ==
    /\ status = "none"
    /\ call.kind \in Answered => Contains(log, call.id)
    /\ status' = "confirmed"
    /\ UNCHANGED <<call, attempts, log>>

TryAgain ==
    /\ status = "none" /\ call.kind \in Repeated
    /\ attempts < Retry - 1
    /\ attempts' = attempts + 1
    /\ UNCHANGED <<call, status, log>>

Return ==
    /\ \/ status = "confirmed"
       \/ status = "none" /\ call.kind \in Repeated /\ attempts = Retry - 1
    /\ status' = "returned"
    /\ UNCHANGED <<call, attempts, log>>

Throw ==
    /\ status = "none"
    /\ status' = "threw"
    /\ UNCHANGED <<call, attempts, log>>

Next ==
    \/ \E kind \in Kinds : Begin(kind)
    \/ \E id \in 1 .. MaxCalls : Process(id)
    \/ Confirm \/ TryAgain \/ Return \/ Throw

Spec == Init /\ [][Next]_vars
=============================================================================
