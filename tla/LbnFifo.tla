------------------------------- MODULE LbnFifo -------------------------------
(***************************************************************************)
(* What the LBN manager promises: block LBNs are a resource given to one   *)
(* block at a time, first in first out, and the pages of a block get the   *)
(* LBNs of their block LBN one after the other.  There is always one for a *)
(* block that has none.                                                    *)
(***************************************************************************)
EXTENDS Naturals, Sequences

CONSTANTS
    Blk,        \* flash blocks
    BlkSpan,    \* pages of a block
    Slice,      \* LBNs of a page
    InitFree    \* the block LBNs, in the order they are first given out

VARIABLES
    free,   \* block LBNs not given out
    held,   \* the block LBN of every block, 0 when it has none
    used,   \* pages of every block that have an LBN
    ret     \* the LBN last given out

vars == <<free, held, used, ret>>

Init ==
    /\ free = InitFree
    /\ held = [b \in Blk |-> 0]
    /\ used = [b \in Blk |-> 0]
    /\ ret = 0

Open(b) ==
    /\ used[b] = 0
    /\ free # <<>>
    /\ ret' = Head(free)
    /\ held' = [held EXCEPT ![b] = Head(free)]
    /\ free' = Tail(free)
    /\ used' = [used EXCEPT ![b] = 1]

Extend(b) ==
    /\ used[b] \in 1 .. BlkSpan - 1
    /\ ret' = held[b] + Slice * used[b]
    /\ used' = [used EXCEPT ![b] = used[b] + 1]
    /\ UNCHANGED <<free, held>>

Release(b) ==
    /\ used[b] > 0
    /\ free' = Append(free, held[b])
    /\ held' = [held EXCEPT ![b] = 0]
    /\ used' = [used EXCEPT ![b] = 0]
    /\ UNCHANGED ret

Reset ==
    /\ free' = InitFree
    /\ held' = [b \in Blk |-> 0]
    /\ used' = [b \in Blk |-> 0]
    /\ ret' = 0

Next ==
    \/ \E b \in Blk : Open(b) \/ Extend(b) \/ Release(b)
    \/ Reset

Spec == Init /\ [][Next]_vars
=============================================================================
