------------------------------- MODULE LbnMap -------------------------------
(***************************************************************************)
(* What the P2L table promises its user: one LBN for every physical        *)
(* address, returned by iGetDataLbn exactly as iUpdateDataLbn last left    *)
(* it.  Nothing of the DRAM bank, the misses or the swaps can be seen.     *)
(***************************************************************************)
CONSTANTS
    Addr,   \* the addresses of the device
    Lbn     \* the LBNs, 0 for an address that has none

VARIABLES
    map,    \* the LBN of every address
    ret     \* what the last iGetDataLbn returned

vars == <<map, ret>>

TypeOK == map \in [Addr -> Lbn] /\ ret \in Lbn

Init == map = [a \in Addr |-> 0] /\ ret = 0

Get(pAddr) == ret' = map[pAddr] /\ UNCHANGED map

Update(pAddr, lbn) ==
    map' = [map EXCEPT ![pAddr] = lbn] /\ UNCHANGED ret

Reset == map' = [a \in Addr |-> 0] /\ ret' = 0

Next ==
    \/ \E a \in Addr : Get(a)
    \/ \E a \in Addr, l \in Lbn : Update(a, l)
    \/ Reset

Spec == Init /\ [][Next]_vars
=============================================================================
