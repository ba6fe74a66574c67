----------------------------- MODULE FlashDevice -----------------------------
(***************************************************************************)
(* The NAND device a host of sdsp2l_algo sees: an array of pages, each     *)
(* erased or holding what was last written to it, read back by address.    *)
(* Programming a page twice without an erase replaces it, and an erase     *)
(* addressed to an erased page does nothing: this simulator allows both.   *)
(***************************************************************************)
EXTENDS Integers

CONSTANTS
    Addr,           \* page addresses
    Ver,            \* contents the host gives to one page
    Erased,         \* what an erased page has instead of a content
    BlkAddrs(_)     \* the addresses of the block of an address

VARIABLES
    mem,        \* the content of every page, Erased when it has none
    erasing,    \* an erase command has not returned yet
    resp        \* what the last command returned

vars == <<mem, erasing, resp>>

NoData == [addr |-> -1, ver |-> Erased]

Done == [ret |-> "lbn", data |-> NoData]
Blank == [ret |-> "blank", data |-> NoData]
Refused == [ret |-> "zero", data |-> NoData]

Init ==
    /\ mem = [a \in Addr |-> Erased]
    /\ erasing = FALSE
    /\ resp = [ret |-> "none", data |-> NoData]

Refuse ==
    /\ ~erasing
    /\ resp' = Refused
    /\ UNCHANGED <<mem, erasing>>

Write(a, v) ==
    /\ ~erasing
    /\ mem' = [mem EXCEPT ![a] = v]
    /\ resp' = Done
    /\ UNCHANGED erasing

Read(a) ==
    /\ ~erasing
    /\ resp' = IF mem[a] = Erased THEN Blank
               ELSE [ret |-> "lbn", data |-> [addr |-> a, ver |-> mem[a]]]
    /\ UNCHANGED <<mem, erasing>>

EraseNothing(a) ==
    /\ ~erasing
    /\ mem[a] = Erased
    /\ resp' = Blank
    /\ UNCHANGED <<mem, erasing>>

BeginErase(a) ==
    /\ ~erasing
    /\ mem[a] # Erased
    /\ mem' = [c \in Addr |-> IF c \in BlkAddrs(a) THEN Erased ELSE mem[c]]
    /\ erasing' = TRUE
    /\ UNCHANGED resp

EndErase ==
    /\ erasing
    /\ erasing' = FALSE
    /\ resp' = Done
    /\ UNCHANGED mem

\* A command that is neither read, write nor erase.
Probe(a) ==
    /\ ~erasing
    /\ resp' = IF mem[a] = Erased THEN Refused ELSE Done
    /\ UNCHANGED <<mem, erasing>>

\* Initialisation with the same configuration.
Reinit ==
    /\ ~erasing
    /\ mem' = [a \in Addr |-> Erased]
    /\ resp' = [ret |-> "none", data |-> NoData]
    /\ UNCHANGED erasing

Next ==
    \/ Refuse \/ EndErase \/ Reinit
    \/ \E a \in Addr : Read(a) \/ EraseNothing(a) \/ BeginErase(a) \/ Probe(a)
    \/ \E a \in Addr, v \in Ver : Write(a, v)

Spec == Init /\ [][Next]_vars
=============================================================================
