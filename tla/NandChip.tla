------------------------------ MODULE NandChip ------------------------------
(***************************************************************************)
(* One flash chip as the SQL commands of the SDK drive it: the registers   *)
(* of its planes and the pages it has programmed.  The chip is not part of *)
(* the repository: what each confirm byte does is taken from the order in  *)
(* which SQLCmd::Read and SQLCmd::Write use it.                            *)
(*                                                                         *)
(* A page is named by <<block, row, sub>>: sub is the page of a word line  *)
(* that the prefix 01h, 02h, ... selects, 0 without prefix.                *)
(***************************************************************************)
EXTENDS Naturals, Sequences, TLC

CONSTANT PlaneCnt   \* planes of the chip

ASSUME PlanesAssumption == PlaneCnt \in Nat \ {0}

Plane == 0 .. PlaneCnt - 1
PlaneOf(at) == at[1] % PlaneCnt

NoPage == <<>>      \* an empty register

\* Every register holds the name of the page it was loaded from.
FreshChip ==
    [queue |-> [p \in Plane |-> NoPage],    \* planes that wait for the confirm
     data |-> [p \in Plane |-> NoPage],     \* read ahead
     cache |-> [p \in Plane |-> NoPage],    \* what a data output transfers
     staged |-> <<>>,       \* pages of other planes, given before the confirm
     held |-> <<>>,         \* pages of word lines that are not complete
     open |-> FALSE,        \* a cache program waits for its successor
     programmed |-> <<>>]   \* what the array was given, by page

(***************************************************************************)
(* Reads: 00h, address, then 32h, 30h or 31h; 31h alone; 3Fh; 05h..E0h.    *)
(***************************************************************************)
\* 32h: the plane waits for the confirm of the last one.
Queue(chip, at) == [chip EXCEPT !.queue[PlaneOf(at)] = at]

Queued(chip, at) == [chip.queue EXCEPT ![PlaneOf(at)] = at]

\* The registers reg of the planes named in asked are loaded, others stay.
Loaded(reg, asked) == [p \in Plane |-> IF asked[p] = NoPage THEN reg[p] ELSE asked[p]]

\* 30h: every plane asked for is read into both registers.
ReadPage(chip, at) ==
    [chip EXCEPT !.data = Loaded(chip.data, Queued(chip, at)),
                 !.cache = Loaded(chip.cache, Queued(chip, at)),
                 !.queue = FreshChip.queue]

\* 31h with an address: what was read ahead can be output, the next is read.
ReadNext(chip, at) ==
    [chip EXCEPT !.cache = chip.data,
                 !.data = Loaded(chip.data, Queued(chip, at)),
                 !.queue = FreshChip.queue]

\* 31h without: the next page of the block, step rows further.
ReadSequential(chip, step) ==
    [chip EXCEPT !.cache = chip.data,
                 !.data = [p \in Plane |->
                              IF chip.data[p] = NoPage THEN NoPage
                              ELSE [chip.data[p] EXCEPT ![2] = @ + step]]]

\* 3Fh: what was read ahead can be output.
ReadFinish(chip) == [chip EXCEPT !.cache = chip.data]

Output(chip, plane) == chip.cache[plane]

(***************************************************************************)
(* Programs: 80h, address, data, then 11h, 1Ah or 22h, 15h, 10h or 23h.    *)
(***************************************************************************)
\* 11h: the page waits for the other planes.
Stage(chip, at, page) == [chip EXCEPT !.staged = (at :> page) @@ @]

\* 1Ah, 22h: the pages wait for the others of their word lines.
Hold(chip, at, page) ==
    [chip EXCEPT !.held = (at :> page) @@ chip.staged @@ @, !.staged = <<>>]

\* 10h, 23h; 15h leaves the cache program open.
Program(chip, at, page, more) ==
    [chip EXCEPT !.programmed = (at :> page) @@ chip.staged @@ chip.held @@ @,
                 !.staged = <<>>, !.held = <<>>, !.open = more]

=============================================================================
