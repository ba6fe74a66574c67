----------------------------- MODULE MCSqlPages -----------------------------
(***************************************************************************)
(* An instance of SqlPages for TLC: every part for one job, and parts of   *)
(* two classes for a second one after it.                                  *)
(***************************************************************************)
EXTENDS SqlPages

AllParts == Part

TwiceParts ==
    {[maker |-> "TSB", kind |-> "3D", table |-> FALSE],
     [maker |-> "Micron", kind |-> "D2", table |-> TRUE]}

JobsOfPart == [p \in Part |-> IF p \in TwiceParts THEN 2 ELSE 1]

\* The whole block, once over: the three passes of the planar order, which takes
\* its middle from position 6 to MaxPage - 4, go from one end to the other.
WholeBlock == <<0, 0>>

\* Its first page, pages inside, a word line, and what crosses the end of a
\* block of half, of all and of all pages of all word lines.
SomeRanges ==
    {<<0, 1>>, <<1, 2>>, <<3, 3>>, <<MaxPage \div 2 - 1, 3>>, <<MaxPage - 1, 3>>,
     <<(MaxPage - 1) * Cell, 2 * Cell>>}

RangesOfPart ==
    [p \in Part |-> IF p \in TwiceParts THEN SomeRanges ELSE SomeRanges \cup {WholeBlock}]

=============================================================================
