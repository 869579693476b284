-------------------------------- MODULE Lists --------------------------------
(***************************************************************************)
(* Lists that are made of other lists by loops which skip some elements.   *)
(***************************************************************************)
EXTENDS Integers, FiniteSets

\* The elements of a list at the given positions, in the order of the list.
AtPositions(list, positions) ==
    LET Nth(n) == CHOOSE i \in positions : Cardinality({j \in positions : j <= i}) = n
    IN  [n \in 1..Cardinality(positions) |-> list[Nth(n)]]

\* The sum of the numbers that a list has at the given positions: the number of pairs
\* of a position and a number up to the one there.
SumAt(list, positions) == Cardinality(UNION {{i} \X (1..list[i]) : i \in positions})
=============================================================================
