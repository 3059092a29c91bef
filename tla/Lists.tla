-------------------------------- MODULE Lists --------------------------------
(***************************************************************************)
(* Lists that are made of chosen rows of other lists: what a loop of the   *)
(* code keeps, in the order it finds it.                                   *)
(***************************************************************************)
EXTENDS Integers, FiniteSets

(* The numbers of a finite set, lowest first.                              *)
Ascending(S) == [n \in 1..Cardinality(S) |-> CHOOSE i \in S : Cardinality({j \in S : j <= i}) = n]

(* What a loop keeps of a list: the rows at these places, in their order.  *)
Kept(rows, places) ==
    LET nth == Ascending(places)
    IN [n \in 1..Cardinality(places) |-> rows[nth[n]]]
=============================================================================
