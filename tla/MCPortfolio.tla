---------------------------- MODULE MCPortfolio -----------------------------
(* A small instance of Portfolio for TLC.                                   *)
EXTENDS Portfolio, TLC

Symmetry == Permutations(Operations) \cup Permutations(Allocations)
  \cup Permutations(Developments)

\* Bound: no check reads the dates of a development with those of another row,
\* so that they vary only where at most two rows are present.
Dated == {d \in Developments \cap Present : {row[d].launch, row[d].delivery} # {1}}
DatesAlone == Dated = {} \/ Cardinality(Present) <= 2
=============================================================================
