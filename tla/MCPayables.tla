------------------------------ MODULE MCPayables ------------------------------
(* Small instances of Payables for TLC.                                    *)
EXTENDS Payables, TLC

Symmetry ==
  Permutations(Payments) \cup Permutations(Requests) \cup Permutations(Manual)
  \cup Permutations(Commissions) \cup Permutations(Returns)
=============================================================================
