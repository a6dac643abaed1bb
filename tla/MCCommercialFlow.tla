-------------------------- MODULE MCCommercialFlow --------------------------
(* Small instances of CommercialFlow for TLC.                              *)
EXTENDS CommercialFlow, TLC

CONSTANTS u1, u2, d1, d2

MCDevelopmentOne == [u \in Units |-> d1]
MCDevelopmentTwo == u1 :> d1 @@ u2 :> d2

Symmetry ==
  Permutations(Reservations) \cup Permutations(Proposals)
  \cup Permutations(Sales) \cup Permutations(Requests)
=============================================================================
