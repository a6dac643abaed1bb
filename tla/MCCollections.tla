---------------------------- MODULE MCCollections ----------------------------
(* Small instances of Collections for TLC.                                 *)
EXTENDS Collections, TLC

Symmetry == Permutations(Posted) \cup Permutations(Requests)
            \cup Permutations(Receivables)
=============================================================================
