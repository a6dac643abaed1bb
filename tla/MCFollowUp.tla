----------------------------- MODULE MCFollowUp -----------------------------
(* A small instance of FollowUp for TLC.                                    *)
EXTENDS FollowUp, TLC

CONSTANTS a1, v1, f1

MCOrder == <<a1, f1, v1>>

Symmetry == Permutations(Edits)
=============================================================================
