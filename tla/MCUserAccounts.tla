--------------------------- MODULE MCUserAccounts ---------------------------
(* Small instances of UserAccounts for TLC.                                 *)
EXTENDS UserAccounts, TLC

Symmetry ==
  Permutations(Emails) \cup Permutations(Orgs) \cup Permutations(Invitations)
    \cup Permutations(Tokens) \cup Permutations(Requests)
=============================================================================
