---------------------------- MODULE MCReceivables ----------------------------
(* A small instance of Receivables for TLC.                                *)
EXTENDS Receivables, TLC

\* Two corrections: one may double the amount, the other halve it.
MCPeriods == {<<1, 1>>, <<2, 2>>}

MCRates == <<{100}, {-50}>>

Symmetry ==
  Permutations(Payments) \cup Permutations(Requests) \cup Permutations(Entries)
=============================================================================
