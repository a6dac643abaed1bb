----------------------------- MODULE MCPipeline -----------------------------
(* A small instance of Pipeline for TLC.                                    *)
EXTENDS Pipeline, TLC

\* The eight stages of the code, with one of the first six for all of them
\* but the first.
MCDefaultStages ==
  <<Stage("NOVO", 0, 5, FALSE, FALSE),
    Stage("VISITA", 1, 50, FALSE, FALSE),
    Stage("GANHO", 2, 100, TRUE, FALSE),
    Stage("PERDIDO", 3, 0, FALSE, TRUE)>>

Won == Stage("GANHO", 1, 100, TRUE, FALSE)
Lost == Stage("PERDIDO", 2, 0, FALSE, TRUE)

\* A list that is accepted, and lists that must not be: two stages won, two
\* with one code, two in one place, none to lose in.
MCStageLists ==
  {<<Stage("NOVO", 0, 40, FALSE, FALSE), Won, Lost>>,
   <<Stage("NOVO", 0, 40, TRUE, FALSE), Won, Lost>>,
   <<Stage("GANHO", 0, 40, FALSE, FALSE), Won, Lost>>,
   <<Stage("NOVO", 1, 40, FALSE, FALSE), Won, Lost>>,
   <<Stage("NOVO", 0, 40, FALSE, FALSE), Won>>}

Symmetry ==
  Permutations(Pipelines) \cup Permutations(Opportunities)
    \cup Permutations(Requests)
=============================================================================
