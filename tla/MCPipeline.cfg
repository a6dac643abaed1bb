\* Two requests at once over two opportunities.  An operation may always be
\* rolled back, so that the system never stops.
SPECIFICATION Spec
CONSTANTS
  Null = Null
  Pipelines = {p1, p2}
  Opportunities = {o1, o2}
  Names = {"Pipeline comercial", "Outro"}
  DefaultName = "Pipeline comercial"
  DefaultStages <- MCDefaultStages
  StageLists <- MCStageLists
  Values = {101}
  Probabilities = {50}
  Reasons = {why}
  StageLimit = 1
  Requests = {r1, r2}
  MaxMoves = 3
SYMMETRY Symmetry
INVARIANTS
  PipelinesConsistent
  HistoryExplainsStage
  BoardCountsEveryOpportunity
