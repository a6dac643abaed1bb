------------------------------ MODULE Pipeline ------------------------------
(* Pipelines and their stages, the opportunities that move through them,    *)
(* their stage history, and the board that sums them up (src/src/crm).      *)
(*                                                                          *)
(* A request is a transaction that takes its lock and reads, and later      *)
(* writes and commits; the others run between the two.  The locks are those *)
(* of the code: an advisory lock for the default pipeline, another for the  *)
(* pipelines users create, and the row lock of an opportunity.  The unique  *)
(* index on the default pipeline is deliberately not a guard: the           *)
(* properties hold of what the code checks itself.  Codes, positions and    *)
(* the terminal marks of a stage are kept, its name and colour are not.     *)
EXTENDS Naturals, Sequences, FiniteSets, Functions, FiniteSetsExt

CONSTANTS
  Pipelines,       \* identities of SalesPipeline rows
  Opportunities,   \* identities of Opportunity rows
  Names,           \* names of pipelines, as compared
  DefaultName,     \* the name of the default pipeline
  DefaultStages,   \* the stages of the default pipeline, a list
  StageLists,      \* lists of stages users send, valid or not
  Values,          \* estimated values of opportunities, in cents
  Probabilities,   \* probabilities users enter
  Reasons,         \* reasons for a loss
  StageLimit,      \* cards of a stage that the board loads
  Requests,        \* requests in flight at once
  MaxMoves,        \* bound: rows of the stage histories together
  Null

VARIABLES
  pipeline,      \* SalesPipeline rows with their SalesStage rows
  opportunity,   \* Opportunity rows
  history,       \* OpportunityStageHistory rows of each, in order
  req            \* requests in flight

vars == <<pipeline, opportunity, history, req>>

Absent == [absent |-> TRUE]

Stage(code, position, probability, won, lost) ==
  [code |-> code, position |-> position, probability |-> probability,
   won |-> won, lost |-> lost]

StageRow ==
  [code : STRING, position : Nat, probability : 0..100, won : BOOLEAN, lost : BOOLEAN]

\* What the DTOs let through.
ASSUME StageAssumption ==
  \A list \in StageLists \cup {DefaultStages} : list \in Seq(StageRow)
ASSUME ValueAssumption ==
  Values \subseteq Nat /\ Probabilities \subseteq 0..100 /\ StageLimit \in Nat
ASSUME NameAssumption == DefaultName \in Names
ASSUME FiniteAssumption == IsFiniteSet(Opportunities)

Stages == UNION {Range(list) : list \in StageLists \cup {DefaultStages}}

PipelineRow == [name : Names, isDefault : BOOLEAN, stages : SUBSET Stages]

\* A stage is named by its pipeline and its code.
OpportunityRow ==
  [pipeline    : Pipelines,
   stage       : Stages,
   lostReason  : Reasons \cup {Null},
   value       : Values \cup {Null},
   probability : 0..100 \cup {Null}]

HistoryRow ==
  [from : Stages \cup {Null}, to : Stages, lostReason : Reasons \cup {Null}]

Idle == [at |-> "idle"]

RequestState ==
  {Idle}
    \cup [at : {"ensure"}, found : BOOLEAN]
    \cup [at : {"create"}, name : Names, stages : SUBSET Stages]
    \cup [at : {"stage"}, opp : Opportunities, from : Stages, to : Stages,
          reason : Reasons \cup {Null}]

Existing == {p \in Pipelines : pipeline[p] # Absent}
Open == {o \in Opportunities : opportunity[o] # Absent}
-----------------------------------------------------------------------------
(* Locks: taken when a request begins, given up when it ends.               *)

\* Mutant: no advisory lock, so that two first requests find no default.
BugDefaultUnlocked == TRUE

DefaultUnlocked == \A r \in Requests : req[r].at # "ensure"

NamesUnlocked == \A r \in Requests : req[r].at # "create"

\* Mutant: the opportunity is read without locking its row.
BugUnlocked(o) == TRUE

Unlocked(o) == \A r \in Requests : req[r].at = "stage" => req[r].opp # o

End(r) == req' = [req EXCEPT ![r] = Idle]

\* A refusal, a timeout or a crash: the transaction leaves no trace.
Rollback(r) ==
  /\ req[r] # Idle
  /\ End(r)
  /\ UNCHANGED <<pipeline, opportunity, history>>
-----------------------------------------------------------------------------
(* Pipelines.                                                               *)

ValidStages(list) ==
  /\ Cardinality({s.code : s \in Range(list)}) = Len(list)
  /\ Cardinality({s.position : s \in Range(list)}) = Len(list)
  /\ \A s \in Range(list) : ~(s.won /\ s.lost)
  /\ Cardinality({i \in DOMAIN list : list[i].won}) = 1
  /\ Cardinality({i \in DOMAIN list : list[i].lost}) = 1

\* The code has eight stages here; the last two are won and lost.
ASSUME DefaultStagesAssumption == ValidStages(DefaultStages)

\* Every read of the board or of the lists, and a creation that names no
\* pipeline, first makes sure that there is a default one.
EnsureDefaultBegin(r) ==
  /\ req[r] = Idle
  /\ DefaultUnlocked
  /\ req' = [req EXCEPT ![r] =
       [at |-> "ensure", found |-> \E p \in Existing : pipeline[p].isDefault]]
  /\ UNCHANGED <<pipeline, opportunity, history>>

EnsureDefaultCommit(r) ==
  /\ req[r].at = "ensure"
  /\ IF req[r].found
       THEN UNCHANGED pipeline
       ELSE \E p \in Pipelines \ Existing :
              pipeline' = [pipeline EXCEPT ![p] =
                [name |-> DefaultName, isDefault |-> TRUE,
                 stages |-> Range(DefaultStages)]]
  /\ End(r)
  /\ UNCHANGED <<opportunity, history>>

CreatePipelineBegin(r, name, list) ==
  /\ req[r] = Idle
  /\ ValidStages(list)
  /\ NamesUnlocked
  /\ \A p \in Existing : pipeline[p].name # name
  /\ req' = [req EXCEPT ![r] =
       [at |-> "create", name |-> name, stages |-> Range(list)]]
  /\ UNCHANGED <<pipeline, opportunity, history>>

CreatePipelineCommit(r) ==
  /\ req[r].at = "create"
  /\ \E p \in Pipelines \ Existing :
       pipeline' = [pipeline EXCEPT ![p] =
         [name |-> req[r].name, isDefault |-> FALSE, stages |-> req[r].stages]]
  /\ End(r)
  /\ UNCHANGED <<opportunity, history>>
-----------------------------------------------------------------------------
(* Opportunities.                                                           *)

Moves == MapThenSumSet(LAMBDA o : Len(history[o]), Opportunities)

\* In the stage asked for, or else the first of the pipeline.
CreateOpportunity(o, p, s, value, probability) ==
  /\ o \notin Open
  /\ Moves < MaxMoves
  /\ p \in Existing
  /\ s \in pipeline[p].stages
  /\ ~s.won /\ ~s.lost
  /\ opportunity' = [opportunity EXCEPT ![o] =
       [pipeline |-> p, stage |-> s, lostReason |-> Null, value |-> value,
        probability |-> IF probability = Null THEN s.probability ELSE probability]]
  /\ history' = [history EXCEPT ![o] =
       <<[from |-> Null, to |-> s, lostReason |-> Null]>>]
  /\ UNCHANGED <<pipeline, req>>

\* Of what an edit may change, only what the board weighs is kept.
UpdateOpportunity(o, value, probability) ==
  /\ o \in Open
  /\ Unlocked(o)
  /\ opportunity' = [opportunity EXCEPT ![o].value = value,
                                        ![o].probability = probability]
  /\ UNCHANGED <<pipeline, history, req>>

RemoveOpportunity(o) ==
  /\ o \in Open
  /\ Unlocked(o)
  /\ opportunity' = [opportunity EXCEPT ![o] = Absent]
  /\ history' = [history EXCEPT ![o] = <<>>]
  /\ UNCHANGED <<pipeline, req>>

\* moveOpportunity: the target is looked up in the opportunity's own pipeline;
\* a move to the stage it is in writes nothing.
MoveBegin(r, o, s, reason) ==
  /\ req[r] = Idle
  /\ o \in Open
  /\ Unlocked(o)
  /\ s \in pipeline[opportunity[o].pipeline].stages
  /\ s # opportunity[o].stage
  /\ req' = [req EXCEPT ![r] =
       [at |-> "stage", opp |-> o, from |-> opportunity[o].stage, to |-> s,
        reason |-> reason]]
  /\ UNCHANGED <<pipeline, opportunity, history>>

First(stages) ==
  CHOOSE s \in stages : \A t \in stages : s.position <= t.position

WonStage(p) == First({s \in pipeline[p].stages : s.won})

\* The acceptance of a proposal and its conversion into a sale win the
\* opportunity; a lost one refuses, a won one stays as it is.
WinBegin(r, o) ==
  /\ req[r] = Idle
  /\ o \in Open
  /\ Unlocked(o)
  /\ ~opportunity[o].stage.lost
  /\ ~opportunity[o].stage.won
  /\ req' = [req EXCEPT ![r] =
       [at |-> "stage", opp |-> o, from |-> opportunity[o].stage,
        to |-> WonStage(opportunity[o].pipeline), reason |-> Null]]
  /\ UNCHANGED <<pipeline, opportunity, history>>

\* Kept only for a loss, which is refused without one.
LostReason(s, reason) == IF s.lost THEN reason ELSE Null

\* The single writer of Opportunity.stageId.
ApplyOpportunityStageChange(r) ==
  /\ req[r].at = "stage"
  /\ req[r].opp \in Open
  /\ Moves < MaxMoves
  /\ req[r].to.lost => req[r].reason # Null
  /\ LET o == req[r].opp
         reason == LostReason(req[r].to, req[r].reason)
     IN /\ opportunity' = [opportunity EXCEPT ![o].stage = req[r].to,
                                              ![o].lostReason = reason]
        /\ history' = [history EXCEPT ![o] = Append(@,
             [from |-> req[r].from, to |-> req[r].to, lostReason |-> reason])]
  /\ End(r)
  /\ UNCHANGED pipeline
-----------------------------------------------------------------------------
(* The board: a grouped query over (stage, probability), added up for each  *)
(* stage and then for the pipeline, whose weighted value is the sum of those *)
(* of its stages as they are shown, each rounded to the cent.               *)

Cards(p) == {o \in Open : opportunity[o].pipeline = p}

Worth(o) == IF opportunity[o].value = Null THEN 0 ELSE opportunity[o].value

Buckets(p) ==
  {[stage |-> opportunity[o].stage, probability |-> opportunity[o].probability]
     : o \in Cards(p)}

\* Mutant: the buckets are those of the stage alone.
BugInBucket(p, b) == {o \in Cards(p) : opportunity[o].stage = b.stage}

InBucket(p, b) ==
  {o \in Cards(p) : /\ opportunity[o].stage = b.stage
                   /\ opportunity[o].probability = b.probability}

BucketSum(p, b) == MapThenSumSet(Worth, InBucket(p, b))

Weight(b) == IF b.probability = Null THEN b.stage.probability ELSE b.probability

\* Of hundredths of a cent, which weights of percent leave; half a cent goes up.
ToFixed2(w) == (w + 50) \div 100

BoardStage(p, s) ==
  LET mine == {b \in Buckets(p) : b.stage.code = s.code}
      total == MapThenSumSet(LAMBDA b : Cardinality(InBucket(p, b)), mine)
      loaded == Min({StageLimit, Cardinality({o \in Cards(p) : opportunity[o].stage = s})})
  IN [total     |-> total,
      loaded    |-> loaded,
      hasMore   |-> total > loaded,
      estimated |-> MapThenSumSet(LAMBDA b : BucketSum(p, b), mine),
      weighted  |-> ToFixed2(MapThenSumSet(LAMBDA b : BucketSum(p, b) * Weight(b),
                                           mine))]

Board(p) ==
  LET columns == [s \in pipeline[p].stages |-> BoardStage(p, s)]
      Added(field) == MapThenSumSet(LAMBDA s : columns[s][field], DOMAIN columns)
  IN [total     |-> Added("total"),
      loaded    |-> Added("loaded"),
      more      |-> \E s \in DOMAIN columns : columns[s].hasMore,
      estimated |-> Added("estimated"),
      weighted  |-> Added("weighted")]
-----------------------------------------------------------------------------
Init ==
  /\ pipeline = [p \in Pipelines |-> Absent]
  /\ opportunity = [o \in Opportunities |-> Absent]
  /\ history = [o \in Opportunities |-> <<>>]
  /\ req = [r \in Requests |-> Idle]

Next ==
  \/ \E r \in Requests :
       \/ Rollback(r)
       \/ EnsureDefaultBegin(r)
       \/ EnsureDefaultCommit(r)
       \/ \E name \in Names, list \in StageLists : CreatePipelineBegin(r, name, list)
       \/ CreatePipelineCommit(r)
       \/ \E o \in Opportunities, s \in Stages, reason \in Reasons \cup {Null} :
            MoveBegin(r, o, s, reason)
       \/ \E o \in Opportunities : WinBegin(r, o)
       \/ ApplyOpportunityStageChange(r)
  \/ \E o \in Opportunities :
       \/ RemoveOpportunity(o)
       \/ \E value \in Values \cup {Null}, q \in Probabilities \cup {Null} :
            \/ UpdateOpportunity(o, value, q)
            \/ \E p \in Pipelines, s \in Stages : CreateOpportunity(o, p, s, value, q)

Spec == Init /\ [][Next]_vars
-----------------------------------------------------------------------------
(* Properties.                                                              *)

TypeOK ==
  /\ pipeline \in [Pipelines -> PipelineRow \cup {Absent}]
  /\ opportunity \in [Opportunities -> OpportunityRow \cup {Absent}]
  /\ \A o \in Opportunities : history[o] \in Seq(HistoryRow)
  /\ req \in [Requests -> RequestState]

\* The first requests of an organisation race to create its default pipeline.
OneDefaultPipeline ==
  \A p, q \in Existing : pipeline[p].isDefault /\ pipeline[q].isDefault => p = q

\* Names are compared under a lock of their own, so that only the default
\* pipeline, created under another, can share the name of one users created.
SameNameOnlyAsDefault ==
  \A p, q \in Existing :
    p # q /\ pipeline[p].name = pipeline[q].name
      => pipeline[p].isDefault \/ pipeline[q].isDefault

\* An opportunity is in a stage of its pipeline, which can be won and lost in
\* exactly one way each: what the acceptance of a proposal relies on.
StagesCanEnd ==
  /\ \A p \in Existing :
       /\ Cardinality({s \in pipeline[p].stages : s.won}) = 1
       /\ Cardinality({s \in pipeline[p].stages : s.lost}) = 1
  /\ \A o \in Open : /\ opportunity[o].pipeline \in Existing
                     /\ opportunity[o].stage \in pipeline[opportunity[o].pipeline].stages

\* PipelinesConsistent: the rows have their types, there is one default
\* pipeline, names are unique but for its own, and every opportunity is in a
\* stage of a pipeline that can end (ensureDefaultPipeline, createPipeline).
PipelinesConsistent ==
  /\ TypeOK
  /\ OneDefaultPipeline
  /\ SameNameOnlyAsDefault
  /\ StagesCanEnd

\* The history of an opportunity explains where it is, whoever moved it: each
\* row starts where the one before ended and the last ends at the current
\* stage.  A row has a reason exactly when it is a loss, and the opportunity
\* shows that of its last row (applyOpportunityStageChange, moveOpportunity,
\* winOpportunity, ensureOpportunityWon).
HistoryExplainsStage ==
  \A o \in Open :
    LET h == history[o] IN
    /\ h # <<>>
    /\ h[1].from = Null
    /\ \A i \in 1..Len(h) - 1 : h[i + 1].from = h[i].to
    /\ \A i \in 1..Len(h) : (h[i].lostReason # Null) = h[i].to.lost
    /\ opportunity[o].stage = h[Len(h)].to
    /\ opportunity[o].lostReason = h[Len(h)].lostReason

\* What the cards S are worth, each weighed with its own probability or that of
\* its stage, in hundredths of a cent.
WeighedWorth(S) == MapThenSumSet(LAMBDA o : Worth(o) * Weight(opportunity[o]), S)

\* The board counts and values every opportunity of its pipeline once; each
\* stage shows the weighted worth of its cards to the cent, and the pipeline is
\* off by half a cent a stage at most; and there is more exactly when some card
\* was not loaded (findBoard).
BoardCountsEveryOpportunity ==
  \A p \in Existing :
    LET board == Board(p)
        exact == WeighedWorth(Cards(p))
        error == 50 * Cardinality(pipeline[p].stages)
    IN
    /\ board.total = Cardinality(Cards(p))
    /\ board.estimated = MapThenSumSet(Worth, Cards(p))
    /\ \A s \in pipeline[p].stages :
         BoardStage(p, s).weighted
           = ToFixed2(WeighedWorth({o \in Cards(p) : opportunity[o].stage = s}))
    /\ 100 * board.weighted - exact <= error
    /\ exact - 100 * board.weighted <= error
    /\ board.more = (board.loaded < Cardinality(Cards(p)))
=============================================================================
