----------------------------- MODULE CrmProofs ------------------------------
(***************************************************************************)
(* Pipeline: pipelines are consistent, the history of an opportunity       *)
(* explains where it is and the board counts every opportunity once, for   *)
(* any number of pipelines, opportunities, stages and requests.            *)
(*                                                                         *)
(* FollowUp: activities and visits show what their status says, a visit    *)
(* that ended never changes again, the timeline leaves out nothing that    *)
(* stayed where it was, and the units of an opportunity are scored alike   *)
(* by the query and by what explains it, those that fit best first.        *)
(*                                                                         *)
(* Each inductive invariant says what a request in flight may rely on:     *)
(* what it read under its lock is still so, because whoever would change   *)
(* it takes the same lock.  That of FollowUp says also how far the reader  *)
(* of the timeline has come.                                               *)
(***************************************************************************)
EXTENDS FiniteSums, Pipeline, FollowUp

(* Pipeline.                                                                *)

\* What createPipeline checks of the stages it is sent, as far as the board
\* and the acceptance of a proposal rely on it.
WellStaged(S) ==
  /\ IsFiniteSet(S)
  /\ \A s, t \in S : s.code = t.code => s = t
  /\ Cardinality({s \in S : s.won}) = 1
  /\ Cardinality({s \in S : s.lost}) = 1

HasDefault == \E p \in Existing : pipeline[p].isDefault

\* Two requests that need the same lock.
Exclude(x, y) ==
  /\ x.at = y.at
  /\ \/ x.at \in {"ensure", "create"}
     \/ x.at = "stage" /\ x.opp = y.opp

\* What a request read is still so.
Stands(x) ==
  /\ x.at = "ensure" => x.found = HasDefault
  /\ x.at = "create" =>
       /\ WellStaged(x.stages)
       /\ \A p \in Existing : pipeline[p].name = x.name => pipeline[p].isDefault
  /\ x.at = "stage" =>
       /\ x.opp \in Open
       /\ x.from = opportunity[x.opp].stage
       /\ x.to \in pipeline[opportunity[x.opp].pipeline].stages

LocksExclude == \A q, r \in Requests : Exclude(req[q], req[r]) => q = r

ReadsStand == \A r \in Requests : Stands(req[r])

PipelinesWellStaged == \A p \in Existing : WellStaged(pipeline[p].stages)

\* An opportunity is in a stage of its pipeline.
Placed ==
  \A o \in Open : /\ opportunity[o].pipeline \in Existing
                  /\ opportunity[o].stage \in pipeline[opportunity[o].pipeline].stages

IInv ==
  /\ TypeOK
  /\ history \in [Opportunities -> Seq(HistoryRow)]
  /\ LocksExclude
  /\ ReadsStand
  /\ PipelinesWellStaged
  /\ Placed
  /\ OneDefaultPipeline
  /\ SameNameOnlyAsDefault
  /\ HistoryExplainsStage

-----------------------------------------------------------------------------
(* Rows and requests.                                                      *)

\* A row is not absent.
LEMMA RowsArePresent ==
  /\ \A x \in PipelineRow : x # Absent
  /\ \A x \in OpportunityRow : x # Absent
<1>1. DOMAIN Absent = {"absent"}
  BY DEF Absent
<1>2. ASSUME NEW x \in PipelineRow PROVE DOMAIN x = {"name", "isDefault", "stages"}
  BY DEF PipelineRow
<1>3. ASSUME NEW x \in OpportunityRow PROVE "pipeline" \in DOMAIN x
  BY DEF OpportunityRow
<1> QED
  BY <1>1, <1>2, <1>3

LEMMA PipelineType ==
  ASSUME TypeOK, NEW p \in Existing
  PROVE  /\ pipeline[p] \in PipelineRow
         /\ p \in Pipelines
         /\ pipeline[p].name \in Names
         /\ pipeline[p].isDefault \in BOOLEAN
         /\ pipeline[p].stages \in SUBSET Stages
BY DEF TypeOK, Existing, PipelineRow

LEMMA OpportunityType ==
  ASSUME TypeOK, NEW o \in Open
  PROVE  /\ opportunity[o] \in OpportunityRow
         /\ o \in Opportunities
         /\ opportunity[o].pipeline \in Pipelines
         /\ opportunity[o].stage \in Stages
         /\ opportunity[o].value \in Values \cup {Null}
         /\ opportunity[o].probability \in 0..100 \cup {Null}
         /\ opportunity[o].lostReason \in Reasons \cup {Null}
BY DEF TypeOK, Open, OpportunityRow

LEMMA RequestType ==
  ASSUME TypeOK, NEW r \in Requests
  PROVE  /\ req[r].at \in {"idle", "ensure", "create", "stage"}
         /\ req[r].at = "idle" => req[r] = Idle
         /\ req[r].at = "ensure" => req[r].found \in BOOLEAN
         /\ req[r].at = "create" => req[r].name \in Names /\ req[r].stages \in SUBSET Stages
         /\ req[r].at = "stage" => /\ req[r].opp \in Opportunities
                                   /\ req[r].from \in Stages
                                   /\ req[r].to \in Stages
                                   /\ req[r].reason \in Reasons \cup {Null}
<1>1. req[r] \in RequestState
  BY DEF TypeOK
<1> QED
  BY <1>1 DEF RequestState, Idle

LEMMA StageType ==
  ASSUME NEW s \in Stages
  PROVE  /\ s \in StageRow
         /\ s.probability \in 0..100
         /\ s.position \in Nat
         /\ s.won \in BOOLEAN
         /\ s.lost \in BOOLEAN
<1>1. PICK list \in StageLists \cup {DefaultStages} : s \in Range(list)
  BY DEF Stages
<1>2. list \in Seq(StageRow)
  BY StageAssumption
<1>3. \A i \in DOMAIN list : list[i] \in StageRow
  BY <1>2
<1>4. s \in StageRow
  BY <1>1, <1>3 DEF Range
<1> QED
  BY <1>4 DEF StageRow

\* createPipeline lets well staged pipelines through, and the default one is.
LEMMA ValidIsWellStaged ==
  ASSUME NEW list \in StageLists \cup {DefaultStages}, ValidStages(list)
  PROVE  WellStaged(Range(list)) /\ Range(list) \in SUBSET Stages
<1> DEFINE R == Range(list)
           C == {s.code : s \in R}
           h == [s \in R |-> s.code]
<1>1. /\ list \in Seq(StageRow)
      /\ Len(list) \in Nat
      /\ DOMAIN list = 1..Len(list)
  BY StageAssumption
<1>2. IsFiniteSet(DOMAIN list) /\ Cardinality(DOMAIN list) = Len(list)
  BY <1>1, FS_Interval
<1>3. list \in Surjection(DOMAIN list, R)
  BY <1>1 DEF Surjection, Range
<1>4. IsFiniteSet(R) /\ Cardinality(R) <= Len(list)
  BY <1>2, <1>3, FS_Surjection
<1>5. h \in Surjection(R, C)
  BY DEF Surjection
<1>6. \A s, t \in R : s.code = t.code => s = t
  <2>1. Cardinality(C) = Len(list)
    BY DEF ValidStages
  <2>2. Cardinality(C) <= Cardinality(R)
    <3> HIDE DEF h, C, R
    <3> QED
      BY <1>4, <1>5, FS_Surjection
  <2>3. Cardinality(R) \in Nat
    BY <1>4, FS_CardinalityType
  <2>4. Cardinality(C) = Cardinality(R)
    <3> HIDE DEF C, R
    <3> QED
      BY <1>1, <1>4, <2>1, <2>2, <2>3
  <2>5. h \in Injection(R, C)
    <3> HIDE DEF h, C, R
    <3> QED
      BY <1>4, <1>5, <2>4, FS_Surjection
  <2> QED
    BY <2>5 DEF Injection, IsInjective
<1>7. Cardinality({s \in R : s.won}) = 1
  <2> DEFINE I == {i \in DOMAIN list : list[i].won}
  <2>1. IsFiniteSet(I)
    BY <1>2, FS_Subset
  <2>2. Cardinality(I) = 1
    BY DEF ValidStages
  <2>3. PICK k : I = {k}
    BY <2>1, <2>2, FS_Singleton
  <2>4. {s \in R : s.won} = {list[k]}
    BY <2>3 DEF Range
  <2> QED
    BY <2>4, FS_Singleton
<1>8. Cardinality({s \in R : s.lost}) = 1
  <2> DEFINE I == {i \in DOMAIN list : list[i].lost}
  <2>1. IsFiniteSet(I)
    BY <1>2, FS_Subset
  <2>2. Cardinality(I) = 1
    BY DEF ValidStages
  <2>3. PICK k : I = {k}
    BY <2>1, <2>2, FS_Singleton
  <2>4. {s \in R : s.lost} = {list[k]}
    BY <2>3 DEF Range
  <2> QED
    BY <2>4, FS_Singleton
<1>9. R \in SUBSET Stages
  BY DEF Stages
<1> QED
  BY <1>4, <1>6, <1>7, <1>8, <1>9 DEF WellStaged

\* The stage that wins is one of the pipeline's.
LEMMA WonStageIsOne ==
  ASSUME TypeOK, NEW p \in Existing, WellStaged(pipeline[p].stages)
  PROVE  WonStage(p) \in pipeline[p].stages
<1> DEFINE W == {s \in pipeline[p].stages : s.won}
<1>1. IsFiniteSet(W) /\ Cardinality(W) = 1
  BY FS_Subset DEF WellStaged
<1>2. PICK s : W = {s}
  BY <1>1, FS_Singleton
<1>3. s.position \in Nat
  BY <1>2, PipelineType, StageType
<1>4. s \in W /\ \A t \in W : s.position <= t.position
  BY <1>2, <1>3
<1>5. First(W) \in W
  <2> HIDE DEF W
  <2> QED
    BY <1>4 DEF First
<1> QED
  BY <1>5 DEF WonStage

-----------------------------------------------------------------------------
(* Frames: what a step of each kind leaves of the invariant.               *)

IdleType == Idle \in RequestState

LEMMA IdleStands ==
  /\ IdleType
  /\ Stands(Idle)
  /\ \A x : ~Exclude(Idle, x) /\ ~Exclude(x, Idle)
BY DEF IdleType, Idle, RequestState, Stands, Exclude

\* A request goes on to x, and everybody's reads still stand: so do the locks.
LEMMA RequestStep ==
  ASSUME TypeOK, LocksExclude, NEW r \in Requests, NEW x,
         req' = [req EXCEPT ![r] = x], x \in RequestState,
         \A q \in Requests \ {r} : ~Exclude(req[q], x) /\ ~Exclude(x, req[q]),
         Stands(x)',
         \A q \in Requests \ {r} : \A y \in RequestState : y = req[q] => Stands(y)'
  PROVE  /\ req' \in [Requests -> RequestState]
         /\ LocksExclude'
         /\ ReadsStand'
<1>1. /\ req \in [Requests -> RequestState]
      /\ req'[r] = x
      /\ \A q \in Requests \ {r} : req'[q] = req[q]
  BY DEF TypeOK
<1>2. req' \in [Requests -> RequestState]
  BY <1>1
<1>3. LocksExclude'
  BY <1>1 DEF LocksExclude
<1>4. ReadsStand'
  <2> SUFFICES ASSUME NEW q \in Requests PROVE Stands(req[q])'
    BY DEF ReadsStand
  <2>1. CASE q = r
    BY <1>1, <2>1 DEF Stands
  <2>2. CASE q # r
    <3>1. PICK y \in RequestState : y = req[q]
      BY <1>1
    <3>2. Stands(y)'
      BY <2>2, <3>1
    <3> QED
      BY <1>1, <2>2, <3>1, <3>2 DEF Stands
  <2> QED
    BY <2>1, <2>2
<1> QED
  BY <1>2, <1>3, <1>4

\* A step that only begins or ends a request.
LEMMA BeginInv ==
  ASSUME IInv, NEW r \in Requests, NEW x,
         req' = [req EXCEPT ![r] = x], x \in RequestState,
         UNCHANGED <<pipeline, opportunity, history>>,
         \A q \in Requests \ {r} : ~Exclude(req[q], x) /\ ~Exclude(x, req[q]),
         Stands(x)
  PROVE  IInv'
<1>1. TypeOK /\ LocksExclude /\ ReadsStand
  BY DEF IInv
<1>2. \A y : Stands(y) => Stands(y)'
  BY DEF Stands, HasDefault, Existing, Open
<1>3. /\ Stands(x)'
      /\ \A q \in Requests \ {r} : \A y \in RequestState : y = req[q] => Stands(y)'
  BY <1>1, <1>2 DEF ReadsStand
<1>4. /\ req' \in [Requests -> RequestState]
      /\ LocksExclude'
      /\ ReadsStand'
  <2> HIDE DEF IInv
  <2> QED
    BY <1>1, <1>3, RequestStep
<1>5. TypeOK' /\ (history \in [Opportunities -> Seq(HistoryRow)])'
  BY <1>1, <1>4 DEF TypeOK, IInv
<1>6. PipelinesWellStaged' /\ OneDefaultPipeline' /\ SameNameOnlyAsDefault'
  BY DEF IInv, PipelinesWellStaged, OneDefaultPipeline, SameNameOnlyAsDefault, Existing
<1>7. Placed' /\ HistoryExplainsStage'
  BY DEF IInv, Placed, HistoryExplainsStage, Existing, Open
<1> QED
  BY <1>4, <1>5, <1>6, <1>7 DEF IInv

\* A request that ends with a new pipeline.
LEMMA NewPipelineInv ==
  ASSUME IInv, NEW r \in Requests, NEW p \in Pipelines \ Existing, NEW row \in PipelineRow,
         pipeline' = [pipeline EXCEPT ![p] = row],
         End(r), UNCHANGED <<opportunity, history>>,
         WellStaged(row.stages),
         row.isDefault => ~HasDefault /\ req[r].at = "ensure",
         ~row.isDefault => /\ req[r].at = "create"
                           /\ \A q \in Existing :
                                pipeline[q].name = row.name => pipeline[q].isDefault
  PROVE  IInv'
<1>1. TypeOK /\ LocksExclude /\ ReadsStand /\ Placed
  BY DEF IInv
<1>2. /\ row # Absent
      /\ Existing' = Existing \cup {p}
      /\ pipeline'[p] = row
      /\ \A q \in Existing : q # p /\ pipeline'[q] = pipeline[q]
  BY <1>1, RowsArePresent DEF TypeOK, Existing
<1>3. Open' = Open
  BY DEF Open
<1>4. HasDefault' <=> (HasDefault \/ row.isDefault)
  BY <1>2 DEF HasDefault
<1>5. ASSUME NEW q \in Requests \ {r}, NEW y \in RequestState, y = req[q]
      PROVE  Stands(y)'
  <2>1. Stands(y)
    BY <1>1, <1>5 DEF ReadsStand
  <2>2. y.at = "ensure" => ~row.isDefault
    BY <1>1, <1>5 DEF LocksExclude, Exclude
  <2>3. y.at = "create" => row.isDefault
    BY <1>1, <1>5 DEF LocksExclude, Exclude
  <2>4. ASSUME y.at = "ensure" PROVE y.found = HasDefault'
    <3>1. y.found = HasDefault
      BY <2>1, <2>4 DEF Stands
    <3>2. HasDefault' <=> HasDefault
      BY <1>4, <2>2, <2>4
    <3>3. HasDefault' = HasDefault
      BY <3>2 DEF HasDefault
    <3> QED
      BY <3>1, <3>3
  <2>5. ASSUME y.at = "create"
        PROVE  /\ WellStaged(y.stages)
               /\ \A t \in Existing' : pipeline'[t].name = y.name => pipeline'[t].isDefault
    BY <1>2, <2>1, <2>3, <2>5 DEF Stands
  <2>6. ASSUME y.at = "stage"
        PROVE  /\ y.opp \in Open'
               /\ y.from = opportunity'[y.opp].stage
               /\ y.to \in pipeline'[opportunity'[y.opp].pipeline].stages
    BY <1>1, <1>2, <1>3, <2>1, <2>6 DEF Stands, Placed
  <2> QED
    BY <2>4, <2>5, <2>6 DEF Stands
<1>6. /\ req' \in [Requests -> RequestState]
      /\ LocksExclude'
      /\ ReadsStand'
  <2>1. Stands(Idle)'
    BY DEF Stands, Idle
  <2>2. req' = [req EXCEPT ![r] = Idle]
    BY DEF End
  <2> HIDE DEF IInv
  <2> QED
    BY <1>1, <1>5, <2>1, <2>2, IdleStands, RequestStep DEF IdleType
<1>7. TypeOK' /\ (history \in [Opportunities -> Seq(HistoryRow)])'
  BY <1>1, <1>6 DEF TypeOK, IInv
<1>8. PipelinesWellStaged'
  BY <1>2 DEF IInv, PipelinesWellStaged
<1>9. Placed'
  BY <1>1, <1>2, <1>3 DEF Placed
<1>10. OneDefaultPipeline'
  BY <1>2 DEF IInv, OneDefaultPipeline, HasDefault
<1>11. SameNameOnlyAsDefault'
  BY <1>2 DEF IInv, SameNameOnlyAsDefault
<1>12. HistoryExplainsStage'
  BY <1>3 DEF IInv, HistoryExplainsStage
<1> QED
  BY <1>6, <1>7, <1>8, <1>9, <1>10, <1>11, <1>12 DEF IInv

\* What HistoryExplainsStage says of one opportunity.
Explains(h, x) ==
  /\ h # <<>>
  /\ h[1].from = Null
  /\ \A i \in 1..Len(h) - 1 : h[i + 1].from = h[i].to
  /\ \A i \in 1..Len(h) : (h[i].lostReason # Null) = h[i].to.lost
  /\ x.stage = h[Len(h)].to
  /\ x.lostReason = h[Len(h)].lostReason

LEMMA HistoryExplains == HistoryExplainsStage <=> \A o \in Open : Explains(history[o], opportunity[o])
  BY DEF HistoryExplainsStage, Explains

\* A step that writes one opportunity and its history.
LEMMA OpportunityStep ==
  ASSUME IInv, NEW o \in Opportunities, NEW row, NEW h \in Seq(HistoryRow),
         opportunity' = [opportunity EXCEPT ![o] = row],
         history' = [history EXCEPT ![o] = h],
         UNCHANGED pipeline,
         row # Absent => /\ row \in OpportunityRow
                         /\ row.pipeline \in Existing
                         /\ row.stage \in pipeline[row.pipeline].stages
                         /\ Explains(h, row),
         req' \in [Requests -> RequestState], LocksExclude', ReadsStand'
  PROVE  IInv'
<1>1. TypeOK /\ history \in [Opportunities -> Seq(HistoryRow)] /\ Placed /\ HistoryExplainsStage
  BY DEF IInv
<1>2. /\ opportunity'[o] = row
      /\ history'[o] = h
      /\ \A p \in Opportunities \ {o} :
           opportunity'[p] = opportunity[p] /\ history'[p] = history[p]
  BY <1>1 DEF TypeOK
<1>3. TypeOK'
  <2>1. opportunity' \in [Opportunities -> OpportunityRow \cup {Absent}]
    BY <1>1 DEF TypeOK
  <2>2. \A p \in Opportunities : history'[p] \in Seq(HistoryRow)
    BY <1>1, <1>2 DEF TypeOK
  <2>3. pipeline' \in [Pipelines -> PipelineRow \cup {Absent}]
    BY <1>1 DEF TypeOK
  <2> HIDE DEF IInv
  <2> QED
    BY <2>1, <2>2, <2>3 DEF TypeOK
<1>4. (history \in [Opportunities -> Seq(HistoryRow)])'
  BY <1>1
<1>5. PipelinesWellStaged' /\ OneDefaultPipeline' /\ SameNameOnlyAsDefault'
  BY DEF IInv, PipelinesWellStaged, OneDefaultPipeline, SameNameOnlyAsDefault, Existing
<1>6. Placed'
  BY <1>1, <1>2 DEF Placed, Open, Existing
<1>7. HistoryExplainsStage'
  <2>1. \A p \in Open' : Explains(history'[p], opportunity'[p])
    <3> SUFFICES ASSUME NEW p \in Open' PROVE Explains(history'[p], opportunity'[p])
      OBVIOUS
    <3>1. CASE p = o
      BY <1>2, <3>1 DEF Open
    <3>2. CASE p # o
      <4>1. p \in Open /\ history'[p] = history[p] /\ opportunity'[p] = opportunity[p]
        BY <1>2, <3>2 DEF Open
      <4>2. Explains(history[p], opportunity[p])
        BY <1>1, <4>1, HistoryExplains
      <4> QED
        BY <4>1, <4>2
    <3> QED
      BY <3>1, <3>2
  <2> QED
    BY <2>1 DEF HistoryExplainsStage, Explains
<1> QED
  BY <1>3, <1>4, <1>5, <1>6, <1>7 DEF IInv

\* Nobody who holds another opportunity minds.
LEMMA OthersStand ==
  ASSUME IInv, NEW o \in Opportunities, NEW row,
         opportunity' = [opportunity EXCEPT ![o] = row], UNCHANGED pipeline,
         NEW r \in Requests, req[r].at = "stage" => req[r].opp # o
  PROVE  \A y \in RequestState : y = req[r] => Stands(y)'
<1> SUFFICES ASSUME NEW y \in RequestState, y = req[r] PROVE Stands(y)'
  OBVIOUS
<1>1. Stands(y)
  BY DEF IInv, ReadsStand
<1>2. HasDefault' = HasDefault /\ Existing' = Existing
  BY DEF HasDefault, Existing
<1>3. ASSUME y.at = "stage"
      PROVE  y.opp \in Open' /\ opportunity'[y.opp] = opportunity[y.opp]
  BY <1>1, <1>3 DEF IInv, TypeOK, Stands, Open
<1>4. (y.at = "ensure" => y.found = HasDefault)'
  BY <1>1, <1>2 DEF Stands
<1> QED
  BY <1>1, <1>2, <1>3, <1>4 DEF Stands

\* A write of an opportunity that nobody holds.
LEMMA UnheldInv ==
  ASSUME IInv, NEW o \in Opportunities, NEW row, NEW h \in Seq(HistoryRow), Unlocked(o),
         opportunity' = [opportunity EXCEPT ![o] = row],
         history' = [history EXCEPT ![o] = h],
         UNCHANGED <<pipeline, req>>,
         row # Absent => /\ row \in OpportunityRow
                         /\ row.pipeline \in Existing
                         /\ row.stage \in pipeline[row.pipeline].stages
                         /\ Explains(h, row)
  PROVE  IInv'
<1>1. req' \in [Requests -> RequestState] /\ LocksExclude'
  BY DEF IInv, TypeOK, LocksExclude
<1>2. ReadsStand'
  <2> SUFFICES ASSUME NEW r \in Requests PROVE Stands(req[r])'
    BY DEF ReadsStand
  <2>1. req[r].at = "stage" => req[r].opp # o
    BY DEF Unlocked
  <2>2. PICK y \in RequestState : y = req[r]
    BY DEF IInv, TypeOK
  <2>3. Stands(y)'
    BY <2>1, <2>2, OthersStand
  <2> QED
    BY <2>2, <2>3 DEF Stands
<1> QED
  BY <1>1, <1>2, OpportunityStep

-----------------------------------------------------------------------------
(* One lemma for each action.                                              *)

\* No stage list is empty of a row for its history.
LEMMA FirstHistory ==
  ASSUME NEW s \in Stages, ~s.won, ~s.lost, NEW x, x.stage = s, x.lostReason = Null
  PROVE  /\ <<[from |-> Null, to |-> s, lostReason |-> Null]>> \in Seq(HistoryRow)
         /\ Explains(<<[from |-> Null, to |-> s, lostReason |-> Null]>>, x)
<1> DEFINE entry == [from |-> Null, to |-> s, lostReason |-> Null]
           h == <<entry>>
<1>1. entry \in HistoryRow
  BY DEF HistoryRow
<1>2. h \in Seq(HistoryRow) /\ Len(h) = 1 /\ h[1] = entry /\ h # <<>>
  BY <1>1
<1>3. s.lost = FALSE
  BY StageType
<1>4. /\ entry.from = Null /\ entry.to = s /\ entry.lostReason = Null
  OBVIOUS
<1> HIDE DEF entry, h
<1>5. \A i \in 1..Len(h) : i = 1
  BY <1>2
<1>6. ~\E i \in 1..Len(h) - 1 : TRUE
  BY <1>2
<1>7. Explains(h, x)
  BY <1>2, <1>3, <1>4, <1>5, <1>6 DEF Explains
<1> QED
  BY <1>2, <1>7 DEF entry, h

LEMMA RollbackInv ==
  ASSUME IInv, NEW r \in Requests, Rollback(r) PROVE IInv'
BY IdleStands, BeginInv DEF Rollback, End, IdleType

LEMMA EnsureDefaultBeginInv ==
  ASSUME IInv, NEW r \in Requests, EnsureDefaultBegin(r) PROVE IInv'
<1> DEFINE x == [at |-> "ensure", found |-> \E p \in Existing : pipeline[p].isDefault]
<1>1. x.at = "ensure" /\ x.found = HasDefault
  BY DEF HasDefault
<1>2. x \in RequestState
  BY DEF RequestState
<1>3. Stands(x)
  BY <1>1 DEF Stands
<1>4. \A q \in Requests \ {r} : ~Exclude(req[q], x) /\ ~Exclude(x, req[q])
  BY <1>1 DEF EnsureDefaultBegin, DefaultUnlocked, Exclude
<1>5. req' = [req EXCEPT ![r] = x] /\ UNCHANGED <<pipeline, opportunity, history>>
  BY DEF EnsureDefaultBegin
<1> HIDE DEF x
<1> QED
  BY <1>2, <1>3, <1>4, <1>5, BeginInv

LEMMA EnsureDefaultCommitInv ==
  ASSUME IInv, NEW r \in Requests, EnsureDefaultCommit(r) PROVE IInv'
<1>1. CASE req[r].found
  <2>1. req' = [req EXCEPT ![r] = Idle] /\ UNCHANGED <<pipeline, opportunity, history>>
    BY <1>1 DEF EnsureDefaultCommit, End
  <2> QED
    BY <2>1, IdleStands, BeginInv DEF IdleType
<1>2. CASE ~req[r].found
  <2> DEFINE row == [name |-> DefaultName, isDefault |-> TRUE,
                     stages |-> Range(DefaultStages)]
  <2>1. PICK p \in Pipelines \ Existing : pipeline' = [pipeline EXCEPT ![p] = row]
    BY <1>2 DEF EnsureDefaultCommit
  <2>2. /\ WellStaged(Range(DefaultStages))
        /\ Range(DefaultStages) \in SUBSET Stages
    BY ValidIsWellStaged, DefaultStagesAssumption
  <2>3. row \in PipelineRow
    BY <2>2, NameAssumption DEF PipelineRow
  <2>4. row.isDefault = TRUE /\ row.stages = Range(DefaultStages)
    OBVIOUS
  <2>5. req[r].at = "ensure" /\ ~HasDefault
    BY <1>2 DEF IInv, ReadsStand, Stands, EnsureDefaultCommit
  <2>6. End(r) /\ UNCHANGED <<opportunity, history>>
    BY DEF EnsureDefaultCommit
  <2> HIDE DEF row
  <2> QED
    BY <2>1, <2>2, <2>3, <2>4, <2>5, <2>6, NewPipelineInv
<1> QED
  BY <1>1, <1>2

LEMMA CreatePipelineBeginInv ==
  ASSUME IInv, NEW r \in Requests, NEW name \in Names, NEW list \in StageLists,
         CreatePipelineBegin(r, name, list)
  PROVE  IInv'
<1> DEFINE x == [at |-> "create", name |-> name, stages |-> Range(list)]
<1>1. x.at = "create" /\ x.name = name /\ x.stages = Range(list)
  OBVIOUS
<1>2. WellStaged(Range(list)) /\ Range(list) \in SUBSET Stages
  BY ValidIsWellStaged DEF CreatePipelineBegin
<1>3. x \in RequestState
  BY <1>2 DEF RequestState
<1>4. Stands(x)
  BY <1>1, <1>2 DEF Stands, CreatePipelineBegin
<1>5. \A q \in Requests \ {r} : ~Exclude(req[q], x) /\ ~Exclude(x, req[q])
  BY <1>1 DEF CreatePipelineBegin, NamesUnlocked, Exclude
<1>6. req' = [req EXCEPT ![r] = x] /\ UNCHANGED <<pipeline, opportunity, history>>
  BY DEF CreatePipelineBegin
<1> HIDE DEF x
<1> QED
  BY <1>3, <1>4, <1>5, <1>6, BeginInv

LEMMA CreatePipelineCommitInv ==
  ASSUME IInv, NEW r \in Requests, CreatePipelineCommit(r) PROVE IInv'
<1> DEFINE row == [name |-> req[r].name, isDefault |-> FALSE, stages |-> req[r].stages]
<1>1. PICK p \in Pipelines \ Existing : pipeline' = [pipeline EXCEPT ![p] = row]
  BY DEF CreatePipelineCommit
<1>2. req[r].at = "create" /\ End(r) /\ UNCHANGED <<opportunity, history>>
  BY DEF CreatePipelineCommit
<1>3. Stands(req[r])
  BY DEF IInv, ReadsStand
<1>4. row \in PipelineRow
  BY <1>2, RequestType DEF IInv, PipelineRow
<1>5. row.isDefault = FALSE /\ row.stages = req[r].stages /\ row.name = req[r].name
  OBVIOUS
<1> HIDE DEF row
<1> QED
  BY <1>1, <1>2, <1>3, <1>4, <1>5, NewPipelineInv DEF Stands

LEMMA CreateOpportunityInv ==
  ASSUME IInv, NEW o \in Opportunities, NEW p \in Pipelines, NEW s \in Stages,
         NEW value \in Values \cup {Null}, NEW probability \in Probabilities \cup {Null},
         CreateOpportunity(o, p, s, value, probability)
  PROVE  IInv'
<1> DEFINE row == [pipeline |-> p, stage |-> s, lostReason |-> Null, value |-> value,
                   probability |-> IF probability = Null THEN s.probability
                                   ELSE probability]
           h == <<[from |-> Null, to |-> s, lostReason |-> Null]>>
<1>1. /\ o \notin Open /\ p \in Existing /\ s \in pipeline[p].stages
      /\ ~s.won /\ ~s.lost
      /\ opportunity' = [opportunity EXCEPT ![o] = row]
      /\ history' = [history EXCEPT ![o] = h]
      /\ UNCHANGED <<pipeline, req>>
  BY DEF CreateOpportunity
<1>2. row \in OpportunityRow
  <2>1. s.probability \in 0..100 /\ probability \in 0..100 \cup {Null}
    BY StageType, ValueAssumption
  <2> QED
    BY <2>1 DEF OpportunityRow
<1>3. row.pipeline = p /\ row.stage = s /\ row.lostReason = Null
  OBVIOUS
<1>4. h \in Seq(HistoryRow) /\ Explains(h, row)
  <2> HIDE DEF row
  <2> QED
    BY <1>1, <1>3, FirstHistory
<1>5. Unlocked(o)
  BY <1>1 DEF IInv, ReadsStand, Stands, Unlocked
<1> HIDE DEF row, h
<1> QED
  BY <1>1, <1>2, <1>3, <1>4, <1>5, UnheldInv

LEMMA UpdateOpportunityInv ==
  ASSUME IInv, NEW o \in Opportunities, NEW value \in Values \cup {Null},
         NEW probability \in Probabilities \cup {Null},
         UpdateOpportunity(o, value, probability)
  PROVE  IInv'
<1> DEFINE row == [opportunity[o] EXCEPT !.value = value, !.probability = probability]
<1>0. TypeOK /\ history \in [Opportunities -> Seq(HistoryRow)] /\ Placed /\ HistoryExplainsStage
  BY DEF IInv
<1>1. /\ o \in Open /\ Unlocked(o)
      /\ UNCHANGED <<pipeline, history, req>>
  BY DEF UpdateOpportunity
<1>2. opportunity[o] \in OpportunityRow
  BY <1>0, <1>1, OpportunityType
<1>3. opportunity' = [opportunity EXCEPT ![o] = row]
  BY <1>0, <1>2 DEF UpdateOpportunity, TypeOK, OpportunityRow
<1>4. probability \in 0..100 \cup {Null}
  BY ValueAssumption
<1>5. /\ row \in OpportunityRow
      /\ row.pipeline = opportunity[o].pipeline
      /\ row.stage = opportunity[o].stage
      /\ row.lostReason = opportunity[o].lostReason
  BY <1>2, <1>4 DEF OpportunityRow
<1>6. Explains(history[o], opportunity[o]) /\ history[o] \in Seq(HistoryRow)
  BY <1>0, <1>1, HistoryExplains DEF TypeOK
<1>7. history' = [history EXCEPT ![o] = history[o]]
  <2>1. history \in [Opportunities -> Seq(HistoryRow)]
    BY <1>0
  <2> QED
    BY <1>1, <2>1
<1> HIDE DEF row
<1>8. Explains(history[o], row)
  BY <1>5, <1>6 DEF Explains
<1> QED
  BY <1>0, <1>1, <1>3, <1>5, <1>6, <1>7, <1>8, UnheldInv DEF Placed

LEMMA RemoveOpportunityInv ==
  ASSUME IInv, NEW o \in Opportunities, RemoveOpportunity(o) PROVE IInv'
<1>1. <<>> \in Seq(HistoryRow)
  OBVIOUS
<1> QED
  BY <1>1, UnheldInv DEF RemoveOpportunity

\* A request that has locked and read an opportunity and will move it.
LEMMA MovingInv ==
  ASSUME IInv, NEW r \in Requests, NEW o \in Open, Unlocked(o),
         NEW s \in pipeline[opportunity[o].pipeline].stages,
         NEW reason \in Reasons \cup {Null},
         req' = [req EXCEPT ![r] =
           [at |-> "stage", opp |-> o, from |-> opportunity[o].stage, to |-> s,
            reason |-> reason]],
         UNCHANGED <<pipeline, opportunity, history>>
  PROVE  IInv'
<1> DEFINE x == [at |-> "stage", opp |-> o, from |-> opportunity[o].stage, to |-> s,
                 reason |-> reason]
<1>1. x.at = "stage" /\ x.opp = o /\ x.from = opportunity[o].stage /\ x.to = s
  OBVIOUS
<1>2. x \in RequestState
  <2>1. s \in Stages /\ opportunity[o].stage \in Stages /\ o \in Opportunities
    BY PipelineType, OpportunityType DEF IInv, Placed
  <2> QED
    BY <2>1 DEF RequestState
<1>3. Stands(x)
  BY <1>1 DEF Stands
<1>4. \A q \in Requests \ {r} : ~Exclude(req[q], x) /\ ~Exclude(x, req[q])
  BY <1>1 DEF Unlocked, Exclude
<1>5. req' = [req EXCEPT ![r] = x]
  OBVIOUS
<1> HIDE DEF x
<1> QED
  BY <1>2, <1>3, <1>4, <1>5, BeginInv

LEMMA MoveBeginInv ==
  ASSUME IInv, NEW r \in Requests, NEW o \in Opportunities, NEW s \in Stages,
         NEW reason \in Reasons \cup {Null}, MoveBegin(r, o, s, reason)
  PROVE  IInv'
BY MovingInv DEF MoveBegin

LEMMA WinBeginInv ==
  ASSUME IInv, NEW r \in Requests, NEW o \in Opportunities, WinBegin(r, o)
  PROVE  IInv'
<1>1. o \in Open /\ opportunity[o].pipeline \in Existing
  BY DEF WinBegin, IInv, Placed
<1>2. WonStage(opportunity[o].pipeline) \in pipeline[opportunity[o].pipeline].stages
  BY <1>1, WonStageIsOne DEF IInv, PipelinesWellStaged
<1> QED
  BY <1>1, <1>2, MovingInv DEF WinBegin

\* One more row that starts where the history ended.
LEMMA MoreHistory ==
  ASSUME NEW h \in Seq(HistoryRow), NEW x, Explains(h, x), NEW to \in Stages,
         NEW reason \in Reasons \cup {Null}, (reason # Null) = to.lost, x.stage \in Stages,
         NEW y, y.stage = to, y.lostReason = reason
  PROVE  /\ Append(h, [from |-> x.stage, to |-> to, lostReason |-> reason]) \in Seq(HistoryRow)
         /\ Explains(Append(h, [from |-> x.stage, to |-> to, lostReason |-> reason]), y)
<1> DEFINE entry == [from |-> x.stage, to |-> to, lostReason |-> reason]
           g == Append(h, entry)
<1>1. entry \in HistoryRow /\ entry.from = x.stage /\ entry.to = to /\ entry.lostReason = reason
  BY DEF HistoryRow
<1> HIDE DEF entry
<1>2. /\ g \in Seq(HistoryRow)
      /\ Len(g) = Len(h) + 1
      /\ Len(h) \in Nat /\ Len(h) > 0
      /\ g[Len(h) + 1] = entry
      /\ \A i \in 1..Len(h) : g[i] = h[i]
  BY <1>1 DEF Explains
<1> HIDE DEF g
<1>3. g # <<>> /\ g[1].from = Null
  BY <1>2 DEF Explains
<1>4. ASSUME NEW i \in 1..Len(g) - 1 PROVE g[i + 1].from = g[i].to
  <2>1. CASE i = Len(h)
    BY <1>1, <1>2, <2>1 DEF Explains
  <2>2. CASE i # Len(h)
    <3>1. i \in 1..Len(h) - 1 /\ i \in 1..Len(h) /\ i + 1 \in 1..Len(h)
      BY <1>2, <2>2
    <3>2. h[i + 1].from = h[i].to
      BY <3>1 DEF Explains
    <3> QED
      BY <1>2, <3>1, <3>2
  <2> QED
    BY <2>1, <2>2
<1>5. ASSUME NEW i \in 1..Len(g) PROVE (g[i].lostReason # Null) = g[i].to.lost
  <2>1. CASE i = Len(h) + 1
    BY <1>1, <1>2, <2>1
  <2>2. CASE i # Len(h) + 1
    <3>1. i \in 1..Len(h)
      BY <1>2, <2>2
    <3>2. (h[i].lostReason # Null) = h[i].to.lost
      BY <3>1 DEF Explains
    <3> QED
      BY <1>2, <3>1, <3>2
  <2> QED
    BY <2>1, <2>2
<1>6. y.stage = g[Len(g)].to /\ y.lostReason = g[Len(g)].lostReason
  BY <1>1, <1>2
<1>7. Explains(g, y)
  BY <1>3, <1>4, <1>5, <1>6 DEF Explains
<1> QED
  BY <1>2, <1>7 DEF entry, g

LEMMA ApplyOpportunityStageChangeInv ==
  ASSUME IInv, NEW r \in Requests, ApplyOpportunityStageChange(r) PROVE IInv'
<1> DEFINE o == req[r].opp
           reason == LostReason(req[r].to, req[r].reason)
           row == [opportunity[o] EXCEPT !.stage = req[r].to, !.lostReason = reason]
           entry == [from |-> req[r].from, to |-> req[r].to, lostReason |-> reason]
           h == Append(history[o], entry)
<1>0. TypeOK /\ history \in [Opportunities -> Seq(HistoryRow)] /\ Placed /\ HistoryExplainsStage
      /\ LocksExclude
  BY DEF IInv
<1>1. /\ req[r].at = "stage" /\ o \in Open
      /\ req[r].to.lost => req[r].reason # Null
      /\ history' = [history EXCEPT ![o] = h]
      /\ End(r) /\ UNCHANGED pipeline
  BY DEF ApplyOpportunityStageChange
<1>2. /\ req[r].to \in Stages /\ req[r].reason \in Reasons \cup {Null} /\ o \in Opportunities
      /\ req[r].to.lost \in BOOLEAN
  BY <1>0, <1>1, RequestType, StageType
<1>3. /\ req[r].from = opportunity[o].stage
      /\ req[r].to \in pipeline[opportunity[o].pipeline].stages
  BY <1>1 DEF IInv, ReadsStand, Stands
<1>4. reason \in Reasons \cup {Null} /\ (reason # Null) = req[r].to.lost
  BY <1>1, <1>2 DEF LostReason
<1>5. opportunity[o] \in OpportunityRow /\ opportunity[o].stage \in Stages
  BY <1>0, <1>1, OpportunityType
<1>6. opportunity' = [opportunity EXCEPT ![o] = row]
  <2>1. opportunity' = [opportunity EXCEPT ![o].stage = req[r].to, ![o].lostReason = reason]
    BY DEF ApplyOpportunityStageChange
  <2> QED
    BY <1>0, <1>2, <1>5, <2>1 DEF TypeOK, OpportunityRow
<1>7. /\ row \in OpportunityRow
      /\ row.pipeline = opportunity[o].pipeline
      /\ row.stage = req[r].to
      /\ row.lostReason = reason
  <2> HIDE DEF reason, o
  <2> QED
    BY <1>2, <1>4, <1>5 DEF OpportunityRow
<1>8. Explains(history[o], opportunity[o]) /\ history[o] \in Seq(HistoryRow)
  BY <1>0, <1>1, HistoryExplains, <1>2 DEF TypeOK
<1>9. h \in Seq(HistoryRow) /\ Explains(h, row)
  <2>1. entry = [from |-> opportunity[o].stage, to |-> req[r].to, lostReason |-> reason]
    BY <1>3
  <2> HIDE DEF row, reason, o, entry
  <2> QED
    BY <1>2, <1>4, <1>5, <1>7, <1>8, <2>1, MoreHistory
<1>10. row.pipeline \in Existing /\ row.stage \in pipeline[row.pipeline].stages
  <2>1. opportunity[o].pipeline \in Existing
    BY <1>0, <1>1 DEF Placed
  <2> HIDE DEF row, reason, o
  <2> QED
    BY <1>3, <1>7, <2>1
<1>11. /\ req' \in [Requests -> RequestState]
       /\ LocksExclude'
       /\ ReadsStand'
  <2>1. Stands(Idle)'
    BY DEF Stands, Idle
  <2>2. req' = [req EXCEPT ![r] = Idle]
    BY <1>1 DEF End
  <2>3. ASSUME NEW q \in Requests \ {r}
        PROVE  \A y \in RequestState : y = req[q] => Stands(y)'
    <3>1. req[q].at = "stage" => req[q].opp # o
      BY <1>0, <1>1, <2>3 DEF LocksExclude, Exclude
    <3> HIDE DEF row, o
    <3> QED
      BY <1>1, <1>2, <1>6, <3>1, OthersStand
  <2> HIDE DEF IInv
  <2> QED
    BY <1>0, <2>1, <2>2, <2>3, IdleStands, RequestStep DEF IdleType
<1> HIDE DEF row, o, h, reason
<1> QED
  BY <1>1, <1>2, <1>6, <1>7, <1>9, <1>10, <1>11, OpportunityStep

LEMMA InitInv == Init => IInv
<1> SUFFICES ASSUME Init PROVE IInv
  OBVIOUS
<1>1. Existing = {} /\ Open = {}
  BY DEF Init, Existing, Open
<1>2. TypeOK /\ history \in [Opportunities -> Seq(HistoryRow)]
  <2>1. \A o \in Opportunities : history[o] \in Seq(HistoryRow)
    BY DEF Init
  <2> QED
    BY <2>1, IdleStands DEF Init, TypeOK, IdleType
<1>3. LocksExclude /\ ReadsStand
  BY IdleStands DEF Init, LocksExclude, ReadsStand
<1> QED
  BY <1>1, <1>2, <1>3 DEF IInv, PipelinesWellStaged, Placed, OneDefaultPipeline,
       SameNameOnlyAsDefault, HistoryExplainsStage

LEMMA NextInv == IInv /\ [Next]_vars => IInv'
<1> SUFFICES ASSUME IInv, [Next]_vars PROVE IInv'
  OBVIOUS
<1>1. CASE Next
  BY <1>1, RollbackInv, EnsureDefaultBeginInv, EnsureDefaultCommitInv,
     CreatePipelineBeginInv, CreatePipelineCommitInv, MoveBeginInv, WinBeginInv,
     ApplyOpportunityStageChangeInv, RemoveOpportunityInv, UpdateOpportunityInv,
     CreateOpportunityInv DEF Next
<1>2. CASE UNCHANGED vars
  <2>1. UNCHANGED <<pipeline, opportunity, history, req>>
    BY <1>2 DEF vars
  <2>2. Existing' = Existing /\ Open' = Open
    BY <2>1 DEF Existing, Open
  <2>3. TypeOK' /\ (history \in [Opportunities -> Seq(HistoryRow)])'
    BY <2>1 DEF IInv, TypeOK
  <2>4. LocksExclude'
    BY <2>1 DEF IInv, LocksExclude
  <2>5. ReadsStand'
    BY <2>1, <2>2 DEF IInv, ReadsStand, Stands, HasDefault
  <2>6. PipelinesWellStaged' /\ Placed' /\ HistoryExplainsStage'
    BY <2>1, <2>2 DEF IInv, PipelinesWellStaged, Placed, HistoryExplainsStage
  <2>7. OneDefaultPipeline' /\ SameNameOnlyAsDefault'
    BY <2>1, <2>2 DEF IInv, OneDefaultPipeline, SameNameOnlyAsDefault
  <2> QED
    BY <2>3, <2>4, <2>5, <2>6, <2>7 DEF IInv
<1> QED
  BY <1>1, <1>2

\* The inductive invariant.
THEOREM Inductive == Spec => []IInv
<1> QED
  BY InitInv, NextInv, PTL DEF Spec

\* ensureDefaultPipeline and createPipeline: one default pipeline, names that
\* are unique but for its own, and stages that can be won and lost in one way.
THEOREM PipelinesHold == Spec => []PipelinesConsistent
<1>1. IInv => PipelinesConsistent
  BY DEF IInv, PipelinesConsistent, StagesCanEnd, PipelinesWellStaged, WellStaged, Placed
<1> QED
  BY <1>1, Inductive, PTL

\* applyOpportunityStageChange: the history explains where an opportunity is,
\* whoever moved it.
THEOREM HistoryExplained == Spec => []HistoryExplainsStage
<1>1. IInv => HistoryExplainsStage
  BY DEF IInv
<1> QED
  BY <1>1, Inductive, PTL

-----------------------------------------------------------------------------
(* The board, as sums of functions.                                        *)

\* Opportunities of a stage, and buckets of a stage, of a pipeline.
CardsAt(p, s) == {o \in Cards(p) : opportunity[o].stage = s}
BucketsOf(p, s) == {b \in Buckets(p) : b.stage.code = s.code}

KeyOf(o) == [stage |-> opportunity[o].stage, probability |-> opportunity[o].probability]

WorthOf == [o \in Opportunities |-> Worth(o)]
WeightedOf == [o \in Opportunities |-> Worth(o) * Weight(opportunity[o])]
One == [o \in Opportunities |-> 1]

CountIn(p) == [b \in Buckets(p) |-> Cardinality(InBucket(p, b))]
WorthIn(p) == [b \in Buckets(p) |-> BucketSum(p, b)]
WeightedIn(p) == [b \in Buckets(p) |-> BucketSum(p, b) * Weight(b)]

Columns(p) == [s \in pipeline[p].stages |-> BoardStage(p, s)]
ColumnOf(p, field) == [s \in pipeline[p].stages |-> BoardStage(p, s)[field]]

LEMMA WorthSum ==
  ASSUME NEW S \in SUBSET Opportunities
  PROVE  MapThenSumSet(Worth, S) = SumOf(WorthOf, S)
<1> DEFINE f == WorthOf
           A(g) == g = [s \in SUBSET S |->
                          IF s = {} THEN 0 ELSE Worth(Chosen(s)) + g[s \ {Chosen(s)}]]
<1>1. \A s \in SUBSET S : s # {} => f[Chosen(s)] = Worth(Chosen(s))
  BY ChosenMember DEF WorthOf
<1>2. ASSUME NEW g
      PROVE  A(g) <=> Adds(g, f, S)
  <2> HIDE DEF f
  <2>1. \A s \in SUBSET S :
          (IF s = {} THEN 0 ELSE Worth(Chosen(s)) + g[s \ {Chosen(s)}])
            = IF s = {} THEN 0 ELSE f[Chosen(s)] + g[s \ {Chosen(s)}]
    BY <1>1
  <2> QED
    BY <2>1 DEF Adds
<1>3. MapThenSumSet(Worth, S) = (CHOOSE g : A(g))[S]
  BY DEF MapThenSumSet, MapThenFoldSet, Chosen
<1>4. (CHOOSE g : A(g)) = (CHOOSE g : Adds(g, f, S))
  <2> HIDE DEF A, f
  <2> QED
    BY <1>2
<1> QED
  BY <1>3, <1>4, SumOfIsAdds

LEMMA WeightedSum ==
  ASSUME NEW S \in SUBSET Opportunities
  PROVE  MapThenSumSet(LAMBDA o : Worth(o) * Weight(opportunity[o]), S)
           = SumOf(WeightedOf, S)
<1> DEFINE f == WeightedOf
           A(g) == g = [s \in SUBSET S |->
                          IF s = {} THEN 0 ELSE Worth(Chosen(s)) * Weight(opportunity[Chosen(s)]) + g[s \ {Chosen(s)}]]
<1>1. \A s \in SUBSET S : s # {} => f[Chosen(s)] = Worth(Chosen(s)) * Weight(opportunity[Chosen(s)])
  BY ChosenMember DEF WeightedOf
<1>2. ASSUME NEW g
      PROVE  A(g) <=> Adds(g, f, S)
  <2> HIDE DEF f
  <2>1. \A s \in SUBSET S :
          (IF s = {} THEN 0 ELSE Worth(Chosen(s)) * Weight(opportunity[Chosen(s)]) + g[s \ {Chosen(s)}])
            = IF s = {} THEN 0 ELSE f[Chosen(s)] + g[s \ {Chosen(s)}]
    BY <1>1
  <2> QED
    BY <2>1 DEF Adds
<1>3. MapThenSumSet(LAMBDA o : Worth(o) * Weight(opportunity[o]), S) = (CHOOSE g : A(g))[S]
  BY DEF MapThenSumSet, MapThenFoldSet, Chosen
<1>4. (CHOOSE g : A(g)) = (CHOOSE g : Adds(g, f, S))
  <2> HIDE DEF A, f
  <2> QED
    BY <1>2
<1> QED
  BY <1>3, <1>4, SumOfIsAdds

LEMMA CountInSum ==
  ASSUME NEW p \in Existing, NEW S \in SUBSET Buckets(p)
  PROVE  MapThenSumSet(LAMBDA b : Cardinality(InBucket(p, b)), S)
           = SumOf(CountIn(p), S)
<1> DEFINE f == CountIn(p)
           A(g) == g = [s \in SUBSET S |->
                          IF s = {} THEN 0 ELSE Cardinality(InBucket(p, Chosen(s))) + g[s \ {Chosen(s)}]]
<1>1. \A s \in SUBSET S : s # {} => f[Chosen(s)] = Cardinality(InBucket(p, Chosen(s)))
  BY ChosenMember DEF CountIn
<1>2. ASSUME NEW g
      PROVE  A(g) <=> Adds(g, f, S)
  <2> HIDE DEF f
  <2>1. \A s \in SUBSET S :
          (IF s = {} THEN 0 ELSE Cardinality(InBucket(p, Chosen(s))) + g[s \ {Chosen(s)}])
            = IF s = {} THEN 0 ELSE f[Chosen(s)] + g[s \ {Chosen(s)}]
    BY <1>1
  <2> QED
    BY <2>1 DEF Adds
<1>3. MapThenSumSet(LAMBDA b : Cardinality(InBucket(p, b)), S) = (CHOOSE g : A(g))[S]
  BY DEF MapThenSumSet, MapThenFoldSet, Chosen
<1>4. (CHOOSE g : A(g)) = (CHOOSE g : Adds(g, f, S))
  <2> HIDE DEF A, f
  <2> QED
    BY <1>2
<1> QED
  BY <1>3, <1>4, SumOfIsAdds

LEMMA WorthInSum ==
  ASSUME NEW p \in Existing, NEW S \in SUBSET Buckets(p)
  PROVE  MapThenSumSet(LAMBDA b : BucketSum(p, b), S)
           = SumOf(WorthIn(p), S)
<1> DEFINE f == WorthIn(p)
           A(g) == g = [s \in SUBSET S |->
                          IF s = {} THEN 0 ELSE BucketSum(p, Chosen(s)) + g[s \ {Chosen(s)}]]
<1>1. \A s \in SUBSET S : s # {} => f[Chosen(s)] = BucketSum(p, Chosen(s))
  BY ChosenMember DEF WorthIn
<1>2. ASSUME NEW g
      PROVE  A(g) <=> Adds(g, f, S)
  <2> HIDE DEF f
  <2>1. \A s \in SUBSET S :
          (IF s = {} THEN 0 ELSE BucketSum(p, Chosen(s)) + g[s \ {Chosen(s)}])
            = IF s = {} THEN 0 ELSE f[Chosen(s)] + g[s \ {Chosen(s)}]
    BY <1>1
  <2> QED
    BY <2>1 DEF Adds
<1>3. MapThenSumSet(LAMBDA b : BucketSum(p, b), S) = (CHOOSE g : A(g))[S]
  BY DEF MapThenSumSet, MapThenFoldSet, Chosen
<1>4. (CHOOSE g : A(g)) = (CHOOSE g : Adds(g, f, S))
  <2> HIDE DEF A, f
  <2> QED
    BY <1>2
<1> QED
  BY <1>3, <1>4, SumOfIsAdds

LEMMA WeightedInSum ==
  ASSUME NEW p \in Existing, NEW S \in SUBSET Buckets(p)
  PROVE  MapThenSumSet(LAMBDA b : BucketSum(p, b) * Weight(b), S)
           = SumOf(WeightedIn(p), S)
<1> DEFINE f == WeightedIn(p)
           A(g) == g = [s \in SUBSET S |->
                          IF s = {} THEN 0 ELSE BucketSum(p, Chosen(s)) * Weight(Chosen(s)) + g[s \ {Chosen(s)}]]
<1>1. \A s \in SUBSET S : s # {} => f[Chosen(s)] = BucketSum(p, Chosen(s)) * Weight(Chosen(s))
  BY ChosenMember DEF WeightedIn
<1>2. ASSUME NEW g
      PROVE  A(g) <=> Adds(g, f, S)
  <2> HIDE DEF f
  <2>1. \A s \in SUBSET S :
          (IF s = {} THEN 0 ELSE BucketSum(p, Chosen(s)) * Weight(Chosen(s)) + g[s \ {Chosen(s)}])
            = IF s = {} THEN 0 ELSE f[Chosen(s)] + g[s \ {Chosen(s)}]
    BY <1>1
  <2> QED
    BY <2>1 DEF Adds
<1>3. MapThenSumSet(LAMBDA b : BucketSum(p, b) * Weight(b), S) = (CHOOSE g : A(g))[S]
  BY DEF MapThenSumSet, MapThenFoldSet, Chosen
<1>4. (CHOOSE g : A(g)) = (CHOOSE g : Adds(g, f, S))
  <2> HIDE DEF A, f
  <2> QED
    BY <1>2
<1> QED
  BY <1>3, <1>4, SumOfIsAdds

LEMMA ColumnSum ==
  ASSUME NEW p \in Existing, NEW field, NEW S \in SUBSET pipeline[p].stages
  PROVE  MapThenSumSet(LAMBDA s : Columns(p)[s][field], S)
           = SumOf(ColumnOf(p, field), S)
<1> DEFINE f == ColumnOf(p, field)
           A(g) == g = [s \in SUBSET S |->
                          IF s = {} THEN 0 ELSE Columns(p)[Chosen(s)][field] + g[s \ {Chosen(s)}]]
<1>1. \A s \in SUBSET S : s # {} => f[Chosen(s)] = Columns(p)[Chosen(s)][field]
  BY ChosenMember DEF ColumnOf, Columns
<1>2. ASSUME NEW g
      PROVE  A(g) <=> Adds(g, f, S)
  <2> HIDE DEF f
  <2>1. \A s \in SUBSET S :
          (IF s = {} THEN 0 ELSE Columns(p)[Chosen(s)][field] + g[s \ {Chosen(s)}])
            = IF s = {} THEN 0 ELSE f[Chosen(s)] + g[s \ {Chosen(s)}]
    BY <1>1
  <2> QED
    BY <2>1 DEF Adds
<1>3. MapThenSumSet(LAMBDA s : Columns(p)[s][field], S) = (CHOOSE g : A(g))[S]
  BY DEF MapThenSumSet, MapThenFoldSet, Chosen
<1>4. (CHOOSE g : A(g)) = (CHOOSE g : Adds(g, f, S))
  <2> HIDE DEF A, f
  <2> QED
    BY <1>2
<1> QED
  BY <1>3, <1>4, SumOfIsAdds

-----------------------------------------------------------------------------
(* The board counts every opportunity once: the buckets of a stage share   *)
(* out its opportunities, and the stages those of the pipeline.            *)

KeyAt == [o \in Opportunities |-> KeyOf(o)]
StageAt == [o \in Opportunities |-> opportunity[o].stage]

Loaded(p, s) == Min({StageLimit, Cardinality(CardsAt(p, s))})

LEMMA MinOfTwo ==
  ASSUME NEW i \in Nat, NEW j \in Nat
  PROVE  /\ Min({i, j}) \in Nat
         /\ Min({i, j}) <= i /\ Min({i, j}) <= j
         /\ Min({i, j}) \in {i, j}
<1>1. \E x \in {i, j} : \A y \in {i, j} : x <= y
  <2>1. CASE i <= j
    BY <2>1
  <2>2. CASE ~(i <= j)
    BY <2>2
  <2> QED
    BY <2>1, <2>2
<1>2. Min({i, j}) \in {i, j} /\ \A y \in {i, j} : Min({i, j}) <= y
  BY <1>1 DEF Min
<1> QED
  BY <1>2

LEMMA CardsFinite ==
  ASSUME NEW p
  PROVE  /\ Cards(p) \in SUBSET Opportunities
         /\ IsFiniteSet(Cards(p))
         /\ \A s : CardsAt(p, s) \in SUBSET Cards(p) /\ IsFiniteSet(CardsAt(p, s))
         /\ \A b : InBucket(p, b) \in SUBSET Cards(p) /\ IsFiniteSet(InBucket(p, b))
<1>1. /\ Cards(p) \in SUBSET Opportunities
      /\ \A s : CardsAt(p, s) \in SUBSET Cards(p)
      /\ \A b : InBucket(p, b) \in SUBSET Cards(p)
  BY DEF Cards, Open, CardsAt, InBucket
<1>2. IsFiniteSet(Cards(p))
  BY <1>1, FiniteAssumption, FS_Subset
<1> QED
  BY <1>1, <1>2, FS_Subset

\* What a card adds to the sums.
LEMMA CardNumbers ==
  ASSUME TypeOK, NEW p, NEW o \in Cards(p)
  PROVE  /\ o \in Opportunities
         /\ KeyAt[o] = KeyOf(o) /\ KeyAt[o] \in Buckets(p)
         /\ StageAt[o] = opportunity[o].stage
         /\ One[o] = 1
         /\ WorthOf[o] = Worth(o) /\ WorthOf[o] \in Int
         /\ Weight(KeyOf(o)) = Weight(opportunity[o]) /\ Weight(KeyOf(o)) \in Int
         /\ WeightedOf[o] = WorthOf[o] * Weight(KeyOf(o)) /\ WeightedOf[o] \in Int
<1>1. o \in Open /\ o \in Opportunities
  BY DEF Cards, Open
<1>2. /\ opportunity[o].stage \in Stages
      /\ opportunity[o].value \in Values \cup {Null}
      /\ opportunity[o].probability \in 0..100 \cup {Null}
  BY <1>1, OpportunityType
<1>3. KeyAt[o] = KeyOf(o) /\ KeyAt[o] \in Buckets(p)
  BY <1>1 DEF KeyAt, KeyOf, Buckets
<1>4. WorthOf[o] = Worth(o) /\ Worth(o) \in Int
  <2>1. WorthOf[o] = Worth(o)
    BY <1>1 DEF WorthOf
  <2>2. Worth(o) \in Int
    <3>1. CASE opportunity[o].value = Null
      BY <3>1 DEF Worth
    <3>2. CASE opportunity[o].value # Null
      <4>1. opportunity[o].value \in Values /\ Worth(o) = opportunity[o].value
        BY <1>2, <3>2 DEF Worth
      <4>2. Worth(o) \in Nat
        BY <4>1, ValueAssumption
      <4> QED
        BY <4>2
    <3> QED
      BY <3>1, <3>2
  <2> QED
    BY <2>1, <2>2
<1>5. Weight(KeyOf(o)) = Weight(opportunity[o])
  BY DEF Weight, KeyOf
<1>6. opportunity[o].stage.probability \in 0..100
  BY <1>2, StageType
<1>7. Weight(opportunity[o]) \in Int
  BY <1>2, <1>6 DEF Weight
<1>8. WeightedOf[o] = Worth(o) * Weight(opportunity[o])
  BY <1>1 DEF WeightedOf
<1>9. \A i, j \in Int : i * j \in Int
  OBVIOUS
<1>10. StageAt[o] = opportunity[o].stage /\ One[o] = 1
  BY <1>1 DEF StageAt, One
<1> QED
  BY <1>1, <1>3, <1>4, <1>5, <1>7, <1>8, <1>9, <1>10

LEMMA BucketsFinite ==
  ASSUME NEW p
  PROVE  IsFiniteSet(Buckets(p)) /\ \A s : IsFiniteSet(BucketsOf(p, s))
<1> DEFINE f == [o \in Cards(p) |-> KeyOf(o)]
<1>1. f \in Surjection(Cards(p), Buckets(p))
  BY DEF Surjection, Buckets, KeyOf
<1>2. IsFiniteSet(Cards(p))
  BY CardsFinite
<1>3. IsFiniteSet(Buckets(p))
  <2> HIDE DEF f
  <2> QED
    BY <1>1, <1>2, FS_Surjection
<1> QED
  BY <1>3, FS_Subset DEF BucketsOf

\* A stage is known by its code, so that the buckets with its code are its own.
LEMMA BucketsOfStage ==
  ASSUME IInv, NEW p \in Existing, NEW s \in pipeline[p].stages
  PROVE  /\ BucketsOf(p, s) \in SUBSET Buckets(p)
         /\ \A o \in CardsAt(p, s) : KeyAt[o] \in BucketsOf(p, s)
         /\ \A b \in BucketsOf(p, s) : InBucket(p, b) = {o \in CardsAt(p, s) : KeyAt[o] = b}
<1>1. \A t \in pipeline[p].stages : t.code = s.code => t = s
  BY DEF IInv, PipelinesWellStaged, WellStaged
<1>2. \A o \in Cards(p) : opportunity[o].stage \in pipeline[p].stages
  BY DEF IInv, Placed, Cards
<1>3. \A o \in Cards(p) : KeyAt[o] = KeyOf(o) /\ KeyAt[o] \in Buckets(p)
  BY CardNumbers DEF IInv
<1>4. ASSUME NEW b \in BucketsOf(p, s)
      PROVE  b.stage = s /\ b = [stage |-> b.stage, probability |-> b.probability]
  <2>1. PICK o \in Cards(p) : b = KeyOf(o)
    BY DEF BucketsOf, Buckets, KeyOf
  <2>2. b.stage = opportunity[o].stage /\ b.stage.code = s.code
    BY <2>1 DEF KeyOf, BucketsOf
  <2> QED
    BY <1>1, <1>2, <2>1, <2>2 DEF KeyOf
<1>5. ASSUME NEW o \in CardsAt(p, s)
      PROVE  KeyAt[o] \in BucketsOf(p, s)
  <2>1. o \in Cards(p) /\ opportunity[o].stage = s
    BY DEF CardsAt
  <2>2. KeyAt[o] = KeyOf(o) /\ KeyAt[o] \in Buckets(p)
    BY <1>3, <2>1
  <2>3. KeyOf(o).stage = s
    BY <2>1 DEF KeyOf
  <2> QED
    BY <2>2, <2>3 DEF BucketsOf
<1>6. ASSUME NEW b \in BucketsOf(p, s)
      PROVE  InBucket(p, b) = {o \in CardsAt(p, s) : KeyAt[o] = b}
  <2>1. ASSUME NEW o \in Cards(p), opportunity[o].stage = b.stage,
               opportunity[o].probability = b.probability
        PROVE  opportunity[o].stage = s /\ KeyAt[o] = b
    BY <1>3, <1>4, <2>1 DEF KeyOf
  <2>2. ASSUME NEW o \in Cards(p), KeyAt[o] = b
        PROVE  opportunity[o].stage = b.stage /\ opportunity[o].probability = b.probability
    <3>1. b = KeyOf(o)
      BY <1>3, <2>2
    <3> QED
      BY <3>1 DEF KeyOf
  <2> QED
    BY <2>1, <2>2 DEF InBucket, CardsAt
<1> QED
  BY <1>5, <1>6 DEF BucketsOf

\* The sums that the grouped query returns for a bucket.
LEMMA BucketTotals ==
  ASSUME IInv, NEW p \in Existing, NEW s \in pipeline[p].stages, NEW b \in BucketsOf(p, s)
  PROVE  /\ CountIn(p)[b] = SumOf(One, {o \in CardsAt(p, s) : KeyAt[o] = b})
         /\ WorthIn(p)[b] = SumOf(WorthOf, {o \in CardsAt(p, s) : KeyAt[o] = b})
         /\ WeightedIn(p)[b] = SumOf(WeightedOf, {o \in CardsAt(p, s) : KeyAt[o] = b})
<1> DEFINE Q == {o \in CardsAt(p, s) : KeyAt[o] = b}
<1>1. InBucket(p, b) = Q /\ b \in Buckets(p)
  BY BucketsOfStage
<1>2. Q \in SUBSET Cards(p) /\ IsFiniteSet(Q) /\ Q \in SUBSET Opportunities
  BY <1>1, CardsFinite
<1>3. \A o \in Q : /\ One[o] = 1
                   /\ WorthOf[o] \in Int
                   /\ WeightedOf[o] = WorthOf[o] * Weight(b)
                   /\ Weight(b) \in Int
  BY <1>2, CardNumbers DEF IInv
<1>4. CountIn(p)[b] = Cardinality(Q) /\ WorthIn(p)[b] = BucketSum(p, b)
      /\ WeightedIn(p)[b] = BucketSum(p, b) * Weight(b)
  BY <1>1 DEF CountIn, WorthIn, WeightedIn
<1> HIDE DEF Q
<1>5. SumOf(One, Q) = Cardinality(Q)
  BY <1>2, <1>3, SumOfOnes
<1>6. BucketSum(p, b) = SumOf(WorthOf, Q)
  <2>1. MapThenSumSet(Worth, Q) = SumOf(WorthOf, Q)
    BY <1>2, WorthSum
  <2> QED
    BY <1>1, <2>1 DEF BucketSum
<1>7. SumOf(WeightedOf, Q) = SumOf(WorthOf, Q) * Weight(b)
  <2>1. CASE Q = {}
    <3>1. \E o \in Cards(p) : b = KeyOf(o)
      BY <1>1 DEF Buckets, KeyOf
    <3>2. Weight(b) \in Int
      BY <3>1, CardNumbers DEF IInv
    <3>3. SumOf(WeightedOf, Q) = 0 /\ SumOf(WorthOf, Q) = 0
      BY <2>1, SumEmpty
    <3> QED
      BY <3>2, <3>3
  <2>2. CASE Q # {}
    <3>1. Weight(b) \in Int
      BY <1>3, <2>2
    <3>2. \A o \in Q : WorthOf[o] \in Int /\ WeightedOf[o] = WorthOf[o] * Weight(b)
      BY <1>3
    <3> QED
      BY <1>2, <3>1, <3>2, SumTimes
  <2> QED
    BY <2>1, <2>2
<1> QED
  BY <1>4, <1>5, <1>6, <1>7 DEF Q

LEMMA StageTotals ==
  ASSUME IInv, NEW p \in Existing, NEW s \in pipeline[p].stages
  PROVE  /\ BoardStage(p, s).total = SumOf(One, CardsAt(p, s))
         /\ BoardStage(p, s).estimated = SumOf(WorthOf, CardsAt(p, s))
         /\ BoardStage(p, s).weighted = ToFixed2(SumOf(WeightedOf, CardsAt(p, s)))
         /\ BoardStage(p, s).loaded = Loaded(p, s)
         /\ BoardStage(p, s).hasMore = (BoardStage(p, s).total > Loaded(p, s))
<1> DEFINE C == CardsAt(p, s)
           K == BucketsOf(p, s)
<1>1. IsFiniteSet(C) /\ IsFiniteSet(K) /\ C \in SUBSET Cards(p) /\ K \in SUBSET Buckets(p)
  BY CardsFinite, BucketsFinite, BucketsOfStage
<1>2. \A o \in C : /\ One[o] \in Int
                   /\ WorthOf[o] \in Int
                   /\ WeightedOf[o] \in Int
                   /\ KeyAt[o] \in K
  BY <1>1, CardNumbers, BucketsOfStage DEF IInv
<1>3. \A b \in K : /\ CountIn(p)[b] = SumOf(One, {o \in C : KeyAt[o] = b})
                   /\ WorthIn(p)[b] = SumOf(WorthOf, {o \in C : KeyAt[o] = b})
                   /\ WeightedIn(p)[b] = SumOf(WeightedOf, {o \in C : KeyAt[o] = b})
  BY BucketTotals
<1>4. /\ BoardStage(p, s).total = MapThenSumSet(LAMBDA b : Cardinality(InBucket(p, b)), K)
      /\ BoardStage(p, s).estimated = MapThenSumSet(LAMBDA b : BucketSum(p, b), K)
      /\ BoardStage(p, s).weighted
           = ToFixed2(MapThenSumSet(LAMBDA b : BucketSum(p, b) * Weight(b), K))
  BY DEF BoardStage, BucketsOf
<1>5. /\ MapThenSumSet(LAMBDA b : Cardinality(InBucket(p, b)), K) = SumOf(CountIn(p), K)
      /\ MapThenSumSet(LAMBDA b : BucketSum(p, b), K) = SumOf(WorthIn(p), K)
      /\ MapThenSumSet(LAMBDA b : BucketSum(p, b) * Weight(b), K) = SumOf(WeightedIn(p), K)
  <2> HIDE DEF K
  <2>1. MapThenSumSet(LAMBDA b : Cardinality(InBucket(p, b)), K) = SumOf(CountIn(p), K)
    BY <1>1, CountInSum
  <2>2. MapThenSumSet(LAMBDA b : BucketSum(p, b), K) = SumOf(WorthIn(p), K)
    BY <1>1, WorthInSum
  <2>3. MapThenSumSet(LAMBDA b : BucketSum(p, b) * Weight(b), K) = SumOf(WeightedIn(p), K)
    BY <1>1, WeightedInSum
  <2> QED
    BY <2>1, <2>2, <2>3
<1>6. BoardStage(p, s).loaded = Loaded(p, s)
  BY DEF BoardStage, Loaded, CardsAt
<1>7. BoardStage(p, s).hasMore = (BoardStage(p, s).total > BoardStage(p, s).loaded)
  BY DEF BoardStage
<1> HIDE DEF C, K
<1>8. SumOf(CountIn(p), K) = SumOf(One, C)
  <2>1. Grouped(One, KeyAt, CountIn(p), C, K)
    BY <1>1, <1>2, <1>3 DEF Grouped
  <2> QED
    BY <2>1, SumGroups
<1>9. SumOf(WorthIn(p), K) = SumOf(WorthOf, C)
  <2>1. Grouped(WorthOf, KeyAt, WorthIn(p), C, K)
    BY <1>1, <1>2, <1>3 DEF Grouped
  <2> QED
    BY <2>1, SumGroups
<1>10. SumOf(WeightedIn(p), K) = SumOf(WeightedOf, C)
  <2>1. Grouped(WeightedOf, KeyAt, WeightedIn(p), C, K)
    BY <1>1, <1>2, <1>3 DEF Grouped
  <2> QED
    BY <2>1, SumGroups
<1> QED
  BY <1>4, <1>5, <1>6, <1>7, <1>8, <1>9, <1>10 DEF C

\* A sum over the columns is a sum over the opportunities of the pipeline.
LEMMA ColumnsTotal ==
  ASSUME IInv, NEW p \in Existing, NEW f, NEW F,
         \A o \in Cards(p) : f[o] \in Int,
         \A s \in pipeline[p].stages : F[s] = SumOf(f, CardsAt(p, s))
  PROVE  SumOf(F, pipeline[p].stages) = SumOf(f, Cards(p))
<1> DEFINE S == pipeline[p].stages
           C == Cards(p)
<1>1. IsFiniteSet(S) /\ IsFiniteSet(C)
  BY CardsFinite DEF IInv, PipelinesWellStaged, WellStaged
<1>2. \A o \in C : f[o] \in Int /\ StageAt[o] \in S
  BY CardNumbers DEF IInv, Placed, Cards
<1>3. \A s \in S : F[s] = SumOf(f, {o \in C : StageAt[o] = s})
  <2>1. \A o \in C : StageAt[o] = opportunity[o].stage
    BY CardNumbers DEF IInv
  <2>2. \A s \in S : CardsAt(p, s) = {o \in C : StageAt[o] = s}
    BY <2>1 DEF CardsAt
  <2> QED
    BY <2>2
<1> HIDE DEF S, C
<1>4. SumOf(F, S) = SumOf(f, C)
  <2>1. Grouped(f, StageAt, F, C, S)
    BY <1>1, <1>2, <1>3 DEF Grouped
  <2> QED
    BY <2>1, SumGroups
<1> QED
  BY <1>4 DEF S, C

\* The columns, added up.
LEMMA BoardIsColumns ==
  ASSUME NEW p \in Existing
  PROVE  /\ Board(p).total = SumOf(ColumnOf(p, "total"), pipeline[p].stages)
         /\ Board(p).loaded = SumOf(ColumnOf(p, "loaded"), pipeline[p].stages)
         /\ Board(p).estimated = SumOf(ColumnOf(p, "estimated"), pipeline[p].stages)
         /\ Board(p).weighted = SumOf(ColumnOf(p, "weighted"), pipeline[p].stages)
         /\ Board(p).more = \E s \in pipeline[p].stages : BoardStage(p, s).hasMore
<1> DEFINE S == pipeline[p].stages
           Added(field) == MapThenSumSet(LAMBDA s : Columns(p)[s][field], S)
<1>1. DOMAIN Columns(p) = S
  BY DEF Columns
<1>2. /\ Board(p).total = MapThenSumSet(LAMBDA s : Columns(p)[s]["total"], DOMAIN Columns(p))
      /\ Board(p).loaded = MapThenSumSet(LAMBDA s : Columns(p)[s]["loaded"], DOMAIN Columns(p))
      /\ Board(p).estimated = MapThenSumSet(LAMBDA s : Columns(p)[s]["estimated"], DOMAIN Columns(p))
      /\ Board(p).weighted = MapThenSumSet(LAMBDA s : Columns(p)[s]["weighted"], DOMAIN Columns(p))
  BY DEF Board, Columns
<1>3. Board(p).more = \E s \in DOMAIN Columns(p) : Columns(p)[s].hasMore
  BY DEF Board, Columns
<1>4. \A s \in S : Columns(p)[s].hasMore = BoardStage(p, s).hasMore
  BY DEF Columns
<1>5. \A field : Added(field) = SumOf(ColumnOf(p, field), S)
  <2> TAKE field
  <2>1. S \in SUBSET pipeline[p].stages
    OBVIOUS
  <2> HIDE DEF S
  <2> QED
    BY <2>1, ColumnSum
<1>6. /\ Board(p).total = Added("total")
      /\ Board(p).loaded = Added("loaded")
      /\ Board(p).estimated = Added("estimated")
      /\ Board(p).weighted = Added("weighted")
  <2> HIDE DEF S
  <2> QED
    BY <1>1, <1>2
<1> HIDE DEF Added, S
<1> QED
  BY <1>1, <1>3, <1>4, <1>5, <1>6 DEF S

\* Half a cent at most is lost or gained.
LEMMA RoundedToCent ==
  ASSUME NEW w \in Int
  PROVE  /\ ToFixed2(w) \in Int
         /\ ToFixed2(w) * 100 - w * 1 <= 50
         /\ w * 1 - ToFixed2(w) * 100 <= 50
BY DEF ToFixed2

\* The weighted value of the board is that of its cards, to half a cent a stage.
LEMMA WeightedWithin ==
  ASSUME IInv, NEW p \in Existing
  PROVE  LET n == Cardinality(pipeline[p].stages)
             weighted == SumOf(ColumnOf(p, "weighted"), pipeline[p].stages)
             exact == SumOf(WeightedOf, Cards(p))
         IN /\ 100 * weighted - exact <= 50 * n
            /\ exact - 100 * weighted <= 50 * n
<1> DEFINE S == pipeline[p].stages
           W == ColumnOf(p, "weighted")
           E == [s \in S |-> SumOf(WeightedOf, CardsAt(p, s))]
<1>1. /\ IsFiniteSet(S)
      /\ \A s : IsFiniteSet(CardsAt(p, s)) /\ CardsAt(p, s) \in SUBSET Cards(p)
      /\ \A o \in Cards(p) : WeightedOf[o] \in Int
  BY CardsFinite, CardNumbers DEF IInv, PipelinesWellStaged, WellStaged
<1>2. ASSUME NEW s \in S
      PROVE  /\ W[s] \in Int /\ E[s] \in Int
             /\ W[s] * 100 - E[s] * 1 <= 50
             /\ E[s] * 1 - W[s] * 100 <= 50
  <2>1. W[s] = ToFixed2(E[s])
    BY StageTotals DEF ColumnOf
  <2>2. E[s] \in Int
    BY <1>1, SumType
  <2> HIDE DEF W, E
  <2> QED
    BY <2>1, <2>2, RoundedToCent
<1>3. SumOf(E, S) = SumOf(WeightedOf, Cards(p))
  BY <1>1, ColumnsTotal
<1> HIDE DEF S, W, E
<1>4. SumOf(W, S) \in Int /\ SumOf(E, S) \in Int
  BY <1>1, <1>2, SumType
<1>5. SumOf(W, S) * 100 - SumOf(E, S) * 1 <= 50 * Cardinality(S)
  BY <1>1, <1>2, SumScaled
<1>6. SumOf(E, S) * 1 - SumOf(W, S) * 100 <= 50 * Cardinality(S)
  BY <1>1, <1>2, SumScaled
<1>7. /\ 100 * SumOf(W, S) - SumOf(E, S) <= 50 * Cardinality(S)
      /\ SumOf(E, S) - 100 * SumOf(W, S) <= 50 * Cardinality(S)
  BY <1>1, <1>4, <1>5, <1>6, FS_CardinalityType
<1> QED
  BY <1>3, <1>7 DEF S, W

LEMMA BoardHolds == IInv => BoardCountsEveryOpportunity
<1> SUFFICES ASSUME IInv, NEW p \in Existing
             PROVE  /\ Board(p).total = Cardinality(Cards(p))
                    /\ Board(p).estimated = MapThenSumSet(Worth, Cards(p))
                    /\ \A s \in pipeline[p].stages :
                         BoardStage(p, s).weighted = ToFixed2(WeighedWorth(
                           {o \in Cards(p) : opportunity[o].stage = s}))
                    /\ 100 * Board(p).weighted - WeighedWorth(Cards(p))
                         <= 50 * Cardinality(pipeline[p].stages)
                    /\ WeighedWorth(Cards(p)) - 100 * Board(p).weighted
                         <= 50 * Cardinality(pipeline[p].stages)
                    /\ Board(p).more = (Board(p).loaded < Cardinality(Cards(p)))
  BY DEF BoardCountsEveryOpportunity
<1> DEFINE S == pipeline[p].stages
<1>1. /\ IsFiniteSet(S)
      /\ IsFiniteSet(Cards(p))
      /\ Cards(p) \in SUBSET Opportunities
      /\ \A s : IsFiniteSet(CardsAt(p, s)) /\ CardsAt(p, s) \in SUBSET Cards(p)
  BY CardsFinite DEF IInv, PipelinesWellStaged, WellStaged
<1>2. \A o \in Cards(p) : /\ One[o] = 1
                          /\ One[o] \in Int
                          /\ WorthOf[o] \in Int
                          /\ WeightedOf[o] \in Int
  BY CardNumbers DEF IInv
<1>3. \A s \in S : /\ ColumnOf(p, "total")[s] = BoardStage(p, s).total
                   /\ ColumnOf(p, "loaded")[s] = BoardStage(p, s).loaded
                   /\ ColumnOf(p, "estimated")[s] = BoardStage(p, s).estimated
  BY DEF ColumnOf
<1>4. \A s \in S : /\ ColumnOf(p, "total")[s] = SumOf(One, CardsAt(p, s))
                   /\ ColumnOf(p, "estimated")[s] = SumOf(WorthOf, CardsAt(p, s))
  BY <1>3, StageTotals
<1>5. SumOf(ColumnOf(p, "total"), S) = SumOf(One, Cards(p))
  BY <1>2, <1>4, ColumnsTotal
<1>6. SumOf(ColumnOf(p, "estimated"), S) = SumOf(WorthOf, Cards(p))
  BY <1>2, <1>4, ColumnsTotal
<1>7. ASSUME NEW s \in S
      PROVE  BoardStage(p, s).weighted
               = ToFixed2(WeighedWorth({o \in Cards(p) : opportunity[o].stage = s}))
  <2>1. CardsAt(p, s) \in SUBSET Opportunities /\ IsFiniteSet(CardsAt(p, s))
    BY <1>1
  <2>2. WeighedWorth(CardsAt(p, s)) = SumOf(WeightedOf, CardsAt(p, s))
    <3> DEFINE C == CardsAt(p, s)
    <3> HIDE DEF C
    <3>1. WeighedWorth(C) = SumOf(WeightedOf, C)
      BY <2>1, WeightedSum DEF WeighedWorth, C
    <3> QED
      BY <3>1 DEF C
  <2> QED
    BY <2>2, StageTotals DEF CardsAt
<1>8. SumOf(One, Cards(p)) = Cardinality(Cards(p))
  BY <1>1, <1>2, SumOfOnes
<1>9. /\ MapThenSumSet(Worth, Cards(p)) = SumOf(WorthOf, Cards(p))
      /\ WeighedWorth(Cards(p)) = SumOf(WeightedOf, Cards(p))
  BY <1>1, WorthSum, WeightedSum DEF WeighedWorth
<1>10. ASSUME NEW s \in S
       PROVE  /\ ColumnOf(p, "loaded")[s] \in Int
              /\ ColumnOf(p, "total")[s] \in Int
              /\ ColumnOf(p, "loaded")[s] <= ColumnOf(p, "total")[s]
              /\ BoardStage(p, s).hasMore
                   = (ColumnOf(p, "loaded")[s] < ColumnOf(p, "total")[s])
  <2>1. SumOf(One, CardsAt(p, s)) = Cardinality(CardsAt(p, s))
    BY <1>1, <1>2, SumOfOnes
  <2>2. Cardinality(CardsAt(p, s)) \in Nat /\ StageLimit \in Nat
    BY <1>1, FS_CardinalityType, ValueAssumption
  <2>3. Loaded(p, s) \in Nat /\ Loaded(p, s) <= Cardinality(CardsAt(p, s))
    BY <2>2, MinOfTwo DEF Loaded
  <2>4. /\ ColumnOf(p, "loaded")[s] = Loaded(p, s)
        /\ ColumnOf(p, "total")[s] = Cardinality(CardsAt(p, s))
        /\ BoardStage(p, s).hasMore = (Cardinality(CardsAt(p, s)) > Loaded(p, s))
    BY <1>3, <1>4, <2>1, StageTotals
  <2>5. (Cardinality(CardsAt(p, s)) > Loaded(p, s)) = (Loaded(p, s) < Cardinality(CardsAt(p, s)))
    BY <2>2, <2>3
  <2> QED
    BY <2>2, <2>3, <2>4, <2>5
<1>11. (SumOf(ColumnOf(p, "loaded"), S) < SumOf(ColumnOf(p, "total"), S))
         <=> \E s \in S : ColumnOf(p, "loaded")[s] < ColumnOf(p, "total")[s]
  <2> HIDE DEF S
  <2> QED
    BY <1>1, <1>10, SumLess
<1>12. (SumOf(ColumnOf(p, "loaded"), S) < SumOf(ColumnOf(p, "total"), S))
         <=> \E s \in S : BoardStage(p, s).hasMore
  BY <1>10, <1>11
<1>13. Board(p).more = \E s \in S : BoardStage(p, s).hasMore
  BY BoardIsColumns
<1>14. /\ Board(p).total = SumOf(ColumnOf(p, "total"), S)
       /\ Board(p).loaded = SumOf(ColumnOf(p, "loaded"), S)
       /\ Board(p).estimated = SumOf(ColumnOf(p, "estimated"), S)
       /\ Board(p).weighted = SumOf(ColumnOf(p, "weighted"), S)
  BY BoardIsColumns
<1>15. Board(p).total = Cardinality(Cards(p))
  BY <1>5, <1>8, <1>14
<1>16. Board(p).more = (Board(p).loaded < Cardinality(Cards(p)))
  <2>1. (Board(p).loaded < Cardinality(Cards(p))) <=> \E s \in S : BoardStage(p, s).hasMore
    BY <1>12, <1>14, <1>15
  <2>2. Board(p).more \in BOOLEAN
    BY <1>13
  <2>3. (Board(p).loaded < Cardinality(Cards(p))) \in BOOLEAN
    OBVIOUS
  <2> QED
    BY <1>13, <2>1, <2>2, <2>3
<1>17. /\ 100 * Board(p).weighted - WeighedWorth(Cards(p)) <= 50 * Cardinality(S)
       /\ WeighedWorth(Cards(p)) - 100 * Board(p).weighted <= 50 * Cardinality(S)
  BY <1>9, <1>14, WeightedWithin
<1> QED
  BY <1>6, <1>7, <1>9, <1>14, <1>15, <1>16, <1>17

\* findBoard: every opportunity is counted and valued once, each stage shows what
\* its cards are worth, weighed with their own probability or its, to the cent,
\* the pipeline what all of them are to half a cent a stage, and there is more
\* exactly when some card was not loaded.
THEOREM BoardCounts == Spec => []BoardCountsEveryOpportunity
<1> QED
  BY BoardHolds, Inductive, PTL

-----------------------------------------------------------------------------
(* FollowUp: scores.                                                        *)

TooLow(v, r) == r.min # None /\ v < r.min
TooHigh(v, r) == r.max # None /\ v > r.max

LEMMA NoneIsApart == None \notin Int /\ None \notin Nat /\ None # TRUE /\ None # FALSE
<1>1. None \notin Int /\ None \notin BOOLEAN
  BY MeasureAssumption, Zenon
<1>2. None # TRUE /\ None # FALSE
  BY <1>1, Zenon
<1>3. None \notin Nat
  <2>1. \A n \in Nat : n \in Int
    OBVIOUS
  <2> QED
    BY <1>1, <2>1, Zenon
<1> QED
  BY <1>1, <1>2, <1>3, Zenon

LEMMA UnknownRange ==
  ASSUME NEW v, NEW r, v = None \/ ~Stated(r)
  PROVE  InRange(v, r) = None
BY DEF InRange

LEMMA KnownRange ==
  ASSUME NEW V \in SUBSET Nat, NEW r \in Ranges(V), NEW v \in V, Stated(r)
  PROVE  InRange(v, r) = (~TooLow(v, r) /\ ~TooHigh(v, r))
<1>1. r.min \in V \cup {None} /\ r.max \in V \cup {None}
  BY DEF Ranges
<1>2. v # None
  BY NoneIsApart
<1>3. InRange(v, r) = /\ r.min = None \/ v >= r.min
                      /\ r.max = None \/ v <= r.max
  BY <1>2 DEF InRange
<1>4. (r.min = None \/ v >= r.min) <=> ~TooLow(v, r)
  <2>1. CASE r.min = None
    BY <2>1 DEF TooLow
  <2>2. CASE r.min # None
    <3>1. r.min \in Nat /\ v \in Nat
      BY <1>1, <2>2
    <3> QED
      BY <2>2, <3>1 DEF TooLow
  <2> QED
    BY <2>1, <2>2
<1>5. (r.max = None \/ v <= r.max) <=> ~TooHigh(v, r)
  <2>1. CASE r.max = None
    BY <2>1 DEF TooHigh
  <2>2. CASE r.max # None
    <3>1. r.max \in Nat /\ v \in Nat
      BY <1>1, <2>2
    <3> QED
      BY <2>2, <3>1 DEF TooHigh
  <2> QED
    BY <2>1, <2>2
<1>6. (/\ r.min = None \/ v >= r.min
       /\ r.max = None \/ v <= r.max)
        = (~TooLow(v, r) /\ ~TooHigh(v, r))
  BY <1>4, <1>5
<1> QED
  BY <1>3, <1>6

LEMMA BoundsType ==
  ASSUME NEW V \in SUBSET Nat, NEW r \in Ranges(V), NEW v \in V, Stated(r)
  PROVE  /\ v \in Nat /\ v # None
         /\ TooLow(v, r) => r.min \in Nat /\ v < r.min
         /\ TooHigh(v, r) => r.max \in Nat /\ v > r.max
         /\ ~(TooLow(v, r) /\ TooHigh(v, r))
<1>1. r.min \in V \cup {None} /\ r.max \in V \cup {None}
  BY DEF Ranges
<1>2. v \in Nat /\ v # None
  BY NoneIsApart
<1>3. ASSUME TooLow(v, r) PROVE r.min \in Nat /\ v < r.min
  BY <1>1, <1>3 DEF TooLow
<1>4. ASSUME TooHigh(v, r) PROVE r.max \in Nat /\ v > r.max
  BY <1>1, <1>4 DEF TooHigh
<1>5. ASSUME TooLow(v, r), TooHigh(v, r) PROVE FALSE
  <2>1. r.min # None /\ r.max # None
    BY <1>5 DEF TooLow, TooHigh
  <2>2. r.min <= r.max
    BY <2>1 DEF Ranges
  <2> QED
    BY <1>2, <1>3, <1>4, <1>5, <2>2
<1> QED
  BY <1>2, <1>3, <1>4, <1>5

\* What the query gives a value that is out of its range.
Short(bound, distance, m) ==
  IF bound = 0 THEN 0 ELSE AtLeast0(RoundedHalfUp(100 * bound - distance * m, bound))

LEMMA ScoredRangeIs ==
  ASSUME NEW V \in SUBSET Nat, NEW r \in Ranges(V), NEW v \in V \cup {None}, NEW m \in Nat
  PROVE  ScoredRange(v, r, m) =
           IF v = None \/ ~Stated(r) THEN None
           ELSE IF TooLow(v, r) THEN Short(r.min, r.min - v, m)
           ELSE IF TooHigh(v, r) THEN Short(r.max, v - r.max, m)
           ELSE 100
<1>1. CASE v = None \/ ~Stated(r)
  <2>1. InRange(v, r) = None
    BY <1>1, UnknownRange
  <2> QED
    BY <1>1, <2>1, NoneIsApart DEF ScoredRange
<1>2. CASE ~(v = None \/ ~Stated(r))
  <2>1. v \in V /\ Stated(r)
    BY <1>2
  <2>2. InRange(v, r) = (~TooLow(v, r) /\ ~TooHigh(v, r))
    BY <2>1, KnownRange
  <2>3. CASE TooLow(v, r)
    <3>1. InRange(v, r) = FALSE
      BY <2>2, <2>3
    <3>2. InRange(v, r) # None /\ InRange(v, r) # TRUE
      BY <3>1, NoneIsApart
    <3>3. Deviation(v, r) = r.min - v
      <4>1. ~TooHigh(v, r)
        BY <2>1, <2>3, BoundsType
      <4> QED
        BY <2>3, <4>1 DEF Deviation, TooLow, TooHigh
    <3>4. r.min # None /\ v < r.min
      BY <2>3 DEF TooLow
    <3>5. ScoredRange(v, r, m) = Short(r.min, r.min - v, m)
      BY <3>2, <3>3, <3>4 DEF ScoredRange, Short
    <3> QED
      BY <1>2, <2>3, <3>5
  <2>4. CASE ~TooLow(v, r) /\ TooHigh(v, r)
    <3>1. InRange(v, r) = FALSE
      BY <2>2, <2>4
    <3>2. InRange(v, r) # None /\ InRange(v, r) # TRUE
      BY <3>1, NoneIsApart
    <3>3. Deviation(v, r) = v - r.max
      BY <2>4 DEF Deviation, TooLow, TooHigh
    <3>4. ~(r.min # None /\ v < r.min)
      BY <2>4 DEF TooLow
    <3>5. ScoredRange(v, r, m) = Short(r.max, v - r.max, m)
      BY <3>2, <3>3, <3>4 DEF ScoredRange, Short
    <3> QED
      BY <1>2, <2>4, <3>5
  <2>5. CASE ~TooLow(v, r) /\ ~TooHigh(v, r)
    <3>1. InRange(v, r) = TRUE
      BY <2>2, <2>5
    <3>2. InRange(v, r) # None
      BY <3>1, NoneIsApart
    <3>3. ScoredRange(v, r, m) = 100
      BY <3>1, <3>2 DEF ScoredRange
    <3> QED
      BY <1>2, <2>5, <3>3
  <2> QED
    BY <2>3, <2>4, <2>5
<1> QED
  BY <1>1, <1>2

LEMMA RangeScoreIs ==
  ASSUME NEW V \in SUBSET Nat, NEW r \in Ranges(V), NEW v \in V \cup {None}, NEW m \in Nat
  PROVE  RangeScore(v, r, m) =
           IF v = None \/ ~Stated(r) THEN None
           ELSE IF TooLow(v, r) THEN Short(r.min, r.min - v, m)
           ELSE IF TooHigh(v, r) THEN Short(r.max, v - r.max, m)
           ELSE 100
<1>1. CASE v = None \/ ~Stated(r)
  BY <1>1 DEF RangeScore
<1>2. CASE ~(v = None \/ ~Stated(r))
  <2>1. v \in V /\ Stated(r) /\ None \notin Nat
    BY <1>2, NoneIsApart
  <2>2. /\ v \in Nat
        /\ TooLow(v, r) => r.min \in Nat /\ v < r.min
        /\ TooHigh(v, r) => r.max \in Nat /\ v > r.max
    BY <2>1, BoundsType
  <2>3. CASE TooLow(v, r)
    <3>1. Boundary(v, r) = r.min
      BY <2>3 DEF Boundary, TooLow
    <3>2. r.min \in Nat /\ v < r.min /\ r.min # None
      BY <2>1, <2>2, <2>3
    <3>3. RangeScore(v, r, m) = Short(r.min, r.min - v, m)
      BY <1>2, <3>1, <3>2 DEF RangeScore, Short
    <3> QED
      BY <1>2, <2>3, <3>3
  <2>4. CASE ~TooLow(v, r) /\ TooHigh(v, r)
    <3>1. Boundary(v, r) = r.max
      BY <2>4 DEF Boundary, TooLow, TooHigh
    <3>2. r.max \in Nat /\ ~(v < r.max) /\ r.max # None
      BY <2>1, <2>2, <2>4
    <3>3. RangeScore(v, r, m) = Short(r.max, v - r.max, m)
      BY <1>2, <3>1, <3>2 DEF RangeScore, Short
    <3> QED
      BY <1>2, <2>4, <3>3
  <2>5. CASE ~TooLow(v, r) /\ ~TooHigh(v, r)
    <3>1. Boundary(v, r) = None
      BY <2>5 DEF Boundary, TooLow, TooHigh
    <3> QED
      BY <1>2, <2>1, <2>5, <3>1 DEF RangeScore
  <2> QED
    BY <2>3, <2>4, <2>5
<1> QED
  BY <1>1, <1>2

LEMMA ScoredBedroomsIs ==
  ASSUME NEW V \in SUBSET Nat, NEW r \in Ranges(V), NEW v \in V \cup {None}
  PROVE  ScoredBedrooms(v, r) =
           IF v = None \/ ~Stated(r) THEN None
           ELSE IF TooLow(v, r) THEN AtLeast0(100 - BedroomPoints * (r.min - v))
           ELSE IF TooHigh(v, r) THEN AtLeast0(100 - BedroomPoints * (v - r.max))
           ELSE 100
<1>1. CASE v = None \/ ~Stated(r)
  <2>1. InRange(v, r) = None
    BY <1>1, UnknownRange
  <2> QED
    BY <1>1, <2>1, NoneIsApart DEF ScoredBedrooms
<1>2. CASE ~(v = None \/ ~Stated(r))
  <2>1. v \in V /\ Stated(r)
    BY <1>2
  <2>2. InRange(v, r) = (~TooLow(v, r) /\ ~TooHigh(v, r))
    BY <2>1, KnownRange
  <2>3. CASE TooLow(v, r)
    <3>1. InRange(v, r) = FALSE
      BY <2>2, <2>3
    <3>2. InRange(v, r) # None /\ InRange(v, r) # TRUE
      BY <3>1, NoneIsApart
    <3>3. r.min # None /\ v < r.min
      BY <2>3 DEF TooLow
    <3>4. ScoredBedrooms(v, r) = AtLeast0(100 - BedroomPoints * (r.min - v))
      BY <3>2, <3>3 DEF ScoredBedrooms
    <3> QED
      BY <1>2, <2>3, <3>4
  <2>4. CASE ~TooLow(v, r) /\ TooHigh(v, r)
    <3>1. InRange(v, r) = FALSE
      BY <2>2, <2>4
    <3>2. InRange(v, r) # None /\ InRange(v, r) # TRUE
      BY <3>1, NoneIsApart
    <3>3. ~(r.min # None /\ v < r.min)
      BY <2>4 DEF TooLow
    <3>4. ScoredBedrooms(v, r) = AtLeast0(100 - BedroomPoints * (v - r.max))
      BY <3>2, <3>3 DEF ScoredBedrooms
    <3> QED
      BY <1>2, <2>4, <3>4
  <2>5. CASE ~TooLow(v, r) /\ ~TooHigh(v, r)
    <3>1. InRange(v, r) = TRUE
      BY <2>2, <2>5
    <3>2. InRange(v, r) # None
      BY <3>1, NoneIsApart
    <3>3. ScoredBedrooms(v, r) = 100
      BY <3>1, <3>2 DEF ScoredBedrooms
    <3> QED
      BY <1>2, <2>5, <3>3
  <2> QED
    BY <2>3, <2>4, <2>5
<1> QED
  BY <1>1, <1>2

LEMMA BedroomScoresAgree ==
  ASSUME NEW V \in SUBSET Nat, NEW r \in Ranges(V), NEW v \in V \cup {None}
  PROVE  ScoreBedrooms(v, r) = ScoredBedrooms(v, r)
<1>1. CASE v = None \/ ~Stated(r)
  <2>1. ScoreBedrooms(v, r) = None
    BY <1>1 DEF ScoreBedrooms
  <2> QED
    BY <1>1, <2>1, ScoredBedroomsIs
<1>2. CASE ~(v = None \/ ~Stated(r))
  <2>1. v \in V /\ Stated(r)
    BY <1>2
  <2>2. /\ v \in Nat
        /\ TooLow(v, r) => r.min \in Nat /\ v < r.min
        /\ TooHigh(v, r) => r.max \in Nat /\ v > r.max
    BY <2>1, BoundsType
  <2>3. CASE TooLow(v, r)
    <3>1. (r.min - v) * 50 = 50 * (r.min - v)
      BY <2>2, <2>3
    <3>2. r.min # None /\ v < r.min /\ ~(r.max # None /\ v > r.max)
      <4>1. ~TooHigh(v, r)
        BY <2>1, <2>3, BoundsType
      <4> QED
        BY <2>3, <4>1 DEF TooLow, TooHigh
    <3>3. ScoreBedrooms(v, r) = AtLeast0(100 - BedroomPoints * (r.min - v))
      BY <1>2, <3>1, <3>2 DEF ScoreBedrooms, BedroomPoints
    <3> QED
      BY <1>2, <2>3, <3>3, ScoredBedroomsIs
  <2>4. CASE ~TooLow(v, r) /\ TooHigh(v, r)
    <3>1. (v - r.max) * 50 = 50 * (v - r.max)
      BY <2>2, <2>4
    <3>2. ~(r.min # None /\ v < r.min) /\ r.max # None /\ v > r.max
      BY <2>4 DEF TooLow, TooHigh
    <3>3. ScoreBedrooms(v, r) = AtLeast0(100 - BedroomPoints * (v - r.max))
      BY <1>2, <3>1, <3>2 DEF ScoreBedrooms, BedroomPoints
    <3> QED
      BY <1>2, <2>4, <3>3, ScoredBedroomsIs
  <2>5. CASE ~TooLow(v, r) /\ ~TooHigh(v, r)
    <3>1. ~(r.min # None /\ v < r.min) /\ ~(r.max # None /\ v > r.max)
      BY <2>5 DEF TooLow, TooHigh
    <3>2. ScoreBedrooms(v, r) = AtLeast0(100 - 0 * BedroomPoints)
      BY <1>2, <3>1 DEF ScoreBedrooms
    <3>3. ScoreBedrooms(v, r) = 100
      BY <3>2 DEF AtLeast0, BedroomPoints
    <3> QED
      BY <1>2, <2>5, <3>3, ScoredBedroomsIs
  <2> QED
    BY <2>3, <2>4, <2>5
<1> QED
  BY <1>1, <1>2

\* The weights and the points of the criteria.
PointsOf(scores) == [c \in Criteria |-> scores[c] * CriterionWeight[c]]

Evaluated(scores) == {c \in Criteria : scores[c] # None}

\* What a criterion adds to a sum over those that are evaluated.
Adding(f, E, c) == IF c \in E THEN f[c] ELSE 0

LEMMA PointsSum ==
  ASSUME NEW scores, NEW S \in SUBSET Criteria
  PROVE  MapThenSumSet(LAMBDA c : scores[c] * CriterionWeight[c], S)
           = SumOf(PointsOf(scores), S)
<1> DEFINE f == PointsOf(scores)
           A(g) == g = [s \in SUBSET S |->
                          IF s = {} THEN 0 ELSE scores[Chosen(s)] * CriterionWeight[Chosen(s)] + g[s \ {Chosen(s)}]]
<1>1. \A s \in SUBSET S : s # {} => f[Chosen(s)] = scores[Chosen(s)] * CriterionWeight[Chosen(s)]
  BY ChosenMember DEF PointsOf
<1>2. ASSUME NEW g
      PROVE  A(g) <=> Adds(g, f, S)
  <2> HIDE DEF f
  <2>1. \A s \in SUBSET S :
          (IF s = {} THEN 0 ELSE scores[Chosen(s)] * CriterionWeight[Chosen(s)] + g[s \ {Chosen(s)}])
            = IF s = {} THEN 0 ELSE f[Chosen(s)] + g[s \ {Chosen(s)}]
    BY <1>1
  <2> QED
    BY <2>1 DEF Adds
<1>3. MapThenSumSet(LAMBDA c : scores[c] * CriterionWeight[c], S) = (CHOOSE g : A(g))[S]
  BY DEF MapThenSumSet, MapThenFoldSet, Chosen
<1>4. (CHOOSE g : A(g)) = (CHOOSE g : Adds(g, f, S))
  <2> HIDE DEF A, f
  <2> QED
    BY <1>2
<1> QED
  BY <1>3, <1>4, SumOfIsAdds

LEMMA CriteriaFinite ==
  /\ IsFiniteSet(Criteria)
  /\ \A c : IsFiniteSet(Criteria \cap {c}) /\ IsFiniteSet({c})
<1>1. \A c : IsFiniteSet({c})
  BY FS_Singleton
<1>2. /\ IsFiniteSet({"price"})
      /\ IsFiniteSet({"price"} \cup {"area"})
      /\ IsFiniteSet(({"price"} \cup {"area"}) \cup {"bedrooms"})
  BY <1>1, FS_Union
<1>3. Criteria = ({"price"} \cup {"area"}) \cup {"bedrooms"}
  BY DEF Criteria
<1> QED
  BY <1>1, <1>2, <1>3, FS_Subset

LEMMA SumOfOne ==
  ASSUME NEW f, NEW E, NEW c, c \in E => f[c] \in Int
  PROVE  /\ SumOf(f, E \cap {c}) = Adding(f, E, c)
         /\ Adding(f, E, c) \in Int
<1>1. CASE c \in E
  <2>1. E \cap {c} = {} \cup {c}
    BY <1>1
  <2>2. IsFiniteSet({}) /\ c \notin {} /\ f[c] \in Int /\ \A y \in {} : f[y] \in Int
    BY <1>1, FS_EmptySet
  <2>3. SumOf(f, {} \cup {c}) = f[c] + SumOf(f, {})
    BY <2>2, SumInsert
  <2>4. SumOf(f, {}) = 0
    BY SumEmpty
  <2>5. SumOf(f, E \cap {c}) = SumOf(f, {} \cup {c})
    BY <2>1
  <2>6. f[c] + SumOf(f, {}) = f[c]
    BY <2>2, <2>4
  <2>7. Adding(f, E, c) = f[c]
    BY <1>1 DEF Adding
  <2> QED
    BY <2>2, <2>3, <2>5, <2>6, <2>7
<1>2. CASE c \notin E
  <2>1. E \cap {c} = {}
    BY <1>2
  <2> QED
    BY <1>2, <2>1, SumEmpty DEF Adding
<1> QED
  BY <1>1, <1>2

\* A sum over the criteria, written out.
LEMMA SumOfCriteria ==
  ASSUME NEW f, NEW E \in SUBSET Criteria, \A c \in E : f[c] \in Int
  PROVE  SumOf(f, E) = Adding(f, E, "price") + Adding(f, E, "area") + Adding(f, E, "bedrooms")
<1> DEFINE P == E \cap {"price"}
           A == E \cap {"area"}
           B == E \cap {"bedrooms"}
<1>1. IsFiniteSet(P) /\ IsFiniteSet(A) /\ IsFiniteSet(B) /\ IsFiniteSet(P \cup A)
  <2>1. IsFiniteSet(E)
    BY CriteriaFinite, FS_Subset
  <2> QED
    BY <2>1, FS_Subset
<1>2. /\ E = (P \cup A) \cup B
      /\ P \cap A = {} /\ (P \cup A) \cap B = {}
  BY DEF Criteria
<1>3. /\ SumOf(f, P) = Adding(f, E, "price") /\ Adding(f, E, "price") \in Int
      /\ SumOf(f, A) = Adding(f, E, "area") /\ Adding(f, E, "area") \in Int
      /\ SumOf(f, B) = Adding(f, E, "bedrooms") /\ Adding(f, E, "bedrooms") \in Int
  BY SumOfOne
<1>4. \A c \in (P \cup A) \cup B : f[c] \in Int
  OBVIOUS
<1> HIDE DEF P, A, B
<1>5. SumOf(f, P \cup A) = SumOf(f, P) + SumOf(f, A)
  <2>1. \A c \in P \cup A : f[c] \in Int
    BY <1>4
  <2> QED
    BY <1>1, <1>2, <2>1, SumDisjoint
<1>6. SumOf(f, (P \cup A) \cup B) = SumOf(f, P \cup A) + SumOf(f, B)
  BY <1>1, <1>2, <1>4, SumDisjoint
<1> QED
  BY <1>2, <1>3, <1>5, <1>6

LEMMA Weights ==
  /\ CriterionWeight["price"] = 50
  /\ CriterionWeight["area"] = 25
  /\ CriterionWeight["bedrooms"] = 25
  /\ \A c \in Criteria : CriterionWeight[c] \in {25, 50}
  /\ {"price", "area", "bedrooms"} = Criteria
BY DEF CriterionWeight, Criteria

\* The function that explains a score and the query weigh alike.
LEMMA WeightedScoresAgree ==
  ASSUME NEW scores \in [Criteria -> Nat \cup {None}]
  PROVE  ScoreUnitCompatibility(scores) = WeightedScore(scores)
<1> DEFINE E == Evaluated(scores)
           w(c) == IF scores[c] = None THEN 0 ELSE CriterionWeight[c]
           s(c) == IF scores[c] = None THEN 0 ELSE scores[c]
<1>1. E \in SUBSET Criteria /\ \A c \in Criteria : c \in E <=> scores[c] # None
  BY DEF Evaluated
<1>2. /\ \A c \in E : CriterionWeight[c] \in Int
      /\ \A c \in E : PointsOf(scores)[c] \in Int
  <2>1. \A c \in E : scores[c] \in Nat /\ CriterionWeight[c] \in Nat /\ c \in Criteria
    BY <1>1, Weights
  <2>2. \A i, j \in Nat : i * j \in Int
    OBVIOUS
  <2> HIDE DEF E
  <2> QED
    BY <2>1, <2>2 DEF PointsOf
<1>3. ScoreUnitCompatibility(scores) =
        IF MapThenSumSet(LAMBDA c : CriterionWeight[c], E) = 0 THEN None
        ELSE RoundedHalfUp(MapThenSumSet(LAMBDA c : scores[c] * CriterionWeight[c], E),
                           MapThenSumSet(LAMBDA c : CriterionWeight[c], E))
  BY DEF ScoreUnitCompatibility, Evaluated
<1>4. MapThenSumSet(LAMBDA c : CriterionWeight[c], E) = SumOf(CriterionWeight, E)
  BY DEF SumOf
<1>5. MapThenSumSet(LAMBDA c : scores[c] * CriterionWeight[c], E) = SumOf(PointsOf(scores), E)
  <2> HIDE DEF E
  <2> QED
    BY <1>1, PointsSum
<1> HIDE DEF E
<1>6. /\ SumOf(CriterionWeight, E) = Adding(CriterionWeight, E, "price")
           + Adding(CriterionWeight, E, "area") + Adding(CriterionWeight, E, "bedrooms")
      /\ SumOf(PointsOf(scores), E) = Adding(PointsOf(scores), E, "price")
           + Adding(PointsOf(scores), E, "area") + Adding(PointsOf(scores), E, "bedrooms")
  BY <1>1, <1>2, SumOfCriteria
<1>7. /\ Adding(CriterionWeight, E, "price") = w("price")
      /\ Adding(CriterionWeight, E, "area") = w("area")
      /\ Adding(CriterionWeight, E, "bedrooms") = w("bedrooms")
  BY <1>1, Weights DEF Adding
<1>8. ASSUME NEW c \in Criteria
      PROVE  Adding(PointsOf(scores), E, c) = s(c) * CriterionWeight[c]
  <2>1. CASE scores[c] = None
    <3>1. CriterionWeight[c] \in Int
      BY Weights
    <3> QED
      BY <1>1, <2>1, <3>1 DEF Adding
  <2>2. CASE scores[c] # None
    BY <1>1, <2>2 DEF Adding, PointsOf
  <2> QED
    BY <2>1, <2>2
<1>9. /\ Adding(PointsOf(scores), E, "price") = s("price") * 50
      /\ Adding(PointsOf(scores), E, "area") = s("area") * 25
      /\ Adding(PointsOf(scores), E, "bedrooms") = s("bedrooms") * 25
  BY <1>8, Weights
<1>10. WeightedScore(scores) =
         IF w("price") + w("area") + w("bedrooms") = 0 THEN None
         ELSE RoundedHalfUp(s("price") * 50 + s("area") * 25 + s("bedrooms") * 25,
                            w("price") + w("area") + w("bedrooms"))
  BY DEF WeightedScore
<1> HIDE DEF w, s
<1> QED
  BY <1>3, <1>4, <1>5, <1>6, <1>7, <1>9, <1>10

LEMMA ScoresHold == ScoresAgree
<1>1. /\ Prices \in SUBSET Nat /\ Areas \in SUBSET Nat /\ Bedrooms \in SUBSET Nat
      /\ PriceMultiplier \in Nat /\ AreaMultiplier \in Nat
  BY MeasureAssumption DEF PriceMultiplier, AreaMultiplier
<1>2. \A r \in Ranges(Prices), v \in Prices :
        RangeScore(v, r, PriceMultiplier) = ScoredRange(v, r, PriceMultiplier)
  BY <1>1, RangeScoreIs, ScoredRangeIs
<1>3. \A r \in Ranges(Areas), v \in Areas \cup {None} :
        RangeScore(v, r, AreaMultiplier) = ScoredRange(v, r, AreaMultiplier)
  BY <1>1, RangeScoreIs, ScoredRangeIs
<1>4. \A r \in Ranges(Bedrooms), v \in Bedrooms \cup {None} :
        ScoreBedrooms(v, r) = ScoredBedrooms(v, r)
  BY <1>1, BedroomScoresAgree
<1>5. \A scores \in [Criteria -> Scores] :
        ScoreUnitCompatibility(scores) = WeightedScore(scores)
  <2>1. ASSUME NEW scores \in [Criteria -> Scores]
        PROVE  scores \in [Criteria -> Nat \cup {None}]
    BY DEF Scores
  <2> QED
    BY <2>1, WeightedScoresAgree
<1> QED
  BY <1>2, <1>3, <1>4, <1>5 DEF ScoresAgree

-----------------------------------------------------------------------------
(* Ranks.                                                                   *)

LEMMA RoundBound ==
  ASSUME NEW d \in Nat \ {0}, NEW n \in Int
  PROVE  /\ RoundedHalfUp(n, d) \in Int
         /\ n <= 100 * d => RoundedHalfUp(n, d) <= 100
         /\ n = 100 * d => RoundedHalfUp(n, d) = 100
<1> DEFINE e == 2 * d
           m == 2 * n + d
           q == m \div e
<1>1. e \in Nat \ {0} /\ m \in Int
  OBVIOUS
<1>2. RoundedHalfUp(n, d) = q
  BY DEF RoundedHalfUp
<1>3. q \in Int /\ e * q <= m /\ m < e * q + e
  <2> HIDE DEF e, m
  <2> QED
    BY <1>1
<1>4. ASSUME n <= 100 * d PROVE q <= 100
  <2>1. m < 101 * e
    BY <1>4
  <2>2. \A i \in Int : i >= 101 => e * i >= 101 * e
    <3> HIDE DEF e
    <3>1. \A i, j \in Int : i >= 0 /\ j >= 0 => i * j >= 0
      OBVIOUS
    <3>2. \A i \in Int : e * i = e * (i - 101) + 101 * e
      BY <1>1
    <3>3. \A i \in Int : i >= 101 => e * (i - 101) >= 0
      BY <1>1, <3>1
    <3>4. \A i \in Int : e * (i - 101) \in Int /\ 101 * e \in Int /\ i - 101 \in Int
      BY <1>1
    <3> QED
      BY <3>2, <3>3, <3>4
  <2> HIDE DEF q, e, m
  <2> QED
    BY <1>1, <1>3, <2>1, <2>2
<1>5. ASSUME n = 100 * d PROVE q >= 100
  <2>1. m >= 100 * e
    BY <1>5
  <2>2. \A i \in Int : i <= 99 => e * i + e <= 100 * e
    <3> HIDE DEF e
    <3>1. \A i, j \in Int : i >= 0 /\ j >= 0 => i * j >= 0
      OBVIOUS
    <3>2. \A i \in Int : e * i + e = 100 * e - e * (99 - i)
      BY <1>1
    <3>3. \A i \in Int : i <= 99 => e * (99 - i) >= 0
      BY <1>1, <3>1
    <3>4. \A i \in Int : e * (99 - i) \in Int /\ 100 * e \in Int
      BY <1>1
    <3> QED
      BY <3>2, <3>3, <3>4
  <2> HIDE DEF q, e, m
  <2> QED
    BY <1>1, <1>3, <2>1, <2>2
<1> HIDE DEF q
<1>6. n = 100 * d => n <= 100 * d
  OBVIOUS
<1> QED
  BY <1>2, <1>3, <1>4, <1>5, <1>6

LEMMA ShortBound ==
  ASSUME NEW bound \in Nat, NEW distance \in Nat, NEW m \in Nat
  PROVE  Short(bound, distance, m) \in Int /\ Short(bound, distance, m) <= 100
<1>1. CASE bound = 0
  BY <1>1 DEF Short
<1>2. CASE bound # 0
  <2> DEFINE n == 100 * bound - distance * m
  <2>1. distance * m \in Nat
    OBVIOUS
  <2>2. n \in Int /\ n <= 100 * bound
    BY <2>1
  <2> HIDE DEF n
  <2>3. RoundedHalfUp(n, bound) \in Int /\ RoundedHalfUp(n, bound) <= 100
    BY <1>2, <2>2, RoundBound
  <2>4. Short(bound, distance, m) = AtLeast0(RoundedHalfUp(n, bound))
    BY <1>2 DEF Short, n
  <2> QED
    BY <2>3, <2>4 DEF AtLeast0
<1> QED
  BY <1>1, <1>2

\* What the query finds of a criterion: its score says what its match does.
OutcomeRight(o) ==
  /\ o.match \in {None, TRUE, FALSE}
  /\ o.match = None => o.score = None
  /\ o.match = TRUE => o.score = 100
  /\ o.match = FALSE => o.score \in Int /\ o.score <= 100

LEMMA RangeOutcome ==
  ASSUME NEW V \in SUBSET Nat, NEW r \in Ranges(V), NEW v \in V, NEW m \in Nat
  PROVE  OutcomeRight([match |-> InRange(v, r), score |-> ScoredRange(v, r, m)])
<1>1. v # None
  BY NoneIsApart
<1>2. CASE ~Stated(r)
  <2>1. InRange(v, r) = None
    BY <1>2, UnknownRange
  <2>2. ScoredRange(v, r, m) = None
    BY <1>2, ScoredRangeIs
  <2> QED
    BY <2>1, <2>2, NoneIsApart DEF OutcomeRight
<1>3. CASE Stated(r)
  <2>1. InRange(v, r) = (~TooLow(v, r) /\ ~TooHigh(v, r))
    BY <1>3, KnownRange
  <2>2. /\ v \in Nat
        /\ TooLow(v, r) => r.min \in Nat /\ v < r.min
        /\ TooHigh(v, r) => r.max \in Nat /\ v > r.max
    BY <1>3, BoundsType
  <2>3. CASE TooLow(v, r)
    <3>1. InRange(v, r) = FALSE
      BY <2>1, <2>3
    <3>2. ScoredRange(v, r, m) = Short(r.min, r.min - v, m)
      BY <1>1, <1>3, <2>3, ScoredRangeIs
    <3>3. r.min \in Nat /\ r.min - v \in Nat
      BY <2>2, <2>3
    <3>4. Short(r.min, r.min - v, m) \in Int /\ Short(r.min, r.min - v, m) <= 100
      BY <3>3, ShortBound
    <3> QED
      BY <3>1, <3>2, <3>4, NoneIsApart DEF OutcomeRight
  <2>4. CASE ~TooLow(v, r) /\ TooHigh(v, r)
    <3>1. InRange(v, r) = FALSE
      BY <2>1, <2>4
    <3>2. ScoredRange(v, r, m) = Short(r.max, v - r.max, m)
      BY <1>1, <1>3, <2>4, ScoredRangeIs
    <3>3. r.max \in Nat /\ v - r.max \in Nat
      BY <2>2, <2>4
    <3>4. Short(r.max, v - r.max, m) \in Int /\ Short(r.max, v - r.max, m) <= 100
      BY <3>3, ShortBound
    <3> QED
      BY <3>1, <3>2, <3>4, NoneIsApart DEF OutcomeRight
  <2>5. CASE ~TooLow(v, r) /\ ~TooHigh(v, r)
    <3>1. InRange(v, r) = TRUE
      BY <2>1, <2>5
    <3>2. ScoredRange(v, r, m) = 100
      BY <1>1, <1>3, <2>5, ScoredRangeIs
    <3> QED
      BY <3>1, <3>2, NoneIsApart DEF OutcomeRight
  <2> QED
    BY <2>3, <2>4, <2>5
<1> QED
  BY <1>2, <1>3

LEMMA BedroomOutcome ==
  ASSUME NEW V \in SUBSET Nat, NEW r \in Ranges(V), NEW v \in V
  PROVE  OutcomeRight([match |-> InRange(v, r), score |-> ScoredBedrooms(v, r)])
<1>1. v # None
  BY NoneIsApart
<1>2. CASE ~Stated(r)
  <2>1. InRange(v, r) = None
    BY <1>2, UnknownRange
  <2>2. ScoredBedrooms(v, r) = None
    BY <1>2, ScoredBedroomsIs
  <2> QED
    BY <2>1, <2>2, NoneIsApart DEF OutcomeRight
<1>3. CASE Stated(r)
  <2>1. InRange(v, r) = (~TooLow(v, r) /\ ~TooHigh(v, r))
    BY <1>3, KnownRange
  <2>2. /\ v \in Nat
        /\ TooLow(v, r) => r.min \in Nat /\ v < r.min
        /\ TooHigh(v, r) => r.max \in Nat /\ v > r.max
    BY <1>3, BoundsType
  <2>3. \A i \in Nat : LET s == AtLeast0(100 - BedroomPoints * i) IN s \in Int /\ s <= 100
    BY DEF AtLeast0, BedroomPoints
  <2>4. CASE TooLow(v, r)
    <3>1. InRange(v, r) = FALSE
      BY <2>1, <2>4
    <3>2. ScoredBedrooms(v, r) = AtLeast0(100 - BedroomPoints * (r.min - v))
      BY <1>1, <1>3, <2>4, ScoredBedroomsIs
    <3>3. r.min - v \in Nat
      BY <2>2, <2>4
    <3>4. ScoredBedrooms(v, r) \in Int /\ ScoredBedrooms(v, r) <= 100
      BY <2>3, <3>2, <3>3
    <3> QED
      BY <3>1, <3>4, NoneIsApart DEF OutcomeRight
  <2>5. CASE ~TooLow(v, r) /\ TooHigh(v, r)
    <3>1. InRange(v, r) = FALSE
      BY <2>1, <2>5
    <3>2. ScoredBedrooms(v, r) = AtLeast0(100 - BedroomPoints * (v - r.max))
      BY <1>1, <1>3, <2>5, ScoredBedroomsIs
    <3>3. v - r.max \in Nat
      BY <2>2, <2>5
    <3>4. ScoredBedrooms(v, r) \in Int /\ ScoredBedrooms(v, r) <= 100
      BY <2>3, <3>2, <3>3
    <3> QED
      BY <3>1, <3>4, NoneIsApart DEF OutcomeRight
  <2>6. CASE ~TooLow(v, r) /\ ~TooHigh(v, r)
    <3>1. InRange(v, r) = TRUE
      BY <2>1, <2>6
    <3>2. ScoredBedrooms(v, r) = 100
      BY <1>1, <1>3, <2>6, ScoredBedroomsIs
    <3> QED
      BY <3>1, <3>2, NoneIsApart DEF OutcomeRight
  <2> QED
    BY <2>4, <2>5, <2>6
<1> QED
  BY <1>2, <1>3

LEMMA OutcomesRight ==
  ASSUME NEW o \in Outcomes
  PROVE  /\ OutcomeRight(o["price"])
         /\ OutcomeRight(o["area"])
         /\ OutcomeRight(o["bedrooms"])
         /\ o["price"].deviation \in Nat
<1>1. /\ Prices \in SUBSET Nat /\ Areas \in SUBSET Nat /\ Bedrooms \in SUBSET Nat
      /\ PriceMultiplier \in Nat /\ AreaMultiplier \in Nat
  BY MeasureAssumption DEF PriceMultiplier, AreaMultiplier
<1>2. /\ o["price"] \in PriceOutcomes
      /\ o["area"] \in AreaOutcomes
      /\ o["bedrooms"] \in BedroomOutcomes
  BY DEF Outcomes
<1>3. OutcomeRight(o["price"]) /\ o["price"].deviation \in Nat
  <2>1. PICK v \in Prices, r \in Ranges(Prices) :
          o["price"] = [match |-> InRange(v, r), score |-> ScoredRange(v, r, PriceMultiplier),
                        deviation |-> Deviation(v, r)]
    BY <1>2 DEF PriceOutcomes
  <2>2. OutcomeRight([match |-> InRange(v, r), score |-> ScoredRange(v, r, PriceMultiplier)])
    BY <1>1, RangeOutcome
  <2>3. Deviation(v, r) \in Nat
    <3>1. r.min \in Prices \cup {None} /\ r.max \in Prices \cup {None} /\ v \in Nat
      BY <1>1 DEF Ranges
    <3>2. r.min # None => r.min \in Nat
      BY <1>1, <3>1
    <3>3. r.max # None => r.max \in Nat
      BY <1>1, <3>1
    <3>4. r.min # None /\ r.max # None => r.min <= r.max
      BY DEF Ranges
    <3> QED
      BY <3>1, <3>2, <3>3, <3>4 DEF Deviation
  <2> QED
    <3>1. /\ o["price"].match = InRange(v, r)
          /\ o["price"].score = ScoredRange(v, r, PriceMultiplier)
          /\ o["price"].deviation = Deviation(v, r)
      BY <2>1
    <3>2. /\ [match |-> InRange(v, r), score |-> ScoredRange(v, r, PriceMultiplier)].match
               = InRange(v, r)
          /\ [match |-> InRange(v, r), score |-> ScoredRange(v, r, PriceMultiplier)].score
               = ScoredRange(v, r, PriceMultiplier)
      OBVIOUS
    <3> HIDE <2>1
    <3> QED
      BY <2>2, <2>3, <3>1, <3>2 DEF OutcomeRight
<1>4. OutcomeRight(o["area"])
  <2>1. PICK v \in Areas, r \in Ranges(Areas) :
          o["area"] = [match |-> InRange(v, r), score |-> ScoredRange(v, r, AreaMultiplier)]
    BY <1>2 DEF AreaOutcomes
  <2>2. OutcomeRight([match |-> InRange(v, r), score |-> ScoredRange(v, r, AreaMultiplier)])
    BY <1>1, RangeOutcome
  <2> QED
    BY <2>1, <2>2
<1>5. OutcomeRight(o["bedrooms"])
  <2>1. PICK v \in Bedrooms, r \in Ranges(Bedrooms) :
          o["bedrooms"] = [match |-> InRange(v, r), score |-> ScoredBedrooms(v, r)]
    BY <1>2 DEF BedroomOutcomes
  <2>2. OutcomeRight([match |-> InRange(v, r), score |-> ScoredBedrooms(v, r)])
    BY <1>1, BedroomOutcome
  <2> QED
    BY <2>1, <2>2
<1> QED
  BY <1>3, <1>4, <1>5

\* The average of scores up to 100 is up to 100, and 100 if they all are.
LEMMA Averages ==
  ASSUME NEW scores,
         \A c \in Criteria : scores[c] # None => scores[c] \in Int /\ scores[c] <= 100,
         \E c \in Criteria : scores[c] # None
  PROVE  /\ WeightedScore(scores) # None
         /\ WeightedScore(scores) \in Int
         /\ WeightedScore(scores) <= 100
         /\ (\A c \in Criteria : scores[c] # None => scores[c] = 100)
              => WeightedScore(scores) = 100
<1> DEFINE w(c) == IF scores[c] = None THEN 0 ELSE CriterionWeight[c]
           s(c) == IF scores[c] = None THEN 0 ELSE scores[c]
           W == w("price") + w("area") + w("bedrooms")
           P == s("price") * 50 + s("area") * 25 + s("bedrooms") * 25
<1>1. /\ \/ w("price") = 0 /\ s("price") = 0
         \/ /\ w("price") = 50 /\ scores["price"] # None
            /\ s("price") = scores["price"] /\ s("price") \in Int /\ s("price") <= 100
      /\ \/ w("area") = 0 /\ s("area") = 0
         \/ /\ w("area") = 25 /\ scores["area"] # None
            /\ s("area") = scores["area"] /\ s("area") \in Int /\ s("area") <= 100
      /\ \/ w("bedrooms") = 0 /\ s("bedrooms") = 0
         \/ /\ w("bedrooms") = 25 /\ scores["bedrooms"] # None
            /\ s("bedrooms") = scores["bedrooms"] /\ s("bedrooms") \in Int /\ s("bedrooms") <= 100
  BY Weights DEF Criteria
<1>2. w("price") # 0 \/ w("area") # 0 \/ w("bedrooms") # 0
  BY Weights DEF Criteria
<1>3. WeightedScore(scores) = IF W = 0 THEN None ELSE RoundedHalfUp(P, W)
  BY DEF WeightedScore
<1>4. ASSUME \A c \in Criteria : scores[c] # None => scores[c] = 100
      PROVE  /\ (w("price") = 0 /\ s("price") = 0) \/ (w("price") = 50 /\ s("price") = 100)
             /\ (w("area") = 0 /\ s("area") = 0) \/ (w("area") = 25 /\ s("area") = 100)
             /\ (w("bedrooms") = 0 /\ s("bedrooms") = 0) \/ (w("bedrooms") = 25 /\ s("bedrooms") = 100)
  BY <1>1, <1>4 DEF Criteria
<1> HIDE DEF w, s
<1>5. W \in Nat \ {0} /\ P \in Int /\ P <= 100 * W
  BY <1>1, <1>2
<1>9. W \in Nat \ {0}
  BY <1>5
<1>10. P \in Int
  BY <1>5
<1>6. (\A c \in Criteria : scores[c] # None => scores[c] = 100) => P = 100 * W
  BY <1>4
<1> HIDE DEF W, P
<1>7. /\ RoundedHalfUp(P, W) \in Int
      /\ RoundedHalfUp(P, W) <= 100
      /\ P = 100 * W => RoundedHalfUp(P, W) = 100
  <2>1. \A d \in Nat \ {0}, n \in Int :
          /\ RoundedHalfUp(n, d) \in Int
          /\ n <= 100 * d => RoundedHalfUp(n, d) <= 100
          /\ n = 100 * d => RoundedHalfUp(n, d) = 100
    BY RoundBound
  <2>2. PICK d \in Nat \ {0} : d = W
    BY <1>9
  <2>3. PICK n \in Int : n = P
    BY <1>10
  <2>4. n <= 100 * d
    BY <1>5, <2>2, <2>3
  <2>5. /\ RoundedHalfUp(n, d) \in Int
        /\ RoundedHalfUp(n, d) <= 100
        /\ n = 100 * d => RoundedHalfUp(n, d) = 100
    BY <2>1, <2>2, <2>3, <2>4
  <2> QED
    BY <2>2, <2>3, <2>5
<1>8. WeightedScore(scores) = RoundedHalfUp(P, W)
  BY <1>3, <1>9
<1> HIDE <1>3
<1>11. WeightedScore(scores) \in Int /\ WeightedScore(scores) <= 100
  BY <1>5, <1>7, <1>8
<1>12. WeightedScore(scores) # None
  BY <1>11, NoneIsApart
<1>13. ASSUME \A c \in Criteria : scores[c] # None => scores[c] = 100
       PROVE  WeightedScore(scores) = 100
  BY <1>6, <1>7, <1>8, <1>13
<1> QED
  BY <1>11, <1>12, <1>13

ScoresOf(o) == [c \in Criteria |-> o[c].score]
MatchCount(o, match) == Cardinality({c \in Criteria : o[c].match = match})

LEMMA RankingKeyOf ==
  ASSUME NEW o, NEW score, WeightedScore(ScoresOf(o)) = score, score # None
  PROVE  RankingKey(o) =
           <<-score, IF o["price"].match = FALSE THEN 1 ELSE 0,
             -MatchCount(o, TRUE), MatchCount(o, FALSE), o["price"].deviation>>
BY DEF RankingKey, ScoresOf, MatchCount

LEMMA PrecedesBy ==
  ASSUME NEW a1 \in Int, NEW a2 \in Int, NEW a3 \in Int, NEW a4, NEW a5,
         NEW b1 \in Int, NEW b2 \in Int, NEW b3 \in Int, NEW b4, NEW b5,
         \/ a1 < b1
         \/ a1 = b1 /\ a2 < b2
         \/ a1 = b1 /\ a2 = b2 /\ a3 < b3
  PROVE  Precedes(<<a1, a2, a3, a4, a5>>, <<b1, b2, b3, b4, b5>>)
<1> DEFINE k == <<a1, a2, a3, a4, a5>>
           l == <<b1, b2, b3, b4, b5>>
<1>1. /\ k[1] = a1 /\ k[2] = a2 /\ k[3] = a3
      /\ l[1] = b1 /\ l[2] = b2 /\ l[3] = b3
      /\ DOMAIN k = 1..5
  OBVIOUS
<1> HIDE DEF k, l
<1>2. 1..(1 - 1) = {} /\ 1..(2 - 1) = {1} /\ 1..(3 - 1) = {1, 2}
  OBVIOUS
<1>3. CASE a1 < b1
  <2>1. k[1] < l[1] /\ \A j \in 1..(1 - 1) : k[j] = l[j]
    BY <1>1, <1>2, <1>3
  <2> QED
    BY <1>1, <2>1 DEF Precedes, k, l
<1>4. CASE a1 = b1 /\ a2 < b2
  <2>1. k[2] < l[2] /\ \A j \in 1..(2 - 1) : k[j] = l[j]
    BY <1>1, <1>2, <1>4
  <2> QED
    BY <1>1, <2>1 DEF Precedes, k, l
<1>5. CASE a1 = b1 /\ a2 = b2 /\ a3 < b3
  <2>1. k[3] < l[3] /\ \A j \in 1..(3 - 1) : k[j] = l[j]
    BY <1>1, <1>2, <1>5
  <2> QED
    BY <1>1, <2>1 DEF Precedes, k, l
<1> QED
  BY <1>3, <1>4, <1>5

\* The unit that meets what another misses, as FitFirst compares them.
MetBy(o) == IF o.match = FALSE THEN [o EXCEPT !.match = TRUE, !.score = 100] ELSE o

Fit(missing) ==
  [price    |-> [MetBy(missing.price) EXCEPT !.deviation = 0],
   area     |-> MetBy(missing.area),
   bedrooms |-> MetBy(missing.bedrooms)]

LEMMA MetIs ==
  ASSUME NEW o, o = [match |-> o.match, score |-> o.score]
                  \/ o = [match |-> o.match, score |-> o.score, deviation |-> o.deviation]
  PROVE  /\ MetBy(o).match = (IF o.match = FALSE THEN TRUE ELSE o.match)
         /\ MetBy(o).score = (IF o.match = FALSE THEN 100 ELSE o.score)
         /\ o = [match |-> o.match, score |-> o.score, deviation |-> o.deviation]
              => MetBy(o) = [match |-> MetBy(o).match, score |-> MetBy(o).score,
                             deviation |-> o.deviation]
<1>1. CASE o.match = FALSE
  BY <1>1 DEF MetBy
<1>2. CASE o.match # FALSE
  BY <1>2 DEF MetBy
<1> QED
  BY <1>1, <1>2

LEMMA FitIs ==
  ASSUME NEW o \in Outcomes, NEW c \in Criteria
  PROVE  /\ Fit(o)[c].match = (IF o[c].match = FALSE THEN TRUE ELSE o[c].match)
         /\ Fit(o)[c].score = (IF o[c].match = FALSE THEN 100 ELSE o[c].score)
<1>1. /\ o["price"] \in PriceOutcomes
      /\ o["area"] \in AreaOutcomes
      /\ o["bedrooms"] \in BedroomOutcomes
  BY DEF Outcomes
<1>2. o["price"] = [match |-> o["price"].match, score |-> o["price"].score,
                    deviation |-> o["price"].deviation]
  BY <1>1 DEF PriceOutcomes
<1>3. o["area"] = [match |-> o["area"].match, score |-> o["area"].score]
  BY <1>1 DEF AreaOutcomes
<1>4. o["bedrooms"] = [match |-> o["bedrooms"].match, score |-> o["bedrooms"].score]
  BY <1>1 DEF BedroomOutcomes
<1>5. CASE c = "price"
  <2> DEFINE p == o["price"]
  <2>1. /\ MetBy(p).match = (IF p.match = FALSE THEN TRUE ELSE p.match)
        /\ MetBy(p).score = (IF p.match = FALSE THEN 100 ELSE p.score)
        /\ MetBy(p) = [match |-> MetBy(p).match, score |-> MetBy(p).score,
                       deviation |-> p.deviation]
    BY <1>2, MetIs
  <2>2. Fit(o)["price"] = [MetBy(p) EXCEPT !.deviation = 0]
    BY DEF Fit
  <2> HIDE DEF p
  <2>3. Fit(o)["price"].match = MetBy(p).match /\ Fit(o)["price"].score = MetBy(p).score
    BY <2>1, <2>2
  <2> QED
    BY <1>5, <2>1, <2>3 DEF p
<1>6. CASE c = "area"
  <2>1. Fit(o)["area"] = MetBy(o["area"])
    BY DEF Fit
  <2> QED
    BY <1>3, <1>6, <2>1, MetIs
<1>7. CASE c = "bedrooms"
  <2>1. Fit(o)["bedrooms"] = MetBy(o["bedrooms"])
    BY DEF Fit
  <2> QED
    BY <1>4, <1>7, <2>1, MetIs
<1> QED
  BY <1>5, <1>6, <1>7 DEF Criteria

LEMMA RightScore ==
  ASSUME NEW o, OutcomeRight(o)
  PROVE  /\ o.score # None => o.score \in Int /\ o.score <= 100
         /\ o.match = FALSE => o.score # None
         /\ o.match # FALSE /\ o.score # None => o.score = 100
<1>1. 100 \in Int /\ 100 <= 100
  OBVIOUS
<1>2. CASE o.match = None
  <2>1. o.score = None
    BY <1>2, Zenon DEF OutcomeRight
  <2> QED
    BY <1>2, <2>1, NoneIsApart, Zenon
<1>3. CASE o.match = TRUE
  <2>1. o.score = 100
    BY <1>3, Zenon DEF OutcomeRight
  <2> QED
    BY <1>1, <1>3, <2>1, Zenon
<1>4. CASE o.match = FALSE
  <2>1. o.score \in Int /\ o.score <= 100
    BY <1>4, Zenon DEF OutcomeRight
  <2> QED
    BY <1>4, <2>1, NoneIsApart, Zenon
<1> QED
  BY <1>2, <1>3, <1>4, Zenon DEF OutcomeRight

LEMMA FitPrecedes ==
  ASSUME NEW o \in Outcomes, \E c \in Criteria : o[c].match = FALSE
  PROVE  Precedes(RankingKey(Fit(o)), RankingKey(o))
<1> DEFINE f == Fit(o)
           F == WeightedScore(ScoresOf(f))
           S == WeightedScore(ScoresOf(o))
<1>1. PICK m \in Criteria : o[m].match = FALSE
  OBVIOUS
<1>2. \A c \in Criteria : OutcomeRight(o[c])
  BY OutcomesRight DEF Criteria
<1>3. \A c \in Criteria :
        /\ f[c].match = (IF o[c].match = FALSE THEN TRUE ELSE o[c].match)
        /\ f[c].score = (IF o[c].match = FALSE THEN 100 ELSE o[c].score)
  BY FitIs
<1> HIDE DEF f
<1>4. \A c \in Criteria : ScoresOf(o)[c] = o[c].score /\ ScoresOf(f)[c] = f[c].score
  BY DEF ScoresOf
<1>5. S # None /\ S \in Int /\ S <= 100
  <2>1. \A c \in Criteria : o[c].score # None => o[c].score \in Int /\ o[c].score <= 100
    BY <1>2, RightScore, Zenon
  <2>2. o[m].score # None
    BY <1>1, <1>2, RightScore, Zenon
  <2>3. \A c \in Criteria :
          ScoresOf(o)[c] # None => ScoresOf(o)[c] \in Int /\ ScoresOf(o)[c] <= 100
    BY <1>4, <2>1
  <2>4. \E c \in Criteria : ScoresOf(o)[c] # None
    BY <1>4, <2>2
  <2> QED
    BY <2>3, <2>4, Averages
<1>6. F = 100 /\ F # None
  <2>1. \A c \in Criteria : f[c].score # None => f[c].score = 100
    <3>1. ASSUME NEW c \in Criteria, f[c].score # None PROVE f[c].score = 100
      <4>1. CASE o[c].match = FALSE
        BY <1>3, <4>1
      <4>2. CASE o[c].match # FALSE
        <5>1. f[c].score = o[c].score
          BY <1>3, <4>2
        <5> QED
          BY <1>2, <3>1, <4>2, <5>1, RightScore
      <4> QED
        BY <4>1, <4>2
    <3> QED
      BY <3>1
  <2>2. f[m].score = 100
    BY <1>1, <1>3
  <2>3. \A c \in Criteria :
          ScoresOf(f)[c] # None => ScoresOf(f)[c] = 100
    BY <1>4, <2>1
  <2>4. \A c \in Criteria :
          ScoresOf(f)[c] # None => ScoresOf(f)[c] \in Int /\ ScoresOf(f)[c] <= 100
    BY <2>3
  <2>5. \E c \in Criteria : ScoresOf(f)[c] # None
    BY <1>4, <2>2, NoneIsApart
  <2>6. F = 100
    BY <2>3, <2>4, <2>5, Averages
  <2> QED
    BY <2>6, NoneIsApart
<1>7. /\ MatchCount(f, TRUE) \in Nat /\ MatchCount(o, TRUE) \in Nat
      /\ MatchCount(o, TRUE) < MatchCount(f, TRUE)
  <2> DEFINE A == {c \in Criteria : o[c].match = TRUE}
             B == {c \in Criteria : f[c].match = TRUE}
  <2>1. A \subseteq B /\ m \in B /\ m \notin A
    BY <1>1, <1>3
  <2>2. IsFiniteSet(B) /\ IsFiniteSet(A)
    BY CriteriaFinite, FS_Subset
  <2>3. A # B
    BY <2>1
  <2> HIDE DEF A, B
  <2>4. Cardinality(A) \in Nat /\ Cardinality(B) \in Nat
    BY <2>2, FS_CardinalityType
  <2>5. Cardinality(A) <= Cardinality(B) /\ Cardinality(A) # Cardinality(B)
    BY <2>1, <2>2, <2>3, FS_Subset
  <2> QED
    BY <2>4, <2>5 DEF A, B, MatchCount
<1> DEFINE p == IF f["price"].match = FALSE THEN 1 ELSE 0
           q == IF o["price"].match = FALSE THEN 1 ELSE 0
           x == MatchCount(f, TRUE)
           y == MatchCount(o, TRUE)
<1>8. RankingKey(f) = <<-F, p, -x, MatchCount(f, FALSE), f["price"].deviation>>
  BY <1>6, RankingKeyOf
<1>9. RankingKey(o) = <<-S, q, -y, MatchCount(o, FALSE), o["price"].deviation>>
  BY <1>5, RankingKeyOf
<1>10. f["price"].match # FALSE
  BY <1>3 DEF Criteria
<1>11. p = 0 /\ (q = 0 \/ q = 1)
  BY <1>10
<1>12. x \in Nat /\ y \in Nat /\ y < x
  BY <1>7
<1> HIDE DEF F, S, p, q, x, y
<1>13. \/ -F < -S
       \/ -F = -S /\ p < q
       \/ -F = -S /\ p = q /\ -x < -y
  BY <1>5, <1>6, <1>11, <1>12
<1>14. /\ -F \in Int /\ -S \in Int /\ p \in Int /\ q \in Int
       /\ -x \in Int /\ -y \in Int
  BY <1>5, <1>6, <1>11, <1>12
<1>15. Precedes(<<-F, p, -x, MatchCount(f, FALSE), f["price"].deviation>>,
                <<-S, q, -y, MatchCount(o, FALSE), o["price"].deviation>>)
  BY <1>13, <1>14, PrecedesBy
<1> QED
  BY <1>8, <1>9, <1>15 DEF f

\* FitFirst, whatever the prices, areas and bedrooms (the ORDER BY of
\* unit-matching.service.ts).
LEMMA FitHolds == FitFirst
BY FitPrecedes DEF FitFirst, Fit, MetBy

-----------------------------------------------------------------------------
(* The order of the timeline, and the page it gives.                        *)

\* The place of an identity in Order.
Place(i) == CHOOSE n \in 1..Len(Order) : Order[n] = i

LEMMA OrderPlaces ==
  /\ Len(Order) \in Nat
  /\ \A i \in Ids : Place(i) \in 1..Len(Order) /\ Order[Place(i)] = i
  /\ \A m, n \in 1..Len(Order) : Order[m] = Order[n] => m = n
<1>1. /\ Order \in Seq(Ids)
      /\ Range(Order) = Ids
      /\ \A m, n \in DOMAIN Order : Order[m] = Order[n] => m = n
  BY OrderAssumption DEF IsInjective
<1>2. Len(Order) \in Nat /\ DOMAIN Order = 1..Len(Order)
  BY <1>1
<1>3. \A i \in Ids : \E n \in 1..Len(Order) : Order[n] = i
  BY <1>1, <1>2 DEF Range
<1>4. \A i \in Ids : Place(i) \in 1..Len(Order) /\ Order[Place(i)] = i
  BY <1>3 DEF Place
<1> QED
  BY <1>1, <1>2, <1>4

LEMMA IdBeforeIs ==
  ASSUME NEW i \in Ids, NEW j \in Ids
  PROVE  IdBefore(i, j) <=> Place(i) < Place(j)
BY OrderPlaces DEF IdBefore

LEMMA PlacesDiffer ==
  ASSUME NEW i \in Ids, NEW j \in Ids, Place(i) = Place(j)
  PROVE  i = j
BY OrderPlaces

\* Before is a strict total order.
LEMMA BeforeOrders ==
  /\ \A k \in Key : ~Before(k, k)
  /\ \A k, l \in Key : Before(k, l) \/ Before(l, k) \/ k = l
  /\ \A k, l \in Key : Before(k, l) => ~Before(l, k)
  /\ \A k, l, m \in Key : Before(k, l) /\ Before(l, m) => Before(k, m)
<1>1. \A k \in Key : k.at \in Int /\ k.id \in Ids
  BY TimeAssumption DEF Key, Times
<1>2. \A i \in Ids : Place(i) \in Int
  BY OrderPlaces
<1>3. \A k, l \in Key :
        Before(k, l) <=> k.at > l.at \/ (k.at = l.at /\ Place(k.id) < Place(l.id))
  BY <1>1, IdBeforeIs DEF Before
<1>4. \A k, l \in Key : k.at = l.at /\ Place(k.id) = Place(l.id) => k = l
  BY <1>1, PlacesDiffer DEF Key
<1> QED
  BY <1>1, <1>2, <1>3, <1>4

LEMMA KeysFinite == IsFiniteSet(Key)
<1>1. IsFiniteSet(Times)
  BY TimeAssumption, FS_Interval DEF Times
<1>2. IsFiniteSet(Ids)
  <2> DEFINE n == Len(Order)
  <2>1. n \in Nat /\ Order \in [1..n -> Ids]
    BY OrderAssumption
  <2>2. \A i \in Ids : \E m \in 1..n : Order[m] = i
    BY OrderPlaces
  <2>3. IsFiniteSet(1..n)
    BY <2>1, FS_Interval
  <2> HIDE DEF n
  <2>4. Order \in Surjection(1..n, Ids)
    BY <2>1, <2>2 DEF Surjection
  <2> QED
    BY <2>3, <2>4, FS_Surjection
<1>3. IsFiniteSet(Ids \X Times)
  BY <1>1, <1>2, FS_Product
<1> DEFINE f == [p \in Ids \X Times |-> [id |-> p[1], at |-> p[2]]]
<1>4. f \in Surjection(Ids \X Times, Key)
  <2>1. f \in [Ids \X Times -> Key]
    BY DEF Key
  <2>2. \A k \in Key : <<k.id, k.at>> \in Ids \X Times /\ f[<<k.id, k.at>>] = k
    BY DEF Key
  <2> HIDE DEF f
  <2> QED
    BY <2>1, <2>2 DEF Surjection
<1> HIDE DEF f
<1> QED
  BY <1>3, <1>4, FS_Surjection

\* Sorted gives each member of a set of keys once, in their order.
LEMMA SortedRight ==
  ASSUME NEW S \in SUBSET Key
  PROVE  /\ Cardinality(S) \in Nat
         /\ S = {} <=> Cardinality(S) = 0
         /\ Sorted(S) \in [1..Cardinality(S) -> S]
         /\ \A k \in S : \E i \in 1..Cardinality(S) : Sorted(S)[i] = k
         /\ \A i, j \in 1..Cardinality(S) : i < j <=> Before(Sorted(S)[i], Sorted(S)[j])
<1> DEFINE n == Cardinality(S)
           Ahead(k) == {l \in S : Before(l, k)}
           rank == [k \in S |-> Cardinality(Ahead(k))]
           chosen == [i \in 1..n |-> CHOOSE k \in S : Cardinality(Ahead(k)) = i - 1]
<1>1. IsFiniteSet(S) /\ n \in Nat
  BY KeysFinite, FS_Subset, FS_CardinalityType
<1>2. S = {} <=> n = 0
  BY <1>1, FS_EmptySet
<1>3. \A k \in S : Ahead(k) \in SUBSET S /\ k \notin Ahead(k)
  BY BeforeOrders
<1>4. \A k \in S : IsFiniteSet(Ahead(k))
  BY <1>1, <1>3, FS_Subset
<1>5. \A k, l \in S : Before(k, l) => Ahead(k) \subseteq Ahead(l) /\ k \in Ahead(l)
  BY BeforeOrders
<1> HIDE DEF Ahead
<1>6. \A k \in S : Cardinality(Ahead(k)) \in 0..(n - 1)
  <2> TAKE k \in S
  <2>1. Ahead(k) \in SUBSET S /\ Ahead(k) # S
    BY <1>3
  <2>2. Cardinality(Ahead(k)) <= n /\ Cardinality(Ahead(k)) # n
    BY <1>1, <2>1, FS_Subset
  <2>3. Cardinality(Ahead(k)) \in Nat
    BY <1>4, FS_CardinalityType
  <2> QED
    BY <1>1, <2>2, <2>3
<1>7. \A k, l \in S : Before(k, l) => Cardinality(Ahead(k)) < Cardinality(Ahead(l))
  <2> TAKE k, l \in S
  <2> HAVE Before(k, l)
  <2>1. Ahead(k) \in SUBSET Ahead(l) /\ Ahead(k) # Ahead(l)
    BY <1>3, <1>5
  <2>2. Cardinality(Ahead(k)) <= Cardinality(Ahead(l)) /\ Cardinality(Ahead(k)) # Cardinality(Ahead(l))
    BY <1>4, <2>1, FS_Subset
  <2> QED
    BY <1>1, <1>6, <2>2
<1>8. \A k, l \in S : Cardinality(Ahead(k)) = Cardinality(Ahead(l)) => k = l
  BY <1>1, <1>6, <1>7, BeforeOrders
<1>9. rank \in Injection(S, 0..(n - 1))
  <2>1. rank \in [S -> 0..(n - 1)]
    BY <1>6
  <2>2. \A k \in S : rank[k] = Cardinality(Ahead(k))
    OBVIOUS
  <2> HIDE DEF rank
  <2>3. \A k, l \in S : rank[k] = rank[l] => k = l
    BY <1>8, <2>2
  <2> QED
    BY <2>1, <2>3 DEF Injection, IsInjective
<1>10. IsFiniteSet(0..(n - 1)) /\ Cardinality(0..(n - 1)) = n
  <2>1. 0 \in Int /\ n - 1 \in Int
    BY <1>1
  <2>2. /\ IsFiniteSet(0..(n - 1))
        /\ Cardinality(0..(n - 1)) = IF 0 > n - 1 THEN 0 ELSE (n - 1) - 0 + 1
    BY <2>1, FS_Interval
  <2> QED
    BY <1>1, <2>2
<1> HIDE DEF rank
<1>11. rank \in Surjection(S, 0..(n - 1))
  BY <1>9, <1>10, FS_Injection
<1>12. \A i \in 1..n : \E k \in S : Cardinality(Ahead(k)) = i - 1
  <2> TAKE i \in 1..n
  <2>1. i - 1 \in 0..(n - 1)
    BY <1>1
  <2> QED
    BY <1>11, <2>1 DEF Surjection, rank
<1>13. \A i \in 1..n : chosen[i] \in S /\ Cardinality(Ahead(chosen[i])) = i - 1
  BY <1>12
<1>14. chosen \in [1..n -> S]
  BY <1>13
<1>15. Sorted(S) = chosen
  BY DEF Sorted, Ahead
<1> HIDE DEF chosen
<1>16. \A k \in S : \E i \in 1..n : chosen[i] = k
  <2> TAKE k \in S
  <2>1. Cardinality(Ahead(k)) + 1 \in 1..n
    BY <1>1, <1>6
  <2>2. Cardinality(Ahead(chosen[Cardinality(Ahead(k)) + 1])) = Cardinality(Ahead(k))
    BY <1>1, <1>6, <1>13, <2>1
  <2> QED
    BY <1>8, <1>13, <2>1, <2>2
<1>17. \A i, j \in 1..n : i < j <=> Before(chosen[i], chosen[j])
  <2> TAKE i, j \in 1..n
  <2>1. /\ chosen[i] \in S /\ Cardinality(Ahead(chosen[i])) = i - 1
        /\ chosen[j] \in S /\ Cardinality(Ahead(chosen[j])) = j - 1
    BY <1>13
  <2>2. Before(chosen[i], chosen[j]) => i - 1 < j - 1
    BY <1>7, <2>1
  <2>3. Before(chosen[j], chosen[i]) => j - 1 < i - 1
    BY <1>7, <2>1
  <2>4. Before(chosen[i], chosen[j]) \/ Before(chosen[j], chosen[i]) \/ chosen[i] = chosen[j]
    BY <2>1, BeforeOrders
  <2>5. chosen[i] = chosen[j] => i - 1 = j - 1
    BY <2>1
  <2> QED
    BY <1>1, <2>2, <2>3, <2>4, <2>5
<1> QED
  BY <1>1, <1>2, <1>14, <1>15, <1>16, <1>17

\* The first of the sorted keys, as many as a page holds.
PageOf(S) == SubSeq(Sorted(S), 1, Min({Limit, Len(Sorted(S))}))

LEMMA NoPage == Sorted({}) = <<>>
<1>1. Cardinality({}) = 0
  BY FS_EmptySet
<1>2. 1..0 = {}
  OBVIOUS
<1> QED
  BY <1>1, <1>2 DEF Sorted

LEMMA PageRight ==
  ASSUME NEW S \in SUBSET Key, S # {}
  PROVE  /\ Sorted(S) # <<>>
         /\ PageOf(S) \in Seq(Key) /\ PageOf(S) # <<>>
         /\ Last(PageOf(S)) \in S
         /\ ToSet(PageOf(S)) \subseteq S
         /\ \A k \in S : k \notin ToSet(PageOf(S))
              <=> Len(Sorted(S)) > Limit /\ Before(Last(PageOf(S)), k)
<1> DEFINE s == Sorted(S)
           n == Cardinality(S)
           m == Min({Limit, n})
           p == PageOf(S)
<1>1. /\ n \in Nat \ {0}
      /\ s \in [1..n -> S]
      /\ \A k \in S : \E i \in 1..n : s[i] = k
      /\ \A i, j \in 1..n : i < j <=> Before(s[i], s[j])
  BY SortedRight
<1> HIDE DEF s, n
<1>2. s \in Seq(S) /\ Len(s) = n /\ s # <<>>
  BY <1>1
<1>3. /\ m \in 1..n
      /\ n > Limit => m = Limit
      /\ ~(n > Limit) => m = n
      /\ m <= Limit
  <2>1. Limit \in Nat \ {0} /\ n \in Nat \ {0}
    BY <1>1, LimitAssumption
  <2>2. \E x \in {Limit, n} : \A y \in {Limit, n} : x <= y
    <3>1. CASE Limit <= n
      BY <2>1, <3>1
    <3>2. CASE n <= Limit
      BY <2>1, <3>2
    <3> QED
      BY <2>1, <3>1, <3>2
  <2>3. m \in {Limit, n} /\ m <= Limit /\ m <= n
    BY <2>2 DEF Min
  <2> HIDE DEF m
  <2> QED
    BY <2>1, <2>3
<1>4. p = SubSeq(s, 1, m)
  BY <1>2 DEF PageOf, s
<1> HIDE DEF p, m
<1>5. /\ p \in Seq(S) /\ Len(p) = m
      /\ \A i \in 1..m : p[i] = s[i]
  BY <1>1, <1>2, <1>3, <1>4
<1>6. p # <<>> /\ p \in Seq(Key)
  BY <1>3, <1>5
<1>7. ToSet(p) = {s[i] : i \in 1..m}
  BY <1>5 DEF ToSet
<1>8. Last(p) = s[m]
  BY <1>3, <1>5 DEF Last
<1>9. \A i \in 1..m : i \in 1..n
  BY <1>1, <1>3
<1>10. ToSet(p) \subseteq S /\ Last(p) \in S
  BY <1>1, <1>3, <1>7, <1>8, <1>9
<1>11. ASSUME NEW k \in S
       PROVE  k \notin ToSet(p) <=> n > Limit /\ Before(Last(p), k)
  <2>1. PICK i \in 1..n : s[i] = k
    BY <1>1
  <2>2. Before(Last(p), k) <=> m < i
    BY <1>1, <1>3, <1>8, <2>1
  <2>3. CASE i <= m
    <3>1. i \in 1..m
      BY <1>1, <1>3, <2>1, <2>3
    <3>2. k \in ToSet(p)
      BY <1>7, <2>1, <3>1
    <3> QED
      BY <1>3, <2>1, <2>2, <2>3, <3>2
  <2>4. CASE i > m
    <3>1. ASSUME NEW j \in 1..m PROVE s[j] # k
      <4>1. j \in 1..n /\ j < i
        BY <1>1, <1>3, <2>1, <2>4
      <4>2. Before(s[j], k)
        BY <1>1, <2>1, <4>1
      <4>3. k \in Key /\ ~Before(k, k)
        BY BeforeOrders
      <4> QED
        BY <4>2, <4>3
    <3>2. k \notin ToSet(p)
      BY <1>7, <3>1
    <3>3. n > Limit
      BY <1>1, <1>3, <2>1, <2>4, LimitAssumption
    <3> QED
      BY <2>2, <2>4, <3>2, <3>3
  <2> QED
    BY <1>1, <1>3, <2>1, <2>3, <2>4
<1> QED
  BY <1>2, <1>6, <1>10, <1>11 DEF s, p

-----------------------------------------------------------------------------
(* The inductive invariant.                                                 *)

\* Two requests edit one row.
EditsClash(x, y) == x.at \in {"activity", "visit"} /\ y.at = x.at /\ x.id = y.id

EditsApart == \A q, r \in Edits : EditsClash(edit[q], edit[r]) => q = r

\* What a request read under its lock is what the row still is.
EditStands(x) ==
  /\ x.at = "activity" => activity[x.id] = x.current
  /\ x.at = "visit" => visit[x.id] = x.current /\ x.current.status = "AGENDADA"

EditsStand == \A r \in Edits : EditStands(edit[r])

RowsRight ==
  /\ \A a \in Activities : activity[a] # Missing => ActivityRight(activity[a])
  /\ \A v \in Visits : visit[v] # Missing => VisitRight(visit[v])

After(cursor, k) == cursor = None \/ Before(cursor, k)

\* Of what did not change, the reader was shown exactly what comes up to the
\* cursor; the page that is read lies between the two.
ReaderRight ==
  /\ reader.at = "ask" => \A k \in stable : k \in shown <=> ~After(reader.after, k)
  /\ reader.at = "rows" =>
       /\ reader.keys # <<>>
       /\ ToSet(reader.keys) \cap shown = {}
       /\ \A k \in stable : k \notin shown /\ k \notin ToSet(reader.keys)
            <=> reader.more = TRUE /\ Before(Last(reader.keys), k)
  /\ reader.at = "done" => shown = stable

FollowUpIInv ==
  /\ FollowUpTypeOK
  /\ EditsApart
  /\ EditsStand
  /\ RowsRight
  /\ stable \subseteq Keys
  /\ ReaderRight

LEMMA RowsPresent ==
  Missing \notin ActivityRow /\ Missing \notin VisitRow /\ Missing \notin FlowRow
BY DEF Missing, ActivityRow, VisitRow, FlowRow

LEMMA EditKinds ==
  ASSUME NEW x \in EditState
  PROVE  /\ x.at = "activity" => x.id \in Activities /\ x.current \in ActivityRow
         /\ x.at = "visit" => x.id \in Visits /\ x.current \in VisitRow
BY DEF EditState, Resting

LEMMA KeysAreKeys == Keys \in SUBSET Key
BY DEF Keys

-----------------------------------------------------------------------------
(* Frames: what a step of each kind leaves of it.                           *)

\* A step that writes no row and leaves the reader alone.
LEMMA KeysStay ==
  ASSUME UNCHANGED <<activity, visit, flow>>
  PROVE  Keys' = Keys
BY DEF Keys

LEMMA ReaderStays ==
  ASSUME ReaderRight, reader' = reader,
         NEW K, stable' = stable \cap K, shown' = shown \cap K, shown \subseteq stable
  PROVE  ReaderRight'
<1>1. stable' \subseteq stable /\ \A k \in stable' : k \in shown' <=> k \in shown
  OBVIOUS
<1>2. (reader.at = "ask" => \A k \in stable : k \in shown <=> ~After(reader.after, k))'
  BY <1>1 DEF ReaderRight, After
<1>3. (reader.at = "rows" => reader.keys # <<>> /\ ToSet(reader.keys) \cap shown = {})'
  BY DEF ReaderRight
<1>4. (reader.at = "rows" =>
         \A k \in stable : k \notin shown /\ k \notin ToSet(reader.keys)
            <=> reader.more = TRUE /\ Before(Last(reader.keys), k))'
  BY <1>1 DEF ReaderRight
<1>5. (reader.at = "done" => shown = stable)'
  BY DEF ReaderRight
<1> QED
  BY <1>2, <1>3, <1>4, <1>5 DEF ReaderRight

LEMMA ReaderUnchanged ==
  ASSUME ReaderRight, UNCHANGED <<reader, stable, shown>>
  PROVE  ReaderRight'
BY DEF ReaderRight, After

\* A request goes on to x, and what everybody read still stands.
LEMMA EditStep ==
  ASSUME FollowUpTypeOK, EditsApart, NEW r \in Edits, NEW x \in EditState,
         edit' = [edit EXCEPT ![r] = x],
         \A q \in Edits \ {r} : ~EditsClash(edit[q], x) /\ ~EditsClash(x, edit[q]),
         EditStands(x)',
         \A q \in Edits \ {r} : \A y \in EditState : y = edit[q] => EditStands(y)'
  PROVE  /\ edit' \in [Edits -> EditState]
         /\ EditsApart'
         /\ EditsStand'
<1>1. /\ edit \in [Edits -> EditState]
      /\ edit'[r] = x
      /\ \A q \in Edits \ {r} : edit'[q] = edit[q]
  BY DEF FollowUpTypeOK
<1>2. edit' \in [Edits -> EditState]
  BY <1>1
<1>3. EditsApart'
  BY <1>1 DEF EditsApart
<1>4. EditsStand'
  <2> SUFFICES ASSUME NEW q \in Edits PROVE EditStands(edit[q])'
    BY DEF EditsStand
  <2>1. CASE q = r
    BY <1>1, <2>1 DEF EditStands
  <2>2. CASE q # r
    <3>1. PICK y \in EditState : y = edit[q]
      BY <1>1
    <3>2. EditStands(y)'
      BY <2>2, <3>1
    <3> QED
      BY <1>1, <2>2, <3>1, <3>2 DEF EditStands
  <2> QED
    BY <2>1, <2>2
<1> QED
  BY <1>2, <1>3, <1>4

LEMMA RestingStands ==
  /\ Resting \in EditState
  /\ \A y : ~EditsClash(Resting, y) /\ ~EditsClash(y, Resting)
  /\ Resting.at = "idle"
BY DEF Resting, EditState, EditsClash

\* A step that only begins or ends an edit.
LEMMA EditOnlyInv ==
  ASSUME FollowUpIInv, NEW r \in Edits, NEW x \in EditState,
         edit' = [edit EXCEPT ![r] = x],
         \A q \in Edits \ {r} : ~EditsClash(edit[q], x) /\ ~EditsClash(x, edit[q]),
         EditStands(x),
         UNCHANGED <<now, activity, visit, flow, reader, stable, shown>>
  PROVE  FollowUpIInv'
<1>1. FollowUpTypeOK /\ EditsApart /\ EditsStand /\ ReaderRight
  BY DEF FollowUpIInv
<1>2. \A y : EditStands(y) => EditStands(y)'
  BY DEF EditStands
<1>3. /\ EditStands(x)'
      /\ \A q \in Edits \ {r} : \A y \in EditState : y = edit[q] => EditStands(y)'
  BY <1>1, <1>2 DEF EditsStand
<1>4. edit' \in [Edits -> EditState] /\ EditsApart' /\ EditsStand'
  <2> HIDE DEF FollowUpIInv
  <2> QED
    BY <1>1, <1>3, EditStep
<1>5. FollowUpTypeOK'
  BY <1>1, <1>4 DEF FollowUpTypeOK
<1>6. RowsRight' /\ (stable \subseteq Keys)'
  BY KeysStay DEF FollowUpIInv, RowsRight
<1>7. ReaderRight'
  BY <1>1, ReaderUnchanged
<1> QED
  BY <1>4, <1>5, <1>6, <1>7 DEF FollowUpIInv

\* A step of the reader.
LEMMA ReaderInv ==
  ASSUME FollowUpIInv, UNCHANGED <<now, activity, visit, flow, edit>>,
         reader' \in ReaderState, stable' \subseteq Keys, shown' \subseteq stable',
         ReaderRight'
  PROVE  FollowUpIInv'
<1>1. FollowUpTypeOK'
  BY KeysAreKeys DEF FollowUpIInv, FollowUpTypeOK
<1>2. EditsApart' /\ EditsStand'
  BY DEF FollowUpIInv, EditsApart, EditsStand, EditStands
<1>3. RowsRight' /\ (stable \subseteq Keys)'
  BY KeysStay DEF FollowUpIInv, RowsRight
<1> QED
  BY <1>1, <1>2, <1>3 DEF FollowUpIInv

\* A step that writes a row.
LEMMA WriteInv ==
  ASSUME FollowUpIInv, Written, reader' = reader, now' = now,
         activity' \in [Activities -> ActivityRow \cup {Missing}],
         visit' \in [Visits -> VisitRow \cup {Missing}],
         flow' \in [Flows -> FlowRow \cup {Missing}],
         edit' \in [Edits -> EditState], EditsApart', EditsStand',
         RowsRight'
  PROVE  FollowUpIInv'
<1>1. FollowUpTypeOK /\ ReaderRight
  BY DEF FollowUpIInv
<1>2. stable' = stable \cap Keys' /\ shown' = shown \cap Keys'
  BY DEF Written
<1>3. FollowUpTypeOK'
  BY <1>1, <1>2 DEF FollowUpTypeOK
<1>4. ReaderRight'
  BY <1>1, <1>2, ReaderStays DEF FollowUpTypeOK
<1> QED
  BY <1>2, <1>3, <1>4 DEF FollowUpIInv

-----------------------------------------------------------------------------
(* One lemma for each action: the reader.                                   *)

LEMMA TickInv ==
  ASSUME FollowUpIInv, Tick PROVE FollowUpIInv'
<1>1. FollowUpTypeOK'
  <2>1. now' \in Times
    BY TimeAssumption DEF FollowUpIInv, FollowUpTypeOK, Tick, Times
  <2> QED
    BY <2>1 DEF FollowUpIInv, FollowUpTypeOK, Tick
<1>2. EditsApart' /\ EditsStand' /\ RowsRight'
  BY DEF FollowUpIInv, EditsApart, EditsStand, EditStands, RowsRight, Tick
<1>3. (stable \subseteq Keys)' /\ ReaderRight'
  BY KeysStay, ReaderUnchanged DEF FollowUpIInv, Tick
<1> QED
  BY <1>1, <1>2, <1>3 DEF FollowUpIInv

LEMMA AskTimelineInv ==
  ASSUME FollowUpIInv, AskTimeline PROVE FollowUpIInv'
<1>1. reader' = [at |-> "ask", after |-> None] /\ stable' = Keys /\ shown' = {}
  BY DEF AskTimeline
<1>2. reader' \in ReaderState
  BY <1>1 DEF ReaderState
<1>3. reader'.at = "ask" /\ reader'.after = None
  BY <1>1
<1>4. ReaderRight'
  BY <1>1, <1>3 DEF ReaderRight, After
<1> QED
  BY <1>1, <1>2, <1>4, ReaderInv DEF AskTimeline

LEMMA ReadKeysInv ==
  ASSUME FollowUpIInv, ReadKeys PROVE FollowUpIInv'
<1> DEFINE S == Beyond(reader.after)
<1>1. /\ FollowUpTypeOK /\ stable \subseteq Keys /\ shown \subseteq stable
      /\ reader.at = "ask"
      /\ \A k \in stable : k \in shown <=> ~After(reader.after, k)
  BY DEF FollowUpIInv, FollowUpTypeOK, ReaderRight, ReadKeys
<1>2. S = {k \in Keys : After(reader.after, k)}
  BY DEF Beyond, After
<1>3. S \in SUBSET Key
  BY <1>2, KeysAreKeys
<1>4. UNCHANGED <<now, activity, visit, flow, edit>> /\ stable' = stable /\ shown' = shown
  BY DEF ReadKeys
<1>5. reader.after = None \/ reader.after \in Key
  BY <1>1 DEF FollowUpTypeOK, ReaderState, Resting
<1> HIDE DEF S
<1>6. CASE S = {}
  <2>1. reader' = [at |-> "done"]
    BY <1>6, NoPage DEF ReadKeys, S
  <2>2. reader' \in ReaderState /\ reader'.at = "done"
    BY <2>1 DEF ReaderState
  <2>3. shown = stable
    BY <1>1, <1>2, <1>6
  <2>4. ReaderRight'
    BY <1>4, <2>2, <2>3 DEF ReaderRight
  <2> QED
    BY <1>1, <1>4, <2>2, <2>4, ReaderInv
<1>7. CASE S # {}
  <2> DEFINE page == PageOf(S)
             more == Len(Sorted(S)) > Limit
  <2>1. /\ Sorted(S) # <<>>
        /\ page \in Seq(Key) /\ page # <<>>
        /\ Last(page) \in S
        /\ ToSet(page) \subseteq S
        /\ \A k \in S : k \notin ToSet(page) <=> more /\ Before(Last(page), k)
    BY <1>3, <1>7, PageRight
  <2>2. reader' = [at |-> "rows", keys |-> page, more |-> more]
    BY <2>1 DEF ReadKeys, PageOf, S
  <2>3. /\ reader'.at = "rows" /\ reader'.keys = page /\ reader'.more = more
        /\ reader' \in ReaderState
    BY <2>1, <2>2 DEF ReaderState
  <2>4. more \in BOOLEAN
    OBVIOUS
  <2> HIDE DEF page, more
  <2>5. \A k \in shown : k \notin S
    BY <1>1, <1>2
  <2>6. ToSet(page) \cap shown = {}
    BY <2>1, <2>5
  <2>7. ASSUME NEW k \in stable
        PROVE  k \notin shown /\ k \notin ToSet(page) <=> more /\ Before(Last(page), k)
    <3>1. CASE k \in shown
      <4>1. k \notin S /\ k \in Key
        BY <1>1, <2>5, <3>1, KeysAreKeys
      <4>2. ~After(reader.after, k)
        BY <1>1, <3>1
      <4>3. reader.after # None /\ reader.after \in Key /\ ~Before(reader.after, k)
        BY <1>5, <4>2 DEF After
      <4>4. Last(page) \in Key /\ Before(reader.after, Last(page))
        BY <1>2, <1>3, <2>1, <4>3 DEF After
      <4>5. ~Before(Last(page), k)
        BY <4>1, <4>3, <4>4, BeforeOrders
      <4> QED
        BY <3>1, <4>5
    <3>2. CASE k \notin shown
      <4>1. k \in S
        BY <1>1, <1>2, <3>2
      <4> QED
        BY <2>1, <3>2, <4>1
    <3> QED
      BY <3>1, <3>2
  <2>8. ReaderRight'
    <3>1. reader'.at = "rows" => reader'.keys # <<>> /\ ToSet(reader'.keys) \cap shown' = {}
      BY <1>4, <2>1, <2>3, <2>6
    <3>2. \A k \in stable' : k \notin shown' /\ k \notin ToSet(reader'.keys)
            <=> reader'.more = TRUE /\ Before(Last(reader'.keys), k)
      BY <1>4, <2>3, <2>4, <2>7
    <3>3. reader'.at # "ask" /\ reader'.at # "done"
      BY <2>3
    <3> QED
      BY <3>1, <3>2, <3>3 DEF ReaderRight
  <2> QED
    BY <1>1, <1>4, <2>3, <2>8, ReaderInv
<1> QED
  BY <1>6, <1>7

LEMMA ReadRowsInv ==
  ASSUME FollowUpIInv, ReadRows PROVE FollowUpIInv'
<1>1. /\ FollowUpTypeOK /\ stable \subseteq Keys /\ shown \subseteq stable
      /\ reader.at = "rows"
      /\ reader.keys # <<>>
      /\ \A k \in stable : k \notin shown /\ k \notin ToSet(reader.keys)
            <=> reader.more = TRUE /\ Before(Last(reader.keys), k)
  BY DEF FollowUpIInv, FollowUpTypeOK, ReaderRight, ReadRows
<1>2. /\ UNCHANGED <<now, activity, visit, flow, edit>> /\ stable' = stable
      /\ shown' = shown \cup (ToSet(reader.keys) \cap stable)
  BY DEF ReadRows
<1>3. reader.keys \in Seq(Key) /\ reader.more \in BOOLEAN
  BY <1>1 DEF FollowUpTypeOK, ReaderState, Resting
<1>4. Last(reader.keys) \in Key
  BY <1>1, <1>3 DEF Last
<1>5. stable' \subseteq Keys /\ shown' \subseteq stable'
  BY <1>1, <1>2
<1>6. CASE reader.more
  <2>1. reader' = [at |-> "ask", after |-> Last(reader.keys)]
    BY <1>6 DEF ReadRows
  <2>2. /\ reader'.at = "ask" /\ reader'.after = Last(reader.keys)
        /\ reader' \in ReaderState
    BY <1>4, <2>1 DEF ReaderState
  <2>3. reader'.after # None
    BY <1>4, <2>2, CursorAssumption
  <2>4. \A k \in stable' : k \in shown' <=> ~After(reader'.after, k)
    BY <1>1, <1>2, <1>6, <2>2, <2>3 DEF After
  <2>5. ReaderRight'
    BY <2>2, <2>4 DEF ReaderRight, After
  <2> QED
    BY <1>2, <1>5, <2>2, <2>5, ReaderInv
<1>7. CASE ~reader.more
  <2>1. reader' = [at |-> "done"]
    BY <1>7 DEF ReadRows
  <2>2. reader' \in ReaderState /\ reader'.at = "done"
    BY <2>1 DEF ReaderState
  <2>3. shown' = stable'
    BY <1>1, <1>2, <1>7
  <2>4. ReaderRight'
    BY <2>2, <2>3 DEF ReaderRight
  <2> QED
    BY <1>2, <1>5, <2>2, <2>4, ReaderInv
<1> QED
  BY <1>6, <1>7

LEMMA LeaveInv ==
  ASSUME FollowUpIInv, Leave PROVE FollowUpIInv'
<1>1. reader' = Resting /\ stable' = {} /\ shown' = {}
  BY DEF Leave
<1>2. reader' \in ReaderState /\ reader'.at = "idle"
  BY <1>1 DEF ReaderState, Resting
<1>3. ReaderRight'
  BY <1>2 DEF ReaderRight
<1> QED
  BY <1>1, <1>2, <1>3, ReaderInv DEF Leave

-----------------------------------------------------------------------------
(* One lemma for each action: activities, visits and the other events.      *)

LEMMA AbandonInv ==
  ASSUME FollowUpIInv, NEW r \in Edits, Abandon(r) PROVE FollowUpIInv'
<1>1. EditStands(Resting)
  BY RestingStands DEF EditStands
<1> QED
  BY <1>1, RestingStands, EditOnlyInv DEF Abandon, EndEdit

\* What is written of an activity.
LEMMA SentTypes ==
  ASSUME NEW dto \in ActivityDto
  PROVE  /\ dto.status \in ActivityStatuses \cup {Keep}
         /\ dto.scheduledAt \in Times \cup {None, Keep}
         /\ dto.completedAt \in Times \cup {None, Keep}
BY DEF ActivityDto

LEMMA InstantsAreSome == \A t \in Times : t # None
BY NoneIsApart, TimeAssumption DEF Times

LEMMA CreatedRight ==
  ASSUME NEW dto \in ActivityDto, now \in Times, ActivityAccepted(CreatedActivity(dto))
  PROVE  CreatedActivity(dto) \in ActivityRow /\ ActivityRight(CreatedActivity(dto))
<1> DEFINE s == StatusSent(dto, "PENDENTE")
           p == Given(dto.scheduledAt, None)
           c == IF s = "CONCLUIDA" /\ Given(dto.completedAt, None) = None
                  THEN now ELSE Given(dto.completedAt, None)
           row == [status |-> s, scheduledAt |-> p, completedAt |-> c, createdAt |-> now]
<1>1. CreatedActivity(dto) = row
  BY DEF CreatedActivity
<1>2. s \in ActivityStatuses
  BY SentTypes DEF StatusSent, ActivityStatuses
<1>3. p \in Times \cup {None} /\ c \in Times \cup {None}
  BY SentTypes DEF Given
<1>4. s = "CONCLUIDA" => c # None
  BY InstantsAreSome
<1> HIDE DEF s, p, c
<1>5. row \in ActivityRow
  BY <1>2, <1>3 DEF ActivityRow
<1>6. row.status = s /\ row.completedAt = c /\ row.scheduledAt = p
  OBVIOUS
<1> HIDE DEF row
<1>7. ActivityRight(row)
  BY <1>1, <1>4, <1>6 DEF ActivityRight, ActivityAccepted
<1> QED
  BY <1>1, <1>5, <1>7

LEMMA UpdatedRight ==
  ASSUME NEW current \in ActivityRow, ActivityRight(current),
         NEW dto \in ActivityDto, now \in Times,
         ActivityAccepted(UpdatedActivity(current, dto))
  PROVE  /\ UpdatedActivity(current, dto) \in ActivityRow
         /\ ActivityRight(UpdatedActivity(current, dto))
<1> DEFINE s == StatusSent(dto, current.status)
           p == Given(dto.scheduledAt, current.scheduledAt)
           g == Given(dto.completedAt, current.completedAt)
           c == IF s = "CONCLUIDA" THEN IF g # None THEN g ELSE now
                ELSE IF dto.status # Keep THEN None ELSE g
           row == UpdatedActivity(current, dto)
<1>1. row = [current EXCEPT !.status = s, !.scheduledAt = p, !.completedAt = c]
  BY DEF UpdatedActivity
<1>2. /\ current.status \in ActivityStatuses
      /\ current.scheduledAt \in Times \cup {None}
      /\ current.completedAt \in Times \cup {None}
  BY DEF ActivityRow
<1>3. s \in ActivityStatuses
  BY <1>2, SentTypes DEF StatusSent, ActivityStatuses
<1>4. p \in Times \cup {None} /\ g \in Times \cup {None}
  BY <1>2, SentTypes DEF Given
<1>5. c \in Times \cup {None}
  BY <1>4
<1>6. s = "CONCLUIDA" => c # None
  BY InstantsAreSome
<1>7. s # "CONCLUIDA" => c = None
  <2>1. CASE dto.status # Keep
    BY <2>1
  <2>2. CASE dto.status = Keep /\ dto.completedAt = Keep
    BY <2>2 DEF StatusSent, Given, ActivityRight
  <2>3. CASE dto.status = Keep /\ dto.completedAt # Keep
    BY <2>3 DEF StatusSent, Given
  <2> QED
    BY <2>1, <2>2, <2>3
<1> HIDE DEF s, p, g, c
<1>8. row \in ActivityRow
  BY <1>1, <1>3, <1>4, <1>5 DEF ActivityRow
<1>9. row.status = s /\ row.completedAt = c /\ row.scheduledAt = p
  BY <1>1 DEF ActivityRow
<1> HIDE DEF row
<1>10. row.completedAt # None /\ row.scheduledAt # None => row.completedAt >= row.scheduledAt
  BY DEF ActivityAccepted, row
<1>11. ActivityRight(row)
  BY <1>6, <1>7, <1>9, <1>10 DEF ActivityRight
<1> QED
  BY <1>8, <1>11 DEF row

\* A step that writes one activity.
LEMMA ActivityInv ==
  ASSUME FollowUpIInv, NEW a \in Activities, NEW row \in ActivityRow \cup {Missing},
         activity' = [activity EXCEPT ![a] = row],
         row # Missing => ActivityRight(row),
         UNCHANGED <<now, visit, flow, reader>>, Written,
         edit' \in [Edits -> EditState], EditsApart', EditsStand'
  PROVE  FollowUpIInv'
<1>1. FollowUpTypeOK /\ RowsRight
  BY DEF FollowUpIInv
<1>2. activity' \in [Activities -> ActivityRow \cup {Missing}]
  BY <1>1 DEF FollowUpTypeOK
<1>3. RowsRight'
  BY <1>1 DEF FollowUpTypeOK, RowsRight
<1> QED
  BY <1>1, <1>2, <1>3, WriteInv DEF FollowUpTypeOK

\* Nobody edits an activity that is written without its lock.
LEMMA UnheldActivity ==
  ASSUME FollowUpIInv, NEW a \in Activities, NEW row,
         activity' = [activity EXCEPT ![a] = row], UNCHANGED <<visit, edit>>,
         \A r \in Edits : edit[r].at = "activity" => edit[r].id # a
  PROVE  edit' \in [Edits -> EditState] /\ EditsApart' /\ EditsStand'
<1>1. edit' \in [Edits -> EditState] /\ EditsApart'
  BY DEF FollowUpIInv, FollowUpTypeOK, EditsApart
<1>2. EditsStand'
  BY DEF FollowUpIInv, FollowUpTypeOK, EditsStand, EditStands
<1> QED
  BY <1>1, <1>2

LEMMA CreateActivityInv ==
  ASSUME FollowUpIInv, NEW a \in Activities, NEW dto \in ActivityDto, CreateActivity(a, dto)
  PROVE  FollowUpIInv'
<1> DEFINE row == CreatedActivity(dto)
<1>1. /\ activity[a] = Missing
      /\ activity' = [activity EXCEPT ![a] = row]
      /\ UNCHANGED <<now, visit, flow, edit, reader>> /\ Written
  BY DEF CreateActivity
<1>2. row \in ActivityRow /\ ActivityRight(row)
  BY CreatedRight DEF CreateActivity, FollowUpIInv, FollowUpTypeOK
<1>3. ASSUME NEW r \in Edits, edit[r].at = "activity" PROVE edit[r].id # a
  <2>1. edit[r] \in EditState /\ activity[edit[r].id] = edit[r].current
    BY <1>3 DEF FollowUpIInv, FollowUpTypeOK, EditsStand, EditStands
  <2> QED
    BY <1>1, <1>3, <2>1, EditKinds, RowsPresent
<1> HIDE DEF row
<1>4. edit' \in [Edits -> EditState] /\ EditsApart' /\ EditsStand'
  BY <1>1, <1>3, UnheldActivity
<1> QED
  BY <1>1, <1>2, <1>4, ActivityInv

LEMMA RemoveActivityInv ==
  ASSUME FollowUpIInv, NEW a \in Activities, RemoveActivity(a) PROVE FollowUpIInv'
<1>1. /\ activity' = [activity EXCEPT ![a] = Missing]
      /\ UNCHANGED <<now, visit, flow, edit, reader>> /\ Written
      /\ \A r \in Edits : edit[r].at = "activity" => edit[r].id # a
  BY DEF RemoveActivity, RowUnlocked
<1>2. edit' \in [Edits -> EditState] /\ EditsApart' /\ EditsStand'
  BY <1>1, UnheldActivity
<1> QED
  BY <1>1, <1>2, ActivityInv

LEMMA LockActivityInv ==
  ASSUME FollowUpIInv, NEW r \in Edits, NEW a \in Activities, LockActivity(r, a)
  PROVE  FollowUpIInv'
<1> DEFINE x == [at |-> "activity", id |-> a, current |-> activity[a]]
<1>1. /\ x.at = "activity" /\ x.id = a /\ x.current = activity[a]
      /\ edit' = [edit EXCEPT ![r] = x]
      /\ UNCHANGED <<now, activity, visit, flow, reader, stable, shown>>
  BY DEF LockActivity
<1>2. x \in EditState
  BY DEF LockActivity, FollowUpIInv, FollowUpTypeOK, EditState
<1> HIDE DEF x
<1>3. EditStands(x)
  BY <1>1 DEF EditStands
<1>4. \A q \in Edits \ {r} : ~EditsClash(edit[q], x) /\ ~EditsClash(x, edit[q])
  BY <1>1 DEF LockActivity, RowUnlocked, EditsClash
<1> QED
  BY <1>1, <1>2, <1>3, <1>4, EditOnlyInv

LEMMA CommitActivityInv ==
  ASSUME FollowUpIInv, NEW r \in Edits, NEW dto \in ActivityDto, CommitActivity(r, dto)
  PROVE  FollowUpIInv'
<1> DEFINE a == edit[r].id
           current == edit[r].current
           row == UpdatedActivity(current, dto)
<1>1. /\ FollowUpTypeOK /\ EditsApart /\ EditsStand /\ RowsRight
      /\ edit[r] \in EditState /\ edit[r].at = "activity"
  BY DEF FollowUpIInv, FollowUpTypeOK, CommitActivity
<1>2. a \in Activities /\ current \in ActivityRow
  BY <1>1, EditKinds
<1>3. activity[a] = current
  BY <1>1 DEF EditsStand, EditStands
<1>4. ActivityRight(current)
  BY <1>1, <1>2, <1>3, RowsPresent DEF RowsRight
<1>5. /\ ActivityAccepted(row)
      /\ activity' = [activity EXCEPT ![a] = row]
      /\ edit' = [edit EXCEPT ![r] = Resting]
      /\ UNCHANGED <<now, visit, flow, reader>> /\ Written
  BY DEF CommitActivity, EndEdit
<1>6. row \in ActivityRow /\ ActivityRight(row)
  BY <1>1, <1>2, <1>4, <1>5, UpdatedRight DEF FollowUpTypeOK
<1>7. ASSUME NEW q \in Edits \ {r}, NEW y \in EditState, y = edit[q]
      PROVE  EditStands(y)'
  <2>1. EditStands(y)
    BY <1>1, <1>7 DEF EditsStand
  <2>2. y.at = "activity" => y.id # a
    BY <1>1, <1>7 DEF EditsApart, EditsClash
  <2>3. y.at = "activity" => y.id \in Activities
    BY EditKinds
  <2> HIDE DEF a, row
  <2>4. y.at = "activity" => activity'[y.id] = activity[y.id]
    BY <1>1, <1>5, <2>2, <2>3 DEF FollowUpTypeOK
  <2> QED
    BY <1>5, <2>1, <2>4 DEF EditStands
<1>8. EditStands(Resting)'
  BY RestingStands DEF EditStands
<1>9. edit' \in [Edits -> EditState] /\ EditsApart' /\ EditsStand'
  BY <1>1, <1>5, <1>7, <1>8, RestingStands, EditStep
<1> HIDE DEF a, row
<1> QED
  BY <1>2, <1>5, <1>6, <1>9, ActivityInv

\* What is written of a visit.
LEMMA VisitSent ==
  ASSUME NEW dto \in AcceptedVisitDto
  PROVE  /\ dto.status \in VisitStatuses \cup {Keep}
         /\ dto.scheduledAt \in Times \cup {None, Keep}
         /\ dto.scheduledAt # Keep => dto.scheduledAt # None
         /\ TextOrNull(dto.result) \in {"text", None}
         /\ TextOrNull(dto.reason) \in {"text", None}
         /\ dto.status = "CANCELADA" => TextOrNull(dto.reason) # None
<1>1. dto \in VisitDto /\ VisitAccepted(dto)
  BY DEF AcceptedVisitDto
<1>2. dto.status = "CANCELADA" => Given(dto.status, "AGENDADA") = "CANCELADA"
  BY KeepAssumption DEF Given, VisitStatuses
<1> QED
  BY <1>1, <1>2 DEF VisitDto, VisitAccepted, TextOrNull

LEMMA PlannedRight ==
  ASSUME NEW current \in VisitRow, VisitRight(current), current.status = "AGENDADA",
         NEW dto \in AcceptedVisitDto, now \in Times
  PROVE  PlannedVisit(current, dto) \in VisitRow /\ VisitRight(PlannedVisit(current, dto))
<1> DEFINE row == PlannedVisit(current, dto)
<1>1. /\ current.status = "AGENDADA"
      /\ current.scheduledAt \in Times
      /\ current.result = None /\ current.reason = None
      /\ current.completedAt = None /\ current.cancelledAt = None
  BY DEF VisitRow, VisitRight
<1>2. /\ Keep # "AGENDADA" /\ Keep # "REALIZADA" /\ Keep # "CANCELADA"
      /\ Keep # "NAO_COMPARECEU"
  BY KeepAssumption DEF VisitStatuses
<1>3. now # None
  BY InstantsAreSome
<1>4. CASE Given(dto.status, "AGENDADA") = "AGENDADA"
  <2>0. /\ dto.status # "REALIZADA" /\ dto.status # "CANCELADA"
        /\ dto.status # "NAO_COMPARECEU"
    BY <1>2, <1>4 DEF Given
  <2>1. row = [current EXCEPT !.scheduledAt = Given(dto.scheduledAt, @)]
    BY <1>4, <2>0 DEF PlannedVisit
  <2>2. Given(dto.scheduledAt, current.scheduledAt) \in Times
    BY <1>1, VisitSent DEF Given
  <2>3. row \in VisitRow
    BY <2>1, <2>2 DEF VisitRow
  <2>4. /\ row.status = current.status /\ row.result = current.result
        /\ row.reason = current.reason
        /\ row.completedAt = current.completedAt /\ row.cancelledAt = current.cancelledAt
    BY <2>1 DEF VisitRow
  <2>5. VisitRight(row)
    <3> HIDE DEF row
    <3> QED
      BY <2>4 DEF VisitRight
  <2> QED
    BY <2>3, <2>5
<1>5. CASE dto.status = "REALIZADA"
  <2>1. Given(dto.status, "AGENDADA") # "AGENDADA"
    BY <1>2, <1>5 DEF Given
  <2>2. row = [current EXCEPT !.status = "REALIZADA", !.result = TextOrNull(dto.result),
                              !.completedAt = now, !.cancelledAt = None, !.reason = None]
    BY <1>5, <2>1 DEF PlannedVisit
  <2>3. row \in VisitRow
    BY <2>2, VisitSent DEF VisitRow, VisitStatuses
  <2>4. /\ row.status = "REALIZADA" /\ row.result = TextOrNull(dto.result)
        /\ row.reason = None /\ row.completedAt = now /\ row.cancelledAt = None
    BY <2>2 DEF VisitRow
  <2> HIDE DEF row
  <2>5. VisitRight(row)
    BY <1>3, <2>4 DEF VisitRight
  <2> QED
    BY <2>3, <2>5 DEF row
<1>6. CASE dto.status = "NAO_COMPARECEU"
  <2>1. Given(dto.status, "AGENDADA") # "AGENDADA"
    BY <1>2, <1>6 DEF Given
  <2>2. row = [current EXCEPT !.status = "NAO_COMPARECEU", !.result = None,
                              !.completedAt = now, !.cancelledAt = None, !.reason = None]
    BY <1>6, <2>1 DEF PlannedVisit
  <2>3. row \in VisitRow
    BY <2>2 DEF VisitRow, VisitStatuses
  <2>4. /\ row.status = "NAO_COMPARECEU" /\ row.result = None
        /\ row.reason = None /\ row.completedAt = now /\ row.cancelledAt = None
    BY <2>2 DEF VisitRow
  <2> HIDE DEF row
  <2>5. VisitRight(row)
    BY <1>3, <2>4 DEF VisitRight
  <2> QED
    BY <2>3, <2>5 DEF row
<1>7. CASE dto.status = "CANCELADA"
  <2>1. Given(dto.status, "AGENDADA") # "AGENDADA"
    BY <1>2, <1>7 DEF Given
  <2>2. row = [current EXCEPT !.status = "CANCELADA", !.result = None,
                              !.completedAt = None, !.cancelledAt = now,
                              !.reason = TextOrNull(dto.reason)]
    BY <1>7, <2>1 DEF PlannedVisit
  <2>3. row \in VisitRow
    BY <2>2, VisitSent DEF VisitRow, VisitStatuses
  <2>4. /\ row.status = "CANCELADA" /\ row.result = None
        /\ row.reason = TextOrNull(dto.reason)
        /\ row.completedAt = None /\ row.cancelledAt = now
    BY <2>2 DEF VisitRow
  <2> HIDE DEF row
  <2>5. VisitRight(row)
    BY <1>3, <1>7, <2>4, VisitSent DEF VisitRight
  <2> QED
    BY <2>3, <2>5 DEF row
<1> QED
  BY <1>4, <1>5, <1>6, <1>7, VisitSent DEF VisitStatuses, Given

\* A step that writes one visit.
LEMMA VisitInv ==
  ASSUME FollowUpIInv, NEW v \in Visits, NEW row \in VisitRow,
         visit' = [visit EXCEPT ![v] = row], VisitRight(row),
         UNCHANGED <<now, activity, flow, reader>>, Written,
         edit' \in [Edits -> EditState], EditsApart', EditsStand'
  PROVE  FollowUpIInv'
<1>1. FollowUpTypeOK /\ RowsRight
  BY DEF FollowUpIInv
<1>2. visit' \in [Visits -> VisitRow \cup {Missing}]
  BY <1>1 DEF FollowUpTypeOK
<1>3. RowsRight'
  BY <1>1 DEF FollowUpTypeOK, RowsRight
<1> QED
  BY <1>1, <1>2, <1>3, WriteInv DEF FollowUpTypeOK

LEMMA CreateVisitInv ==
  ASSUME FollowUpIInv, NEW v \in Visits, NEW at \in Times, CreateVisit(v, at)
  PROVE  FollowUpIInv'
<1> DEFINE row == [status |-> "AGENDADA", scheduledAt |-> at, result |-> None,
                   reason |-> None, completedAt |-> None, cancelledAt |-> None]
<1>1. /\ visit[v] = Missing
      /\ visit' = [visit EXCEPT ![v] = row]
      /\ UNCHANGED <<now, activity, flow, edit, reader>> /\ Written
  BY DEF CreateVisit
<1>2. row \in VisitRow
  BY DEF VisitRow, VisitStatuses
<1>3. VisitRight(row)
  BY DEF VisitRight
<1> HIDE DEF row
<1>4. ASSUME NEW r \in Edits, edit[r].at = "visit" PROVE edit[r].id # v
  <2>1. edit[r] \in EditState /\ visit[edit[r].id] = edit[r].current
    BY <1>4 DEF FollowUpIInv, FollowUpTypeOK, EditsStand, EditStands
  <2> QED
    BY <1>1, <1>4, <2>1, EditKinds, RowsPresent
<1>5. edit' \in [Edits -> EditState] /\ EditsApart'
  BY <1>1 DEF FollowUpIInv, FollowUpTypeOK, EditsApart
<1>6. EditsStand'
  BY <1>1, <1>4 DEF FollowUpIInv, FollowUpTypeOK, EditsStand, EditStands
<1> QED
  BY <1>1, <1>2, <1>3, <1>5, <1>6, VisitInv

LEMMA LockVisitInv ==
  ASSUME FollowUpIInv, NEW r \in Edits, NEW v \in Visits, LockVisit(r, v)
  PROVE  FollowUpIInv'
<1> DEFINE x == [at |-> "visit", id |-> v, current |-> visit[v]]
<1>1. /\ x.at = "visit" /\ x.id = v /\ x.current = visit[v]
      /\ edit' = [edit EXCEPT ![r] = x]
      /\ UNCHANGED <<now, activity, visit, flow, reader, stable, shown>>
      /\ visit[v].status = "AGENDADA"
  BY DEF LockVisit
<1>2. x \in EditState
  BY DEF LockVisit, FollowUpIInv, FollowUpTypeOK, EditState
<1> HIDE DEF x
<1>3. EditStands(x)
  BY <1>1 DEF EditStands
<1>4. \A q \in Edits \ {r} : ~EditsClash(edit[q], x) /\ ~EditsClash(x, edit[q])
  BY <1>1 DEF LockVisit, RowUnlocked, EditsClash
<1> QED
  BY <1>1, <1>2, <1>3, <1>4, EditOnlyInv

\* What the holder of a visit's lock read is still the row, still scheduled.
LEMMA HeldVisit ==
  ASSUME FollowUpIInv, NEW r \in Edits, edit[r].at = "visit"
  PROVE  /\ edit[r].id \in Visits /\ edit[r].current \in VisitRow
         /\ visit[edit[r].id] = edit[r].current
         /\ edit[r].current.status = "AGENDADA"
<1>1. edit[r] \in EditState
  BY DEF FollowUpIInv, FollowUpTypeOK
<1> QED
  BY <1>1, EditKinds DEF FollowUpIInv, EditsStand, EditStands

LEMMA CommitVisitInv ==
  ASSUME FollowUpIInv, NEW r \in Edits, NEW dto \in AcceptedVisitDto, CommitVisit(r, dto)
  PROVE  FollowUpIInv'
<1> DEFINE v == edit[r].id
           current == edit[r].current
           row == PlannedVisit(current, dto)
<1>1. /\ FollowUpTypeOK /\ EditsApart /\ EditsStand /\ RowsRight
      /\ edit[r] \in EditState /\ edit[r].at = "visit"
  BY DEF FollowUpIInv, FollowUpTypeOK, CommitVisit
<1>2. /\ v \in Visits /\ current \in VisitRow
      /\ visit[v] = current /\ current.status = "AGENDADA"
  BY <1>1, HeldVisit
<1>3. VisitRight(current)
  BY <1>1, <1>2, RowsPresent DEF RowsRight
<1>4. /\ visit' = [visit EXCEPT ![v] = row]
      /\ edit' = [edit EXCEPT ![r] = Resting]
      /\ UNCHANGED <<now, activity, flow, reader>> /\ Written
  BY DEF CommitVisit, EndEdit
<1>5. row \in VisitRow /\ VisitRight(row)
  BY <1>1, <1>2, <1>3, PlannedRight DEF FollowUpTypeOK
<1>6. ASSUME NEW q \in Edits \ {r}, NEW y \in EditState, y = edit[q]
      PROVE  EditStands(y)'
  <2>1. EditStands(y)
    BY <1>1, <1>6 DEF EditsStand
  <2>2. y.at = "visit" => y.id # v
    BY <1>1, <1>6 DEF EditsApart, EditsClash
  <2>3. y.at = "visit" => y.id \in Visits
    BY EditKinds
  <2> HIDE DEF v, row
  <2>4. y.at = "visit" => visit'[y.id] = visit[y.id]
    BY <1>1, <1>4, <2>2, <2>3 DEF FollowUpTypeOK
  <2> QED
    BY <1>4, <2>1, <2>4 DEF EditStands
<1>7. EditStands(Resting)'
  BY RestingStands DEF EditStands
<1>8. edit' \in [Edits -> EditState] /\ EditsApart' /\ EditsStand'
  BY <1>1, <1>4, <1>6, <1>7, RestingStands, EditStep
<1> HIDE DEF v, row
<1> QED
  BY <1>2, <1>4, <1>5, <1>8, VisitInv

LEMMA FlowInv ==
  ASSUME FollowUpIInv, NEW f \in Flows, CreateFlow(f) \/ DecideFlow(f)
  PROVE  FollowUpIInv'
<1>1. /\ flow' = [flow EXCEPT ![f] = [at |-> now]]
      /\ UNCHANGED <<now, activity, visit, edit, reader>> /\ Written
  BY DEF CreateFlow, DecideFlow
<1>2. FollowUpTypeOK
  BY DEF FollowUpIInv
<1>3. flow' \in [Flows -> FlowRow \cup {Missing}]
  BY <1>1, <1>2 DEF FollowUpTypeOK, FlowRow
<1>4. EditsApart' /\ EditsStand' /\ RowsRight'
  BY <1>1 DEF FollowUpIInv, EditsApart, EditsStand, EditStands, RowsRight
<1> QED
  BY <1>1, <1>2, <1>3, <1>4, WriteInv DEF FollowUpTypeOK

-----------------------------------------------------------------------------
(* The theorems.                                                            *)

LEMMA FollowUpInitInv == FollowUpInit => FollowUpIInv
<1> SUFFICES ASSUME FollowUpInit PROVE FollowUpIInv
  OBVIOUS
<1>1. FollowUpTypeOK
  BY RestingStands, TimeAssumption
     DEF FollowUpInit, FollowUpTypeOK, ReaderState, Times
<1>2. EditsApart /\ EditsStand
  BY RestingStands DEF FollowUpInit, EditsApart, EditsStand, EditStands, EditsClash
<1>3. RowsRight /\ stable \subseteq Keys
  BY DEF FollowUpInit, RowsRight
<1>4. ReaderRight
  BY RestingStands DEF FollowUpInit, ReaderRight
<1> QED
  BY <1>1, <1>2, <1>3, <1>4 DEF FollowUpIInv

LEMMA FollowUpNextInv == FollowUpIInv /\ [FollowUpNext]_followUpVars => FollowUpIInv'
<1> SUFFICES ASSUME FollowUpIInv, [FollowUpNext]_followUpVars PROVE FollowUpIInv'
  OBVIOUS
<1>1. CASE UNCHANGED followUpVars
  <2>1. FollowUpTypeOK' /\ EditsApart' /\ EditsStand' /\ RowsRight'
    BY <1>1 DEF followUpVars, FollowUpIInv, FollowUpTypeOK, EditsApart, EditsStand,
                EditStands, RowsRight
  <2>2. (stable \subseteq Keys)' /\ ReaderRight'
    BY <1>1, KeysStay, ReaderUnchanged DEF followUpVars, FollowUpIInv
  <2> QED
    BY <2>1, <2>2 DEF FollowUpIInv
<1>2. CASE Tick \/ AskTimeline \/ ReadKeys \/ ReadRows \/ Leave
  BY <1>2, TickInv, AskTimelineInv, ReadKeysInv, ReadRowsInv, LeaveInv
<1>3. CASE \E a \in Activities :
             \/ \E dto \in ActivityDto : CreateActivity(a, dto)
             \/ RemoveActivity(a)
  BY <1>3, CreateActivityInv, RemoveActivityInv
<1>4. CASE \E v \in Visits, at \in Times : CreateVisit(v, at)
  BY <1>4, CreateVisitInv
<1>5. CASE \E f \in Flows : CreateFlow(f) \/ DecideFlow(f)
  BY <1>5, FlowInv
<1>6. CASE \E r \in Edits :
             \/ Abandon(r)
             \/ \E a \in Activities : LockActivity(r, a)
             \/ \E dto \in ActivityDto : CommitActivity(r, dto)
             \/ \E v \in Visits : LockVisit(r, v)
             \/ \E dto \in AcceptedVisitDto : CommitVisit(r, dto)
  BY <1>6, AbandonInv, LockActivityInv, CommitActivityInv, LockVisitInv, CommitVisitInv
<1> QED
  BY <1>1, <1>2, <1>3, <1>4, <1>5, <1>6 DEF FollowUpNext

\* No two requests edit one row, what each read is what the row still is, and
\* the reader was shown what comes up to its cursor (crm.service.ts).
THEOREM FollowUpInductive == FollowUpSpec => []FollowUpIInv
<1>1. FollowUpInit => FollowUpIInv
  BY FollowUpInitInv
<1>2. FollowUpIInv /\ [FollowUpNext]_followUpVars => FollowUpIInv'
  BY FollowUpNextInv
<1> QED
  BY <1>1, <1>2, PTL DEF FollowUpSpec

\* FollowUpConsistent, for any activities, visits, requests, dates, prices,
\* areas and bedrooms (createActivity, updateActivity, planSalesVisitUpdate,
\* unit-matching.service.ts, unit-compatibility-score.ts).
THEOREM FollowUpHolds == FollowUpSpec => []FollowUpConsistent
<1>1. FollowUpIInv => FollowUpConsistent
  BY ScoresHold, FitHolds DEF FollowUpIInv, RowsRight, FollowUpConsistent
<1> QED
  BY <1>1, FollowUpInductive, PTL

\* TimelineComplete, whatever the size of the page and whatever is written
\* between its pages (timelineKeysQuery, findOpportunityTimeline).
THEOREM TimelineHolds == FollowUpSpec => []TimelineComplete
<1>1. FollowUpIInv => TimelineComplete
  BY DEF FollowUpIInv, ReaderRight, TimelineComplete
<1> QED
  BY <1>1, FollowUpInductive, PTL

\* What no step does to a visit that ended.
KeepsEndedVisits ==
  \A v \in Visits :
    visit[v] # Missing /\ visit[v].status # "AGENDADA" => visit'[v] = visit[v]

\* VisitEndsOnce, with any number of requests (planSalesVisitUpdate).
THEOREM EndedVisitsStay == FollowUpSpec => VisitEndsOnce
<1>1. ASSUME FollowUpIInv, FollowUpNext PROVE KeepsEndedVisits
  <2>1. FollowUpTypeOK
    BY <1>1 DEF FollowUpIInv
  <2>2. CASE UNCHANGED visit
    BY <2>2 DEF KeepsEndedVisits
  <2>3. CASE \E v \in Visits, at \in Times : CreateVisit(v, at)
    BY <2>1, <2>3 DEF KeepsEndedVisits, CreateVisit, FollowUpTypeOK
  <2>4. ASSUME NEW r \in Edits, NEW dto \in AcceptedVisitDto, CommitVisit(r, dto)
        PROVE  KeepsEndedVisits
    <3>1. edit[r].at = "visit"
      BY <2>4 DEF CommitVisit
    <3>2. /\ edit[r].id \in Visits
          /\ visit[edit[r].id].status = "AGENDADA"
      BY <1>1, <3>1, HeldVisit
    <3> DEFINE row == PlannedVisit(edit[r].current, dto)
    <3>3. visit' = [visit EXCEPT ![edit[r].id] = row]
      BY <2>4 DEF CommitVisit
    <3> HIDE DEF row
    <3> QED
      BY <2>1, <3>2, <3>3 DEF KeepsEndedVisits, FollowUpTypeOK
  <2> QED
    BY <1>1, <2>2, <2>3, <2>4
       DEF FollowUpNext, Tick, AskTimeline, ReadKeys, ReadRows, Leave, CreateActivity,
           RemoveActivity, CreateFlow, DecideFlow, Abandon, LockActivity,
           CommitActivity, LockVisit
<1>2. FollowUpIInv /\ [FollowUpNext]_followUpVars => [KeepsEndedVisits]_followUpVars
  BY <1>1
<1> QED
  BY <1>2, FollowUpInductive, PTL DEF FollowUpSpec, VisitEndsOnce, KeepsEndedVisits
=============================================================================
