------------------------------ MODULE FollowUp ------------------------------
(* What is done about an opportunity: activities, visits, and the timeline  *)
(* that lists them page by page with the events of the commercial flow      *)
(* (src/src/crm).                                                           *)
(*                                                                          *)
(* A request that edits a row locks and reads it, and later plans, writes   *)
(* and commits; other requests run between the two.  A reader of the        *)
(* timeline asks for a page, is given its keys, then its rows, and asks for *)
(* the next with the cursor it was given.  Time passes between any steps.   *)
(* The units suggested for the opportunity are those of UnitMatching.       *)
(* Texts are kept only as far as they are present, absent or blank; the     *)
(* user in charge, the place and the length of a visit are not kept.        *)
EXTENDS UnitMatching, Sequences, SequencesExt

CONSTANTS
  Activities,   \* identities of SalesActivity rows
  Visits,       \* identities of SalesVisit rows
  Flows,        \* identities of reservations, proposals, sales, stage changes
  Order,        \* the identities above, as the timeline orders equal instants
  Edits,        \* requests that edit, in flight at once
  Limit,        \* events of a page
  OtherStatuses,  \* of an activity, besides PENDENTE and CONCLUIDA
  MaxTime,      \* bound: the clock stops here
  Keep          \* a field that a request does not send

VARIABLES
  now,        \* the clock
  activity,   \* SalesActivity rows
  visit,      \* SalesVisit rows
  flow,       \* instants of the other events
  edit,       \* requests that edit a row, in flight
  reader,     \* the reader of the timeline
  stable,     \* keys that did not change since the reader began
  shown       \* those of them that it was shown

followUpVars == <<now, activity, visit, flow, edit, reader, stable, shown>>

Times == 0..MaxTime
Missing == [absent |-> TRUE]

ASSUME TimeAssumption == MaxTime \in Nat
ASSUME LimitAssumption == Limit \in Nat \ {0}

ActivityStatuses == {"PENDENTE", "CONCLUIDA"} \cup OtherStatuses

ActivityRow ==
  [status      : ActivityStatuses,
   scheduledAt : Times \cup {None},
   completedAt : Times \cup {None},
   createdAt   : Times]

VisitStatuses == {"AGENDADA", "REALIZADA", "CANCELADA", "NAO_COMPARECEU"}

ASSUME KeepAssumption == Keep \notin ActivityStatuses \cup VisitStatuses

\* Texts: given or None.
VisitRow ==
  [status      : VisitStatuses,
   scheduledAt : Times,
   result      : {"text", None},
   reason      : {"text", None},
   completedAt : Times \cup {None},
   cancelledAt : Times \cup {None}]

FlowRow == [at : Times]

Resting == [at |-> "idle"]

EditState ==
  {Resting}
    \cup [at : {"activity"}, id : Activities, current : ActivityRow]
    \cup [at : {"visit"}, id : Visits, current : VisitRow]

Ids == Activities \cup Visits \cup Flows
Key == [id : Ids, at : Times]

ASSUME OrderAssumption == Order \in Seq(Ids) /\ Range(Order) = Ids /\ IsInjective(Order)
ASSUME CursorAssumption == None \notin Key

ReaderState ==
  {Resting}
    \cup [at : {"ask"}, after : Key \cup {None}]
    \cup [at : {"rows"}, keys : Seq(Key), more : BOOLEAN]
    \cup [at : {"done"}]
-----------------------------------------------------------------------------
(* Locks of rows, given up when the request ends.                           *)

\* Mutant: the row is read without being locked.
BugRowUnlocked(kind, id) == TRUE

RowUnlocked(kind, id) == \A r \in Edits : edit[r].at = kind => edit[r].id # id

EndEdit(r) == edit' = [edit EXCEPT ![r] = Resting]

\* A refusal or a crash.
Abandon(r) ==
  /\ edit[r] # Resting
  /\ EndEdit(r)
  /\ UNCHANGED <<now, activity, visit, flow, reader, stable, shown>>
-----------------------------------------------------------------------------
(* The timeline's projection of the rows.                                   *)

Coalesce(column, otherwise) == IF column # None THEN column ELSE otherwise

ActivityAt(row) == Coalesce(row.completedAt, row.createdAt)

VisitAt(row) == Coalesce(row.completedAt, Coalesce(row.cancelledAt, row.scheduledAt))

Keys ==
  {k \in Key :
     \/ /\ k.id \in Activities
        /\ activity[k.id] # Missing
        /\ k.at = ActivityAt(activity[k.id])
     \/ /\ k.id \in Visits
        /\ visit[k.id] # Missing
        /\ k.at = VisitAt(visit[k.id])
     \/ /\ k.id \in Flows
        /\ flow[k.id] # Missing
        /\ k.at = flow[k.id].at}

IdBefore(i, j) ==
  \E m, n \in 1..Len(Order) : m < n /\ Order[m] = i /\ Order[n] = j

\* Newest first; by identity among those of one instant.
Before(k, l) == k.at > l.at \/ (k.at = l.at /\ IdBefore(k.id, l.id))

\* Mutant: the boundary leaves out the rest of the instant of the cursor.
BugBeyond(after) == IF after = None THEN Keys ELSE {k \in Keys : k.at < after.at}

Beyond(after) == IF after = None THEN Keys ELSE {k \in Keys : Before(after, k)}

\* In order: the i-th has i - 1 before it.
Sorted(S) ==
  [i \in 1..Cardinality(S) |->
     CHOOSE k \in S : Cardinality({l \in S : Before(l, k)}) = i - 1]

AskTimeline ==
  /\ reader = Resting
  /\ reader' = [at |-> "ask", after |-> None]
  /\ stable' = Keys
  /\ shown' = {}
  /\ UNCHANGED <<now, activity, visit, flow, edit>>

\* findOpportunityTimeline, its first query: one key more than the page.
ReadKeys ==
  /\ reader.at = "ask"
  /\ LET sorted == Sorted(Beyond(reader.after))
     IN reader' = IF sorted = <<>>
          THEN [at |-> "done"]
          ELSE [at |-> "rows", keys |-> SubSeq(sorted, 1, Min({Limit, Len(sorted)})),
                more |-> Len(sorted) > Limit]
  /\ UNCHANGED <<now, activity, visit, flow, edit, stable, shown>>

\* Then the rows of the page: one deleted meanwhile is left out, one that
\* changed is shown at the instant of its key.
ReadRows ==
  /\ reader.at = "rows"
  /\ reader' = IF reader.more
                 THEN [at |-> "ask", after |-> Last(reader.keys)]
                 ELSE [at |-> "done"]
  /\ shown' = shown \cup (ToSet(reader.keys) \cap stable)
  /\ UNCHANGED <<now, activity, visit, flow, edit, stable>>

Leave ==
  /\ reader.at = "done"
  /\ reader' = Resting
  /\ stable' = {}
  /\ shown' = {}
  /\ UNCHANGED <<now, activity, visit, flow, edit>>

\* A write: what it changes is no longer stable for the reader.
Written ==
  /\ stable' = stable \cap Keys'
  /\ shown' = shown \cap Keys'
-----------------------------------------------------------------------------
(* Activities.                                                              *)

\* Dates are compared when both are given; a conclusion has its status.
ActivityAccepted(row) ==
  /\ row.scheduledAt # None /\ row.completedAt # None
       => row.completedAt >= row.scheduledAt
  /\ row.completedAt # None => row.status = "CONCLUIDA"

Given(sent, otherwise) == IF sent = Keep THEN otherwise ELSE sent

\* The status that is sent, or the one that the conclusion sent implies.
StatusSent(dto, otherwise) ==
  IF dto.status # Keep THEN dto.status
  ELSE IF dto.completedAt = Keep THEN otherwise
  ELSE IF dto.completedAt # None THEN "CONCLUIDA" ELSE "PENDENTE"

CreatedActivity(dto) ==
  LET status == StatusSent(dto, "PENDENTE")
      completedAt == Given(dto.completedAt, None)
  IN [status      |-> status,
      scheduledAt |-> Given(dto.scheduledAt, None),
      completedAt |-> IF status = "CONCLUIDA" /\ completedAt = None
                        THEN now ELSE completedAt,
      createdAt   |-> now]

CreateActivity(a, dto) ==
  /\ activity[a] = Missing
  /\ ActivityAccepted(CreatedActivity(dto))
  /\ activity' = [activity EXCEPT ![a] = CreatedActivity(dto)]
  /\ UNCHANGED <<now, visit, flow, edit, reader>>
  /\ Written

LockActivity(r, a) ==
  /\ edit[r] = Resting
  /\ activity[a] # Missing
  /\ RowUnlocked("activity", a)
  /\ edit' = [edit EXCEPT ![r] = [at |-> "activity", id |-> a, current |-> activity[a]]]
  /\ UNCHANGED <<now, activity, visit, flow, reader, stable, shown>>

\* Mutant: the present instant is the conclusion only of what is created.
BugUpdatedActivity(current, dto) ==
  LET status == StatusSent(dto, current.status)
  IN [current EXCEPT
       !.status = status,
       !.scheduledAt = Given(dto.scheduledAt, @),
       !.completedAt = IF status # "CONCLUIDA" /\ dto.status # Keep
                         THEN None ELSE Given(dto.completedAt, @)]

UpdatedActivity(current, dto) ==
  LET status == StatusSent(dto, current.status)
      completedAt == Given(dto.completedAt, current.completedAt)
  IN [current EXCEPT
       !.status = status,
       !.scheduledAt = Given(dto.scheduledAt, @),
       !.completedAt = IF status = "CONCLUIDA"
                         THEN IF completedAt # None THEN completedAt ELSE now
                         ELSE IF dto.status # Keep THEN None ELSE completedAt]

CommitActivity(r, dto) ==
  /\ edit[r].at = "activity"
  /\ LET row == UpdatedActivity(edit[r].current, dto)
     IN /\ ActivityAccepted(row)
        /\ activity' = [activity EXCEPT ![edit[r].id] = row]
  /\ EndEdit(r)
  /\ UNCHANGED <<now, visit, flow, reader>>
  /\ Written

RemoveActivity(a) ==
  /\ activity[a] # Missing
  /\ RowUnlocked("activity", a)
  /\ activity' = [activity EXCEPT ![a] = Missing]
  /\ UNCHANGED <<now, visit, flow, edit, reader>>
  /\ Written
-----------------------------------------------------------------------------
(* Visits.                                                                  *)

CreateVisit(v, scheduledAt) ==
  /\ visit[v] = Missing
  /\ visit' = [visit EXCEPT ![v] =
       [status |-> "AGENDADA", scheduledAt |-> scheduledAt, result |-> None,
        reason |-> None, completedAt |-> None, cancelledAt |-> None]]
  /\ UNCHANGED <<now, activity, flow, edit, reader>>
  /\ Written

\* planSalesVisitUpdate refuses what is not scheduled any more: the request
\* that meets one rolls back.
LockVisit(r, v) ==
  /\ edit[r] = Resting
  /\ visit[v] # Missing
  /\ RowUnlocked("visit", v)
  /\ visit[v].status = "AGENDADA"
  /\ edit' = [edit EXCEPT ![r] = [at |-> "visit", id |-> v, current |-> visit[v]]]
  /\ UNCHANGED <<now, activity, visit, flow, reader, stable, shown>>

TextOrNull(sent) == IF sent = "text" THEN sent ELSE None

\* What may be sent for each status: the schedule only while it stays
\* scheduled, a result only of a visit that took place, a reason only, and
\* always, of a cancellation.
VisitAccepted(dto) ==
  LET status == Given(dto.status, "AGENDADA") IN
  /\ dto.scheduledAt # Keep => status = "AGENDADA" /\ dto.scheduledAt # None
  /\ dto.result # Keep => status = "REALIZADA"
  /\ dto.reason # Keep => status = "CANCELADA"
  /\ status = "CANCELADA" => TextOrNull(dto.reason) # None

PlannedVisit(current, dto) ==
  CASE Given(dto.status, "AGENDADA") = "AGENDADA" ->
         [current EXCEPT !.scheduledAt = Given(dto.scheduledAt, @)]
    [] dto.status = "REALIZADA" ->
         [current EXCEPT !.status = dto.status, !.result = TextOrNull(dto.result),
                         !.completedAt = now, !.cancelledAt = None, !.reason = None]
    [] dto.status = "NAO_COMPARECEU" ->
         [current EXCEPT !.status = dto.status, !.result = None,
                         !.completedAt = now, !.cancelledAt = None, !.reason = None]
    [] dto.status = "CANCELADA" ->
         [current EXCEPT !.status = dto.status, !.result = None, !.completedAt = None,
                         !.cancelledAt = now, !.reason = TextOrNull(dto.reason)]

CommitVisit(r, dto) ==
  /\ edit[r].at = "visit"
  /\ visit' = [visit EXCEPT ![edit[r].id] = PlannedVisit(edit[r].current, dto)]
  /\ EndEdit(r)
  /\ UNCHANGED <<now, activity, flow, reader>>
  /\ Written
-----------------------------------------------------------------------------
(* The other events: created now, and moved to now by what decides them.    *)

CreateFlow(f) ==
  /\ flow[f] = Missing
  /\ flow' = [flow EXCEPT ![f] = [at |-> now]]
  /\ UNCHANGED <<now, activity, visit, edit, reader>>
  /\ Written

DecideFlow(f) ==
  /\ flow[f] # Missing
  /\ flow' = [flow EXCEPT ![f] = [at |-> now]]
  /\ UNCHANGED <<now, activity, visit, edit, reader>>
  /\ Written

Tick ==
  /\ now < MaxTime
  /\ now' = now + 1
  /\ UNCHANGED <<activity, visit, flow, edit, reader, stable, shown>>
-----------------------------------------------------------------------------
FollowUpInit ==
  /\ now = 0
  /\ activity = [a \in Activities |-> Missing]
  /\ visit = [v \in Visits |-> Missing]
  /\ flow = [f \in Flows |-> Missing]
  /\ edit = [r \in Edits |-> Resting]
  /\ reader = Resting
  /\ stable = {}
  /\ shown = {}

\* What may be sent of an activity: None clears a date.
ActivityDto ==
  [status      : ActivityStatuses \cup {Keep},
   scheduledAt : Times \cup {None, Keep},
   completedAt : Times \cup {None, Keep}]

VisitDto ==
  [status      : VisitStatuses \cup {Keep},
   scheduledAt : Times \cup {None, Keep},
   result      : {"text", "blank", Keep},
   reason      : {"text", "blank", Keep}]

AcceptedVisitDto == {dto \in VisitDto : VisitAccepted(dto)}

FollowUpNext ==
  \/ Tick
  \/ AskTimeline \/ ReadKeys \/ ReadRows \/ Leave
  \/ \E a \in Activities :
       \/ \E dto \in ActivityDto : CreateActivity(a, dto)
       \/ RemoveActivity(a)
  \/ \E v \in Visits, at \in Times : CreateVisit(v, at)
  \/ \E f \in Flows : CreateFlow(f) \/ DecideFlow(f)
  \/ \E r \in Edits :
       \/ Abandon(r)
       \/ \E a \in Activities : LockActivity(r, a)
       \/ \E dto \in ActivityDto : CommitActivity(r, dto)
       \/ \E v \in Visits : LockVisit(r, v)
       \/ \E dto \in AcceptedVisitDto : CommitVisit(r, dto)

FollowUpSpec == FollowUpInit /\ [][FollowUpNext]_followUpVars
-----------------------------------------------------------------------------
(* Properties.                                                              *)

FollowUpTypeOK ==
  /\ now \in Times
  /\ activity \in [Activities -> ActivityRow \cup {Missing}]
  /\ visit \in [Visits -> VisitRow \cup {Missing}]
  /\ flow \in [Flows -> FlowRow \cup {Missing}]
  /\ edit \in [Edits -> EditState]
  /\ reader \in ReaderState
  /\ stable \subseteq Key
  /\ shown \subseteq stable

ActivityRight(row) ==
  /\ (row.completedAt # None) = (row.status = "CONCLUIDA")
  /\ row.completedAt # None /\ row.scheduledAt # None
       => row.completedAt >= row.scheduledAt

VisitRight(row) ==
  /\ (row.completedAt # None) = (row.status \in {"REALIZADA", "NAO_COMPARECEU"})
  /\ (row.cancelledAt # None) = (row.status = "CANCELADA")
  /\ (row.reason # None) = (row.status = "CANCELADA")
  /\ row.result # None => row.status = "REALIZADA"

\* FollowUpConsistent: whatever subset of its fields each edit sends, an
\* activity is CONCLUIDA exactly when it has a conclusion, never before its
\* schedule, and a visit shows the instants, result and reason of its status
\* and of no other (createActivity, updateActivity, planSalesVisitUpdate); the
\* units suggested for it are scored alike by the query and by presentUnitMatch,
\* and those that meet every preference come first.
FollowUpConsistent ==
  /\ FollowUpTypeOK
  /\ ScoresAgree
  /\ FitFirst
  /\ \A a \in Activities : activity[a] # Missing => ActivityRight(activity[a])
  /\ \A v \in Visits : visit[v] # Missing => VisitRight(visit[v])

\* VisitEndsOnce: a visit that took place, was missed or was cancelled never
\* changes again, with two users ending it at once ("The locked database row,
\* not the client's stale copy, is authoritative", sales-visit-transition.ts).
VisitEndsOnce ==
  [][\A v \in Visits :
       visit[v] # Missing /\ visit[v].status # "AGENDADA" => visit'[v] = visit[v]]_followUpVars

\* TimelineComplete: a reader who follows the cursor to its end was shown every
\* event that neither moved nor went meanwhile, in spite of those that came,
\* moved or went between its pages, and is given none of them twice (timelineKeysQuery, findOpportunityTimeline).
TimelineComplete ==
  /\ reader.at = "done" => shown = stable
  /\ reader.at = "rows" => ToSet(reader.keys) \cap shown = {}
=============================================================================
