------------------------------ MODULE Collections ------------------------------
(***************************************************************************)
(* Automated collection of the instalments of a sale: rules generate one   *)
(* dispatch per instalment and day, runs send them by e-mail and try again *)
(* what failed, users retry or cancel them, and the distrato cancels them. *)
(*                                                                         *)
(* No handler but updateRule and the distrato opens a transaction, so each *)
(* awaited statement is an action and `proc' keeps what the code keeps in  *)
(* local variables between two of them.  The runs are that of the timer of *)
(* CollectionsAutomationService and those users post, which its `running'  *)
(* flag does not exclude.  Time is the half hours since lastAttemptAt.     *)
(***************************************************************************)
EXTENDS Integers, FiniteSets

CONSTANTS
  Rules,
  Receivables,  \* instalments of one sale, due on the day of the rules
  Timer,        \* the run of the timer
  Posted,       \* the runs users post
  Requests,     \* the retry and cancel requests of users
  MaxUpsets,    \* bound: retries, faults and late answers together
  Null

\* One scheduled day: @@unique([ruleId, receivableId, scheduledFor]).
Dispatches == Rules \X Receivables

Runs == {Timer} \cup Posted

ASSUME BoundAssumption == MaxUpsets \in Nat
ASSUME NullAssumption == Null \notin Dispatches \cup {0, 1, 2}

VARIABLES
  active,    \* CollectionRule.active
  status,    \* Receivable.status
  rescinded, \* Sale.status = DISTRATADA
  disp,      \* CollectionDispatch rows
  proc,      \* runs and requests in flight
  accepted,  \* dispatches whose e-mail the provider accepted
  retries,   \* retries asked for
  faults,    \* faults so far
  late       \* an attempt has taken more than half an hour

vars == <<active, status, rescinded, disp, proc, accepted, retries, faults, late>>

Absent == [status |-> "ABSENT", attempts |-> 0, age |-> Null, mail |-> FALSE]

DispatchRow ==
  [status   : {"PENDENTE", "ENVIANDO", "ENVIADO", "FALHOU", "CANCELADO"},
   attempts : 0..3,
   age      : {Null, 0, 1, 2},  \* of lastAttemptAt; 2 is an hour or more
   mail     : BOOLEAN]          \* recipient IS NOT NULL

Idle == [at |-> "idle", rules |-> {}, todo |-> {}, d |-> Null]

ProcState ==
  [at    : {"idle", "cancel", "rules", "generate", "create", "next",
            "send", "mark", "audit", "fail", "retry", "stop"},
   rules : SUBSET Rules,
   todo  : SUBSET Dispatches,
   d     : Dispatches \cup {Null}]

TypeOK ==
  /\ active \in [Rules -> BOOLEAN]
  /\ status \in [Receivables -> {"ABERTO", "PAGO", "CANCELADO"}]
  /\ rescinded \in BOOLEAN
  /\ disp \in [Dispatches -> DispatchRow \cup {Absent}]
  /\ proc \in [Runs \cup Requests -> ProcState]
  /\ accepted \in SUBSET Dispatches
  /\ retries \in 0..MaxUpsets
  /\ faults \in 0..MaxUpsets
  /\ late \in BOOLEAN

\* ensureDefaultRules and createRule left the rules active or not.
Init ==
  /\ active \in [Rules -> BOOLEAN]
  /\ status = [v \in Receivables |-> "ABERTO"]
  /\ rescinded = FALSE
  /\ disp = [d \in Dispatches |-> Absent]
  /\ proc = [p \in Runs \cup Requests |-> Idle]
  /\ accepted = {}
  /\ retries = 0
  /\ faults = 0
  /\ late = FALSE

Retryable(row) == row.status \in {"PENDENTE", "FALHOU"}

\* updateMany({status: in RETRYABLE_STATUSES, ...}, {status: CANCELADO})
CancelRetryable(D) ==
  [d \in Dispatches |->
     IF d \in D /\ Retryable(disp[d]) THEN [disp[d] EXCEPT !.status = "CANCELADO"]
     ELSE disp[d]]

\* A retry, a fault or the first attempt that is late.
MayUpset == retries + faults + (IF late THEN 1 ELSE 0) < MaxUpsets

Goto(p, at) == proc' = [proc EXCEPT ![p].at = at]

Env == <<active, status, rescinded, accepted, retries, faults, late>>

-----------------------------------------------------------------------------
(* run                                                                     *)

\* Mutant: an attempt interrupted by a stop of the server is not recovered.
BugStale(row) == FALSE

Stale(row) == row.status = "ENVIANDO" /\ row.age \in {1, 2}

\* runAll starts the run of the timer only where some rule is active.
StartRun(p) ==
  /\ proc[p] = Idle
  /\ p = Timer => \E r \in Rules : active[r]
  /\ disp' = [d \in Dispatches |->
                IF Stale(disp[d]) THEN [disp[d] EXCEPT !.status = "FALHOU"]
                ELSE disp[d]]
  /\ Goto(p, "cancel")
  /\ UNCHANGED Env

CancelClosed(p) ==
  /\ proc[p].at = "cancel"
  /\ disp' = CancelRetryable({d \in Dispatches : status[d[2]] # "ABERTO"})
  /\ Goto(p, "rules")
  /\ UNCHANGED Env

ReadRules(p) ==
  /\ proc[p].at = "rules"
  /\ proc' = [proc EXCEPT ![p].at = "generate",
                          ![p].rules = {r \in Rules : active[r]}]
  /\ UNCHANGED <<Env, disp>>

\* One iteration of the loop over the rules reads its open receivables of the
\* day; the day may be another one, which leaves none.
ReadReceivables(p) ==
  /\ proc[p].at = "generate"
  /\ \E r \in proc[p].rules, today \in BOOLEAN :
       proc' = [proc EXCEPT
                  ![p].at = "create",
                  ![p].rules = @ \ {r},
                  ![p].todo = {d \in {r} \X Receivables :
                                 today /\ status[d[2]] = "ABERTO"}]
  /\ UNCHANGED <<Env, disp>>

\* createMany with skipDuplicates; the first buyer may have no e-mail.
Create(p) ==
  /\ proc[p].at = "create"
  /\ \E mail \in BOOLEAN :
       disp' = [d \in Dispatches |->
                  IF d \in proc[p].todo /\ disp[d] = Absent
                  THEN [Absent EXCEPT !.status = "PENDENTE", !.mail = mail]
                  ELSE disp[d]]
  /\ proc' = [proc EXCEPT ![p].at = "generate", ![p].todo = {}]
  /\ UNCHANGED Env

Candidate(row) ==
  /\ row.attempts < 3
  /\ row.status = "PENDENTE" \/ (row.status = "FALHOU" /\ row.age = 2)

ReadCandidates(p) ==
  /\ proc[p].at = "generate"
  /\ proc[p].rules = {}
  /\ proc' = [proc EXCEPT ![p].at = "next",
                          ![p].todo = {d \in Dispatches : Candidate(disp[d])}]
  /\ UNCHANGED <<Env, disp>>

EndRun(p) ==
  /\ proc[p].at = "next"
  /\ proc[p].todo = {}
  /\ proc' = [proc EXCEPT ![p] = Idle]
  /\ UNCHANGED <<Env, disp>>

-----------------------------------------------------------------------------
(* sendDispatch                                                            *)

\* Mutant: a dispatch being sent can be claimed.
BugNotSending(row) == row.status # "CANCELADO" /\ row.attempts < 3

Claimable(row) == Retryable(row) /\ row.attempts < 3

Claim(p, d) ==
  /\ proc[p].at = "next"
  /\ d \in proc[p].todo
  /\ IF Claimable(disp[d])
     THEN /\ disp' = [disp EXCEPT ![d].status = "ENVIANDO",
                                  ![d].attempts = @ + 1, ![d].age = 0]
          /\ proc' = [proc EXCEPT ![p].at = IF disp[d].mail THEN "send" ELSE "fail",
                                  ![p].todo = @ \ {d}, ![p].d = d]
     ELSE /\ proc' = [proc EXCEPT ![p].todo = @ \ {d}]
          /\ disp' = disp
  /\ UNCHANGED Env

\* Mutant: the error the provider returns is not looked at.
BugSend(p) ==
  /\ proc[p].at = "send"
  /\ accepted' \in {accepted, accepted \cup {proc[p].d}}
  /\ Goto(p, "mark")
  /\ UNCHANGED <<active, status, rescinded, disp, retries, faults, late>>

\* The provider refuses the e-mail, or accepts it; its answer may be lost.
Send(p) ==
  /\ proc[p].at = "send"
  /\ \/ accepted' = accepted \cup {proc[p].d} /\ Goto(p, "mark")
     \/ accepted' \in {accepted, accepted \cup {proc[p].d}} /\ Goto(p, "fail")
  /\ UNCHANGED <<active, status, rescinded, disp, retries, faults, late>>

Mark(p) ==
  /\ proc[p].at = "mark"
  /\ disp' = [disp EXCEPT ![proc[p].d].status = "ENVIADO"]
  /\ Goto(p, "audit")
  /\ UNCHANGED Env

Audit(p) ==
  /\ proc[p].at = "audit"
  /\ proc' = [proc EXCEPT ![p].at = "next", ![p].d = Null]
  /\ UNCHANGED <<Env, disp>>

\* markFailed
Fail(p) ==
  /\ proc[p].at = "fail"
  /\ disp' = [disp EXCEPT ![proc[p].d].status = "FALHOU"]
  /\ proc' = [proc EXCEPT ![p].at = "next", ![p].d = Null]
  /\ UNCHANGED Env

-----------------------------------------------------------------------------
(* retry, cancel and updateRule                                            *)

Retry(p, d) ==
  /\ MayUpset
  /\ proc[p] = Idle
  /\ disp[d].status \notin {"ABSENT", "ENVIADO", "CANCELADO"}
  /\ proc' = [proc EXCEPT ![p].at = "retry", ![p].d = d]
  /\ retries' = retries + 1
  /\ UNCHANGED <<active, status, rescinded, disp, accepted, faults, late>>

Requeue(p) ==
  /\ proc[p].at = "retry"
  /\ disp' = [disp EXCEPT ![proc[p].d].status = "PENDENTE",
                          ![proc[p].d].attempts = 0, ![proc[p].d].age = Null]
  /\ proc' = [proc EXCEPT ![p].at = "next", ![p].todo = {proc[p].d}, ![p].d = Null]
  /\ UNCHANGED Env

Cancel(p, d) ==
  /\ proc[p] = Idle
  /\ disp[d].status \notin {"ABSENT", "ENVIADO"}
  /\ proc' = [proc EXCEPT ![p].at = "stop", ![p].d = d]
  /\ UNCHANGED <<Env, disp>>

Stop(p) ==
  /\ proc[p].at = "stop"
  /\ disp' = [disp EXCEPT ![proc[p].d].status = "CANCELADO"]
  /\ proc' = [proc EXCEPT ![p] = Idle]
  /\ UNCHANGED Env

UpdateRule(r, value) ==
  /\ active' = [active EXCEPT ![r] = value]
  /\ disp' = IF value THEN disp ELSE CancelRetryable({r} \X Receivables)
  /\ UNCHANGED <<status, rescinded, proc, accepted, retries, faults, late>>

-----------------------------------------------------------------------------
(* The receivables (module Receivables), the clock and faults.             *)

\* recordPayment of what was left, reversePayment, cancel
ChangeReceivable(v, old, new) ==
  /\ status[v] = old
  /\ status' = [status EXCEPT ![v] = new]
  /\ UNCHANGED <<active, rescinded, disp, proc, accepted, retries, faults, late>>

\* SaleCancellationsService.cancel
Distrato ==
  /\ ~rescinded
  /\ \A v \in Receivables : status[v] # "PAGO"
  /\ rescinded' = TRUE
  /\ status' = [v \in Receivables |-> "CANCELADO"]
  /\ disp' = CancelRetryable(Dispatches)
  /\ UNCHANGED <<active, proc, accepted, retries, faults, late>>

Sending(p) == proc[p].at \in {"send", "mark", "audit", "fail"}

\* Half an hour passes; an attempt may still wait for its answer.
Tick ==
  /\ \E d \in Dispatches : disp[d].age \in {0, 1}
  /\ late' = (late \/ \E p \in Runs \cup Requests : Sending(p))
  /\ late' # late => MayUpset
  /\ disp' = [d \in Dispatches |->
                IF disp[d].age \in {0, 1} THEN [disp[d] EXCEPT !.age = @ + 1]
                ELSE disp[d]]
  /\ UNCHANGED <<active, status, rescinded, proc, accepted, retries, faults>>

Fault == MayUpset /\ faults' = faults + 1

\* A statement throws: within the try of sendDispatch it is caught, elsewhere
\* it ends the run or the request.
Throw(p) ==
  /\ Fault
  /\ proc[p] # Idle
  /\ proc' = [proc EXCEPT
                ![p] = IF @.at \in {"mark", "audit"} THEN [@ EXCEPT !.at = "fail"]
                       ELSE Idle]
  /\ UNCHANGED <<active, status, rescinded, disp, accepted, retries, late>>

\* The server stops and starts again.
Crash ==
  /\ Fault
  /\ \E p \in Runs \cup Requests : proc[p] # Idle
  /\ proc' = [p \in Runs \cup Requests |-> Idle]
  /\ UNCHANGED <<active, status, rescinded, disp, accepted, retries, late>>

-----------------------------------------------------------------------------
\* What a process in flight does next.
Step(p) ==
  \/ CancelClosed(p)
  \/ ReadRules(p)
  \/ ReadReceivables(p)
  \/ Create(p)
  \/ ReadCandidates(p)
  \/ EndRun(p)
  \/ \E d \in Dispatches : Claim(p, d)
  \/ Send(p)
  \/ Mark(p)
  \/ Audit(p)
  \/ Fail(p)
  \/ Requeue(p)
  \/ Stop(p)

UserNext ==
  \/ \E p \in Posted : StartRun(p)
  \/ \E p \in Requests, d \in Dispatches : Retry(p, d) \/ Cancel(p, d)
  \/ \E r \in Rules, value \in BOOLEAN : UpdateRule(r, value)
  \/ \E v \in Receivables :
       \/ ChangeReceivable(v, "ABERTO", "PAGO")
       \/ ChangeReceivable(v, "PAGO", "ABERTO")
       \/ ChangeReceivable(v, "ABERTO", "CANCELADO")
  \/ Distrato

FaultNext == (\E p \in Runs \cup Requests : Throw(p)) \/ Crash

Next ==
  \/ StartRun(Timer)
  \/ \E p \in Runs \cup Requests : Step(p)
  \/ UserNext
  \/ Tick
  \/ FaultNext

Spec == Init /\ [][Next]_vars

\* setInterval starts a run every fifteen minutes, an awaited statement
\* returns or throws, and time passes.
Fairness ==
  /\ WF_vars(StartRun(Timer))
  /\ \A p \in Runs \cup Requests : WF_vars(Step(p))
  /\ WF_vars(Tick)

FairSpec == Spec /\ Fairness

-----------------------------------------------------------------------------
\* A dispatch is ENVIADO only when the provider accepted its e-mail: neither a
\* refusal nor an attempt that overtakes another one is reported as sent.
SentWasAccepted ==
  \A d \in Dispatches : disp[d].status = "ENVIADO" => d \in accepted

\* As long as nobody asks for a retry and the provider answers within half an
\* hour, no two runs are sending the same dispatch, stops of the server
\* included; and no dispatch is attempted more than three times (TypeOK),
\* late or retried as it may be.
OneSenderPerDispatch ==
  /\ TypeOK
  /\ ~late /\ retries = 0 =>
       \A p1, p2 \in Runs \cup Requests :
         Sending(p1) /\ Sending(p2) /\ proc[p1].d = proc[p2].d => p1 = p2

Decided(row) ==
  \/ row.status \in {"ENVIADO", "CANCELADO"}
  \/ row.status = "FALHOU" /\ row.attempts = 3

\* A dispatch does not stay half sent: while its rule is active it ends up
\* sent, cancelled or failed three times, although the server may stop in the
\* middle of an attempt; unless the provider keeps a sender waiting for more
\* than half an hour, or a user asks for a retry.
EventuallyDecided ==
  \A d \in Dispatches :
    disp[d].status # "ABSENT" ~> Decided(disp[d]) \/ ~active[d[1]] \/ late \/ retries > 0

=============================================================================
