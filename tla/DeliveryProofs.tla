---------------------------- MODULE DeliveryProofs --------------------------
(***************************************************************************)
(* What the two senders of e-mail never do.                                *)
(*                                                                         *)
(* Collections: only accepted e-mails are reported as sent, no dispatch is *)
(* attempted more than three times and no two runs send the same one, for  *)
(* any number of rules, instalments, runs, requests and upsets.  The       *)
(* inductive invariant says that the row of a dispatch being sent cannot   *)
(* be claimed.                                                             *)
(*                                                                         *)
(* Notifications, at the end: every attempt to deliver one is accounted    *)
(* for and no two calls deliver the same one, for any number of            *)
(* notifications and of calls.  An inductive invariant ties the invariants *)
(* the run checks to what each call holds: what it delivers is             *)
(* PROCESSANDO, for the attempt it remembers, and nobody else delivers it. *)
(* The two components share no row and no name; their proofs are side by   *)
(* side.                                                                   *)
(***************************************************************************)
EXTENDS Collections, Notifications, TLAPS

Procs == Runs \cup Requests

\* Nobody asked for a retry and no attempt took more than half an hour.
Calm == ~late /\ retries = 0

\* A row that no run claims: being sent, sent or cancelled, the attempt being
\* less than half an hour old.
Taken(row) == row.status \in {"ENVIANDO", "ENVIADO", "CANCELADO"} /\ row.age = 0

Holding(p) == Sending(p) \/ proc[p].at \in {"retry", "stop"}

\* What process p knows of the dispatch it works on.
Held(p) ==
  /\ Holding(p) => /\ proc[p].d \in Dispatches
                   /\ disp[proc[p].d].status # "ABSENT"
  /\ proc[p].at = "mark" => proc[p].d \in accepted
  /\ proc[p].at = "retry" => retries > 0
  /\ Sending(p) /\ Calm => Taken(disp[proc[p].d])

IInv ==
  /\ \A p \in Procs : Held(p)
  /\ SentWasAccepted
  /\ OneSenderPerDispatch

-----------------------------------------------------------------------------
(* Types.                                                                  *)

LEMMA RowType ==
  ASSUME TypeOK, NEW d \in Dispatches
  PROVE  /\ disp[d].status # "ABSENT" => disp[d] \in DispatchRow
         /\ disp[d].status = "ABSENT" => disp[d] = Absent
BY DEF TypeOK, DispatchRow, Absent

\* A state of a process that goes on.
LEMMA ProcType ==
  ASSUME TypeOK, NEW p \in Procs
  PROVE  /\ proc[p] \in ProcState
         /\ proc[p].at \in {"idle", "cancel", "rules", "generate", "create", "next",
                            "send", "mark", "audit", "fail", "retry", "stop"}
         /\ proc[p].rules \in SUBSET Rules
         /\ proc[p].todo \in SUBSET Dispatches
         /\ proc[p].d \in Dispatches \cup {Null}
BY DEF TypeOK, ProcState, Procs

\* No dispatch and no process at first.
LEMMA InitInv == Init => IInv
<1> SUFFICES ASSUME Init PROVE IInv
  OBVIOUS
<1>1. TypeOK
  <2>1. Idle \in ProcState
    BY DEF Idle, ProcState
  <2>2. 0 \in 0..MaxUpsets
    BY BoundAssumption
  <2> QED
    BY <2>1, <2>2 DEF Init, TypeOK
<1>2. \A p \in Procs : Held(p)
  BY DEF Init, Held, Holding, Sending, Idle, Procs
<1>3. SentWasAccepted
  BY DEF Init, SentWasAccepted, Absent
<1>4. OneSenderPerDispatch
  BY <1>1 DEF Init, OneSenderPerDispatch, Sending, Idle
<1> QED
  BY <1>2, <1>3, <1>4 DEF IInv

-----------------------------------------------------------------------------
(* Steps of one process.                                                   *)

Becomes(p, x) == proc' = [proc EXCEPT ![p] = x]

\* What others do to the rows leaves what a process that waits knows.
LEMMA OthersHold ==
  ASSUME NEW p \in Procs, Held(p), proc'[p] = proc[p],
         accepted \subseteq accepted', retries > 0 => retries' > 0, Calm' => Calm,
         \A d \in Dispatches : disp[d].status # "ABSENT" => disp'[d].status # "ABSENT",
         Sending(p) /\ Calm' => Taken(disp'[proc[p].d])
  PROVE  Held(p)'
BY DEF Held, Holding, Sending

\* Process p becomes x.  If x sends, it was sending the same dispatch already,
\* or nobody was; and no row that another one sends is changed.
LEMMA ProcStep ==
  ASSUME IInv, NEW p \in Procs, NEW x \in ProcState, Becomes(p, x),
         disp' \in [Dispatches -> DispatchRow \cup {Absent}],
         accepted' \in SUBSET Dispatches, accepted \subseteq accepted',
         retries' \in 0..MaxUpsets, retries <= retries',
         faults' \in 0..MaxUpsets,
         UNCHANGED <<active, status, rescinded, late>>,
         \A d \in Dispatches : disp[d].status # "ABSENT" => disp'[d].status # "ABSENT",
         \A d \in Dispatches : disp'[d].status = "ENVIADO" => d \in accepted',
         \A q \in Procs \ {p} :
           Sending(q) /\ Calm => Taken(disp'[proc[q].d]),
         \A q \in Procs \ {p} :
           x.at \in {"send", "mark", "audit", "fail"} /\ Sending(q) /\ Calm' => proc[q].d # x.d,
         Held(p)'
  PROVE  IInv'
<1>0. TypeOK
  BY DEF IInv, OneSenderPerDispatch
<1>1. /\ proc' \in [Procs -> ProcState]
      /\ proc'[p] = x
      /\ \A q \in Procs \ {p} : proc'[q] = proc[q]
  BY <1>0 DEF TypeOK, Procs, Becomes
<1>2. TypeOK'
  BY <1>0, <1>1 DEF TypeOK, Procs
<1>3. /\ Calm' => Calm
      /\ retries > 0 => retries' > 0
  BY <1>0 DEF Calm, TypeOK
<1>4. \A q \in Procs : Held(q)'
  BY <1>1, <1>3, OthersHold DEF IInv
<1>5. SentWasAccepted'
  BY DEF SentWasAccepted
<1>6. OneSenderPerDispatch'
  <2> SUFFICES ASSUME Calm', NEW p1 \in Procs, NEW p2 \in Procs,
                      Sending(p1)', Sending(p2)', proc'[p1].d = proc'[p2].d, p1 # p2
               PROVE  FALSE
    BY <1>2 DEF OneSenderPerDispatch, Procs, Calm
  <2>1. CASE p1 # p /\ p2 # p
    BY <1>1, <1>3, <2>1 DEF IInv, OneSenderPerDispatch, Procs, Calm, Sending
  <2>2. CASE p1 = p \/ p2 = p
    BY <1>1, <2>2 DEF Sending
  <2> QED
    BY <2>1, <2>2
<1> QED
  BY <1>4, <1>5, <1>6 DEF IInv

\* A step that changes neither a row nor what was accepted, where p goes on
\* without starting to send.
LEMMA QuietStep ==
  ASSUME IInv, NEW p \in Procs, NEW x \in ProcState, Becomes(p, x),
         UNCHANGED <<active, status, rescinded, disp, accepted, late>>,
         retries' \in 0..MaxUpsets, retries <= retries', faults' \in 0..MaxUpsets,
         x.at \in {"send", "mark", "audit", "fail"} => Sending(p) /\ x.d = proc[p].d,
         x.at = "mark" => x.d \in accepted,
         x.at = "retry" => retries' > 0,
         x.at \in {"retry", "stop"} => x.d \in Dispatches /\ disp[x.d].status # "ABSENT"
  PROVE  IInv'
<1>0. TypeOK
  BY DEF IInv, OneSenderPerDispatch
<1>1. proc'[p] = x
  BY <1>0 DEF TypeOK, Procs, Becomes
<1>2. Calm' => Calm
  BY <1>0 DEF Calm, TypeOK
<1>3. Held(p) /\ \A q \in Procs : Sending(q) /\ Calm => Taken(disp[proc[q].d])
  BY DEF IInv, Held
<1>4. Held(p)'
  BY <1>1, <1>2, <1>3 DEF Held, Holding, Sending
<1>5. disp' \in [Dispatches -> DispatchRow \cup {Absent}] /\ accepted' \in SUBSET Dispatches
  BY <1>0 DEF TypeOK
<1>6. \A d \in Dispatches : disp'[d].status = "ENVIADO" => d \in accepted'
  BY DEF IInv, SentWasAccepted
<1>7. \A q \in Procs \ {p} :
        x.at \in {"send", "mark", "audit", "fail"} /\ Sending(q) /\ Calm' => proc[q].d # x.d
  BY <1>2 DEF IInv, OneSenderPerDispatch, Procs, Calm
<1> QED
  BY <1>3, <1>4, <1>5, <1>6, <1>7, ProcStep

\* The steps of a run that read, those of an answer and those of a user.
LEMMA ReadStepInv ==
  ASSUME IInv, NEW p \in Procs,
         \/ ReadRules(p) \/ ReadReceivables(p) \/ ReadCandidates(p)
         \/ EndRun(p) \/ Audit(p) \/ Throw(p)
         \/ \E d \in Dispatches : Cancel(p, d) \/ Retry(p, d)
  PROVE  IInv'
<1>0. /\ TypeOK
      /\ retries \in 0..MaxUpsets /\ faults \in 0..MaxUpsets
      /\ MaxUpsets \in Nat
  BY BoundAssumption DEF IInv, OneSenderPerDispatch, TypeOK
<1>i. Idle \in ProcState /\ Idle.at = "idle"
  BY DEF Idle, ProcState
<1>1. CASE ReadRules(p)
  <2>x. PICK x : x = [proc[p] EXCEPT !.at = "generate", !.rules = {r \in Rules : active[r]}]
    OBVIOUS
  <2>1. x \in ProcState /\ x.at = "generate"
    BY <2>x, <1>0, ProcType DEF ProcState
  <2>b. Becomes(p, x)
    BY <2>x, <1>0, <1>1 DEF ReadRules, Becomes, TypeOK, Procs
  <2>u. UNCHANGED <<active, status, rescinded, disp, accepted, retries, faults, late>>
    BY <1>1 DEF ReadRules, Env
  <2> QED
    BY <1>0, <2>1, <2>b, <2>u, QuietStep
<1>2. CASE ReadReceivables(p)
  <2>1. PICK r \in proc[p].rules, today \in BOOLEAN :
          proc' = [proc EXCEPT
                     ![p].at = "create",
                     ![p].rules = @ \ {r},
                     ![p].todo = {d \in {r} \X Receivables : today /\ status[d[2]] = "ABERTO"}]
    BY <1>2 DEF ReadReceivables
  <2>x. PICK x : x = [proc[p] EXCEPT
                     !.at = "create",
                     !.rules = @ \ {r},
                     !.todo = {d \in {r} \X Receivables : today /\ status[d[2]] = "ABERTO"}]
    OBVIOUS
  <2>2. {d \in {r} \X Receivables : today /\ status[d[2]] = "ABERTO"} \in SUBSET Dispatches
    BY <1>0, <2>1, ProcType DEF Dispatches
  <2>3. x \in ProcState /\ x.at = "create"
    BY <2>x, <1>0, <2>2, ProcType DEF ProcState
  <2>b. Becomes(p, x)
    BY <2>x, <1>0, <1>2, <2>1 DEF ReadReceivables, Becomes, TypeOK, Procs
  <2>u. UNCHANGED <<active, status, rescinded, disp, accepted, retries, faults, late>>
    BY <1>2 DEF ReadReceivables, Env
  <2> QED
    BY <1>0, <2>1, <2>3, <2>b, <2>u, QuietStep
<1>3. CASE ReadCandidates(p)
  <2>x. PICK x : x = [proc[p] EXCEPT !.at = "next", !.todo = {d \in Dispatches : Candidate(disp[d])}]
    OBVIOUS
  <2>1. x \in ProcState /\ x.at = "next"
    BY <2>x, <1>0, ProcType DEF ProcState
  <2>b. Becomes(p, x)
    BY <2>x, <1>0, <1>3 DEF ReadCandidates, Becomes, TypeOK, Procs
  <2>u. UNCHANGED <<active, status, rescinded, disp, accepted, retries, faults, late>>
    BY <1>3 DEF ReadCandidates, Env
  <2> QED
    BY <1>0, <2>1, <2>b, <2>u, QuietStep
<1>4. CASE EndRun(p)
  <2>b. Becomes(p, Idle)
    BY <1>4 DEF EndRun, Becomes
  <2>u. UNCHANGED <<active, status, rescinded, disp, accepted, retries, faults, late>>
    BY <1>4 DEF EndRun, Env
  <2> QED
    BY <1>0, <1>i, <2>b, <2>u, QuietStep
<1>5. CASE Audit(p)
  <2>x. PICK x : x = [proc[p] EXCEPT !.at = "next", !.d = Null]
    OBVIOUS
  <2>1. x \in ProcState /\ x.at = "next"
    BY <2>x, <1>0, ProcType DEF ProcState
  <2>b. Becomes(p, x)
    BY <2>x, <1>0, <1>5 DEF Audit, Becomes, TypeOK, Procs
  <2>u. UNCHANGED <<active, status, rescinded, disp, accepted, retries, faults, late>>
    BY <1>5 DEF Audit, Env
  <2> QED
    BY <1>0, <2>1, <2>b, <2>u, QuietStep
<1>6. CASE Throw(p)
  <2>x. PICK x : x = IF proc[p].at \in {"mark", "audit"} THEN [proc[p] EXCEPT !.at = "fail"] ELSE Idle
    OBVIOUS
  <2>1. x \in ProcState
    BY <2>x, <1>0, <1>i, ProcType DEF ProcState
  <2>2. /\ x.at \in {"send", "mark", "audit", "fail"} => Sending(p) /\ x.d = proc[p].d
        /\ x.at \notin {"mark", "retry", "stop"}
    BY <2>x, <1>0, <1>i, ProcType DEF Sending, ProcState
  <2>3. Becomes(p, x)
    BY <2>x, <1>6 DEF Throw, Becomes
  <2>4. /\ UNCHANGED <<active, status, rescinded, disp, accepted, retries, late>>
        /\ faults' \in 0..MaxUpsets
    BY <1>0, <1>6 DEF Throw, Fault, MayUpset
  <2> QED
    BY <1>0, <2>1, <2>2, <2>3, <2>4, QuietStep
<1>7. ASSUME NEW d \in Dispatches, Cancel(p, d) PROVE IInv'
  <2>x. PICK x : x = [proc[p] EXCEPT !.at = "stop", !.d = d]
    OBVIOUS
  <2>1. x \in ProcState /\ x.at = "stop" /\ x.d = d
    BY <2>x, <1>0, ProcType DEF ProcState
  <2>b. Becomes(p, x)
    BY <2>x, <1>0, <1>7 DEF Cancel, Becomes, TypeOK, Procs
  <2>u. UNCHANGED <<active, status, rescinded, disp, accepted, retries, faults, late>>
    BY <1>7 DEF Cancel, Env
  <2> QED
    BY <1>0, <1>7, <2>1, <2>b, <2>u, QuietStep DEF Cancel
<1>8. ASSUME NEW d \in Dispatches, Retry(p, d) PROVE IInv'
  <2>x. PICK x : x = [proc[p] EXCEPT !.at = "retry", !.d = d]
    OBVIOUS
  <2>1. x \in ProcState /\ x.at = "retry" /\ x.d = d
    BY <2>x, <1>0, ProcType DEF ProcState
  <2>2. retries' \in 0..MaxUpsets /\ retries <= retries' /\ retries' > 0
    BY <1>0, <1>8 DEF Retry, MayUpset
  <2>b. Becomes(p, x)
    BY <2>x, <1>0, <1>8 DEF Retry, Becomes, TypeOK, Procs
  <2>u. UNCHANGED <<active, status, rescinded, disp, accepted, faults, late>>
    BY <1>8 DEF Retry
  <2> QED
    BY <1>0, <1>8, <2>1, <2>2, <2>b, <2>u, QuietStep DEF Retry
<1> QED
  BY <1>1, <1>2, <1>3, <1>4, <1>5, <1>6, <1>7, <1>8

-----------------------------------------------------------------------------
(* Steps that write rows.                                                  *)

\* A run that starts or goes on, and whose statement changes rows that nobody
\* who is calm is sending.
LEMMA RunWrites ==
  ASSUME IInv, NEW p \in Procs, NEW x \in ProcState, Becomes(p, x),
         x.at \in {"cancel", "rules", "generate"},
         UNCHANGED <<active, status, rescinded, accepted, retries, faults, late>>,
         disp' \in [Dispatches -> DispatchRow \cup {Absent}],
         \A d \in Dispatches :
           /\ disp[d].status # "ABSENT" => disp'[d].status # "ABSENT"
           /\ disp'[d].status = "ENVIADO" => disp[d].status = "ENVIADO"
           /\ Taken(disp[d]) => disp'[d] = disp[d]
  PROVE  IInv'
<1>0. TypeOK
  BY DEF IInv, OneSenderPerDispatch
<1>1. proc'[p] = x
  BY <1>0 DEF TypeOK, Procs, Becomes
<1>2. Held(p)'
  BY <1>1 DEF Held, Holding, Sending
<1>3. /\ accepted' \in SUBSET Dispatches /\ accepted \subseteq accepted'
      /\ retries' \in 0..MaxUpsets /\ retries <= retries'
      /\ faults' \in 0..MaxUpsets
  BY <1>0, BoundAssumption DEF TypeOK
<1>4. \A d \in Dispatches : disp'[d].status = "ENVIADO" => d \in accepted'
  BY DEF IInv, SentWasAccepted
<1>5. \A q \in Procs \ {p} : Sending(q) /\ Calm => Taken(disp'[proc[q].d])
  BY DEF IInv, Held, Holding
<1> QED
  BY <1>2, <1>3, <1>4, <1>5, ProcStep

\* Setting the status of a row that exists.
LEMMA StatusType ==
  ASSUME NEW row \in DispatchRow,
         NEW to \in {"PENDENTE", "ENVIANDO", "ENVIADO", "FALHOU", "CANCELADO"}
  PROVE  /\ [row EXCEPT !.status = to] \in DispatchRow
         /\ [row EXCEPT !.status = to].status = to
         /\ [row EXCEPT !.status = to].age = row.age
BY DEF DispatchRow

\* A row whose attempts are counted or begin anew.
LEMMA AttemptType ==
  ASSUME NEW row \in DispatchRow, NEW to \in {"PENDENTE", "ENVIANDO"},
         NEW n \in 0..3, NEW age \in {Null, 0, 1, 2}
  PROVE  /\ [row EXCEPT !.status = to, !.attempts = n, !.age = age] \in DispatchRow
         /\ [row EXCEPT !.status = to, !.attempts = n, !.age = age].status = to
         /\ [row EXCEPT !.status = to, !.attempts = n, !.age = age].age = age
BY DEF DispatchRow

\* What cancelling the retryable rows among D leaves.
LEMMA CancelRows ==
  ASSUME TypeOK, NEW D
  PROVE  /\ CancelRetryable(D) \in [Dispatches -> DispatchRow \cup {Absent}]
         /\ \A d \in Dispatches :
              /\ disp[d].status # "ABSENT" => CancelRetryable(D)[d].status # "ABSENT"
              /\ CancelRetryable(D)[d].status = "ENVIADO" => disp[d].status = "ENVIADO"
              /\ Taken(disp[d]) => CancelRetryable(D)[d] = disp[d]
<1>1. ASSUME NEW d \in Dispatches
      PROVE  /\ CancelRetryable(D)[d] \in DispatchRow \cup {Absent}
             /\ disp[d].status # "ABSENT" => CancelRetryable(D)[d].status # "ABSENT"
             /\ CancelRetryable(D)[d].status = "ENVIADO" => disp[d].status = "ENVIADO"
             /\ Taken(disp[d]) => CancelRetryable(D)[d] = disp[d]
  <2>1. CASE d \in D /\ Retryable(disp[d])
    <3>1. /\ disp[d] \in DispatchRow
          /\ CancelRetryable(D)[d] = [disp[d] EXCEPT !.status = "CANCELADO"]
          /\ ~Taken(disp[d])
      BY <2>1, RowType DEF CancelRetryable, Retryable, Taken
    <3> QED
      BY <3>1, StatusType
  <2>2. CASE ~(d \in D /\ Retryable(disp[d]))
    <3>1. CancelRetryable(D)[d] = disp[d]
      BY <2>2 DEF CancelRetryable
    <3> QED
      BY <3>1 DEF TypeOK
  <2> QED
    BY <2>1, <2>2
<1> QED
  BY <1>1 DEF CancelRetryable

\* A new row of a day.
LEMMA AbsentRow ==
  ASSUME NEW row \in [status : {"ABSENT"}, attempts : 0..3, age : {Null, 0, 1, 2}, mail : BOOLEAN],
         NEW mail \in BOOLEAN
  PROVE  [row EXCEPT !.status = "PENDENTE", !.mail = mail] \in DispatchRow
BY DEF DispatchRow

LEMMA NewRow ==
  ASSUME NEW mail \in BOOLEAN
  PROVE  [Absent EXCEPT !.status = "PENDENTE", !.mail = mail] \in DispatchRow
<1>1. Absent \in [status : {"ABSENT"}, attempts : 0..3, age : {Null, 0, 1, 2}, mail : BOOLEAN]
  BY DEF Absent
<1> QED
  BY <1>1, AbsentRow

LEMMA RunWritesInv ==
  ASSUME IInv, NEW p \in Procs, StartRun(p) \/ CancelClosed(p) \/ Create(p)
  PROVE  IInv'
<1>0. TypeOK
  BY DEF IInv, OneSenderPerDispatch
<1>1. CASE StartRun(p)
  <2>x. PICK x : x = [proc[p] EXCEPT !.at = "cancel"]
    OBVIOUS
  <2>1. x \in ProcState /\ x.at = "cancel"
    BY <2>x, <1>0, ProcType DEF ProcState
  <2>b. Becomes(p, x)
    BY <2>x, <1>1 DEF StartRun, Goto, Becomes
  <2>u. UNCHANGED <<active, status, rescinded, accepted, retries, faults, late>>
    BY <1>1 DEF StartRun, Env
  <2>2. ASSUME NEW d \in Dispatches
        PROVE  /\ disp'[d] \in DispatchRow \cup {Absent}
               /\ disp[d].status # "ABSENT" => disp'[d].status # "ABSENT"
               /\ disp'[d].status = "ENVIADO" => disp[d].status = "ENVIADO"
               /\ Taken(disp[d]) => disp'[d] = disp[d]
    <3>1. CASE Stale(disp[d])
      <4>1. /\ disp[d] \in DispatchRow
            /\ disp'[d] = [disp[d] EXCEPT !.status = "FALHOU"]
            /\ ~Taken(disp[d])
        BY <1>0, <1>1, <3>1, RowType DEF StartRun, Stale, Taken
      <4> QED
        BY <4>1, StatusType
    <3>2. CASE ~Stale(disp[d])
      <4>1. disp'[d] = disp[d]
        BY <1>1, <3>2 DEF StartRun
      <4> QED
        BY <1>0, <4>1 DEF TypeOK
    <3> QED
      BY <3>1, <3>2
  <2>3. disp' \in [Dispatches -> DispatchRow \cup {Absent}]
    BY <1>1, <2>2 DEF StartRun
  <2> QED
    BY <2>1, <2>b, <2>u, <2>2, <2>3, RunWrites
<1>2. CASE CancelClosed(p)
  <2>x. PICK x : x = [proc[p] EXCEPT !.at = "rules"]
    OBVIOUS
  <2>1. x \in ProcState /\ x.at = "rules"
    BY <2>x, <1>0, ProcType DEF ProcState
  <2>b. Becomes(p, x)
    BY <2>x, <1>2 DEF CancelClosed, Goto, Becomes
  <2>u. UNCHANGED <<active, status, rescinded, accepted, retries, faults, late>>
    BY <1>2 DEF CancelClosed, Env
  <2> PICK D : disp' = CancelRetryable(D)
    BY <1>2 DEF CancelClosed
  <2> QED
    BY <1>0, <2>1, <2>b, <2>u, CancelRows, RunWrites
<1>3. CASE Create(p)
  <2>x. PICK x : x = [proc[p] EXCEPT !.at = "generate", !.todo = {}]
    OBVIOUS
  <2>1. x \in ProcState /\ x.at = "generate"
    BY <2>x, <1>0, ProcType DEF ProcState
  <2>b. Becomes(p, x)
    BY <2>x, <1>0, <1>3 DEF Create, Becomes, TypeOK, Procs
  <2>u. UNCHANGED <<active, status, rescinded, accepted, retries, faults, late>>
    BY <1>3 DEF Create, Env
  <2>2. PICK mail \in BOOLEAN :
          disp' = [d \in Dispatches |->
                     IF d \in proc[p].todo /\ disp[d] = Absent
                     THEN [Absent EXCEPT !.status = "PENDENTE", !.mail = mail]
                     ELSE disp[d]]
    BY <1>3 DEF Create
  <2>3. [Absent EXCEPT !.status = "PENDENTE", !.mail = mail] \in DispatchRow
    BY NewRow
  <2>4. /\ [Absent EXCEPT !.status = "PENDENTE", !.mail = mail].status = "PENDENTE"
        /\ Absent.status = "ABSENT"
    BY DEF Absent
  <2>5. ASSUME NEW d \in Dispatches
        PROVE  /\ disp'[d] \in DispatchRow \cup {Absent}
               /\ disp[d].status # "ABSENT" => disp'[d].status # "ABSENT"
               /\ disp'[d].status = "ENVIADO" => disp[d].status = "ENVIADO"
               /\ Taken(disp[d]) => disp'[d] = disp[d]
    <3>1. CASE d \in proc[p].todo /\ disp[d] = Absent
      BY <2>2, <2>3, <2>4, <3>1 DEF Taken
    <3>2. CASE ~(d \in proc[p].todo /\ disp[d] = Absent)
      BY <1>0, <2>2, <3>2 DEF TypeOK
    <3> QED
      BY <3>1, <3>2
  <2>6. disp' \in [Dispatches -> DispatchRow \cup {Absent}]
    BY <2>2, <2>5
  <2> QED
    BY <2>1, <2>b, <2>u, <2>5, <2>6, RunWrites
<1> QED
  BY <1>1, <1>2, <1>3

-----------------------------------------------------------------------------
(* sendDispatch, requests.                                                 *)

\* A calm process that sends holds a taken row, and no other one sends it.
LEMMA SendersApart ==
  ASSUME IInv
  PROVE  /\ \A q \in Procs : Sending(q) /\ Calm =>
                /\ proc[q].d \in Dispatches
                /\ Taken(disp[proc[q].d])
         /\ \A p, q \in Procs :
              Sending(p) /\ Sending(q) /\ Calm /\ proc[p].d = proc[q].d => p = q
<1>1. \A q \in Procs : Sending(q) /\ Calm => proc[q].d \in Dispatches /\ Taken(disp[proc[q].d])
  BY DEF IInv, Held, Holding
<1>2. \A p, q \in Procs :
        Sending(p) /\ Sending(q) /\ Calm /\ proc[p].d = proc[q].d => p = q
  BY DEF IInv, OneSenderPerDispatch, Procs, Calm
<1> QED
  BY <1>1, <1>2

\* Process p, becoming x, writes row w into the dispatch d that it works on.
LEMMA RowWritten ==
  ASSUME IInv, NEW p \in Procs, NEW x \in ProcState, Becomes(p, x),
         NEW d \in Dispatches, NEW w \in DispatchRow,
         disp' = [disp EXCEPT ![d] = w],
         UNCHANGED <<active, status, rescinded, accepted, retries, faults, late>>,
         w.status = "ENVIADO" => d \in accepted,
         \A q \in Procs \ {p} : Sending(q) /\ Calm /\ proc[q].d = d => Taken(w),
         x.at \in {"send", "mark", "audit", "fail"} =>
           /\ x.d = d
           /\ Calm => Taken(w)
           /\ \A q \in Procs \ {p} : Sending(q) /\ Calm => proc[q].d # d,
         x.at \notin {"mark", "retry", "stop"}
  PROVE  IInv'
<1>0. TypeOK
  BY DEF IInv, OneSenderPerDispatch
<1>1. proc'[p] = x
  BY <1>0 DEF TypeOK, Procs, Becomes
<1>2. /\ disp' \in [Dispatches -> DispatchRow \cup {Absent}]
      /\ disp'[d] = w
      /\ \A e \in Dispatches \ {d} : disp'[e] = disp[e]
  BY <1>0 DEF TypeOK
<1>3. w.status # "ABSENT"
  BY DEF DispatchRow
<1>4. Calm' => Calm
  BY DEF Calm
<1>5. Held(p)'
  BY <1>1, <1>2, <1>3, <1>4 DEF Held, Holding, Sending
<1>6. /\ accepted' \in SUBSET Dispatches /\ accepted \subseteq accepted'
      /\ retries' \in 0..MaxUpsets /\ retries <= retries'
      /\ faults' \in 0..MaxUpsets
  BY <1>0, BoundAssumption DEF TypeOK
<1>7. \A e \in Dispatches : disp[e].status # "ABSENT" => disp'[e].status # "ABSENT"
  BY <1>2, <1>3
<1>8. \A e \in Dispatches : disp'[e].status = "ENVIADO" => e \in accepted'
  BY <1>2 DEF IInv, SentWasAccepted
<1>9. \A q \in Procs \ {p} : Sending(q) /\ Calm => Taken(disp'[proc[q].d])
  BY <1>2, SendersApart
<1>10. \A q \in Procs \ {p} :
         x.at \in {"send", "mark", "audit", "fail"} /\ Sending(q) /\ Calm' => proc[q].d # x.d
  BY <1>4
<1> QED
  BY <1>2, <1>5, <1>6, <1>7, <1>8, <1>9, <1>10, ProcStep

LEMMA ClaimInv ==
  ASSUME IInv, NEW p \in Procs, NEW d \in Dispatches, Claim(p, d)
  PROVE  IInv'
<1>0. TypeOK /\ retries \in 0..MaxUpsets /\ faults \in 0..MaxUpsets /\ MaxUpsets \in Nat
  BY BoundAssumption DEF IInv, OneSenderPerDispatch, TypeOK
<1>u. UNCHANGED <<active, status, rescinded, accepted, retries, faults, late>>
  BY DEF Claim, Env
<1>1. CASE Claimable(disp[d])
  <2>n. PICK n : n = disp[d].attempts + 1
    OBVIOUS
  <2>w. PICK w : w = [disp[d] EXCEPT !.status = "ENVIANDO", !.attempts = n, !.age = 0]
    OBVIOUS
  <2>1. disp[d] \in DispatchRow /\ disp[d].attempts < 3 /\ disp[d].attempts \in 0..3
    BY <1>0, <1>1, RowType DEF Claimable, Retryable, DispatchRow
  <2>2. w \in DispatchRow /\ w.status = "ENVIANDO" /\ Taken(w)
    <3>1. n \in 0..3
      BY <2>1, <2>n
    <3> QED
      BY <2>1, <2>w, <3>1, AttemptType DEF Taken
  <2>x. PICK x : x = [proc[p] EXCEPT !.at = IF disp[d].mail THEN "send" ELSE "fail",
                                     !.todo = @ \ {d}, !.d = d]
    OBVIOUS
  <2>3. x \in ProcState /\ x.at \in {"send", "fail"} /\ x.d = d
    BY <2>x, <1>0, ProcType DEF ProcState
  <2>b. Becomes(p, x)
    BY <2>x, <1>0, <1>1 DEF Claim, Becomes, TypeOK, Procs
  <2>4. disp' = [disp EXCEPT ![d] = w]
    BY <2>n, <2>w, <1>0, <1>1 DEF Claim, TypeOK
  <2>5. ~Taken(disp[d])
    BY <1>1 DEF Claimable, Retryable, Taken
  <2>6. \A q \in Procs : Sending(q) /\ Calm => proc[q].d # d
    BY <2>5, SendersApart
  <2> QED
    BY <1>u, <2>2, <2>3, <2>b, <2>4, <2>6, RowWritten
<1>2. CASE ~Claimable(disp[d])
  <2>x. PICK x : x = [proc[p] EXCEPT !.todo = @ \ {d}]
    OBVIOUS
  <2>1. proc[p].at = "next"
    BY DEF Claim
  <2>3. x \in ProcState /\ x.at = "next"
    BY <2>x, <2>1, <1>0, ProcType DEF ProcState
  <2>b. Becomes(p, x)
    BY <2>x, <1>0, <1>2 DEF Claim, Becomes, TypeOK, Procs
  <2>4. disp' = disp
    BY <1>2 DEF Claim
  <2> QED
    BY <1>0, <1>u, <2>3, <2>b, <2>4, QuietStep
<1> QED
  BY <1>1, <1>2

LEMMA SendInv ==
  ASSUME IInv, NEW p \in Procs, Send(p)
  PROVE  IInv'
<1>0. TypeOK
  BY DEF IInv, OneSenderPerDispatch
<1>1. PICK to \in {"mark", "fail"} :
        /\ proc' = [proc EXCEPT ![p].at = to]
        /\ accepted' \in {accepted, accepted \cup {proc[p].d}}
        /\ to = "mark" => accepted' = accepted \cup {proc[p].d}
  BY DEF Send, Goto
<1>2. proc[p].at = "send" /\ Sending(p)
  BY DEF Send, Sending
<1>3. /\ proc[p].d \in Dispatches
      /\ disp[proc[p].d].status # "ABSENT"
      /\ Calm => Taken(disp[proc[p].d])
  BY <1>2 DEF IInv, Held, Holding
<1>x. PICK x : x = [proc[p] EXCEPT !.at = to]
  OBVIOUS
<1>4. x \in ProcState /\ x.at = to /\ x.d = proc[p].d
  BY <1>x, <1>0, ProcType DEF ProcState
<1>b. Becomes(p, x)
  BY <1>x, <1>1 DEF Becomes
<1>u. UNCHANGED <<active, status, rescinded, disp, retries, faults, late>>
  BY DEF Send
<1>5. /\ accepted' \in SUBSET Dispatches /\ accepted \subseteq accepted'
      /\ retries' \in 0..MaxUpsets /\ retries <= retries'
      /\ faults' \in 0..MaxUpsets
      /\ disp' \in [Dispatches -> DispatchRow \cup {Absent}]
  BY <1>0, <1>1, <1>3, <1>u, BoundAssumption DEF TypeOK
<1>6. \A e \in Dispatches : disp'[e].status = "ENVIADO" => e \in accepted'
  BY <1>5, <1>u DEF IInv, SentWasAccepted
<1>7. proc'[p] = x
  BY <1>0, <1>b DEF TypeOK, Procs, Becomes
<1>8. Held(p)'
  BY <1>1, <1>3, <1>4, <1>7, <1>u DEF Held, Holding, Sending, Calm
<1>9. /\ \A q \in Procs \ {p} : Sending(q) /\ Calm => Taken(disp'[proc[q].d])
      /\ \A q \in Procs \ {p} : Sending(q) /\ Calm' => proc[q].d # x.d
  BY <1>2, <1>4, <1>u, SendersApart DEF Calm
<1> QED
  BY <1>4, <1>b, <1>u, <1>5, <1>6, <1>8, <1>9, ProcStep

\* The answer of an attempt, and what a user asked for, written into the row.
LEMMA AnswerInv ==
  ASSUME IInv, NEW p \in Procs, Mark(p) \/ Fail(p) \/ Requeue(p) \/ Stop(p)
  PROVE  IInv'
<1>0. TypeOK
  BY DEF IInv, OneSenderPerDispatch
<1>d. PICK d : d = proc[p].d
  OBVIOUS
<1>h. /\ Holding(p)
      /\ proc[p].at \in {"mark", "fail", "retry", "stop"}
  BY DEF Mark, Fail, Requeue, Stop, Holding, Sending
<1>1. /\ d \in Dispatches
      /\ disp[d] \in DispatchRow
      /\ proc[p].at = "mark" => d \in accepted
      /\ proc[p].at = "retry" => ~Calm
      /\ Sending(p) /\ Calm => Taken(disp[d])
  BY <1>0, <1>d, <1>h, RowType DEF IInv, Held, Calm, TypeOK
<1>2. Sending(p) => \A q \in Procs \ {p} : Sending(q) /\ Calm => proc[q].d # d
  BY <1>d, SendersApart
<1>3. \A q \in Procs \ {p} : Sending(q) /\ Calm /\ proc[q].d = d => Taken(disp[d])
  BY SendersApart
<1>u. UNCHANGED <<active, status, rescinded, accepted, retries, faults, late>>
  BY DEF Mark, Fail, Requeue, Stop, Env
<1>4. CASE Mark(p)
  <2>w. PICK w : w = [disp[d] EXCEPT !.status = "ENVIADO"]
    OBVIOUS
  <2>1. w \in DispatchRow /\ w.status = "ENVIADO" /\ w.age = disp[d].age
    BY <1>1, <2>w, StatusType
  <2>x. PICK x : x = [proc[p] EXCEPT !.at = "audit"]
    OBVIOUS
  <2>2. x \in ProcState /\ x.at = "audit" /\ x.d = d
    BY <2>x, <1>0, <1>d, ProcType DEF ProcState
  <2>b. Becomes(p, x)
    BY <2>x, <1>4 DEF Mark, Goto, Becomes
  <2>3. disp' = [disp EXCEPT ![d] = w]
    BY <2>w, <1>d, <1>4 DEF Mark
  <2>4. Sending(p) /\ d \in accepted
    BY <1>1, <1>4 DEF Mark, Sending
  <2>5. Calm => Taken(w)
    BY <1>1, <2>1, <2>4 DEF Taken
  <2>6. \A q \in Procs \ {p} : Sending(q) /\ Calm => proc[q].d # d
    BY <1>2, <2>4
  <2>7. \A q \in Procs \ {p} : Sending(q) /\ Calm /\ proc[q].d = d => Taken(w)
    BY <2>6
  <2>8. d \in Dispatches /\ d \in accepted
    BY <1>1, <2>4
  <2>9. /\ x \in ProcState /\ x.at \notin {"mark", "retry", "stop"}
        /\ x.at \in {"send", "mark", "audit", "fail"} =>
             /\ x.d = d
             /\ Calm => Taken(w)
             /\ \A q \in Procs \ {p} : Sending(q) /\ Calm => proc[q].d # d
    BY <2>2, <2>5, <2>6
  <2> QED
    BY <1>u, <2>1, <2>9, <2>b, <2>3, <2>7, <2>8, RowWritten
<1>5. CASE Fail(p)
  <2>w. PICK w : w = [disp[d] EXCEPT !.status = "FALHOU"]
    OBVIOUS
  <2>1. w \in DispatchRow /\ w.status = "FALHOU"
    BY <1>1, <2>w, StatusType
  <2>x. PICK x : x = [proc[p] EXCEPT !.at = "next", !.d = Null]
    OBVIOUS
  <2>2. x \in ProcState /\ x.at = "next"
    BY <2>x, <1>0, ProcType DEF ProcState
  <2>b. Becomes(p, x)
    BY <2>x, <1>0, <1>5 DEF Fail, Becomes, TypeOK, Procs
  <2>3. disp' = [disp EXCEPT ![d] = w]
    BY <2>w, <1>d, <1>5 DEF Fail
  <2>4. \A q \in Procs \ {p} : Sending(q) /\ Calm /\ proc[q].d = d => Taken(w)
    <3>1. Sending(p)
      BY <1>5 DEF Fail, Sending
    <3> QED
      BY <1>2, <3>1
  <2>5. d \in Dispatches
    BY <1>1
  <2> QED
    BY <1>u, <2>1, <2>2, <2>b, <2>3, <2>4, <2>5, RowWritten
<1>6. CASE Requeue(p)
  <2>w. PICK w : w = [disp[d] EXCEPT !.status = "PENDENTE", !.attempts = 0, !.age = Null]
    OBVIOUS
  <2>1. w \in DispatchRow /\ w.status = "PENDENTE"
    <3>1. 0 \in 0..3 /\ Null \in {Null, 0, 1, 2}
      OBVIOUS
    <3>2. disp[d] \in DispatchRow
      BY <1>1
    <3> QED
      BY <2>w, <3>1, <3>2, AttemptType
  <2>x. PICK x : x = [proc[p] EXCEPT !.at = "next", !.todo = {d}, !.d = Null]
    OBVIOUS
  <2>2. x \in ProcState /\ x.at = "next"
    BY <2>x, <1>0, <1>1, ProcType DEF ProcState
  <2>b. Becomes(p, x)
    BY <2>x, <1>0, <1>d, <1>6 DEF Requeue, Becomes, TypeOK, Procs
  <2>3. disp' = [disp EXCEPT ![d] = w]
    BY <2>w, <1>0, <1>1, <1>d, <1>6 DEF Requeue, TypeOK
  <2>4. ~Calm
    BY <1>1, <1>6 DEF Requeue
  <2> QED
    BY <1>1, <1>u, <2>1, <2>2, <2>b, <2>3, <2>4, RowWritten
<1>7. CASE Stop(p)
  <2>w. PICK w : w = [disp[d] EXCEPT !.status = "CANCELADO"]
    OBVIOUS
  <2>1. w \in DispatchRow /\ w.status = "CANCELADO" /\ w.age = disp[d].age
    BY <1>1, <2>w, StatusType
  <2>i. Idle \in ProcState /\ Idle.at = "idle"
    BY DEF Idle, ProcState
  <2>b. Becomes(p, Idle)
    BY <1>7 DEF Stop, Becomes
  <2>3. disp' = [disp EXCEPT ![d] = w]
    BY <2>w, <1>d, <1>7 DEF Stop
  <2>4. Taken(disp[d]) => Taken(w)
    BY <2>1 DEF Taken
  <2> QED
    BY <1>1, <1>3, <1>u, <2>1, <2>i, <2>b, <2>3, <2>4, RowWritten
<1> QED
  BY <1>4, <1>5, <1>6, <1>7

-----------------------------------------------------------------------------
(* Steps of the rules, the receivables, the clock and the server.          *)

\* A step of no process, which leaves the rows that are taken.
LEMMA OutsideStep ==
  ASSUME IInv,
         active' \in [Rules -> BOOLEAN],
         status' \in [Receivables -> {"ABERTO", "PAGO", "CANCELADO"}],
         rescinded' \in BOOLEAN,
         disp' \in [Dispatches -> DispatchRow \cup {Absent}],
         UNCHANGED <<proc, accepted, retries, faults, late>>,
         \A d \in Dispatches :
           /\ disp[d].status # "ABSENT" => disp'[d].status # "ABSENT"
           /\ disp'[d].status = "ENVIADO" => disp[d].status = "ENVIADO"
           /\ Taken(disp[d]) => disp'[d] = disp[d]
  PROVE  IInv'
<1>0. TypeOK
  BY DEF IInv, OneSenderPerDispatch
<1>1. TypeOK'
  BY <1>0 DEF TypeOK
<1>2. \A q \in Procs : Sending(q) /\ Calm' => Taken(disp'[proc[q].d])
  BY SendersApart DEF Calm
<1>3. \A q \in Procs : Held(q)'
  BY <1>2, OthersHold DEF IInv, Calm
<1>4. SentWasAccepted'
  BY DEF IInv, SentWasAccepted
<1>5. OneSenderPerDispatch'
  BY <1>1 DEF IInv, OneSenderPerDispatch, Sending
<1> QED
  BY <1>3, <1>4, <1>5 DEF IInv

LEMMA OutsideInv ==
  ASSUME IInv,
         \/ \E r \in Rules, value \in BOOLEAN : UpdateRule(r, value)
         \/ \E v \in Receivables, old, new \in {"ABERTO", "PAGO", "CANCELADO"} :
              ChangeReceivable(v, old, new)
         \/ Distrato
  PROVE  IInv'
<1>0. TypeOK
  BY DEF IInv, OneSenderPerDispatch
<1>t. /\ active \in [Rules -> BOOLEAN]
      /\ status \in [Receivables -> {"ABERTO", "PAGO", "CANCELADO"}]
      /\ rescinded \in BOOLEAN
      /\ disp \in [Dispatches -> DispatchRow \cup {Absent}]
  BY <1>0 DEF TypeOK
<1>1. ASSUME NEW r \in Rules, NEW value \in BOOLEAN, UpdateRule(r, value)
      PROVE  IInv'
  <2>1. active' \in [Rules -> BOOLEAN]
    BY <1>1, <1>t DEF UpdateRule
  <2>u. UNCHANGED <<status, rescinded, proc, accepted, retries, faults, late>>
    BY <1>1 DEF UpdateRule
  <2>2. CASE value
    <3>1. disp' = disp
      BY <1>1, <2>2 DEF UpdateRule
    <3> QED
      BY <1>t, <2>1, <2>u, <3>1, OutsideStep
  <2>3. CASE ~value
    <3>1. PICK D : disp' = CancelRetryable(D)
      BY <1>1, <2>3 DEF UpdateRule
    <3> QED
      BY <1>0, <1>t, <2>1, <2>u, <3>1, CancelRows, OutsideStep
  <2> QED
    BY <2>2, <2>3
<1>2. ASSUME NEW v \in Receivables, NEW old, NEW new \in {"ABERTO", "PAGO", "CANCELADO"},
             ChangeReceivable(v, old, new)
      PROVE  IInv'
  <2>1. status' \in [Receivables -> {"ABERTO", "PAGO", "CANCELADO"}]
    BY <1>2, <1>t DEF ChangeReceivable
  <2>u. UNCHANGED <<active, rescinded, disp, proc, accepted, retries, faults, late>>
    BY <1>2 DEF ChangeReceivable
  <2> QED
    BY <1>t, <2>1, <2>u, OutsideStep
<1>3. CASE Distrato
  <2>1. status' \in [Receivables -> {"ABERTO", "PAGO", "CANCELADO"}] /\ rescinded' \in BOOLEAN
    BY <1>3 DEF Distrato
  <2>u. UNCHANGED <<active, proc, accepted, retries, faults, late>>
    BY <1>3 DEF Distrato
  <2>2. disp' = CancelRetryable(Dispatches)
    BY <1>3 DEF Distrato
  <2> QED
    BY <1>0, <1>t, <2>1, <2>u, <2>2, CancelRows, OutsideStep
<1> QED
  BY <1>1, <1>2, <1>3

\* The clock makes rows older; whoever sends is late then.
LEMMA TickInv ==
  ASSUME IInv, Tick
  PROVE  IInv'
<1>0. TypeOK
  BY DEF IInv, OneSenderPerDispatch
<1>1. ASSUME NEW d \in Dispatches
      PROVE  /\ disp'[d] \in DispatchRow \cup {Absent}
             /\ disp'[d].status = disp[d].status
  <2>1. CASE disp[d].age \in {0, 1}
    <3>1. disp[d] \in DispatchRow
      <4>1. Null \notin {0, 1}
        BY NullAssumption
      <4> QED
        BY <1>0, <2>1, <4>1, RowType DEF Absent
    <3>n. PICK n : n = disp[d].age + 1
      OBVIOUS
    <3>2. n \in {1, 2}
      BY <2>1, <3>n
    <3>3. disp'[d] = [disp[d] EXCEPT !.age = n]
      BY <2>1, <3>n DEF Tick
    <3> QED
      BY <3>1, <3>2, <3>3 DEF DispatchRow
  <2>2. CASE disp[d].age \notin {0, 1}
    <3>1. disp'[d] = disp[d]
      BY <2>2 DEF Tick
    <3> QED
      BY <1>0, <3>1 DEF TypeOK
  <2> QED
    BY <2>1, <2>2
<1>2. disp' \in [Dispatches -> DispatchRow \cup {Absent}]
  BY <1>1 DEF Tick
<1>u. UNCHANGED <<active, status, rescinded, proc, accepted, retries, faults>>
  BY DEF Tick
<1>3. /\ late' \in BOOLEAN
      /\ late => late'
      /\ \A q \in Procs : Sending(q) => late'
  BY <1>0 DEF Tick, TypeOK, Procs
<1>4. TypeOK'
  BY <1>0, <1>2, <1>3, <1>u DEF TypeOK
<1>5. \A q \in Procs : ~(Sending(q) /\ Calm')
  BY <1>3 DEF Calm
<1>6. Calm' => Calm
  BY <1>3, <1>u DEF Calm
<1>7. \A q \in Procs : Held(q)'
  BY <1>1, <1>5, <1>6, <1>u, OthersHold DEF IInv
<1>8. SentWasAccepted'
  BY <1>1, <1>u DEF IInv, SentWasAccepted
<1>9. OneSenderPerDispatch'
  BY <1>4, <1>5, <1>u DEF OneSenderPerDispatch, Calm, Sending, Procs
<1> QED
  BY <1>7, <1>8, <1>9 DEF IInv

\* A stop of the server ends every process.
LEMMA CrashInv ==
  ASSUME IInv, Crash
  PROVE  IInv'
<1>0. TypeOK
  BY DEF IInv, OneSenderPerDispatch
<1>u. UNCHANGED <<active, status, rescinded, disp, accepted, retries, late>>
  BY DEF Crash
<1>1. faults' \in 0..MaxUpsets
  BY <1>0, BoundAssumption DEF Crash, Fault, MayUpset, TypeOK
<1>2. Idle \in ProcState /\ Idle.at = "idle"
  BY DEF Idle, ProcState
<1>3. proc' = [p \in Procs |-> Idle]
  BY DEF Crash, Procs
<1>4. TypeOK'
  BY <1>0, <1>1, <1>2, <1>3, <1>u DEF TypeOK, Procs
<1>5. \A q \in Procs : proc'[q].at = "idle"
  BY <1>2, <1>3
<1>6. \A q \in Procs : Held(q)'
  BY <1>5 DEF Held, Holding, Sending
<1>7. SentWasAccepted'
  BY <1>u DEF IInv, SentWasAccepted
<1>8. OneSenderPerDispatch'
  BY <1>4, <1>5 DEF OneSenderPerDispatch, Sending, Procs
<1> QED
  BY <1>6, <1>7, <1>8 DEF IInv

LEMMA NextInv == IInv /\ [Next]_vars => IInv'
<1> SUFFICES ASSUME IInv, [Next]_vars PROVE IInv'
  OBVIOUS
<1>0. TypeOK
  BY DEF IInv, OneSenderPerDispatch
<1>1. CASE StartRun(Timer)
  BY <1>1, RunWritesInv DEF Procs, Runs
<1>2. ASSUME NEW p \in Procs, Step(p) PROVE IInv'
  BY <1>2, ReadStepInv, RunWritesInv, ClaimInv, SendInv, AnswerInv DEF Step
<1>3. CASE UserNext
  <2>1. ASSUME NEW p \in Posted, StartRun(p) PROVE IInv'
    BY <2>1, RunWritesInv DEF Procs, Runs
  <2>2. ASSUME NEW p \in Requests, NEW d \in Dispatches, Retry(p, d) \/ Cancel(p, d)
        PROVE  IInv'
    BY <2>2, ReadStepInv DEF Procs
  <2>3. ASSUME NEW r \in Rules, NEW value \in BOOLEAN, UpdateRule(r, value) PROVE IInv'
    BY <2>3, OutsideInv
  <2>4. ASSUME NEW v \in Receivables,
               \/ ChangeReceivable(v, "ABERTO", "PAGO")
               \/ ChangeReceivable(v, "PAGO", "ABERTO")
               \/ ChangeReceivable(v, "ABERTO", "CANCELADO")
        PROVE  IInv'
    BY <2>4, OutsideInv
  <2>5. CASE Distrato
    BY <2>5, OutsideInv
  <2> QED
    BY <1>3, <2>1, <2>2, <2>3, <2>4, <2>5 DEF UserNext
<1>4. CASE Tick
  BY <1>4, TickInv
<1>5. ASSUME NEW p \in Procs, Throw(p) PROVE IInv'
  BY <1>5, ReadStepInv
<1>6. CASE Crash
  BY <1>6, CrashInv
<1>7. CASE UNCHANGED vars
  <2>1. /\ active' = active /\ status' = status /\ rescinded' = rescinded /\ disp' = disp
        /\ UNCHANGED <<proc, accepted, retries, faults, late>>
    BY <1>7 DEF vars
  <2>2. /\ active \in [Rules -> BOOLEAN]
        /\ status \in [Receivables -> {"ABERTO", "PAGO", "CANCELADO"}]
        /\ rescinded \in BOOLEAN
        /\ disp \in [Dispatches -> DispatchRow \cup {Absent}]
    BY <1>0 DEF TypeOK
  <2> QED
    BY <2>1, <2>2, OutsideStep
<1> QED
  BY <1>1, <1>2, <1>3, <1>4, <1>5, <1>6, <1>7 DEF Next, FaultNext, Procs

\* The inductive invariant.
THEOREM Inductive == Spec => []IInv
<1>1. Init => IInv
  BY InitInv
<1>2. IInv /\ [Next]_vars => IInv'
  BY NextInv
<1> QED
  BY <1>1, <1>2, PTL DEF Spec

\* No dispatch is reported as sent unless the provider accepted its e-mail,
\* whatever is refused, lost, late, retried or interrupted (sendDispatch and
\* markFailed of CollectionsService).
THEOREM SentMeansAccepted == Spec => []SentWasAccepted
<1>1. IInv => SentWasAccepted
  BY DEF IInv
<1> QED
  BY <1>1, Inductive, PTL

\* The runs of the timer and of users never send the same dispatch at once
\* while no attempt is late and nobody asks for a retry, and no dispatch is
\* attempted more than three times at all (the claim of sendDispatch).
THEOREM SendersExclude == Spec => []OneSenderPerDispatch
<1>1. IInv => OneSenderPerDispatch
  BY DEF IInv
<1> QED
  BY <1>1, Inductive, PTL

-----------------------------------------------------------------------------
(* Notifications.                                                          *)

Delivering(q) == call[q].at \in {"load", "send", "conclude", "fail"}

\* What a request in flight holds is still as it found it.
NoteHeldInv ==
  \A q \in Calls :
    /\ Delivering(q) => /\ call[q].note \in Notes
                        /\ outbox[call[q].note].status = "PROCESSANDO"
    /\ Delivering(q) /\ call[q].at # "load" =>
         call[q].attempts = outbox[call[q].note].attempts
    /\ call[q].at = "read" => call[q].note \in Notes /\ note[call[q].note].internal

\* An item of the outbox has its notification.
ItemHasNote ==
  \A n \in Notes : outbox[n].status # "ABSENT" => note[n].status # "ABSENT"

NoteIInv ==
  /\ NotificationTypeOK
  /\ NoteHeldInv
  /\ ItemHasNote
  /\ AttemptsAccounted
  /\ OneDeliverer
  /\ FailedIsUnreachable

\* OneDeliverer in the terms of this module.
LEMMA OneDelivererDef ==
  OneDeliverer <=>
    \A q1, q2 \in Calls :
      Delivering(q1) /\ Delivering(q2) /\ call[q1].note = call[q2].note => q1 = q2
  BY DEF OneDeliverer, Delivering

\* The fields of a notification that was never sent by e-mail.
LEMMA AbsentItemType ==
  AbsentItem \in [status : {"ABSENT"}, attempts : 0..3, later : BOOLEAN]
  BY DEF AbsentItem

\* Setting the status of an item keeps it well formed.
LEMMA ItemStatusType ==
  ASSUME NEW row \in OutboxRow \cup {AbsentItem},
         NEW to \in {"PENDENTE", "PROCESSANDO", "CONCLUIDO", "FALHOU_PERMANENTEMENTE"}
  PROVE  [row EXCEPT !.status = to] \in OutboxRow
<1>1. CASE row \in OutboxRow
  BY <1>1 DEF OutboxRow
<1>2. CASE row = AbsentItem
  <2>1. row \in [status : {"ABSENT"}, attempts : 0..3, later : BOOLEAN]
    BY <1>2, AbsentItemType
  <2> QED BY <2>1 DEF OutboxRow
<1> QED BY <1>1, <1>2

\* No request is in flight and there is no notification at first.
LEMMA NoteInitInv == NotificationInit => NoteIInv
<1> SUFFICES ASSUME NotificationInit PROVE NoteIInv
  OBVIOUS
<1>1. NotificationTypeOK
  BY DEF NotificationInit, NotificationTypeOK, AbsentNote, AbsentItem, IdleCall, CallState
<1>2. NoteHeldInv
  BY DEF NotificationInit, NoteHeldInv, Delivering, IdleCall
<1>3. ItemHasNote
  BY DEF NotificationInit, ItemHasNote, AbsentItem
<1>4. AttemptsAccounted
  BY DEF NotificationInit, AttemptsAccounted, Count, AbsentItem
<1>5. OneDeliverer
  BY DEF NotificationInit, OneDeliverer, IdleCall
<1>6. FailedIsUnreachable
  BY DEF NotificationInit, FailedIsUnreachable, AbsentNote, AbsentItem
<1> QED BY <1>1, <1>2, <1>3, <1>4, <1>5, <1>6 DEF NoteIInv

\* Creating a notification touches only what was absent.
LEMMA CreateInv ==
  ASSUME NoteIInv, NEW n \in Notes, NEW internal \in BOOLEAN, NEW email \in BOOLEAN,
         CreateForUser(n, internal, email)
  PROVE  NoteIInv'
<1> USE DEF NoteIInv, CreateForUser
<1>0. outbox[n] = AbsentItem
  BY DEF ItemHasNote, AbsentNote, NotificationTypeOK, OutboxRow
<1>1. NotificationTypeOK'
  <2>1. [status |-> IF internal THEN "ENVIADO" ELSE "PENDENTE",
         internal |-> internal, read |-> FALSE] \in NoteRow
    BY DEF NoteRow
  <2>2. [outbox[n] EXCEPT !.status = "PENDENTE"] \in OutboxRow
    BY <1>0, ItemStatusType
  <2> QED BY <2>1, <2>2 DEF NotificationTypeOK
<1>2. NoteHeldInv'
  BY <1>0 DEF NotificationTypeOK, NoteHeldInv, Delivering, AbsentItem, AbsentNote
<1>3. ItemHasNote'
  BY <1>0 DEF NotificationTypeOK, ItemHasNote, AbsentItem
<1>4. AttemptsAccounted'
  BY <1>0 DEF NotificationTypeOK, AttemptsAccounted, Count, AbsentItem
<1>5. OneDeliverer'
  BY DEF OneDeliverer
<1>6. FailedIsUnreachable'
  BY <1>0 DEF NotificationTypeOK, FailedIsUnreachable, AbsentItem
<1> QED BY <1>1, <1>2, <1>3, <1>4, <1>5, <1>6

\* Reading a notification, one or all, does not touch the outbox.
LEMMA ReadInv ==
  ASSUME NoteIInv,
         MarkAllRead \/ \E q \in Calls : MarkRead(q) \/ \E n \in Notes : ReadNote(q, n)
  PROVE  NoteIInv'
<1> USE DEF NoteIInv
<1>1. CASE MarkAllRead
  <2> USE <1>1 DEF MarkAllRead, Unread
  <2>0. ASSUME NEW n \in Notes
        PROVE  /\ note'[n] \in NoteRow \cup {AbsentNote}
               /\ note'[n].internal = note[n].internal
               /\ note'[n].status # note[n].status =>
                    note[n].internal /\ note'[n].status = "LIDO"
    <3>1. CASE Unread(note[n])
      <4>1. note[n] \in NoteRow
        <5> HIDE DEF MarkAllRead
        <5>1. note[n] \in NoteRow \cup {AbsentNote}
          BY DEF NotificationTypeOK
        <5>2. note[n] # AbsentNote
          BY <3>1 DEF AbsentNote
        <5> QED BY <5>1, <5>2
      <4>2. note'[n] = [note[n] EXCEPT !.status = "LIDO", !.read = TRUE]
        BY <3>1
      <4> QED BY <3>1, <4>1, <4>2 DEF NoteRow
    <3>2. CASE ~Unread(note[n])
      <4>1. note'[n] = note[n]
        BY <3>2
      <4> QED BY <4>1 DEF NotificationTypeOK
    <3> QED BY <3>1, <3>2
  <2> HIDE <1>1 DEF MarkAllRead, Unread
  <2>a. UNCHANGED <<outbox, sent, failed, call>> /\ note' = [n \in Notes |-> note'[n]]
    BY <1>1 DEF MarkAllRead
  <2>1. NotificationTypeOK'
    BY <2>0, <2>a DEF NotificationTypeOK
  <2>2. NoteHeldInv'
    BY <2>0, <2>a DEF NoteHeldInv, Delivering
  <2>3. ItemHasNote'
    BY <2>0, <2>a DEF ItemHasNote
  <2>4. AttemptsAccounted' /\ OneDeliverer'
    BY <2>a DEF AttemptsAccounted, OneDeliverer
  <2>5. FailedIsUnreachable'
    BY <2>0, <2>a DEF FailedIsUnreachable
  <2> QED BY <2>1, <2>2, <2>3, <2>4, <2>5
<1>2. ASSUME NEW q \in Calls, MarkRead(q) PROVE NoteIInv'
  <2> USE <1>2 DEF MarkRead
  <2>0. call[q].note \in Notes /\ note[call[q].note].internal
    BY DEF NoteHeldInv
  <2>a. note[call[q].note] \in NoteRow
    BY <2>0 DEF NotificationTypeOK, AbsentNote
  <2>b. [note[call[q].note] EXCEPT !.status = "LIDO", !.read = TRUE] \in NoteRow
    BY <2>a DEF NoteRow
  <2>c. note' = [note EXCEPT ![call[q].note] =
                   [note[call[q].note] EXCEPT !.status = "LIDO", !.read = TRUE]]
    BY <2>0, <2>a DEF NotificationTypeOK, NoteRow
  <2>1. NotificationTypeOK'
    BY <2>0, <2>b, <2>c DEF NotificationTypeOK, CallState, IdleCall
  <2>2. NoteHeldInv'
    BY <2>0 DEF NotificationTypeOK, NoteRow, AbsentNote, NoteHeldInv, Delivering, IdleCall
  <2>3. ItemHasNote'
    BY <2>0 DEF NotificationTypeOK, NoteRow, AbsentNote, ItemHasNote
  <2>4. AttemptsAccounted'
    BY DEF AttemptsAccounted
  <2>5. OneDeliverer'
    BY DEF NotificationTypeOK, OneDeliverer, IdleCall
  <2>6. FailedIsUnreachable'
    BY <2>0 DEF NotificationTypeOK, NoteRow, AbsentNote, FailedIsUnreachable
  <2> QED BY <2>1, <2>2, <2>3, <2>4, <2>5, <2>6
<1>3. ASSUME NEW q \in Calls, NEW n \in Notes, ReadNote(q, n) PROVE NoteIInv'
  <2> USE <1>3 DEF ReadNote, Unread, Rows
  <2>1. NotificationTypeOK'
    BY DEF NotificationTypeOK, CallState, IdleCall
  <2>2. NoteHeldInv'
    BY DEF NotificationTypeOK, NoteHeldInv, Delivering, IdleCall
  <2>3. ItemHasNote' /\ AttemptsAccounted' /\ FailedIsUnreachable'
    BY DEF ItemHasNote, AttemptsAccounted, FailedIsUnreachable
  <2>4. OneDeliverer'
    BY DEF NotificationTypeOK, OneDeliverer
  <2> QED BY <2>1, <2>2, <2>3, <2>4
<1> QED BY <1>1, <1>2, <1>3

\* The steps of a request that hold nothing new and write no row.
LEMMA LocalInv ==
  ASSUME NoteIInv, NEW q \in Calls,
         ProcessOutbox(q) \/ EndProcess(q) \/ Load(q) \/ SendEmail(q)
           \/ ConcludeFails(q) \/ Abort(q)
  PROVE  NoteIInv'
<1> USE DEF NoteIInv, ProcessOutbox, EndProcess, Load, SendEmail, ConcludeFails, Abort, Rows
<1>1. NotificationTypeOK'
  <2>1. outbox[call[q].note].attempts \in 0..3 \/ call[q].at # "load"
    BY DEF NotificationTypeOK, NoteHeldInv, Delivering, OutboxRow, AbsentItem
  <2> QED BY <2>1 DEF NotificationTypeOK, CallState, IdleCall
<1>2. NoteHeldInv'
  BY DEF NotificationTypeOK, CallState, NoteHeldInv, Delivering, IdleCall
<1>3. ItemHasNote' /\ AttemptsAccounted' /\ FailedIsUnreachable'
  BY DEF ItemHasNote, AttemptsAccounted, FailedIsUnreachable
<1>4. OneDeliverer'
  BY DEF NotificationTypeOK, CallState, OneDeliverer, IdleCall
<1> QED BY <1>1, <1>2, <1>3, <1>4

\* What is claimed was PENDENTE, so nobody was delivering it and it had failed
\* less than three times.
LEMMA NoteClaimInv ==
  ASSUME NoteIInv, NEW q \in Calls, NEW n \in Notes, ClaimItem(q, n)
  PROVE  NoteIInv'
<1> USE DEF NoteIInv, ClaimItem, ClaimableItem
<1>1. CASE outbox[n].status # "PENDENTE"
  <2> USE <1>1
  <2>1. NotificationTypeOK'
    BY DEF NotificationTypeOK, CallState
  <2>2. NoteHeldInv'
    BY DEF NotificationTypeOK, CallState, NoteHeldInv, Delivering
  <2>3. ItemHasNote' /\ AttemptsAccounted' /\ FailedIsUnreachable'
    BY DEF ItemHasNote, AttemptsAccounted, FailedIsUnreachable
  <2>4. OneDeliverer'
    BY DEF NotificationTypeOK, CallState, OneDeliverer
  <2> QED BY <2>1, <2>2, <2>3, <2>4
<1>2. CASE outbox[n].status = "PENDENTE"
  <2> USE <1>2
  <2>0. outbox[n].attempts \in 0..2 /\ outbox[n] \in OutboxRow
    BY DEF NotificationTypeOK, AttemptsAccounted, Count, OutboxRow, AbsentItem
  <2>a. PICK row \in OutboxRow :
          /\ outbox' = [outbox EXCEPT ![n] = row]
          /\ row.status = "PROCESSANDO" /\ row.attempts = outbox[n].attempts + 1
    <3> DEFINE row == [outbox[n] EXCEPT !.status = "PROCESSANDO",
                                       !.attempts = @ + 1]
    <3>1. row \in OutboxRow
      <4>1. [outbox[n] EXCEPT !.status = "PROCESSANDO"] \in OutboxRow
        BY <2>0, ItemStatusType
      <4>2. outbox[n].attempts + 1 \in 0..3
        BY <2>0
      <4> HIDE DEF ClaimItem, NoteIInv
      <4> QED BY <2>0, <4>1, <4>2 DEF OutboxRow
    <3>2. outbox' = [outbox EXCEPT ![n] = row]
      BY <2>0 DEF NotificationTypeOK, OutboxRow
    <3>3. row.status = "PROCESSANDO" /\ row.attempts = outbox[n].attempts + 1
      BY <2>0 DEF OutboxRow
    <3> QED BY <3>1, <3>2, <3>3
  <2>b. /\ call[q].at = "next"
        /\ call' = [call EXCEPT ![q].at = "load", ![q].todo = @ \ {n}, ![q].note = n]
        /\ UNCHANGED <<note, sent, failed>>
    OBVIOUS
  <2>c. [call[q] EXCEPT !.at = "load", !.todo = @ \ {n}, !.note = n] \in CallState
    BY DEF NotificationTypeOK, CallState
  <2> HIDE DEF ClaimItem, ClaimableItem
  <2>1. NotificationTypeOK'
    BY <2>a, <2>b, <2>c DEF NotificationTypeOK
  <2>2. NoteHeldInv'
    BY <2>0, <2>a, <2>b DEF NotificationTypeOK, CallState, NoteHeldInv, Delivering
  <2>3. ItemHasNote'
    BY <2>0, <2>a, <2>b DEF NotificationTypeOK, ItemHasNote
  <2>4. AttemptsAccounted'
    BY <2>0, <2>a, <2>b DEF NotificationTypeOK, AttemptsAccounted, Count
  <2>5. OneDeliverer'
    BY <2>0, <2>a, <2>b DEF NotificationTypeOK, CallState, OneDeliverer, NoteHeldInv, Delivering
  <2>6. FailedIsUnreachable'
    BY <2>0, <2>a, <2>b DEF NotificationTypeOK, FailedIsUnreachable
  <2> QED BY <2>1, <2>2, <2>3, <2>4, <2>5, <2>6
<1> QED BY <1>1, <1>2

\* The request that concludes or gives back an item is the one it is held by.
LEMMA ReturnInv ==
  ASSUME NoteIInv, NEW q \in Calls, Conclude(q) \/ FailDelivery(q)
  PROVE  NoteIInv'
<1> DEFINE n == call[q].note
<1>0. /\ n \in Notes /\ outbox[n].status = "PROCESSANDO"
      /\ call[q].attempts = outbox[n].attempts
      /\ outbox[n] \in OutboxRow /\ note[n] \in NoteRow
  BY DEF NoteIInv, NotificationTypeOK, NoteHeldInv, Delivering, ItemHasNote, Conclude, FailDelivery, AbsentItem,
         AbsentNote
<1>1. sent[n] = 0 /\ failed[n] \in 0..2 /\ outbox[n].attempts = failed[n] + 1
  BY <1>0 DEF NoteIInv, NotificationTypeOK, AttemptsAccounted, Count, OutboxRow
<1>2. \A p \in Calls \ {q} : Delivering(p) => call[p].note # n
  BY OneDelivererDef DEF NoteIInv, Delivering, Conclude, FailDelivery
<1>3. /\ call' = [call EXCEPT ![q].at = "next", ![q].note = NoNote, ![q].attempts = 0]
      /\ outbox' = [outbox EXCEPT ![n] = outbox'[n]]
      /\ outbox'[n] \in OutboxRow
      /\ outbox'[n].attempts = outbox[n].attempts
      /\ note' = [note EXCEPT ![n].status = note'[n].status]
      /\ note'[n].status \in {"ENVIADO", "FALHOU", note[n].status}
  BY <1>0, <1>1 DEF NoteIInv, NotificationTypeOK, Conclude, FailDelivery, Return, OutboxRow, NoteRow
<1>4. \/ /\ outbox'[n].status = "CONCLUIDO" /\ note'[n].status = "ENVIADO"
         /\ sent' = [sent EXCEPT ![n] = 1] /\ failed' = failed
      \/ /\ outbox'[n].status = "PENDENTE" /\ note' = note
         /\ sent' = sent /\ failed' = [failed EXCEPT ![n] = @ + 1] /\ failed[n] < 2
      \/ /\ outbox'[n].status = "FALHOU_PERMANENTEMENTE"
         /\ sent' = sent /\ failed' = [failed EXCEPT ![n] = @ + 1] /\ failed[n] = 2
         /\ note'[n].status = IF note[n].internal THEN note[n].status ELSE "FALHOU"
  BY <1>0, <1>1 DEF NoteIInv, NotificationTypeOK, Conclude, FailDelivery, Permanent, Unreachable, OutboxRow, NoteRow
<1> HIDE DEF n
<1>5. NotificationTypeOK'
  BY <1>0, <1>1, <1>3, <1>4 DEF NoteIInv, NotificationTypeOK, CallState, NoteRow
<1>6. NoteHeldInv'
  BY <1>0, <1>2, <1>3 DEF NoteIInv, NotificationTypeOK, CallState, NoteHeldInv, Delivering, NoteRow
<1>7. ItemHasNote'
  BY <1>0, <1>3 DEF NoteIInv, NotificationTypeOK, ItemHasNote, NoteRow
<1>8. AttemptsAccounted'
  BY <1>0, <1>1, <1>3, <1>4 DEF NoteIInv, NotificationTypeOK, AttemptsAccounted, Count
<1>9. OneDeliverer'
  BY <1>3 DEF NoteIInv, NotificationTypeOK, CallState, OneDeliverer
<1>10. FailedIsUnreachable'
  BY <1>0, <1>1, <1>3, <1>4 DEF NoteIInv, NotificationTypeOK, FailedIsUnreachable, NoteRow
<1> QED BY <1>5, <1>6, <1>7, <1>8, <1>9, <1>10 DEF NoteIInv

\* Time only makes what was put back due again.
LEMMA NoteTickInv == ASSUME NoteIInv, QuarterPasses PROVE NoteIInv'
<1> USE DEF NoteIInv, QuarterPasses
<1>0. ASSUME NEW n \in Notes
      PROVE  /\ outbox'[n] \in OutboxRow \cup {AbsentItem}
             /\ outbox'[n].status = outbox[n].status
             /\ outbox'[n].attempts = outbox[n].attempts
  <2>1. outbox'[n] = [outbox[n] EXCEPT !.later = FALSE]
    OBVIOUS
  <2>2. CASE outbox[n] \in OutboxRow
    BY <2>1, <2>2 DEF OutboxRow
  <2>3. CASE outbox[n] = AbsentItem
    <3>1. AbsentItem \in [status : {"ABSENT"}, attempts : {0}, later : {FALSE}]
      BY DEF AbsentItem
    <3>2. [AbsentItem EXCEPT !.later = FALSE] = AbsentItem
      BY <3>1
    <3> QED BY <2>1, <2>3, <3>2
  <2> QED BY <2>2, <2>3 DEF NotificationTypeOK
<1>1. NotificationTypeOK'
  BY <1>0 DEF NotificationTypeOK
<1> UNCHANGED <<note, sent, failed, call>>
  OBVIOUS
<1> HIDE DEF QuarterPasses
<1>2. \A n \in Notes : /\ outbox'[n].status = outbox[n].status
                       /\ outbox'[n].attempts = outbox[n].attempts
  BY <1>0
<1>3. NoteHeldInv'
  BY <1>2 DEF NoteHeldInv, Delivering
<1>a. ItemHasNote'
  BY <1>2 DEF ItemHasNote
<1>b. AttemptsAccounted'
  BY <1>2 DEF AttemptsAccounted, Count
<1>c. FailedIsUnreachable'
  BY <1>2 DEF FailedIsUnreachable
<1>4. OneDeliverer'
  BY DEF OneDeliverer
<1> QED BY <1>1, <1>3, <1>a, <1>b, <1>c, <1>4

LEMMA NoteNextInv == NoteIInv /\ [NotificationNext]_notificationVars => NoteIInv'
<1> SUFFICES ASSUME NoteIInv, [NotificationNext]_notificationVars PROVE NoteIInv'
  OBVIOUS
<1>1. CASE UNCHANGED notificationVars
  BY <1>1 DEF notificationVars, NoteIInv, NotificationTypeOK, NoteHeldInv, Delivering, ItemHasNote,
              AttemptsAccounted, OneDeliverer, FailedIsUnreachable
<1>2. CASE NotificationNext
  BY <1>2, CreateInv, ReadInv, LocalInv, NoteClaimInv, ReturnInv, NoteTickInv DEF NotificationNext
<1> QED BY <1>1, <1>2

LEMMA NoteInductive == NotificationSpec => []NoteIInv
  BY NoteInitInv, NoteNextInv, PTL DEF NotificationSpec

\* Type correctness; in particular no item is attempted more than three times.
THEOREM NoteTypeCorrect == NotificationSpec => []NotificationTypeOK
<1>1. NoteIInv => NotificationTypeOK
  BY DEF NoteIInv
<1> QED BY <1>1, NoteInductive, PTL

\* deliver: every claimed attempt ends in one delivery row or stays PROCESSANDO.
THEOREM EveryAttemptAccounted == NotificationSpec => []AttemptsAccounted
<1>1. NoteIInv => AttemptsAccounted
  BY DEF NoteIInv
<1> QED BY <1>1, NoteInductive, PTL

\* deliver: the conditional update that claims an item excludes other requests.
THEOREM DeliveredByOne == NotificationSpec => []OneDeliverer
<1>1. NoteIInv => OneDeliverer
  BY DEF NoteIInv
<1> QED BY <1>1, NoteInductive, PTL

\* deliver: what the user could see in the application is never FALHOU.
THEOREM FailedOnlyIfUnreachable == NotificationSpec => []FailedIsUnreachable
<1>1. NoteIInv => FailedIsUnreachable
  BY DEF NoteIInv
<1> QED BY <1>1, NoteInductive, PTL
=============================================================================
