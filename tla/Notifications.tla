----------------------------- MODULE Notifications -----------------------------
(***************************************************************************)
(* Notifications to the users of an organization and the outbox of the     *)
(* e-mails they give rise to.  An administrator drains the outbox by hand, *)
(* maybe several at once: each item is claimed with a conditional update,  *)
(* sent, and concluded or put back in one transaction.  `call' keeps what  *)
(* processOutbox keeps in local variables between two awaited statements.  *)
(* The names are its own, so that it can stand beside Collections.         *)
(***************************************************************************)
EXTENDS Integers, FiniteSets

CONSTANTS
  Notes,   \* notifications
  Calls,   \* calls of processOutbox and markRead in flight at once
  NoNote

ASSUME NoNoteAssumption == NoNote \notin Notes

VARIABLES
  note,    \* Notification rows
  outbox,  \* NotificationOutbox rows, one per notification sent by e-mail
  sent,    \* EMAIL deliveries recorded as ENVIADO
  failed,  \* EMAIL deliveries recorded as FALHOU
  call     \* requests in flight

notificationVars == <<note, outbox, sent, failed, call>>

AbsentNote == [status |-> "ABSENT", internal |-> FALSE, read |-> FALSE]

NoteRow ==
  [status   : {"PENDENTE", "ENVIADO", "FALHOU", "LIDO"},
   internal : BOOLEAN,   \* channel includes INTERNAL
   read     : BOOLEAN]   \* readAt IS NOT NULL

AbsentItem == [status |-> "ABSENT", attempts |-> 0, later |-> FALSE]

OutboxRow ==
  [status   : {"PENDENTE", "PROCESSANDO", "CONCLUIDO", "FALHOU_PERMANENTEMENTE"},
   attempts : 0..3,
   later    : BOOLEAN]   \* nextAttemptAt is in the future

IdleCall == [at |-> "idle", todo |-> {}, note |-> NoNote, attempts |-> 0]

CallState ==
  [at       : {"idle", "next", "load", "send", "conclude", "fail", "read"},
   todo     : SUBSET Notes,
   note     : Notes \cup {NoNote},
   attempts : 0..3]

NotificationTypeOK ==
  /\ note \in [Notes -> NoteRow \cup {AbsentNote}]
  /\ outbox \in [Notes -> OutboxRow \cup {AbsentItem}]
  /\ sent \in [Notes -> 0..1]
  /\ failed \in [Notes -> 0..3]
  /\ call \in [Calls -> CallState]

NotificationInit ==
  /\ note = [n \in Notes |-> AbsentNote]
  /\ outbox = [n \in Notes |-> AbsentItem]
  /\ sent = [n \in Notes |-> 0]
  /\ failed = [n \in Notes |-> 0]
  /\ call = [q \in Calls |-> IdleCall]

Rows == <<note, outbox, sent, failed>>

-----------------------------------------------------------------------------
\* createForUser: the recipient takes the type on at least one channel.
CreateForUser(n, internal, email) ==
  /\ note[n] = AbsentNote
  /\ internal \/ email
  /\ note' = [note EXCEPT
                ![n] = [status   |-> IF internal THEN "ENVIADO" ELSE "PENDENTE",
                        internal |-> internal, read |-> FALSE]]
  /\ outbox' = IF email THEN [outbox EXCEPT ![n].status = "PENDENTE"] ELSE outbox
  /\ UNCHANGED <<sent, failed, call>>

Unread(row) == row.internal /\ ~row.read

\* markRead: looked up ...
ReadNote(q, n) ==
  /\ call[q] = IdleCall
  /\ Unread(note[n])
  /\ call' = [call EXCEPT ![q].at = "read", ![q].note = n]
  /\ UNCHANGED Rows

\* ... and updated.
MarkRead(q) ==
  /\ call[q].at = "read"
  /\ note' = [note EXCEPT ![call[q].note].status = "LIDO", ![call[q].note].read = TRUE]
  /\ call' = [call EXCEPT ![q] = IdleCall]
  /\ UNCHANGED <<outbox, sent, failed>>

MarkAllRead ==
  /\ \E n \in Notes : Unread(note[n])
  /\ note' = [n \in Notes |->
                IF Unread(note[n]) THEN [note[n] EXCEPT !.status = "LIDO", !.read = TRUE]
                ELSE note[n]]
  /\ UNCHANGED <<outbox, sent, failed, call>>

-----------------------------------------------------------------------------
(* processOutbox and deliver                                               *)

ProcessOutbox(q) ==
  /\ call[q] = IdleCall
  /\ LET due == {n \in Notes : outbox[n].status = "PENDENTE" /\ ~outbox[n].later} IN
       /\ due # {}
       /\ call' = [call EXCEPT ![q].at = "next", ![q].todo = due]
  /\ UNCHANGED Rows

EndProcess(q) ==
  /\ call[q].at = "next"
  /\ call[q].todo = {}
  /\ call' = [call EXCEPT ![q] = IdleCall]
  /\ UNCHANGED Rows

\* Mutant: an item another request is delivering can be claimed.
BugClaimableItem(row) == row.status \in {"PENDENTE", "PROCESSANDO"}

ClaimableItem(row) == row.status = "PENDENTE"

ClaimItem(q, n) ==
  /\ call[q].at = "next"
  /\ n \in call[q].todo
  /\ IF ClaimableItem(outbox[n])
     THEN /\ outbox' = [outbox EXCEPT ![n].status = "PROCESSANDO",
                                      ![n].attempts = @ + 1]
          /\ call' = [call EXCEPT ![q].at = "load", ![q].todo = @ \ {n},
                                  ![q].note = n]
     ELSE /\ call' = [call EXCEPT ![q].todo = @ \ {n}]
          /\ outbox' = outbox
  /\ UNCHANGED <<note, sent, failed>>

\* The claimed item is read again, outside of the try.
Load(q) ==
  /\ call[q].at = "load"
  /\ call' = [call EXCEPT ![q].at = "send",
                          ![q].attempts = outbox[call[q].note].attempts]
  /\ UNCHANGED Rows

\* No provider, no active recipient, a refusal or a lost answer: it failed.
SendEmail(q) ==
  /\ call[q].at = "send"
  /\ \E at \in {"conclude", "fail"} : call' = [call EXCEPT ![q].at = at]
  /\ UNCHANGED Rows

Return(q) ==
  call' = [call EXCEPT ![q].at = "next", ![q].note = NoNote, ![q].attempts = 0]

\* A notification that was read in between is ENVIADO again.
Conclude(q) ==
  /\ call[q].at = "conclude"
  /\ LET n == call[q].note IN
       /\ sent' = [sent EXCEPT ![n] = @ + 1]
       /\ outbox' = [outbox EXCEPT ![n].status = "CONCLUIDO"]
       /\ note' = [note EXCEPT ![n].status = "ENVIADO"]
  /\ Return(q)
  /\ UNCHANGED failed

\* The transaction of Conclude failed: the e-mail counts as not sent.
ConcludeFails(q) ==
  /\ call[q].at = "conclude"
  /\ call' = [call EXCEPT ![q].at = "fail"]
  /\ UNCHANGED Rows

\* Mutant: one attempt too many.
BugPermanent(attempts) == attempts > 3

Permanent(attempts) == attempts >= 3

\* Mutant: the notification is marked failed although it was shown.
BugUnreachable(row) == TRUE

\* The notification was not shown within the application either.
Unreachable(row) == ~row.internal

FailDelivery(q) ==
  /\ call[q].at = "fail"
  /\ LET n == call[q].note
         permanent == Permanent(call[q].attempts)
     IN /\ failed' = [failed EXCEPT ![n] = @ + 1]
        /\ outbox' = [outbox EXCEPT
                        ![n].status = IF permanent THEN "FALHOU_PERMANENTEMENTE"
                                      ELSE "PENDENTE",
                        ![n].later = IF permanent THEN @ ELSE TRUE]
        /\ note' = IF permanent /\ Unreachable(note[n])
                   THEN [note EXCEPT ![n].status = "FALHOU"] ELSE note
  /\ Return(q)
  /\ UNCHANGED sent

-----------------------------------------------------------------------------
\* A quarter of an hour passes.
QuarterPasses ==
  /\ \E n \in Notes : outbox[n].later
  /\ outbox' = [n \in Notes |-> [outbox[n] EXCEPT !.later = FALSE]]
  /\ UNCHANGED <<note, sent, failed, call>>

\* A statement outside of the try throws, or the server stops: what the
\* request had claimed stays PROCESSANDO.
Abort(q) ==
  /\ call[q] # IdleCall
  /\ call' = [call EXCEPT ![q] = IdleCall]
  /\ UNCHANGED Rows

NotificationNext ==
  \/ \E n \in Notes, internal, email \in BOOLEAN : CreateForUser(n, internal, email)
  \/ MarkAllRead
  \/ QuarterPasses
  \/ \E q \in Calls :
       \/ \E n \in Notes : ReadNote(q, n) \/ ClaimItem(q, n)
       \/ MarkRead(q)
       \/ ProcessOutbox(q)
       \/ EndProcess(q)
       \/ Load(q)
       \/ SendEmail(q)
       \/ Conclude(q)
       \/ ConcludeFails(q)
       \/ FailDelivery(q)
       \/ Abort(q)

NotificationSpec == NotificationInit /\ [][NotificationNext]_notificationVars

-----------------------------------------------------------------------------
Count(condition) == IF condition THEN 1 ELSE 0

\* Every attempt is accounted for, although several requests drain the outbox
\* and any of them may die: it left one delivery row, or it is the one the
\* item is PROCESSANDO for; an item is CONCLUIDO exactly when a delivery says
\* ENVIADO, and given up exactly when three say FALHOU.
AttemptsAccounted ==
  \A n \in Notes :
    LET row == outbox[n] IN
      /\ row.attempts = failed[n] + sent[n] + Count(row.status = "PROCESSANDO")
      /\ sent[n] = Count(row.status = "CONCLUIDO")
      /\ row.status = "FALHOU_PERMANENTEMENTE" <=> failed[n] = 3

\* No two requests deliver the same notification at once.
OneDeliverer ==
  \A q1, q2 \in Calls :
    /\ {call[q1].at, call[q2].at} \subseteq {"load", "send", "conclude", "fail"}
    /\ call[q1].note = call[q2].note
    => q1 = q2

\* A notification is FALHOU exactly when its e-mail was given up and it was
\* not shown within the application.
FailedIsUnreachable ==
  \A n \in Notes :
    note[n].status = "FALHOU" <=>
      outbox[n].status = "FALHOU_PERMANENTEMENTE" /\ ~note[n].internal
=============================================================================
