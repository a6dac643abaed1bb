\* Two requests drain the outbox while users read their notifications.
SPECIFICATION NotificationSpec
CONSTANTS
  NoNote = NoNote
  Notes = {n1, n2}
  Calls = {q1, q2}
\* Nothing is left to do once every notification is delivered and read.
CHECK_DEADLOCK FALSE
SYMMETRY Symmetry
INVARIANTS
  NotificationTypeOK
  AttemptsAccounted
  OneDeliverer
  FailedIsUnreachable
