\* Two runs at once and cancellations, with one upset: a stop of the server, a
\* failed statement, a retry or an attempt longer than half an hour.
SPECIFICATION FairSpec
CONSTANTS
  Null = Null
  Rules = {g1}
  Receivables = {v1}
  Timer = timer
  Posted = {p1}
  Requests = {q1}
  MaxUpsets = 1
INVARIANTS
  OneSenderPerDispatch
  SentWasAccepted
PROPERTIES
  EventuallyDecided
