----------------------------- MODULE Documents ------------------------------
(* Documents over two stores that share no transaction: the rows in the     *)
(* database, the files in an object store (src/src/documents,               *)
(* src/src/storage).                                                        *)
(*                                                                          *)
(* Every call of a request to either store is a step of its own; between    *)
(* two of them others run, the request may stop for good, and a call may be *)
(* answered with an error although it took effect.  A key is a fresh random *)
(* identifier, as the identity of a document is: one stands for both.       *)
EXTENDS Naturals, FiniteSets

CONSTANTS
  DocumentIds,  \* bound: documents ever uploaded
  People,       \* what a document may be linked with: a person, a unit or a
  Investments,  \* development, or an investment that not everyone may see
  Requests,     \* requests in flight at once
  Null          \* no link

ASSUME NullAssumption == Null \notin People \cup Investments \cup {"local", "s3"}

VARIABLES
  row,        \* the rows of Document
  objects,    \* the files, with the store that has them
  owners,     \* people and investments that exist
  driver,     \* STORAGE_DRIVER of the process started last
  minted,     \* identities drawn so far
  acked,      \* documents whose upload was answered with success
  asked,      \* documents whose removal was asked for
  removed,    \* documents whose removal was answered with success
  missing,    \* documents whose file a download did not find
  spoiled,    \* documents whose upload ended without a say over the file
  req         \* requests in flight

history == <<acked, asked, removed, missing, spoiled>>

vars == <<row, objects, owners, driver, minted, history, req>>

Owners == People \cup Investments
Providers == {"local", "s3"}

Absent == [provider |-> Null]
Here(d) == row[d] # Absent

DocumentRow == [provider : Providers, link : Owners \cup {Null}]

Idle == [at |-> "idle"]

RequestState ==
  {Idle}
    \cup [at : {"upload", "insert", "undo"}, id : DocumentIds, driver : Providers,
          link : Owners \cup {Null}]
    \cup [at : {"erase", "delete", "open"}, id : DocumentIds, driver : Providers,
          provider : Providers]

\* The drivers that a process has: the local one, and its default.
Registry(r) == {"local", req[r].driver}

\* Mutant: files are looked up in the default store of the process.
BugStoreOf(r) == req[r].driver

\* Where the file of a document that was read is.
StoreOf(r) == req[r].provider

\* Documents linked with an investment are hidden from most users.
Visible(link, financial) == link \in Investments => financial

Goto(r, at) == req' = [req EXCEPT ![r].at = at]
End(r) == req' = [req EXCEPT ![r] = Idle]
-----------------------------------------------------------------------------
(* create.                                                                  *)

\* What it is linked with must exist when it is looked up.
BeginCreate(r, d, link, financial) ==
  /\ req[r] = Idle
  /\ d \notin minted
  /\ Visible(link, financial)
  /\ link \in owners \cup {Null}
  /\ minted' = minted \cup {d}
  /\ req' = [req EXCEPT ![r] =
       [at |-> "upload", id |-> d, driver |-> driver, link |-> link]]
  /\ UNCHANGED <<row, objects, owners, driver, history>>

File(r) == <<req[r].id, req[r].driver>>

Upload(r) ==
  /\ req[r].at = "upload"
  /\ objects' = objects \cup {File(r)}
  /\ Goto(r, "insert")
  /\ UNCHANGED <<row, owners, driver, minted, history>>

\* The error is answered as it is: nothing is undone.
UploadFails(r) ==
  /\ req[r].at = "upload"
  /\ objects' \in {objects, objects \cup {File(r)}}
  /\ spoiled' = spoiled \cup {req[r].id}
  /\ End(r)
  /\ UNCHANGED <<row, owners, driver, minted, acked, asked, removed, missing>>

\* The foreign keys of the row refuse what is gone.
Insert(r) ==
  /\ req[r].link \in owners \cup {Null}
  /\ row' = [row EXCEPT ![req[r].id] =
       [provider |-> req[r].driver, link |-> req[r].link]]

CommitCreate(r) ==
  /\ req[r].at = "insert"
  /\ Insert(r)
  /\ acked' = acked \cup {req[r].id}
  /\ End(r)
  /\ UNCHANGED <<objects, owners, driver, minted, asked, removed, missing, spoiled>>

\* The transaction fails, or the answer to its commit is lost.
CreateFails(r) ==
  /\ req[r].at = "insert"
  /\ Insert(r) \/ UNCHANGED row
  /\ Goto(r, "undo")
  /\ UNCHANGED <<objects, owners, driver, minted, history>>

\* Mutant: the file of a failed creation is kept.
BugUndone(r) == objects

Undone(r) == objects \ {File(r)}

Compensate(r) ==
  /\ req[r].at = "undo"
  /\ objects' = Undone(r)
  /\ End(r)
  /\ UNCHANGED <<row, owners, driver, minted, history>>

\* Logged, as document_storage_compensation_failed.
CompensationFails(r) ==
  /\ req[r].at = "undo"
  /\ objects' \in {objects, Undone(r)}
  /\ spoiled' = spoiled \cup {req[r].id}
  /\ End(r)
  /\ UNCHANGED <<row, owners, driver, minted, acked, asked, removed, missing>>
-----------------------------------------------------------------------------
(* download and remove.                                                     *)

Read(r, d, financial, at) ==
  /\ req[r] = Idle
  /\ Here(d)
  /\ Visible(row[d].link, financial)
  /\ req' = [req EXCEPT ![r] =
       [at |-> at, id |-> d, driver |-> driver, provider |-> row[d].provider]]

BeginDownload(r, d, financial) ==
  /\ Read(r, d, financial, "open")
  /\ UNCHANGED <<row, objects, owners, driver, minted, history>>

\* Served once it is audited; or the file is not there.
Download(r) ==
  /\ req[r].at = "open"
  /\ StoreOf(r) \in Registry(r)
  /\ missing' = IF <<req[r].id, StoreOf(r)>> \in objects THEN missing
                ELSE missing \cup {req[r].id}
  /\ End(r)
  /\ UNCHANGED <<row, objects, owners, driver, minted, acked, asked, removed, spoiled>>

BeginRemove(r, d, financial) ==
  /\ Read(r, d, financial, "erase")
  /\ asked' = asked \cup {d}
  /\ UNCHANGED <<row, objects, owners, driver, minted, acked, removed, missing, spoiled>>

\* The file goes first; one that is gone already will do.
Erase(r) ==
  /\ req[r].at = "erase"
  /\ StoreOf(r) \in Registry(r)
  /\ objects' = objects \ {<<req[r].id, StoreOf(r)>>}
  /\ Goto(r, "delete")
  /\ UNCHANGED <<row, owners, driver, minted, history>>

\* An error of the store ends the removal, whether or not the file is gone.
EraseFails(r) ==
  /\ req[r].at = "erase"
  /\ \/ UNCHANGED objects
     \/ StoreOf(r) \in Registry(r) /\ objects' = objects \ {<<req[r].id, StoreOf(r)>>}
  /\ End(r)
  /\ UNCHANGED <<row, owners, driver, minted, history>>

\* Somebody else may have deleted the row: an error.
CommitRemove(r) ==
  /\ req[r].at = "delete"
  /\ Here(req[r].id)
  /\ row' = [row EXCEPT ![req[r].id] = Absent]
  /\ removed' = removed \cup {req[r].id}
  /\ End(r)
  /\ UNCHANGED <<objects, owners, driver, minted, acked, asked, missing, spoiled>>

\* The answer to the commit is lost.
RemoveUnanswered(r) ==
  /\ req[r].at = "delete"
  /\ Here(req[r].id)
  /\ row' = [row EXCEPT ![req[r].id] = Absent]
  /\ End(r)
  /\ UNCHANGED <<objects, owners, driver, minted, history>>
-----------------------------------------------------------------------------
(* The environment.                                                         *)

\* A request fails at a read or a commit, or its process stops: what a
\* creation stored stays.
Stop(r) ==
  /\ req[r] # Idle
  /\ spoiled' = IF req[r].at \in {"insert", "undo"}
                THEN spoiled \cup {req[r].id} ELSE spoiled
  /\ End(r)
  /\ UNCHANGED <<row, objects, owners, driver, minted, acked, asked, removed, missing>>

\* A new process takes over, configured for the other store; the requests of
\* the old one go on.
Deploy ==
  /\ driver' \in Providers \ {driver}
  /\ UNCHANGED <<row, objects, owners, minted, history, req>>

\* Mutant: ON DELETE CASCADE.
BugUnlinked(o) == [d \in DocumentIds |->
  IF Here(d) /\ row[d].link = o THEN Absent ELSE row[d]]

\* ON DELETE SET NULL.
Unlinked(o) == [d \in DocumentIds |->
  IF Here(d) /\ row[d].link = o THEN [row[d] EXCEPT !.link = Null] ELSE row[d]]

RemoveOwner(o) ==
  /\ o \in owners
  /\ owners' = owners \ {o}
  /\ row' = Unlinked(o)
  /\ UNCHANGED <<objects, driver, minted, history, req>>
-----------------------------------------------------------------------------
Init ==
  /\ row = [d \in DocumentIds |-> Absent]
  /\ objects = {}
  /\ owners = Owners
  /\ driver \in Providers
  /\ minted = {}
  /\ acked = {} /\ asked = {} /\ removed = {} /\ missing = {} /\ spoiled = {}
  /\ req = [r \in Requests |-> Idle]

Next ==
  \/ \E r \in Requests :
       \/ \E d \in DocumentIds, financial \in BOOLEAN :
            \/ \E link \in Owners \cup {Null} : BeginCreate(r, d, link, financial)
            \/ BeginDownload(r, d, financial)
            \/ BeginRemove(r, d, financial)
       \/ Upload(r) \/ UploadFails(r)
       \/ CommitCreate(r) \/ CreateFails(r)
       \/ Compensate(r) \/ CompensationFails(r)
       \/ Download(r)
       \/ Erase(r) \/ EraseFails(r)
       \/ CommitRemove(r) \/ RemoveUnanswered(r)
       \/ Stop(r)
  \/ Deploy
  \/ \E o \in Owners : RemoveOwner(o)

Spec == Init /\ [][Next]_vars
-----------------------------------------------------------------------------
(* Properties.                                                              *)

TypeOK ==
  /\ row \in [DocumentIds -> DocumentRow \cup {Absent}]
  /\ objects \subseteq DocumentIds \X Providers
  /\ owners \subseteq Owners
  /\ driver \in Providers
  /\ minted \subseteq DocumentIds
  /\ \A S \in {acked, asked, removed, missing, spoiled} : S \subseteq minted
  /\ req \in [Requests -> RequestState]

Stored(d) == \E p \in Providers : <<d, p>> \in objects

Creating(d) ==
  \E r \in Requests : req[r].at \in {"insert", "undo"} /\ req[r].id = d

\* AcknowledgedIsKept: a document whose upload was answered with success has
\* its row, its file, and a download that finds it, until its removal is asked
\* for: whatever fails or is deployed, and whatever it is linked with goes.
AcknowledgedIsKept ==
  /\ TypeOK
  /\ \A d \in acked \ asked :
       Here(d) /\ <<d, row[d].provider>> \in objects /\ d \notin missing

\* RemovedLeavesNothing: a removal is answered with success only when neither
\* the row nor a file in any store is left, nor ever comes back ("avoids
\* acknowledging deletion while retaining private bytes", documents.service.ts).
RemovedLeavesNothing == \A d \in removed : ~Here(d) /\ ~Stored(d)

\* OrphanExplained: a file without a row is that of an upload in flight, of one
\* whose storage answered with an error, whose compensation failed (and was
\* logged), or whose process stopped; never that of a removal, however often it
\* failed or was asked for.
OrphanExplained ==
  \A d \in DocumentIds : Stored(d) /\ ~Here(d) => Creating(d) \/ d \in spoiled
=============================================================================
