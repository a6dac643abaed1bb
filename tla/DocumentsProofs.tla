--------------------------- MODULE DocumentsProofs --------------------------
(***************************************************************************)
(* What was acknowledged is kept, what was removed is gone and every       *)
(* orphan file is explained, for any number of documents and requests.     *)
(* The inductive invariant says which calls may still touch a document: an *)
(* identity has one creation, nothing reads it before its row is there,    *)
(* and its file is only ever in the store of that creation.                *)
(***************************************************************************)
EXTENDS Documents, TLAPS

\* A creation that has not tried to insert its row yet, and any creation.
Early(s) == s.at \in {"upload", "insert"}
Creator(s) == s.at \in {"upload", "insert", "undo"}

\* A download or a removal.
Reader(s) == s.at \in {"erase", "delete", "open"}

Compatible(s, q) ==
  /\ Creator(s) /\ Creator(q) => s.id # q.id
  /\ Early(s) /\ Reader(q) => s.id # q.id
  /\ Reader(s) /\ Early(q) => s.id # q.id

\* An identity has one creation, and no reader before its row is inserted.
IdentityInv ==
  \A r, q \in Requests : r # q => Compatible(req[r], req[q])

\* What a creation has done so far.
HeldCreator(s) ==
  /\ Creator(s) =>
       /\ s.id \in minted
       /\ s.id \notin acked
       /\ \A p \in Providers : <<s.id, p>> \in objects => p = s.driver
  /\ Early(s) => ~Here(s.id) /\ s.id \notin asked \cup removed \cup missing
  /\ s.at = "upload" => ~Stored(s.id)
  /\ s.at = "insert" => <<s.id, s.driver>> \in objects

\* A reader knows the store of its document; the file goes before the row.
HeldReader(s) ==
  /\ Reader(s) => /\ s.id \in minted
                  /\ Here(s.id) => row[s.id].provider = s.provider
  /\ s.at \in {"erase", "delete"} => s.id \in asked
  /\ s.at = "delete" => <<s.id, s.provider>> \notin objects

HeldInv == \A r \in Requests : HeldCreator(req[r]) /\ HeldReader(req[r])

\* The file of a document is in the store its row names and nowhere else.
StoreInv ==
  /\ \A d \in DocumentIds : Here(d) \/ Stored(d) => d \in minted
  /\ \A d \in DocumentIds, p \in Providers :
       Here(d) /\ <<d, p>> \in objects => p = row[d].provider

IInv ==
  /\ IdentityInv
  /\ HeldInv
  /\ StoreInv
  /\ AcknowledgedIsKept
  /\ RemovedLeavesNothing
  /\ OrphanExplained

-----------------------------------------------------------------------------
(* The rows and requests, field by field.                                  *)

\* A row is not absent, and names its store and its link.
LEMMA RowType ==
  ASSUME NEW x \in DocumentRow
  PROVE  /\ x # Absent
         /\ x.provider \in Providers
         /\ x.link \in Owners \cup {Null}
<1>1. x.provider \in Providers /\ x.link \in Owners \cup {Null}
  BY DEF DocumentRow
<1>2. Absent.provider = Null
  BY DEF Absent
<1> QED
  BY <1>1, <1>2, NullAssumption DEF Providers

LEMMA HereType ==
  ASSUME TypeOK, NEW d \in DocumentIds, Here(d)
  PROVE  row[d] \in DocumentRow
BY DEF TypeOK, Here

LEMMA RequestType ==
  ASSUME TypeOK, NEW r \in Requests
  PROVE  /\ req[r] \in RequestState
         /\ Creator(req[r]) => /\ req[r] \in [at : {"upload", "insert", "undo"},
                                              id : DocumentIds, driver : Providers,
                                              link : Owners \cup {Null}]
                               /\ req[r].id \in DocumentIds
                               /\ req[r].driver \in Providers
                               /\ req[r].link \in Owners \cup {Null}
         /\ Reader(req[r]) => /\ req[r] \in [at : {"erase", "delete", "open"},
                                             id : DocumentIds, driver : Providers,
                                             provider : Providers]
                              /\ req[r].id \in DocumentIds
                              /\ req[r].provider \in Providers
BY DEF TypeOK, RequestState, Idle, Creator, Reader

\* An idle request holds nothing.
LEMMA IdleHoldsNothing ==
  /\ Idle \in RequestState
  /\ HeldCreator(Idle) /\ HeldReader(Idle)
  /\ ~Creator(Idle) /\ ~Early(Idle) /\ ~Reader(Idle)
  /\ \A q : Compatible(Idle, q) /\ Compatible(q, Idle)
BY DEF Idle, RequestState, HeldCreator, HeldReader, Creator, Early, Reader, Compatible

\* No row, file or request at first.
LEMMA InitInv == Init => IInv
<1> SUFFICES ASSUME Init PROVE IInv
  OBVIOUS
<1>1. IdentityInv
  BY IdleHoldsNothing DEF Init, IdentityInv
<1>2. HeldInv
  BY IdleHoldsNothing DEF Init, HeldInv
<1>3. StoreInv
  BY DEF Init, StoreInv, Here, Stored
<1>4. TypeOK
  BY DEF Init, TypeOK, RequestState
<1>5. AcknowledgedIsKept /\ RemovedLeavesNothing /\ OrphanExplained
  BY <1>4 DEF Init, AcknowledgedIsKept, RemovedLeavesNothing, OrphanExplained, Stored
<1> QED
  BY <1>1, <1>2, <1>3, <1>5 DEF IInv

-----------------------------------------------------------------------------
(* Steps of a request.                                                     *)

\* Request r becomes s, which shares its document as it may.
LEMMA RequestStep ==
  ASSUME TypeOK, IdentityInv, NEW r \in Requests, NEW s \in RequestState,
         req' = [req EXCEPT ![r] = s],
         \A q \in Requests \ {r} : Compatible(s, req[q])
  PROVE  /\ IdentityInv'
         /\ req' \in [Requests -> RequestState]
         /\ req'[r] = s
         /\ \A q \in Requests \ {r} : req'[q] = req[q]
<1>1. /\ req' \in [Requests -> RequestState]
      /\ req'[r] = s
      /\ \A q \in Requests \ {r} : req'[q] = req[q]
  BY DEF TypeOK
<1>2. \A q \in Requests \ {r} : Compatible(req[q], s)
  BY DEF Compatible
<1> QED
  BY <1>1, <1>2 DEF IdentityInv, Compatible

\* Request r ends.
LEMMA EndStep ==
  ASSUME IInv, NEW r \in Requests, End(r)
  PROVE  /\ IdentityInv'
         /\ req' \in [Requests -> RequestState]
         /\ req'[r] = Idle
         /\ \A q \in Requests \ {r} : req'[q] = req[q] /\ Compatible(req[r], req[q])
<1>1. TypeOK /\ IdentityInv
  BY DEF IInv, AcknowledgedIsKept
<1>2. req' = [req EXCEPT ![r] = Idle]
  BY DEF End
<1>3. /\ IdentityInv'
      /\ req' \in [Requests -> RequestState]
      /\ req'[r] = Idle
      /\ \A q \in Requests \ {r} : req'[q] = req[q]
  BY <1>1, <1>2, IdleHoldsNothing, RequestStep
<1> QED
  BY <1>1, <1>3 DEF IdentityInv

\* Request r goes on with the same document.
LEMMA GotoStep ==
  ASSUME IInv, NEW r \in Requests, NEW at, Goto(r, at),
         \/ Creator(req[r]) /\ at \in {"insert", "undo"} /\ (at = "insert" => Early(req[r]))
         \/ Reader(req[r]) /\ at = "delete"
  PROVE  /\ IdentityInv'
         /\ req' \in [Requests -> RequestState]
         /\ req'[r].at = at
         /\ req'[r].id = req[r].id
         /\ Creator(req[r]) => req'[r].driver = req[r].driver
         /\ Reader(req[r]) => req'[r].provider = req[r].provider
         /\ \A q \in Requests \ {r} : req'[q] = req[q] /\ Compatible(req[r], req[q])
<1> DEFINE s == [req[r] EXCEPT !.at = at]
<1>0. TypeOK /\ req[r] \in RequestState
  BY RequestType DEF IInv, AcknowledgedIsKept
<1>1. /\ s \in RequestState
      /\ s.at = at /\ s.id = req[r].id
      /\ Creator(req[r]) => s.driver = req[r].driver
      /\ Reader(req[r]) => s.provider = req[r].provider
  <2>1. CASE Creator(req[r])
    <3>1. req[r] \in [at : {"upload", "insert", "undo"}, id : DocumentIds, driver : Providers,
                      link : Owners \cup {Null}]
      BY <1>0, <2>1, RequestType
    <3>2. s \in [at : {"upload", "insert", "undo"}, id : DocumentIds, driver : Providers,
                 link : Owners \cup {Null}]
      BY <2>1, <3>1 DEF Creator, Reader
    <3> QED
      BY <2>1, <3>1, <3>2 DEF RequestState, Creator, Reader
  <2>2. CASE Reader(req[r])
    <3>1. req[r] \in [at : {"erase", "delete", "open"}, id : DocumentIds, driver : Providers,
                      provider : Providers]
      BY <1>0, <2>2, RequestType
    <3>2. s \in [at : {"erase", "delete", "open"}, id : DocumentIds, driver : Providers,
                 provider : Providers]
      BY <2>2, <3>1 DEF Creator, Reader
    <3> QED
      BY <2>2, <3>1, <3>2 DEF RequestState, Creator, Reader
  <2> QED
    BY <2>1, <2>2
<1>2. req' = [req EXCEPT ![r] = s]
  BY DEF Goto
<1> HIDE DEF s
<1>3. \A q \in Requests \ {r} : Compatible(req[r], req[q])
  BY DEF IInv, IdentityInv
<1>4. \A q \in Requests \ {r} : Compatible(s, req[q])
  BY <1>1, <1>3 DEF Compatible, Creator, Early, Reader
<1> QED
  BY <1>0, <1>1, <1>2, <1>3, <1>4, RequestStep DEF IInv

\* What a request s holds survives a step that gives its document no row, file
\* or answer of its own.
LEMMA HeldStep ==
  ASSUME NEW s, HeldCreator(s), HeldReader(s),
         Creator(s) \/ Reader(s) =>
           /\ \A p \in Providers \cup {s.provider} :
                <<s.id, p>> \in objects' => <<s.id, p>> \in objects
           /\ Here(s.id)' => Here(s.id) /\ row'[s.id].provider = row[s.id].provider,
         Creator(s) /\ s.id \notin acked => s.id \notin acked',
         Early(s) /\ s.id \notin asked \cup removed \cup missing =>
           s.id \notin asked' \cup removed' \cup missing',
         s.at = "insert" /\ <<s.id, s.driver>> \in objects => <<s.id, s.driver>> \in objects',
         minted \subseteq minted', asked \subseteq asked'
  PROVE  HeldCreator(s)' /\ HeldReader(s)'
<1>1. HeldReader(s)'
  BY DEF HeldReader, Reader
<1>2. HeldCreator(s)'
  <2>1. Creator(s) => /\ s.id \in minted'
                      /\ s.id \notin acked'
                      /\ \A p \in Providers : <<s.id, p>> \in objects' => p = s.driver
    BY DEF HeldCreator
  <2>2. Early(s) => ~Here(s.id)' /\ s.id \notin asked' \cup removed' \cup missing'
    BY DEF HeldCreator, Early, Creator
  <2>3. s.at = "upload" => ~Stored(s.id)'
    BY DEF HeldCreator, Creator, Stored
  <2>4. s.at = "insert" => <<s.id, s.driver>> \in objects'
    BY DEF HeldCreator
  <2> QED
    BY <2>1, <2>2, <2>3, <2>4 DEF HeldCreator
<1> QED
  BY <1>1, <1>2

\* A step of request r on its document d takes nothing from the others: those
\* that share d only need that it gets no new row and no new file.
LEMMA OthersHold ==
  ASSUME IInv, NEW r \in Requests, NEW d, d = req[r].id,
         Creator(req[r]) \/ Reader(req[r]),
         \A q \in Requests \ {r} : req'[q] = req[q] /\ Compatible(req[r], req[q]),
         UNCHANGED <<minted, asked>>,
         acked' = acked \/ (Early(req[r]) /\ acked' = acked \cup {d}),
         removed' \subseteq removed \cup {d}, missing' \subseteq missing \cup {d},
         \A x, p : x # d => (<<x, p>> \in objects' <=> <<x, p>> \in objects),
         objects' \subseteq objects \/ Early(req[r]),
         \A x : x # d => row'[x] = row[x],
         row'[d] \in {row[d], Absent} \/ Early(req[r])
  PROVE  \A q \in Requests \ {r} : HeldCreator(req[q])' /\ HeldReader(req[q])'
<1> SUFFICES ASSUME NEW q \in Requests \ {r} PROVE HeldCreator(req[q])' /\ HeldReader(req[q])'
  OBVIOUS
<1> PICK s : s = req[q]
  OBVIOUS
<1>1. HeldCreator(s) /\ HeldReader(s) /\ Compatible(req[r], s) /\ req'[q] = s
  BY DEF IInv, HeldInv
<1>2. HeldCreator(s)' /\ HeldReader(s)'
  <2>1. CASE s.id # d
    BY <1>1, <2>1, HeldStep DEF Here, Creator, Early, Reader
  <2>2. CASE s.id = d
    <3>1. ~Early(s)
      BY <1>1, <2>2 DEF Compatible, Creator, Early
    <3>2. (~Creator(s) /\ ~Reader(s)) \/ ~Early(req[r])
      BY <1>1, <2>2 DEF Compatible, Creator, Early
    <3>3. s.at # "insert" /\ (~Creator(s) /\ ~Reader(s) => s.at \notin {"erase", "delete"})
      BY <3>1 DEF Early, Reader
    <3> QED
      BY <1>1, <2>2, <3>1, <3>2, <3>3, HeldStep DEF Here
  <2> QED
    BY <2>1, <2>2
<1> QED
  BY <1>1, <1>2

-----------------------------------------------------------------------------
(* create.                                                                  *)

LEMMA BeginCreateInv ==
  ASSUME IInv, NEW r \in Requests, NEW d \in DocumentIds, NEW link \in Owners \cup {Null},
         NEW financial \in BOOLEAN, BeginCreate(r, d, link, financial)
  PROVE  IInv'
<1>0. TypeOK
  BY DEF IInv, AcknowledgedIsKept
<1> PICK s : s = [at |-> "upload", id |-> d, driver |-> driver, link |-> link]
  OBVIOUS
<1>1. /\ s \in RequestState
      /\ d \notin minted
      /\ \A S \in {acked, asked, removed, missing, spoiled} : d \notin S
  BY <1>0 DEF RequestState, BeginCreate, TypeOK
<1>2. ASSUME NEW q \in Requests \ {r} PROVE Compatible(s, req[q])
  BY <1>0, <1>1 DEF IInv, HeldInv, HeldCreator, HeldReader, Compatible, Creator, Early, Reader
<1>3. req' = [req EXCEPT ![r] = s]
  BY DEF BeginCreate
<1>4. UNCHANGED <<row, objects, acked, asked, removed, missing, spoiled>>
  BY DEF BeginCreate, history
<1>5. s.at = "upload" /\ s.id = d
  OBVIOUS
<1>6. /\ IdentityInv'
      /\ req' \in [Requests -> RequestState]
      /\ req'[r] = s
      /\ \A q \in Requests \ {r} : req'[q] = req[q]
  BY <1>0, <1>1, <1>2, <1>3, RequestStep DEF IInv
<1>7. ~Here(d) /\ ~Stored(d)
  BY <1>1 DEF IInv, StoreInv
<1>8. minted' = minted \cup {d}
  BY DEF BeginCreate
<1>9. TypeOK'
  BY <1>0, <1>4, <1>6, <1>8 DEF TypeOK, BeginCreate
<1>10. HeldInv'
  <2>1. ASSUME NEW q \in Requests \ {r} PROVE HeldCreator(req[q])' /\ HeldReader(req[q])'
    <3>1. HeldCreator(req[q]) /\ HeldReader(req[q]) /\ req'[q] = req[q]
      BY <1>6 DEF IInv, HeldInv
    <3> QED
      BY <1>4, <1>8, <3>1 DEF HeldCreator, HeldReader, Here, Stored
  <2>2. HeldCreator(s)' /\ HeldReader(s)'
    BY <1>1, <1>4, <1>5, <1>7, <1>8
       DEF HeldCreator, HeldReader, Here, Stored, Creator, Early, Reader
  <2> QED
    BY <1>6, <2>1, <2>2 DEF HeldInv, HeldCreator, HeldReader
<1>11. StoreInv'
  BY <1>4, <1>8 DEF IInv, StoreInv, Here, Stored
<1>12. AcknowledgedIsKept' /\ RemovedLeavesNothing'
  BY <1>4, <1>9 DEF IInv, AcknowledgedIsKept, RemovedLeavesNothing, Here, Stored
<1>13. OrphanExplained'
  BY <1>4, <1>6, BeginCreate(r, d, link, financial)
     DEF IInv, OrphanExplained, Creating, Here, Stored, BeginCreate, Idle
<1> QED
  BY <1>6, <1>10, <1>11, <1>12, <1>13 DEF IInv

\* Upload and the failures of a creation, which give no document a new row.
LEMMA UploadInv ==
  ASSUME IInv, NEW r \in Requests, Upload(r)
  PROVE  IInv'
<1>0. TypeOK
  BY DEF IInv, AcknowledgedIsKept
<1> PICK d, p : d = req[r].id /\ p = req[r].driver
  OBVIOUS
<1>1. /\ Creator(req[r]) /\ Early(req[r]) /\ req[r].at = "upload"
      /\ d \in DocumentIds /\ p \in Providers
      /\ d \in minted /\ d \notin acked /\ ~Here(d) /\ ~Stored(d)
      /\ d \notin asked \cup removed \cup missing
  BY <1>0, RequestType
     DEF Upload, Creator, Early, IInv, HeldInv, HeldCreator
<1>2. /\ objects' = objects \cup {<<d, p>>}
      /\ UNCHANGED <<row, owners, driver, minted, acked, asked, removed, missing, spoiled>>
  BY DEF Upload, File, history
<1>3. /\ IdentityInv'
      /\ req' \in [Requests -> RequestState]
      /\ req'[r].at = "insert" /\ req'[r].id = d /\ req'[r].driver = p
      /\ \A q \in Requests \ {r} : req'[q] = req[q] /\ Compatible(req[r], req[q])
  BY <1>1, GotoStep DEF Upload
<1>4. TypeOK'
  BY <1>0, <1>1, <1>2, <1>3 DEF TypeOK
<1>5. HeldInv'
  <2>1. \A q \in Requests \ {r} : HeldCreator(req[q])' /\ HeldReader(req[q])'
    <3>1. \A x, y : x # d => (<<x, y>> \in objects' <=> <<x, y>> \in objects)
      BY <1>2
    <3> QED
      BY <1>1, <1>2, <1>3, <3>1, OthersHold
  <2>2. HeldCreator(req[r])' /\ HeldReader(req[r])'
    BY <1>1, <1>2, <1>3
       DEF HeldCreator, HeldReader, Creator, Early, Reader, Here, Stored
  <2> QED
    BY <2>1, <2>2 DEF HeldInv
<1>6. StoreInv'
  BY <1>1, <1>2 DEF IInv, StoreInv, Here, Stored
<1>7. AcknowledgedIsKept' /\ RemovedLeavesNothing'
  BY <1>1, <1>2, <1>4 DEF IInv, AcknowledgedIsKept, RemovedLeavesNothing, Here, Stored
<1>8. OrphanExplained'
  BY <1>1, <1>2, <1>3 DEF IInv, OrphanExplained, Creating, Here, Stored
<1> QED
  BY <1>3, <1>5, <1>6, <1>7, <1>8 DEF IInv

LEMMA CommitCreateInv ==
  ASSUME IInv, NEW r \in Requests, CommitCreate(r)
  PROVE  IInv'
<1>0. TypeOK
  BY DEF IInv, AcknowledgedIsKept
<1> PICK d, p : d = req[r].id /\ p = req[r].driver
  OBVIOUS
<1>1. /\ Creator(req[r]) /\ Early(req[r]) /\ req[r].at = "insert"
      /\ d \in DocumentIds /\ p \in Providers
      /\ req[r].link \in Owners \cup {Null}
      /\ d \in minted /\ ~Here(d) /\ <<d, p>> \in objects
      /\ d \notin asked \cup removed \cup missing
      /\ \A x \in Providers : <<d, x>> \in objects => x = p
  BY <1>0, RequestType
     DEF CommitCreate, Creator, Early, IInv, HeldInv, HeldCreator
<1>2. PICK new \in DocumentRow : new.provider = p /\ row' = [row EXCEPT ![d] = new]
  <2>1. [provider |-> p, link |-> req[r].link] \in DocumentRow
    BY <1>1 DEF DocumentRow
  <2> QED
    BY <2>1 DEF CommitCreate, Insert
<1>3. /\ acked' = acked \cup {d}
      /\ UNCHANGED <<objects, owners, driver, minted, asked, removed, missing, spoiled>>
  BY DEF CommitCreate
<1>4. /\ IdentityInv'
      /\ req' \in [Requests -> RequestState]
      /\ req'[r] = Idle
      /\ \A q \in Requests \ {r} : req'[q] = req[q] /\ Compatible(req[r], req[q])
  BY EndStep DEF CommitCreate
<1>5. /\ row'[d] = new /\ Here(d)'
      /\ \A x : x # d => row'[x] = row[x]
      /\ row' \in [DocumentIds -> DocumentRow \cup {Absent}]
  BY <1>0, <1>1, <1>2, RowType DEF TypeOK, Here
<1>6. TypeOK'
  BY <1>0, <1>1, <1>3, <1>4, <1>5 DEF TypeOK
<1>7. HeldInv'
  <2>1. \A q \in Requests \ {r} : HeldCreator(req[q])' /\ HeldReader(req[q])'
    BY <1>1, <1>3, <1>4, <1>5, OthersHold
  <2>2. HeldCreator(req[r])' /\ HeldReader(req[r])'
    BY <1>4, IdleHoldsNothing DEF HeldCreator, HeldReader, Creator, Early, Reader
  <2> QED
    BY <2>1, <2>2 DEF HeldInv
<1>8. StoreInv'
  BY <1>1, <1>2, <1>3, <1>5 DEF IInv, StoreInv, Here, Stored
<1>9. AcknowledgedIsKept'
  BY <1>1, <1>2, <1>3, <1>5, <1>6 DEF IInv, AcknowledgedIsKept, Here
<1>10. RemovedLeavesNothing' /\ OrphanExplained'
  BY <1>1, <1>3, <1>4, <1>5
     DEF IInv, RemovedLeavesNothing, OrphanExplained, Creating, Here, Stored
<1> QED
  BY <1>4, <1>7, <1>8, <1>9, <1>10 DEF IInv

LEMMA CreateFailsInv ==
  ASSUME IInv, NEW r \in Requests, CreateFails(r)
  PROVE  IInv'
<1>0. TypeOK
  BY DEF IInv, AcknowledgedIsKept
<1> PICK d, p : d = req[r].id /\ p = req[r].driver
  OBVIOUS
<1>1. /\ Creator(req[r]) /\ Early(req[r]) /\ req[r].at = "insert"
      /\ d \in DocumentIds /\ p \in Providers
      /\ req[r].link \in Owners \cup {Null}
      /\ d \in minted /\ ~Here(d) /\ <<d, p>> \in objects
      /\ d \notin acked /\ d \notin asked \cup removed \cup missing
      /\ \A x \in Providers : <<d, x>> \in objects => x = p
  BY <1>0, RequestType
     DEF CreateFails, Creator, Early, IInv, HeldInv, HeldCreator
<1>2. /\ row' \in [DocumentIds -> DocumentRow \cup {Absent}]
      /\ \A x : x # d => row'[x] = row[x]
      /\ Here(d)' => row'[d].provider = p
  <2>1. CASE UNCHANGED row
    BY <1>0, <1>1, <2>1 DEF TypeOK, Here
  <2>2. CASE Insert(r)
    <3>1. [provider |-> p, link |-> req[r].link] \in DocumentRow
      BY <1>1 DEF DocumentRow
    <3>2. row' = [row EXCEPT ![d] = [provider |-> p, link |-> req[r].link]]
      BY <2>2 DEF Insert
    <3> QED
      BY <1>0, <1>1, <3>1, <3>2 DEF TypeOK
  <2> QED
    BY <2>1, <2>2 DEF CreateFails
<1>3. UNCHANGED <<objects, owners, driver, minted, acked, asked, removed, missing, spoiled>>
  BY DEF CreateFails, history
<1>4. /\ IdentityInv'
      /\ req' \in [Requests -> RequestState]
      /\ req'[r].at = "undo" /\ req'[r].id = d /\ req'[r].driver = p
      /\ \A q \in Requests \ {r} : req'[q] = req[q] /\ Compatible(req[r], req[q])
  BY <1>1, GotoStep DEF CreateFails
<1>5. TypeOK'
  BY <1>0, <1>2, <1>3, <1>4 DEF TypeOK
<1>6. HeldInv'
  <2>1. \A q \in Requests \ {r} : HeldCreator(req[q])' /\ HeldReader(req[q])'
    <3>1. \A q \in Requests \ {r} : req'[q] = req[q] /\ Compatible(req[r], req[q])
      BY <1>4
    <3> QED
      BY <1>1, <1>2, <1>3, <3>1, OthersHold
  <2>2. HeldCreator(req[r])' /\ HeldReader(req[r])'
    BY <1>1, <1>3, <1>4 DEF HeldCreator, HeldReader, Creator, Early, Reader
  <2> QED
    BY <2>1, <2>2 DEF HeldInv
<1>7. StoreInv'
  BY <1>1, <1>2, <1>3 DEF IInv, StoreInv, Here, Stored
<1>8. AcknowledgedIsKept' /\ RemovedLeavesNothing'
  BY <1>1, <1>2, <1>3, <1>5 DEF IInv, AcknowledgedIsKept, RemovedLeavesNothing, Here, Stored
<1>9. OrphanExplained'
  BY <1>1, <1>2, <1>3, <1>4 DEF IInv, OrphanExplained, Creating, Here, Stored
<1> QED
  BY <1>4, <1>6, <1>7, <1>8, <1>9 DEF IInv

\* A creation that ends without its row: what it stored is removed, or its
\* identity is spoiled.
LEMMA CreationEnds ==
  ASSUME IInv, NEW r \in Requests,
         UploadFails(r) \/ Compensate(r) \/ CompensationFails(r) \/ Stop(r)
  PROVE  IInv'
<1>0. TypeOK
  BY DEF IInv, AcknowledgedIsKept
<1> PICK d, p : d = req[r].id /\ p = req[r].driver
  OBVIOUS
<1>1. UNCHANGED <<row, owners, driver, minted, acked, asked, removed, missing>>
  BY DEF UploadFails, Compensate, CompensationFails, Stop, history
<1>2. /\ IdentityInv'
      /\ req' \in [Requests -> RequestState]
      /\ req'[r] = Idle
      /\ \A q \in Requests \ {r} : req'[q] = req[q] /\ Compatible(req[r], req[q])
  BY EndStep DEF UploadFails, Compensate, CompensationFails, Stop
<1>3. Creator(req[r]) => /\ d \in DocumentIds /\ p \in Providers
                         /\ d \in minted /\ d \notin acked
                         /\ \A x \in Providers : <<d, x>> \in objects => x = p
                         /\ Early(req[r]) => ~Here(d) /\ d \notin removed
  BY <1>0, RequestType DEF IInv, HeldInv, HeldCreator
<1>4. \/ /\ objects' = objects
         /\ spoiled' = IF req[r].at \in {"insert", "undo"} THEN spoiled \cup {d} ELSE spoiled
      \/ /\ Creator(req[r])
         /\ objects' = objects \cup {<<d, p>>}
         /\ Early(req[r]) /\ spoiled' = spoiled \cup {d}
      \/ /\ Creator(req[r]) /\ spoiled' = spoiled \cup {d} /\ objects' = objects
      \/ /\ Creator(req[r]) /\ objects' = objects \ {<<d, p>>}
         /\ spoiled' \in {spoiled, spoiled \cup {d}}
  BY DEF UploadFails, Compensate, CompensationFails, Stop, File, Undone, Creator, Early, history
<1>5. TypeOK'
  BY <1>0, <1>1, <1>2, <1>3, <1>4 DEF TypeOK, Creator
<1>6. HeldInv'
  <2>1. ASSUME NEW q \in Requests \ {r}
        PROVE  HeldCreator(req[q])' /\ HeldReader(req[q])'
    <3>1. CASE objects' = objects
      BY <1>1, <1>2, <3>1
         DEF IInv, HeldInv, HeldCreator, HeldReader, Here, Stored
    <3>2. CASE objects' # objects
      <4>1. Creator(req[r]) /\ (objects' \subseteq objects \/ Early(req[r]))
        BY <1>4, <3>2
      <4>2. \A x, y : x # d => (<<x, y>> \in objects' <=> <<x, y>> \in objects)
        BY <1>4
      <4> QED
        BY <1>1, <1>2, <4>1, <4>2, OthersHold
    <3> QED
      BY <3>1, <3>2
  <2>2. HeldCreator(req[r])' /\ HeldReader(req[r])'
    BY <1>2, IdleHoldsNothing DEF HeldCreator, HeldReader, Creator, Early, Reader
  <2> QED
    BY <2>1, <2>2 DEF HeldInv
<1>7. StoreInv'
  BY <1>1, <1>3, <1>4 DEF IInv, StoreInv, Here, Stored
<1>8. AcknowledgedIsKept'
  BY <1>1, <1>3, <1>4, <1>5 DEF IInv, AcknowledgedIsKept, Here
<1>9. RemovedLeavesNothing'
  BY <1>1, <1>3, <1>4 DEF IInv, RemovedLeavesNothing, Here, Stored
<1>10. OrphanExplained'
  <2> SUFFICES ASSUME NEW x \in DocumentIds, Stored(x)', ~Here(x)'
               PROVE  Creating(x)' \/ x \in spoiled'
    BY DEF OrphanExplained
  <2>1. ~Here(x)
    BY <1>1 DEF Here
  <2>2. CASE x = d /\ req[r].at \in {"upload", "insert", "undo"}
    BY <1>1, <1>3, <1>4, <2>2 DEF Stored, Creator, IInv, HeldInv, HeldCreator
  <2>3. CASE x # d \/ req[r].at \notin {"upload", "insert", "undo"}
    <3>1. Stored(x)
      BY <1>4, <2>3 DEF Stored, Creator
    <3>2. Creating(x) \/ x \in spoiled
      BY <2>1, <3>1 DEF IInv, OrphanExplained
    <3> QED
      BY <1>2, <1>4, <2>3, <3>2 DEF Creating
  <2> QED
    BY <2>2, <2>3
<1> QED
  BY <1>2, <1>6, <1>7, <1>8, <1>9, <1>10 DEF IInv

-----------------------------------------------------------------------------
(* download and remove.                                                     *)

LEMMA BeginReadInv ==
  ASSUME IInv, NEW r \in Requests, NEW d \in DocumentIds, NEW financial \in BOOLEAN,
         BeginDownload(r, d, financial) \/ BeginRemove(r, d, financial)
  PROVE  IInv'
<1>0. TypeOK
  BY DEF IInv, AcknowledgedIsKept
<1> PICK at \in {"open", "erase"} :
      /\ Read(r, d, financial, at)
      /\ asked' = IF at = "erase" THEN asked \cup {d} ELSE asked
  BY DEF BeginDownload, BeginRemove, history
<1> PICK s : s = [at |-> at, id |-> d, driver |-> driver, provider |-> row[d].provider]
  OBVIOUS
<1>1. /\ row[d] \in DocumentRow /\ row[d].provider \in Providers
      /\ Here(d) /\ d \in minted
  BY <1>0, HereType, RowType DEF Read, IInv, StoreInv
<1>2. /\ s \in RequestState
      /\ s.at = at /\ s.id = d /\ s.provider = row[d].provider
  BY <1>0, <1>1 DEF RequestState, TypeOK
<1>3. UNCHANGED <<row, objects, owners, driver, minted, acked, removed, missing, spoiled>>
  BY DEF BeginDownload, BeginRemove, history
<1>4. \A q \in Requests : Early(req[q]) => req[q].id # d
  BY <1>1 DEF IInv, HeldInv, HeldCreator
<1>5. \A q \in Requests \ {r} : Compatible(s, req[q])
  BY <1>2, <1>4 DEF Compatible, Creator, Early, Reader
<1>6. /\ IdentityInv'
      /\ req' \in [Requests -> RequestState]
      /\ req'[r] = s /\ req[r] = Idle
      /\ \A q \in Requests \ {r} : req'[q] = req[q]
  BY <1>0, <1>2, <1>5, RequestStep DEF Read, IInv
<1>7. TypeOK'
  BY <1>0, <1>1, <1>3, <1>6 DEF TypeOK
<1>8. HeldInv'
  <2>1. ASSUME NEW q \in Requests \ {r} PROVE HeldCreator(req[q])' /\ HeldReader(req[q])'
    <3> PICK x : x = req[q]
      OBVIOUS
    <3>1. HeldCreator(x) /\ HeldReader(x) /\ req'[q] = x /\ (Early(x) => x.id # d)
      BY <1>4, <1>6 DEF IInv, HeldInv
    <3>2. HeldCreator(x)' /\ HeldReader(x)'
      BY <1>3, <3>1, HeldStep DEF Here
    <3> QED
      BY <3>1, <3>2
  <2>2. HeldCreator(s)' /\ HeldReader(s)'
    BY <1>1, <1>2, <1>3 DEF HeldCreator, HeldReader, Creator, Early, Reader, Here
  <2> QED
    BY <1>6, <2>1, <2>2 DEF HeldInv, HeldCreator, HeldReader
<1>9. StoreInv' /\ RemovedLeavesNothing'
  BY <1>3 DEF IInv, StoreInv, RemovedLeavesNothing, Here, Stored
<1>10. AcknowledgedIsKept'
  BY <1>3, <1>7 DEF IInv, AcknowledgedIsKept, Here
<1>11. OrphanExplained'
  BY <1>3, <1>6 DEF IInv, OrphanExplained, Creating, Here, Stored, Idle
<1> QED
  BY <1>6, <1>8, <1>9, <1>10, <1>11 DEF IInv

\* A download finds the file of what was acknowledged, and changes nothing else.
LEMMA DownloadInv ==
  ASSUME IInv, NEW r \in Requests, Download(r)
  PROVE  IInv'
<1>0. TypeOK
  BY DEF IInv, AcknowledgedIsKept
<1> PICK d : d = req[r].id
  OBVIOUS
<1>1. /\ Reader(req[r]) /\ d \in DocumentIds /\ d \in minted
      /\ Here(d) => row[d].provider = req[r].provider
  BY <1>0, RequestType DEF Download, Reader, IInv, HeldInv, HeldReader
<1>2. /\ UNCHANGED <<row, objects, owners, driver, minted, acked, asked, removed, spoiled>>
      /\ missing' = IF <<d, req[r].provider>> \in objects THEN missing ELSE missing \cup {d}
  BY DEF Download, StoreOf
<1>3. /\ IdentityInv'
      /\ req' \in [Requests -> RequestState]
      /\ req'[r] = Idle /\ req[r].at = "open"
      /\ \A q \in Requests \ {r} : req'[q] = req[q] /\ Compatible(req[r], req[q])
  BY EndStep DEF Download
<1>4. TypeOK'
  BY <1>0, <1>1, <1>2, <1>3 DEF TypeOK
<1>5. HeldInv'
  <2>1. \A q \in Requests \ {r} : HeldCreator(req[q])' /\ HeldReader(req[q])'
    <3>1. missing' \subseteq missing \cup {d}
      BY <1>2
    <3> QED
      BY <1>1, <1>2, <1>3, <3>1, OthersHold
  <2>2. HeldCreator(req[r])' /\ HeldReader(req[r])'
    BY <1>3, IdleHoldsNothing DEF HeldCreator, HeldReader, Creator, Early, Reader
  <2> QED
    BY <2>1, <2>2 DEF HeldInv
<1>6. StoreInv' /\ RemovedLeavesNothing'
  BY <1>2 DEF IInv, StoreInv, RemovedLeavesNothing, Here, Stored
<1>7. AcknowledgedIsKept'
  BY <1>0, <1>1, <1>2, <1>4 DEF IInv, AcknowledgedIsKept, Here, TypeOK
<1>8. OrphanExplained'
  BY <1>2, <1>3 DEF IInv, OrphanExplained, Creating, Here, Stored
<1> QED
  BY <1>3, <1>5, <1>6, <1>7, <1>8 DEF IInv

\* The file of a document whose removal was asked for goes, or its store
\* answers with an error.
LEMMA EraseInv ==
  ASSUME IInv, NEW r \in Requests, Erase(r) \/ EraseFails(r)
  PROVE  IInv'
<1>0. TypeOK
  BY DEF IInv, AcknowledgedIsKept
<1> PICK d, p : d = req[r].id /\ p = req[r].provider
  OBVIOUS
<1>1. /\ Reader(req[r]) /\ req[r].at = "erase"
      /\ d \in DocumentIds /\ p \in Providers
      /\ d \in minted /\ d \in asked
      /\ Here(d) => row[d].provider = p
  BY <1>0, RequestType
     DEF Erase, EraseFails, Reader, IInv, HeldInv, HeldReader
<1>2. /\ UNCHANGED <<row, owners, driver, minted, acked, asked, removed, missing, spoiled>>
      /\ objects' \in {objects, objects \ {<<d, p>>}}
      /\ Erase(r) => objects' = objects \ {<<d, p>>}
  BY DEF Erase, EraseFails, StoreOf, history
<1>3. /\ IdentityInv'
      /\ req' \in [Requests -> RequestState]
      /\ \A q \in Requests \ {r} : req'[q] = req[q] /\ Compatible(req[r], req[q])
      /\ \/ req'[r] = Idle
         \/ Erase(r) /\ req'[r].at = "delete" /\ req'[r].id = d /\ req'[r].provider = p
  <2>1. CASE Erase(r)
    BY <1>1, <2>1, GotoStep DEF Erase
  <2>2. CASE EraseFails(r)
    BY <2>2, EndStep DEF EraseFails
  <2> QED
    BY <2>1, <2>2
<1>4. TypeOK'
  BY <1>0, <1>2, <1>3 DEF TypeOK
<1>5. HeldInv'
  <2>1. \A q \in Requests \ {r} : HeldCreator(req[q])' /\ HeldReader(req[q])'
    <3>1. \A x, y : x # d => (<<x, y>> \in objects' <=> <<x, y>> \in objects)
      BY <1>2
    <3> QED
      BY <1>1, <1>2, <1>3, <3>1, OthersHold
  <2>2. CASE req'[r] = Idle
    <3>1. HeldCreator(req[r])' /\ HeldReader(req[r])'
      BY <2>2, IdleHoldsNothing DEF HeldCreator, HeldReader, Creator, Early, Reader
    <3> QED
      BY <2>1, <3>1 DEF HeldInv
  <2>3. CASE Erase(r) /\ req'[r].at = "delete" /\ req'[r].id = d /\ req'[r].provider = p
    <3>1. HeldCreator(req[r])' /\ HeldReader(req[r])'
      BY <1>1, <1>2, <2>3 DEF HeldCreator, HeldReader, Creator, Early, Reader, Here
    <3> QED
      BY <2>1, <3>1 DEF HeldInv
  <2> QED
    BY <1>3, <2>2, <2>3
<1>6. StoreInv' /\ RemovedLeavesNothing'
  BY <1>2 DEF IInv, StoreInv, RemovedLeavesNothing, Here, Stored
<1>7. AcknowledgedIsKept'
  BY <1>1, <1>2, <1>4 DEF IInv, AcknowledgedIsKept, Here
<1>8. OrphanExplained'
  BY <1>1, <1>2, <1>3 DEF IInv, OrphanExplained, Creating, Here, Stored
<1> QED
  BY <1>3, <1>5, <1>6, <1>7, <1>8 DEF IInv

\* The row goes after the file, which leaves neither.
LEMMA RemoveInv ==
  ASSUME IInv, NEW r \in Requests, CommitRemove(r) \/ RemoveUnanswered(r)
  PROVE  IInv'
<1>0. TypeOK
  BY DEF IInv, AcknowledgedIsKept
<1> PICK d : d = req[r].id
  OBVIOUS
<1>1. /\ Reader(req[r]) /\ req[r].at = "delete"
      /\ d \in DocumentIds /\ d \in minted /\ d \in asked
      /\ Here(d) /\ ~Stored(d)
      /\ \A q \in Requests : Early(req[q]) => req[q].id # d
  BY <1>0, RequestType
     DEF CommitRemove, RemoveUnanswered, Reader, IInv, HeldInv, HeldReader, HeldCreator, Stored,
         StoreInv
<1>2. /\ UNCHANGED <<objects, owners, driver, minted, acked, asked, missing, spoiled>>
      /\ row' = [row EXCEPT ![d] = Absent]
      /\ removed' \in {removed, removed \cup {d}}
  BY DEF CommitRemove, RemoveUnanswered, history
<1>3. /\ IdentityInv'
      /\ req' \in [Requests -> RequestState]
      /\ req'[r] = Idle
      /\ \A q \in Requests \ {r} : req'[q] = req[q] /\ Compatible(req[r], req[q])
  BY EndStep DEF CommitRemove, RemoveUnanswered
<1>4. /\ row'[d] = Absent
      /\ \A x : x # d => row'[x] = row[x]
  BY <1>0, <1>1, <1>2 DEF TypeOK
<1>5. TypeOK'
  BY <1>0, <1>1, <1>2, <1>3 DEF TypeOK
<1>6. HeldInv'
  <2>1. \A q \in Requests \ {r} : HeldCreator(req[q])' /\ HeldReader(req[q])'
    BY <1>1, <1>2, <1>3, <1>4, OthersHold
  <2>2. HeldCreator(req[r])' /\ HeldReader(req[r])'
    BY <1>3, IdleHoldsNothing DEF HeldCreator, HeldReader, Creator, Early, Reader
  <2> QED
    BY <2>1, <2>2 DEF HeldInv
<1>7. StoreInv' /\ RemovedLeavesNothing'
  BY <1>1, <1>2, <1>4 DEF IInv, StoreInv, RemovedLeavesNothing, Here, Stored
<1>8. AcknowledgedIsKept'
  BY <1>1, <1>2, <1>4, <1>5 DEF IInv, AcknowledgedIsKept, Here
<1>9. OrphanExplained'
  BY <1>1, <1>2, <1>3, <1>4 DEF IInv, OrphanExplained, Creating, Here, Stored
<1> QED
  BY <1>3, <1>6, <1>7, <1>8, <1>9 DEF IInv

-----------------------------------------------------------------------------

\* A deployment, and the end of what documents are linked with: every row keeps
\* its store.
LEMMA EnvironmentInv ==
  ASSUME IInv, Deploy \/ (\E o \in Owners : RemoveOwner(o)) \/ UNCHANGED vars
  PROVE  IInv'
<1>0. TypeOK
  BY DEF IInv, AcknowledgedIsKept
<1>1. /\ UNCHANGED <<objects, minted, acked, asked, removed, missing, spoiled, req>>
      /\ owners' \subseteq Owners /\ driver' \in Providers
  BY <1>0 DEF Deploy, RemoveOwner, vars, history, TypeOK
<1>2. /\ row' \in [DocumentIds -> DocumentRow \cup {Absent}]
      /\ \A d \in DocumentIds : /\ Here(d)' <=> Here(d)
                                /\ Here(d) => row'[d].provider = row[d].provider
  <2>1. CASE UNCHANGED row
    BY <1>0, <2>1 DEF TypeOK, Here
  <2>2. ASSUME NEW o \in Owners, row' = Unlinked(o)
        PROVE  /\ row' \in [DocumentIds -> DocumentRow \cup {Absent}]
               /\ \A d \in DocumentIds : /\ Here(d)' <=> Here(d)
                                         /\ Here(d) => row'[d].provider = row[d].provider
    <3>1. ASSUME NEW d \in DocumentIds, Here(d)
          PROVE  /\ row'[d] \in DocumentRow
                 /\ row'[d].provider = row[d].provider
      <4>1. row[d] \in DocumentRow
        BY <1>0, <3>1, HereType
      <4>2. /\ [row[d] EXCEPT !.link = Null] \in DocumentRow
            /\ [row[d] EXCEPT !.link = Null].provider = row[d].provider
        BY <4>1 DEF DocumentRow
      <4> QED
        BY <2>2, <4>1, <4>2 DEF Unlinked
    <3>2. ASSUME NEW d \in DocumentIds, ~Here(d) PROVE row'[d] = row[d]
      BY <2>2, <3>2 DEF Unlinked
    <3>3. \A d \in DocumentIds : row'[d] \in DocumentRow \cup {Absent}
      BY <1>0, <3>1, <3>2 DEF TypeOK
    <3>4. row' \in [DocumentIds -> DocumentRow \cup {Absent}]
      BY <2>2, <3>3 DEF Unlinked
    <3> QED
      BY <3>1, <3>2, <3>4, RowType DEF Here
  <2> QED
    BY <2>1, <2>2 DEF Deploy, RemoveOwner, vars
<1>3. TypeOK'
  BY <1>0, <1>1, <1>2 DEF TypeOK
<1>4. IdentityInv'
  BY <1>1 DEF IInv, IdentityInv, Compatible, Creator, Early, Reader
<1>5. HeldInv'
  <2> SUFFICES ASSUME NEW r \in Requests PROVE HeldCreator(req[r])' /\ HeldReader(req[r])'
    BY DEF HeldInv
  <2> PICK s : s = req[r]
    OBVIOUS
  <2>1. /\ HeldCreator(s) /\ HeldReader(s) /\ req'[r] = s
        /\ Creator(s) \/ Reader(s) => s.id \in DocumentIds
    BY <1>0, <1>1, RequestType DEF IInv, HeldInv
  <2>2. HeldCreator(s)' /\ HeldReader(s)'
    BY <1>1, <1>2, <2>1, HeldStep
  <2> QED
    BY <2>1, <2>2
<1>6. StoreInv'
  BY <1>1, <1>2 DEF IInv, StoreInv, Stored
<1>7. AcknowledgedIsKept'
  BY <1>0, <1>1, <1>2, <1>3 DEF IInv, AcknowledgedIsKept, TypeOK
<1>8. RemovedLeavesNothing' /\ OrphanExplained'
  BY <1>0, <1>1, <1>2 DEF IInv, RemovedLeavesNothing, OrphanExplained, Creating, Stored, TypeOK
<1> QED
  BY <1>4, <1>5, <1>6, <1>7, <1>8 DEF IInv

LEMMA NextInv == IInv /\ [Next]_vars => IInv'
<1> SUFFICES ASSUME IInv, [Next]_vars PROVE IInv'
  OBVIOUS
<1>1. ASSUME NEW r \in Requests, NEW d \in DocumentIds, NEW financial \in BOOLEAN,
             \/ \E link \in Owners \cup {Null} : BeginCreate(r, d, link, financial)
             \/ BeginDownload(r, d, financial)
             \/ BeginRemove(r, d, financial)
      PROVE  IInv'
  BY <1>1, BeginCreateInv, BeginReadInv
<1>2. ASSUME NEW r \in Requests,
             \/ Upload(r) \/ UploadFails(r)
             \/ CommitCreate(r) \/ CreateFails(r)
             \/ Compensate(r) \/ CompensationFails(r)
             \/ Stop(r)
      PROVE  IInv'
  BY <1>2, UploadInv, CommitCreateInv, CreateFailsInv, CreationEnds
<1>3. ASSUME NEW r \in Requests,
             \/ Download(r)
             \/ Erase(r) \/ EraseFails(r)
             \/ CommitRemove(r) \/ RemoveUnanswered(r)
      PROVE  IInv'
  BY <1>3, DownloadInv, EraseInv, RemoveInv
<1>4. CASE Deploy \/ (\E o \in Owners : RemoveOwner(o)) \/ UNCHANGED vars
  BY <1>4, EnvironmentInv
<1> QED
  BY <1>1, <1>2, <1>3, <1>4 DEF Next

\* The inductive invariant holds throughout.
THEOREM Inductive == Spec => []IInv
BY InitInv, NextInv, PTL DEF Spec

\* A document whose upload was answered with success keeps its row and its
\* file, and every download finds it, until its removal is asked for: whichever
\* request fails or stops between its calls to the two stores, and whatever
\* store the process is configured for.
THEOREM AcknowledgedKept == Spec => []AcknowledgedIsKept
<1>1. IInv => AcknowledgedIsKept
  BY DEF IInv
<1> QED
  BY <1>1, Inductive, PTL

\* remove answers with success only when neither the row nor a file in any
\* store is left, and neither comes back.
THEOREM RemovedGone == Spec => []RemovedLeavesNothing
<1>1. IInv => RemovedLeavesNothing
  BY DEF IInv
<1> QED
  BY <1>1, Inductive, PTL

\* A file without a row is that of a creation in flight or of one that ended
\* without knowing whether its file is gone; a removal leaves none.
THEOREM OrphansExplained == Spec => []OrphanExplained
<1>1. IInv => OrphanExplained
  BY DEF IInv
<1> QED
  BY <1>1, Inductive, PTL
=============================================================================
