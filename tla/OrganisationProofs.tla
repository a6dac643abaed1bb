------------------------- MODULE OrganisationProofs -------------------------
(***************************************************************************)
(* What an organisation administers: its accounts and its portfolio.       *)
(*                                                                         *)
(* An organisation keeps an owner, an e-mail belongs to one organisation,  *)
(* an acceptance makes one account and only the newest reset token is      *)
(* usable, for any number of accounts, organisations and requests at once. *)
(*                                                                         *)
(* The portfolio stays consistent, its reports agree, every removal is     *)
(* audited and detaches nothing, and only a race passes the budget of an   *)
(* investment, for any number of rows and requests at once.                *)
(*                                                                         *)
(* Each inductive invariant says what the locks of a request in flight     *)
(* keep true from its reading to its commit.                               *)
(***************************************************************************)
EXTENDS UserAccounts, Portfolio, FiniteSums, TLAPS

-----------------------------------------------------------------------------
(***************************************************************************)
(* The accounts.                                                           *)
(***************************************************************************)

HoldsEmail(s) == s.at \in {"register", "invite", "accept"}
HoldsOrg(s) == s.at \in {"role", "status"}

\* Two requests s and q that hold no lock in common.
Compatible(s, q) ==
  /\ HoldsEmail(s) /\ HoldsEmail(q) => s.email # q.email
  /\ HoldsOrg(s) /\ HoldsOrg(q) => s.org # q.org
  /\ s.at = "forgot" /\ q.at = "forgot" => s.who # q.who
  /\ s.at = "reset" /\ q.at = "reset" => s.token # q.token
  /\ s.at = "reset" /\ q.at = "forgot" => s.token \notin q.drops
  /\ s.at = "forgot" /\ q.at = "reset" => q.token \notin s.drops

\* No lock is held twice.
LockInv ==
  \A r, q \in Requests : r # q => Compatible(req[r], req[q])

\* Whoever invites or manages belongs to the organisation.
HeldMember(s) ==
  /\ s.at \in {"actor", "role", "status"} => s.who \in Members(s.org)
  /\ s.at = "invite" => Members(s.org) # {}

\* The owner that a change of role or status counted on is still there.
HeldOwner(s) == HoldsOrg(s) => LeavesAnOwner(s.who)

\* What a request found of its e-mail stays so until it commits.
HeldEmail(s) ==
  /\ HoldsEmail(s) => account[s.email] = Null
  /\ s.at \in {"register", "invite"} => ~Invited(s.email)
  /\ s.at = "accept" =>
       /\ invitation[s.inv] # Null
       /\ invitation[s.inv].email = s.email
       /\ ~invitation[s.inv].revoked
       /\ \A j \in Invitations :
            Pending(j) /\ invitation[j].email = s.email => j = s.inv

\* A token in use was not used before, and forgotPassword drops all there are.
HeldToken(s) ==
  /\ s.at = "reset" => token[s.token] # Null /\ token[s.token].resets = 0
  /\ s.at = "forgot" => TokensOf(s.who) \subseteq s.drops

HeldInv ==
  \A r \in Requests :
    HeldMember(req[r]) /\ HeldOwner(req[r]) /\ HeldEmail(req[r]) /\ HeldToken(req[r])

\* An invitation is of an organisation that has members, the invitation an
\* account came from exists, and only a used token has set a password.
RowInv ==
  /\ \A i \in Invitations : invitation[i] # Null => Members(invitation[i].org) # {}
  /\ \A e \in Emails :
       account[e] # Null /\ account[e].from # Null => invitation[account[e].from] # Null
  /\ \A t \in Tokens : token[t] # Null /\ ~token[t].used => token[t].resets = 0

IInv ==
  /\ NewestTokenOnly
  /\ LockInv
  /\ HeldInv
  /\ RowInv
  /\ OwnerRemains
  /\ EmailBelongsToOne
  /\ AcceptedMadeAccount

-----------------------------------------------------------------------------
(* The rows and requests, field by field.                                  *)

LEMMA AccountType ==
  ASSUME TypeOK, NEW e \in Emails, account[e] # Null
  PROVE  /\ account[e] \in UserRow
         /\ account[e].org \in Orgs
         /\ account[e].role \in Roles
         /\ account[e].active \in BOOLEAN
         /\ account[e].from \in Invitations \cup {Null}
BY DEF TypeOK, UserRow

LEMMA InvitationType ==
  ASSUME TypeOK, NEW i \in Invitations, invitation[i] # Null
  PROVE  /\ invitation[i] \in InvitationRow
         /\ invitation[i].email \in Emails
         /\ invitation[i].org \in Orgs
         /\ invitation[i].role \in Roles
BY DEF TypeOK, InvitationRow

LEMMA TokenType ==
  ASSUME TypeOK, NEW t \in Tokens, token[t] # Null
  PROVE  token[t] \in TokenRow /\ token[t].user \in Emails
BY DEF TypeOK, TokenRow

LEMMA RequestType ==
  ASSUME TypeOK, NEW r \in Requests
  PROVE  /\ req[r] \in RequestState
         /\ HoldsEmail(req[r]) => req[r].email \in Emails
         /\ req[r].at \in {"actor", "invite", "role", "status"} => req[r].org \in Orgs
         /\ req[r].at \in {"actor", "invite", "role"} => req[r].role \in Roles
         /\ req[r].at \in {"actor", "role", "status", "lookup", "forgot"} => req[r].who \in Emails
         /\ req[r].at = "accept" => req[r].inv \in Invitations
         /\ req[r].at = "status" => req[r].active \in BOOLEAN
         /\ req[r].at = "reset" => req[r].token \in Tokens
         /\ req[r].at = "forgot" => req[r].drops \in SUBSET Tokens
<1>1. req[r] \in RequestState
  BY DEF TypeOK
<1> QED
  BY <1>1 DEF RequestState, Idle, HoldsEmail

\* The null row is of no type.
LEMMA NullRow ==
  /\ Null \notin UserRow
  /\ Null \notin InvitationRow
  /\ Null \notin TokenRow
  /\ Null \notin Invitations
BY NullAssumption

\* What an idle request holds: nothing.
LEMMA IdleHoldsNothing ==
  /\ Idle \in RequestState
  /\ HeldMember(Idle) /\ HeldOwner(Idle) /\ HeldEmail(Idle) /\ HeldToken(Idle)
  /\ \A q : Compatible(Idle, q) /\ Compatible(q, Idle)
BY DEF Idle, RequestState, HeldMember, HeldOwner, HeldEmail, HeldToken, HoldsOrg, HoldsEmail,
       Compatible

\* No account, invitation, token or request at first.
LEMMA InitInv == Init => IInv
<1> SUFFICES ASSUME Init PROVE IInv
  OBVIOUS
<1>1. NewestTokenOnly
  BY DEF Init, NewestTokenOnly, TypeOK, RequestState, Usable
<1>2. LockInv
  BY IdleHoldsNothing DEF Init, LockInv
<1>3. HeldInv
  BY IdleHoldsNothing DEF Init, HeldInv
<1>4. RowInv
  BY DEF Init, RowInv
<1>5. OwnerRemains
  BY DEF Init, OwnerRemains, Members
<1>6. EmailBelongsToOne /\ AcceptedMadeAccount
  BY DEF Init, EmailBelongsToOne, AcceptedMadeAccount, Pending
<1> QED
  BY <1>1, <1>2, <1>3, <1>4, <1>5, <1>6 DEF IInv

-----------------------------------------------------------------------------
(* Requests that read, and requests that commit.                           *)

\* A request r that becomes s, with what s holds and no lock of another.
LEMMA LockStep ==
  ASSUME TypeOK, LockInv, NEW r \in Requests, NEW s, Become(r, s),
         \A q \in Requests \ {r} : Compatible(s, req[q])
  PROVE  LockInv'
<1>1. /\ req'[r] = s
      /\ \A q \in Requests \ {r} : req'[q] = req[q]
  BY DEF Become, TypeOK
<1>2. \A q \in Requests \ {r} : Compatible(req[q], s)
  BY DEF Compatible
<1> QED
  BY <1>1, <1>2 DEF LockInv, Compatible

\* A step that changes no row keeps the invariant if the request holds what
\* its new state says.
LEMMA ReadStep ==
  ASSUME IInv, NEW r \in Requests, NEW s \in RequestState, Become(r, s),
         UNCHANGED <<account, invitation, token>>,
         HeldMember(s), HeldOwner(s), HeldEmail(s), HeldToken(s),
         \A q \in Requests \ {r} : Compatible(s, req[q])
  PROVE  IInv'
<1>1. req' \in [Requests -> RequestState]
  BY DEF Become, IInv, NewestTokenOnly, TypeOK
<1>2. NewestTokenOnly'
  BY <1>1 DEF IInv, NewestTokenOnly, TypeOK, Usable
<1>3. LockInv'
  BY LockStep DEF IInv, NewestTokenOnly
<1>4. HeldInv'
  <2> SUFFICES ASSUME NEW q \in Requests
               PROVE (HeldMember(req[q]) /\ HeldOwner(req[q]) /\ HeldEmail(req[q])
                       /\ HeldToken(req[q]))'
    BY DEF HeldInv
  <2>1. /\ HeldMember(req'[q])
        /\ HeldOwner(req'[q])
        /\ HeldEmail(req'[q])
        /\ HeldToken(req'[q])
    BY DEF Become, IInv, HeldInv, NewestTokenOnly, TypeOK
  <2> QED
    BY <2>1 DEF HeldMember, HeldOwner, HeldEmail, HeldToken, Members, LeavesAnOwner,
                ActiveOwners, Invited, Pending, TokensOf
<1>5. RowInv' /\ OwnerRemains' /\ EmailBelongsToOne' /\ AcceptedMadeAccount'
  BY DEF IInv, RowInv, OwnerRemains, EmailBelongsToOne, AcceptedMadeAccount, Members,
         ActiveOwners, Pending
<1> QED
  BY <1>2, <1>3, <1>4, <1>5 DEF IInv

\* A request that takes the lock of an e-mail shares it with no other.
LEMMA EmailLock ==
  ASSUME TypeOK, NEW r \in Requests, NEW s, HoldsEmail(s), EmailUnlocked(s.email),
         ~HoldsOrg(s), s.at \notin {"forgot", "reset"}
  PROVE  \A q \in Requests \ {r} : Compatible(s, req[q])
BY DEF EmailUnlocked, HoldsEmail, Compatible

\* The requests that find an e-mail free.
LEMMA EmailReads ==
  ASSUME IInv, NEW r \in Requests,
         \/ \E e \in Emails : Register(r, e) \/ \E role \in Roles : Invite(r, e, role)
         \/ \E i \in Invitations : Accept(r, i)
  PROVE  IInv'
<1> USE DEF IInv, NewestTokenOnly
<1>1. ASSUME NEW e \in Emails, Register(r, e) PROVE IInv'
  <2> DEFINE s == [at |-> "register", email |-> e]
  <2>1. s \in RequestState
    BY DEF RequestState
  <2>2. HeldMember(s) /\ HeldOwner(s) /\ HeldEmail(s) /\ HeldToken(s)
    BY <1>1 DEF Register, HeldMember, HeldOwner, HeldEmail, HeldToken, HoldsOrg, HoldsEmail
  <2>3. \A q \in Requests \ {r} : Compatible(s, req[q])
    BY <1>1, EmailLock DEF Register, HoldsEmail, HoldsOrg
  <2> QED
    BY <1>1, <2>1, <2>2, <2>3, ReadStep DEF Register
<1>2. ASSUME NEW e \in Emails, NEW role \in Roles, Invite(r, e, role) PROVE IInv'
  <2> DEFINE s == [at |-> "invite", email |-> e, org |-> req[r].org, role |-> role]
  <2>1. s \in RequestState
    BY <1>2, RequestType DEF Invite, RequestState
  <2>2. HeldMember(s)
    BY <1>2 DEF Invite, HeldMember, HeldInv
  <2>3. HeldOwner(s) /\ HeldEmail(s) /\ HeldToken(s)
    BY <1>2 DEF Invite, HeldOwner, HeldEmail, HeldToken, HoldsOrg, HoldsEmail
  <2>4. \A q \in Requests \ {r} : Compatible(s, req[q])
    BY <1>2, EmailLock DEF Invite, HoldsEmail, HoldsOrg
  <2> QED
    BY <1>2, <2>1, <2>2, <2>3, <2>4, ReadStep DEF Invite
<1>3. ASSUME NEW i \in Invitations, Accept(r, i) PROVE IInv'
  <2> DEFINE s == [at |-> "accept", email |-> invitation[i].email, inv |-> i]
  <2>1. s \in RequestState
    BY <1>3, InvitationType DEF Accept, Pending, RequestState
  <2>2. HeldMember(s) /\ HeldOwner(s) /\ HeldToken(s)
    BY DEF HeldMember, HeldOwner, HeldToken, HoldsOrg
  <2>3. HeldEmail(s)
    BY <1>3 DEF Accept, HeldEmail, HoldsEmail, Pending, EmailBelongsToOne
  <2>4. \A q \in Requests \ {r} : Compatible(s, req[q])
    BY <1>3, EmailLock DEF Accept, HoldsEmail, HoldsOrg
  <2> QED
    BY <1>3, <2>1, <2>2, <2>3, <2>4, ReadStep DEF Accept
<1> QED
  BY <1>1, <1>2, <1>3

\* The requests that read who acts, and whether an owner would be left.
LEMMA MemberReads ==
  ASSUME IInv, NEW r \in Requests, NEW e \in Emails,
         \/ Authenticate(r, e)
         \/ UpdateStatus(r, e)
         \/ \E role \in Roles : UpdateRole(r, e, role)
  PROVE  IInv'
<1> USE DEF IInv, NewestTokenOnly
<1>1. CASE Authenticate(r, e)
  <2> DEFINE s == [at |-> "actor", who |-> e, org |-> account[e].org, role |-> account[e].role]
  <2>1. s \in RequestState
    BY <1>1, AccountType DEF Authenticate, RequestState
  <2>2. HeldMember(s) /\ HeldOwner(s) /\ HeldEmail(s) /\ HeldToken(s)
    BY <1>1 DEF Authenticate, HeldMember, HeldOwner, HeldEmail, HeldToken, HoldsOrg, HoldsEmail,
                Members
  <2>3. \A q \in Requests \ {r} : Compatible(s, req[q])
    BY DEF Compatible, HoldsEmail, HoldsOrg
  <2> QED
    BY <1>1, <2>1, <2>2, <2>3, ReadStep DEF Authenticate
<1>2. ASSUME NEW role \in Roles, UpdateRole(r, e, role) PROVE IInv'
  <2> DEFINE s == [at |-> "role", org |-> req[r].org, who |-> e, role |-> role]
  <2>1. s \in RequestState
    BY <1>2, RequestType DEF UpdateRole, RequestState
  <2>2. HeldMember(s) /\ HeldOwner(s) /\ HeldEmail(s) /\ HeldToken(s)
    BY <1>2 DEF UpdateRole, HeldMember, HeldOwner, HeldEmail, HeldToken, HoldsOrg, HoldsEmail
  <2>3. \A q \in Requests \ {r} : Compatible(s, req[q])
    BY <1>2 DEF UpdateRole, OrgUnlocked, Compatible, HoldsEmail, HoldsOrg
  <2> QED
    BY <1>2, <2>1, <2>2, <2>3, ReadStep DEF UpdateRole
<1>3. CASE UpdateStatus(r, e)
  <2> DEFINE s == [at |-> "status", org |-> req[r].org, who |-> e, active |-> ~account[e].active]
  <2>1. s \in RequestState
    BY <1>3, RequestType DEF UpdateStatus, RequestState
  <2>2. HeldMember(s) /\ HeldOwner(s) /\ HeldEmail(s) /\ HeldToken(s)
    BY <1>3 DEF UpdateStatus, HeldMember, HeldOwner, HeldEmail, HeldToken, HoldsOrg, HoldsEmail
  <2>3. \A q \in Requests \ {r} : Compatible(s, req[q])
    BY <1>3 DEF UpdateStatus, OrgUnlocked, Compatible, HoldsEmail, HoldsOrg
  <2> QED
    BY <1>3, <2>1, <2>2, <2>3, ReadStep DEF UpdateStatus
<1> QED
  BY <1>1, <1>2, <1>3

\* The requests that look for a user or claim a token, and those that give up.
LEMMA TokenReads ==
  ASSUME IInv, NEW r \in Requests,
         \/ \E e \in Emails : ForgotPassword(r, e)
         \/ \E t \in Tokens : ClaimToken(r, t)
         \/ DropTokens(r) \/ Rollback(r)
  PROVE  IInv'
<1> USE DEF IInv, NewestTokenOnly
<1>1. ASSUME NEW e \in Emails, ForgotPassword(r, e) PROVE IInv'
  <2> DEFINE s == [at |-> "lookup", who |-> e]
  <2>1. s \in RequestState
    BY DEF RequestState
  <2>2. HeldMember(s) /\ HeldOwner(s) /\ HeldEmail(s) /\ HeldToken(s)
    BY DEF HeldMember, HeldOwner, HeldEmail, HeldToken, HoldsOrg, HoldsEmail
  <2>3. \A q \in Requests \ {r} : Compatible(s, req[q])
    BY DEF Compatible, HoldsEmail, HoldsOrg
  <2> QED
    BY <1>1, <2>1, <2>2, <2>3, ReadStep DEF ForgotPassword
<1>2. CASE DropTokens(r)
  <2> DEFINE s == [at |-> "forgot", who |-> req[r].who, drops |-> TokensOf(req[r].who)]
  <2>1. s \in RequestState
    BY <1>2, RequestType DEF DropTokens, RequestState, TokensOf
  <2>2. HeldMember(s) /\ HeldOwner(s) /\ HeldEmail(s) /\ HeldToken(s)
    BY DEF HeldMember, HeldOwner, HeldEmail, HeldToken, HoldsOrg, HoldsEmail
  <2>3. \A q \in Requests \ {r} : Compatible(s, req[q])
    BY <1>2 DEF DropTokens, UserUnlocked, TokenUnlocked, Compatible, HoldsEmail, HoldsOrg
  <2> QED
    BY <1>2, <2>1, <2>2, <2>3, ReadStep DEF DropTokens
<1>3. ASSUME NEW t \in Tokens, ClaimToken(r, t) PROVE IInv'
  <2> DEFINE s == [at |-> "reset", token |-> t]
  <2>1. s \in RequestState
    BY DEF RequestState
  <2>2. HeldMember(s) /\ HeldOwner(s) /\ HeldEmail(s)
    BY DEF HeldMember, HeldOwner, HeldEmail, HoldsOrg, HoldsEmail
  <2>3. HeldToken(s)
    BY <1>3 DEF ClaimToken, Usable, HeldToken, RowInv
  <2>4. \A q \in Requests \ {r} : Compatible(s, req[q])
    BY <1>3 DEF ClaimToken, TokenUnlocked, Compatible, HoldsEmail, HoldsOrg
  <2> QED
    BY <1>3, <2>1, <2>2, <2>3, <2>4, ReadStep DEF ClaimToken
<1>4. CASE Rollback(r)
  BY <1>4, IdleHoldsNothing, ReadStep DEF Rollback
<1> QED
  BY <1>1, <1>2, <1>3, <1>4

\* A step that leaves the tokens alone, where request r commits or gives up.
LEMMA TokensKept ==
  ASSUME IInv, UNCHANGED token, \A q \in Requests : req'[q] \in {req[q], Idle}
  PROVE  /\ \A q \in Requests : HeldToken(req[q])'
         /\ \A t \in Tokens : token'[t] # Null /\ ~token'[t].used => token'[t].resets = 0
         /\ \A t, s \in Tokens :
              Usable(t)' /\ Usable(s)' /\ token'[t].user = token'[s].user => t = s
<1>1. ASSUME NEW q \in Requests PROVE HeldToken(req[q])'
  BY DEF IInv, HeldInv, HeldToken, TokensOf, Idle
<1>2. \A t \in Tokens : Usable(t)' <=> Usable(t)
  BY DEF Usable
<1> QED
  BY <1>1, <1>2 DEF IInv, RowInv, NewestTokenOnly

\* The invariant of a step in which request r commits.
LEMMA CommitFrame ==
  ASSUME IInv, NEW r \in Requests, Become(r, Idle)
  PROVE  /\ LockInv'
         /\ req' \in [Requests -> RequestState]
         /\ req'[r] = Idle
         /\ \A q \in Requests \ {r} : req'[q] = req[q]
         /\ \A q \in Requests : req'[q] \in {req[q], Idle}
         /\ \A q \in Requests \ {r} : Compatible(req[r], req[q])
<1>1. LockInv'
  BY LockStep, IdleHoldsNothing DEF IInv, NewestTokenOnly
<1> QED
  BY <1>1, IdleHoldsNothing DEF Become, IInv, NewestTokenOnly, TypeOK, LockInv

\* A step that changes nothing of the accounts keeps what concerns owners.
LEMMA AccountsKept ==
  ASSUME IInv, UNCHANGED account, \A q \in Requests : req'[q] \in {req[q], Idle}
  PROVE  /\ \A q \in Requests : HeldMember(req[q])' /\ HeldOwner(req[q])'
         /\ OwnerRemains'
         /\ \A o : Members(o)' = Members(o)
<1>1. \A o : Members(o)' = Members(o)
  BY DEF Members
<1>2. \A o : ActiveOwners(o)' = ActiveOwners(o)
  BY <1>1 DEF ActiveOwners
<1>3. ASSUME NEW q \in Requests PROVE HeldMember(req[q])' /\ HeldOwner(req[q])'
  <2>1. CASE req'[q] = Idle
    BY <2>1 DEF HeldMember, HeldOwner, HoldsOrg, Idle
  <2>2. CASE req'[q] = req[q]
    BY <1>1, <1>2, <2>2 DEF IInv, HeldInv, HeldMember, HeldOwner, LeavesAnOwner
  <2> QED
    BY <2>1, <2>2
<1> QED
  BY <1>1, <1>2, <1>3 DEF IInv, OwnerRemains

\* Invitations that are created, revoked and expire.

LEMMA CommitInviteInv ==
  ASSUME IInv, NEW r \in Requests, NEW i \in Invitations, CommitInvite(r, i)
  PROVE  IInv'
<1> DEFINE e == req[r].email
           new == [email |-> e, org |-> req[r].org, role |-> req[r].role,
                   accepted |-> FALSE, revoked |-> FALSE, expired |-> FALSE]
<1>0. TypeOK
  BY DEF IInv, NewestTokenOnly
<1>1. /\ req[r].at = "invite"
      /\ invitation[i] = Null
      /\ UNCHANGED <<account, token>>
      /\ Become(r, Idle)
      /\ account[e] = Null
      /\ ~Invited(e)
      /\ Members(req[r].org) # {}
      /\ e \in Emails /\ req[r].org \in Orgs /\ req[r].role \in Roles
  BY <1>0, RequestType DEF CommitInvite, IInv, HeldInv, HeldEmail, HeldMember, HoldsEmail
<1>2. /\ invitation'[i] = new
      /\ new \in InvitationRow
      /\ new # Null
      /\ new.email = e /\ new.org = req[r].org /\ ~new.accepted /\ ~new.revoked
  <2>1. new \in InvitationRow
    BY <1>1 DEF InvitationRow
  <2>2. new # Null
    <3> HIDE DEF new
    <3> QED
      BY <2>1, NullRow
  <2>3. invitation'[i] = new
    BY DEF CommitInvite
  <2> QED
    BY <2>1, <2>2, <2>3
<1>3. ASSUME NEW j \in Invitations, j # i
      PROVE  \/ invitation'[j] = invitation[j]
             \/ /\ invitation[j] # Null
                /\ invitation[j].email = e
                /\ ~invitation[j].accepted
                /\ invitation[j].expired
                /\ invitation'[j] = [invitation[j] EXCEPT !.revoked = TRUE]
  BY <1>3 DEF CommitInvite
<1>4. ASSUME NEW j \in Invitations, j # i
      PROVE  /\ invitation'[j] \in InvitationRow \cup {Null}
             /\ invitation'[j] = Null <=> invitation[j] = Null
             /\ invitation[j] # Null => /\ invitation'[j].email = invitation[j].email
                                        /\ invitation'[j].org = invitation[j].org
                                        /\ invitation'[j].accepted = invitation[j].accepted
             /\ Pending(j)' <=> Pending(j)
             /\ invitation[j] # Null /\ (invitation[j].email # e \/ invitation[j].accepted) =>
                  invitation'[j].revoked = invitation[j].revoked
  <2>1. CASE invitation'[j] = invitation[j]
    BY <1>0, <2>1 DEF TypeOK, Pending
  <2>2. CASE /\ invitation[j] # Null
             /\ invitation[j].email = e
             /\ ~invitation[j].accepted
             /\ invitation[j].expired
             /\ invitation'[j] = [invitation[j] EXCEPT !.revoked = TRUE]
    <3>1. invitation'[j] \in InvitationRow /\ invitation'[j] # Null
      BY <1>0, <2>2, InvitationType, NullRow DEF InvitationRow
    <3> QED
      BY <1>0, <2>2, <3>1, InvitationType DEF Pending, InvitationRow
  <2> QED
    BY <1>3, <1>4, <2>1, <2>2
<1>5. Pending(i)'
  BY <1>2 DEF Pending
<1>6. NewestTokenOnly'
  <2>1. invitation' \in [Invitations -> InvitationRow \cup {Null}]
    <3>1. \A j \in Invitations : invitation'[j] \in InvitationRow \cup {Null}
      BY <1>2, <1>4
    <3> QED
      BY <3>1 DEF CommitInvite
  <2> QED
    BY <1>0, <1>1, <2>1, CommitFrame, TokensKept DEF NewestTokenOnly, TypeOK
<1>7. HeldInv'
  <2> SUFFICES ASSUME NEW q \in Requests, q # r PROVE HeldEmail(req[q])'
    BY <1>1, CommitFrame, TokensKept, AccountsKept, IdleHoldsNothing DEF HeldInv, HeldEmail, Idle,
       HoldsEmail
  <2>1. req'[q] = req[q] /\ HeldEmail(req[q]) /\ Compatible(req[r], req[q])
    BY <1>1, CommitFrame DEF IInv, HeldInv
  <2>2. HoldsEmail(req[q]) => req[q].email # e /\ account'[req[q].email] = Null
    BY <1>1, <2>1 DEF HeldEmail, HoldsEmail, Compatible
  <2>3. req[q].at \in {"register", "invite"} => ~Invited(req[q].email)'
    BY <1>2, <1>4, <2>1, <2>2 DEF HeldEmail, HoldsEmail, Invited, Pending
  <2>4. ASSUME req[q].at = "accept"
        PROVE  /\ invitation'[req[q].inv] # Null
               /\ invitation'[req[q].inv].email = req[q].email
               /\ ~invitation'[req[q].inv].revoked
               /\ \A j \in Invitations :
                    Pending(j)' /\ invitation'[j].email = req[q].email => j = req[q].inv
    <3>1. req[q].inv \in Invitations /\ req[q].inv # i
      BY <1>0, <1>1, <2>1, <2>4, RequestType DEF HeldEmail
    <3> QED
      BY <1>2, <1>4, <2>1, <2>2, <2>4, <3>1 DEF HeldEmail, HoldsEmail, Pending
  <2> QED
    BY <2>1, <2>2, <2>3, <2>4 DEF HeldEmail, HoldsEmail
<1>8. RowInv'
  BY <1>0, <1>1, <1>2, <1>4, TokensKept, AccountsKept, CommitFrame, AccountType DEF IInv, RowInv
<1>9. EmailBelongsToOne'
  BY <1>0, <1>1, <1>2, <1>4, <1>5, InvitationType DEF IInv, EmailBelongsToOne, Invited, Pending
<1>10. AcceptedMadeAccount'
  BY <1>0, <1>1, <1>2, <1>4, AccountType DEF IInv, RowInv, AcceptedMadeAccount
<1> QED
  BY <1>1, <1>6, <1>7, <1>8, <1>9, <1>10, CommitFrame, AccountsKept DEF IInv

\* An open invitation of an e-mail nobody is accepting ends: it is revoked, or
\* its time has passed.
LEMMA EndInvitation ==
  ASSUME IInv, NEW i \in Invitations, NEW entry \in InvitationRow, Pending(i),
         invitation' = [invitation EXCEPT ![i] = entry],
         entry.email = invitation[i].email, entry.org = invitation[i].org, ~entry.accepted,
         entry.revoked \/ entry.expired,
         entry.revoked => InvitationUnlocked(i),
         UNCHANGED <<account, token>>,
         LockInv', req' \in [Requests -> RequestState],
         \A q \in Requests : req'[q] \in {req[q], Idle}
  PROVE  IInv'
<1>0. TypeOK /\ entry # Null
  BY NullRow DEF IInv, NewestTokenOnly
<1>1. /\ invitation'[i] = entry
      /\ \A j \in Invitations \ {i} : invitation'[j] = invitation[j]
      /\ invitation' \in [Invitations -> InvitationRow \cup {Null}]
      /\ invitation[i] # Null /\ ~invitation[i].accepted /\ ~invitation[i].revoked
  BY <1>0 DEF TypeOK, Pending
<1>2. \A j \in Invitations :
        /\ Pending(j)' => Pending(j)
        /\ invitation'[j] = Null <=> invitation[j] = Null
        /\ invitation[j] # Null => /\ invitation'[j].email = invitation[j].email
                                   /\ invitation'[j].org = invitation[j].org
                                   /\ invitation'[j].accepted = invitation[j].accepted
  BY <1>0, <1>1, InvitationType DEF Pending, InvitationRow
<1>3. NewestTokenOnly'
  BY <1>0, <1>1, TokensKept DEF NewestTokenOnly, TypeOK
<1>4. HeldInv'
  <2> SUFFICES ASSUME NEW q \in Requests, req'[q] = req[q] PROVE HeldEmail(req[q])'
    BY TokensKept, AccountsKept, IdleHoldsNothing DEF HeldInv, HeldEmail, Idle, HoldsEmail
  <2>1. HeldEmail(req[q])
    BY DEF IInv, HeldInv
  <2>2. req[q].at \in {"register", "invite"} => ~Invited(req[q].email)'
    BY <1>2, <2>1 DEF HeldEmail, Invited, Pending
  <2>3. ASSUME req[q].at = "accept"
        PROVE  /\ invitation'[req[q].inv] # Null
               /\ invitation'[req[q].inv].email = req[q].email
               /\ ~invitation'[req[q].inv].revoked
               /\ \A j \in Invitations :
                    Pending(j)' /\ invitation'[j].email = req[q].email => j = req[q].inv
    <3>1. req[q].inv \in Invitations
      BY <1>0, <2>3, RequestType
    <3>2. ~invitation'[req[q].inv].revoked
      BY <1>1, <2>1, <2>3, <3>1 DEF HeldEmail, InvitationUnlocked, InvitationRow
    <3> QED
      BY <1>2, <2>1, <2>3, <3>1, <3>2 DEF HeldEmail, Pending
  <2> QED
    BY <2>1, <2>2, <2>3 DEF HeldEmail, HoldsEmail
<1>5. RowInv'
  BY <1>0, <1>2, TokensKept, AccountsKept, AccountType DEF IInv, RowInv
<1>6. EmailBelongsToOne'
  BY <1>2 DEF IInv, EmailBelongsToOne, Pending
<1>7. AcceptedMadeAccount'
  BY <1>0, <1>1, <1>2, AccountType DEF IInv, RowInv, AcceptedMadeAccount
<1> QED
  BY <1>3, <1>4, <1>5, <1>6, <1>7, AccountsKept DEF IInv

LEMMA RevokeInv ==
  ASSUME IInv, NEW r \in Requests, NEW i \in Invitations, Revoke(r, i)
  PROVE  IInv'
<1> DEFINE entry == [invitation[i] EXCEPT !.revoked = TRUE]
<1>1. invitation[i] \in InvitationRow /\ Pending(i) /\ InvitationUnlocked(i)
  BY InvitationType DEF Revoke, Pending, IInv, NewestTokenOnly
<1>2. /\ entry \in InvitationRow
      /\ entry.email = invitation[i].email /\ entry.org = invitation[i].org
      /\ ~entry.accepted /\ entry.revoked
  BY <1>1 DEF InvitationRow, Pending
<1>3. invitation' = [invitation EXCEPT ![i] = entry]
  BY DEF Revoke
<1> QED
  BY <1>1, <1>2, <1>3, CommitFrame, EndInvitation DEF Revoke

LEMMA ExpireInvitationInv ==
  ASSUME IInv, NEW i \in Invitations, ExpireInvitation(i)
  PROVE  IInv'
<1> DEFINE entry == [invitation[i] EXCEPT !.expired = TRUE]
<1>1. invitation[i] \in InvitationRow /\ Pending(i)
  BY InvitationType DEF ExpireInvitation, Pending, IInv, NewestTokenOnly
<1>2. /\ entry \in InvitationRow
      /\ entry.email = invitation[i].email /\ entry.org = invitation[i].org
      /\ ~entry.accepted /\ ~entry.revoked /\ entry.expired
  BY <1>1 DEF InvitationRow, Pending
<1>3. invitation' = [invitation EXCEPT ![i] = entry]
  BY DEF ExpireInvitation
<1>4. LockInv' /\ req' \in [Requests -> RequestState]
  BY DEF ExpireInvitation, IInv, LockInv, Compatible, HoldsEmail, HoldsOrg, NewestTokenOnly, TypeOK
<1> QED
  BY <1>1, <1>2, <1>3, <1>4, EndInvitation DEF ExpireInvitation

\* Accounts that are created: by a registration, and by an acceptance.

\* A new account of an e-mail that had none; its organisation has no member
\* yet, or has an active owner.
LEMMA NewAccount ==
  ASSUME IInv, NEW r \in Requests, NEW e \in Emails, NEW entry \in UserRow,
         HoldsEmail(req[r]), e = req[r].email, account[e] = Null,
         account' = [account EXCEPT ![e] = entry],
         Become(r, Idle),
         Members(entry.org) = {} => entry.role = "OWNER" /\ entry.active
  PROVE  /\ account' \in [Emails -> UserRow \cup {Null}]
         /\ account'[e] = entry /\ entry # Null
         /\ \A x \in Emails \ {e} : account'[x] = account[x]
         /\ \A o : Members(o) \subseteq Members(o)'
         /\ OwnerRemains'
         /\ \A q \in Requests : HeldMember(req[q])' /\ HeldOwner(req[q])'
         /\ \A q \in Requests : HoldsEmail(req[q])' => account'[req'[q].email] = Null
<1>0. TypeOK /\ entry # Null
  BY NullRow DEF IInv, NewestTokenOnly
<1>1. /\ account' \in [Emails -> UserRow \cup {Null}]
      /\ account'[e] = entry
      /\ \A x \in Emails \ {e} : account'[x] = account[x]
  BY <1>0 DEF TypeOK
<1>2. \A o : /\ Members(o)' = Members(o) \cup (IF entry.org = o THEN {e} ELSE {})
             /\ ActiveOwners(o) \subseteq ActiveOwners(o)'
             /\ ActiveOwners(o)' \subseteq ActiveOwners(o) \cup {e}
  BY <1>0, <1>1 DEF Members, ActiveOwners
<1>3. OwnerRemains'
  <2> SUFFICES ASSUME NEW o \in Orgs, Members(o)' # {} PROVE ActiveOwners(o)' # {}
    BY DEF OwnerRemains
  <2>1. CASE Members(o) # {}
    BY <1>2, <2>1 DEF IInv, OwnerRemains
  <2>2. CASE Members(o) = {}
    <3>1. e \in ActiveOwners(o)'
      BY <1>0, <1>1, <1>2, <2>2 DEF ActiveOwners
    <3> QED
      BY <3>1
  <2> QED
    BY <2>1, <2>2
<1>4. ASSUME NEW q \in Requests
      PROVE  /\ HeldMember(req[q])'
             /\ HeldOwner(req[q])'
             /\ HoldsEmail(req[q])' => account'[req'[q].email] = Null
  <2>1. CASE q = r
    BY <2>1, CommitFrame DEF HeldMember, HeldOwner, HoldsOrg, HoldsEmail, Idle
  <2>2. CASE q # r
    <3>1. /\ req'[q] = req[q]
          /\ HeldMember(req[q]) /\ HeldOwner(req[q]) /\ HeldEmail(req[q])
          /\ Compatible(req[r], req[q])
      BY <2>2, CommitFrame DEF IInv, HeldInv
    <3>2. HeldMember(req[q])'
      BY <1>2, <3>1 DEF HeldMember
    <3>3. HeldOwner(req[q])'
      <4> SUFFICES ASSUME HoldsOrg(req[q]) PROVE LeavesAnOwner(req[q].who)'
        BY <3>1 DEF HeldOwner
      <4>1. req[q].who # e /\ req[q].who \in Emails
        BY <3>1 DEF HeldMember, HoldsOrg, Members
      <4> QED
        BY <1>1, <1>2, <3>1, <4>1 DEF HeldOwner, LeavesAnOwner
    <3>4. HoldsEmail(req[q]) => account'[req[q].email] = Null
      BY <1>0, <1>1, <3>1, RequestType DEF Compatible, HeldEmail
    <3> QED
      BY <3>1, <3>2, <3>3, <3>4 DEF HoldsEmail
  <2> QED
    BY <2>1, <2>2
<1> QED
  BY <1>0, <1>1, <1>2, <1>3, <1>4

LEMMA CommitRegisterInv ==
  ASSUME IInv, NEW r \in Requests, NEW o \in Orgs, CommitRegister(r, o)
  PROVE  IInv'
<1> DEFINE e == req[r].email
           entry == [org |-> o, role |-> "OWNER", active |-> TRUE, from |-> Null]
<1>0. TypeOK
  BY DEF IInv, NewestTokenOnly
<1>1. /\ e \in Emails
      /\ HoldsEmail(req[r])
      /\ account[e] = Null
      /\ ~Invited(e)
      /\ UNCHANGED <<invitation, token>>
      /\ Become(r, Idle)
      /\ account' = [account EXCEPT ![e] = entry]
  BY <1>0, RequestType DEF CommitRegister, IInv, HeldInv, HeldEmail, HoldsEmail
<1>2. /\ entry \in UserRow
      /\ Members(entry.org) = {} /\ entry.role = "OWNER" /\ entry.active /\ entry.from = Null
  BY DEF UserRow, Roles, CommitRegister
<1> HIDE DEF entry, e
<1>3. /\ account' \in [Emails -> UserRow \cup {Null}]
      /\ account'[e] = entry /\ entry # Null
      /\ \A x \in Emails \ {e} : account'[x] = account[x]
      /\ \A n : Members(n) \subseteq Members(n)'
      /\ OwnerRemains'
      /\ \A q \in Requests : HeldMember(req[q])' /\ HeldOwner(req[q])'
      /\ \A q \in Requests : HoldsEmail(req[q])' => account'[req'[q].email] = Null
  BY <1>1, <1>2, NewAccount DEF e
<1>4. NewestTokenOnly'
  BY <1>0, <1>1, <1>3, CommitFrame, TokensKept DEF NewestTokenOnly, TypeOK
<1>5. HeldInv'
  <2>1. ASSUME NEW q \in Requests PROVE HeldEmail(req[q])'
    <3>1. HeldEmail(req'[q])
      BY <1>1, CommitFrame, IdleHoldsNothing DEF IInv, HeldInv
    <3> QED
      BY <1>1, <1>3, <3>1 DEF HeldEmail, HoldsEmail, Invited, Pending
  <2> QED
    BY <1>1, <1>3, <2>1, CommitFrame, TokensKept DEF HeldInv
<1>6. RowInv'
  BY <1>1, <1>2, <1>3, CommitFrame, TokensKept DEF IInv, RowInv
<1>7. EmailBelongsToOne'
  BY <1>0, <1>1, <1>3, InvitationType DEF IInv, EmailBelongsToOne, Invited, Pending
<1>8. AcceptedMadeAccount'
  BY <1>0, <1>1, <1>2, <1>3, InvitationType DEF IInv, AcceptedMadeAccount
<1> QED
  BY <1>1, <1>3, <1>4, <1>5, <1>6, <1>7, <1>8, CommitFrame DEF IInv

LEMMA CommitAcceptInv ==
  ASSUME IInv, NEW r \in Requests, CommitAccept(r)
  PROVE  IInv'
<1> DEFINE e == req[r].email
           i == req[r].inv
           entry == [org |-> invitation[i].org, role |-> invitation[i].role,
                   active |-> TRUE, from |-> i]
           done == [invitation[i] EXCEPT !.accepted = TRUE]
<1>0. TypeOK
  BY DEF IInv, NewestTokenOnly
<1>1. /\ e \in Emails
      /\ i \in Invitations
      /\ HoldsEmail(req[r])
      /\ account[e] = Null
      /\ invitation[i] \in InvitationRow
      /\ invitation[i] # Null
      /\ invitation[i].email = e
      /\ ~invitation[i].revoked
      /\ \A j \in Invitations : Pending(j) /\ invitation[j].email = e => j = i
      /\ UNCHANGED token
      /\ Become(r, Idle)
      /\ account' = [account EXCEPT ![e] = entry]
      /\ invitation' = [invitation EXCEPT ![i] = done]
  BY <1>0, RequestType, InvitationType
     DEF CommitAccept, IInv, HeldInv, HeldEmail, HoldsEmail
<1>2. entry \in UserRow /\ entry.org = invitation[i].org /\ entry.from = i
  BY <1>0, <1>1, InvitationType DEF UserRow
<1>3. /\ done \in InvitationRow /\ done # Null
      /\ done.email = e /\ done.org = invitation[i].org
      /\ done.accepted /\ ~done.revoked
  <2>1. /\ done \in InvitationRow
        /\ done.email = e /\ done.org = invitation[i].org
        /\ done.accepted /\ ~done.revoked
    BY <1>1 DEF InvitationRow
  <2> QED
    BY <2>1, NullRow
<1>4. Members(entry.org) # {}
  BY <1>1, <1>2 DEF IInv, RowInv
<1> HIDE DEF entry, done, e, i
<1>5. /\ account' \in [Emails -> UserRow \cup {Null}]
      /\ account'[e] = entry /\ entry # Null
      /\ \A x \in Emails \ {e} : account'[x] = account[x]
      /\ \A n : Members(n) \subseteq Members(n)'
      /\ OwnerRemains'
      /\ \A q \in Requests : HeldMember(req[q])' /\ HeldOwner(req[q])'
      /\ \A q \in Requests : HoldsEmail(req[q])' => account'[req'[q].email] = Null
  BY <1>1, <1>2, <1>4, NewAccount DEF e
<1>6. /\ invitation' \in [Invitations -> InvitationRow \cup {Null}]
      /\ invitation'[i] = done
      /\ \A j \in Invitations \ {i} : invitation'[j] = invitation[j]
  BY <1>0, <1>1, <1>3 DEF TypeOK
<1>7. \A j \in Invitations :
        /\ Pending(j)' => j # i /\ Pending(j)
        /\ invitation'[j] = Null <=> invitation[j] = Null
        /\ invitation[j] # Null => /\ invitation'[j].email = invitation[j].email
                                   /\ invitation'[j].org = invitation[j].org
                                   /\ (invitation'[j].revoked <=> invitation[j].revoked)
  <2> SUFFICES ASSUME NEW j \in Invitations
               PROVE  /\ Pending(j)' => j # i /\ Pending(j)
                      /\ invitation'[j] = Null <=> invitation[j] = Null
                      /\ invitation[j] # Null =>
                           /\ invitation'[j].email = invitation[j].email
                           /\ invitation'[j].org = invitation[j].org
                           /\ (invitation'[j].revoked <=> invitation[j].revoked)
    OBVIOUS
  <2>1. CASE j = i
    BY <1>1, <1>3, <1>6, <2>1 DEF Pending
  <2>2. CASE j # i
    BY <1>6, <2>2 DEF Pending
  <2> QED
    BY <2>1, <2>2
<1>8. NewestTokenOnly'
  BY <1>0, <1>1, <1>5, <1>6, CommitFrame, TokensKept DEF NewestTokenOnly, TypeOK
<1>9. HeldInv'
  <2>1. ASSUME NEW q \in Requests PROVE HeldEmail(req[q])'
    <3>1. HeldEmail(req'[q]) /\ req'[q] \in RequestState /\ req'[q] \in {req[q], Idle}
      BY <1>1, CommitFrame, IdleHoldsNothing DEF IInv, HeldInv
    <3>2. req'[q].at = "accept" => req'[q].inv \in Invitations
      BY <1>0, <3>1, RequestType DEF Idle
    <3> QED
      BY <1>5, <1>7, <3>1, <3>2 DEF HeldEmail, HoldsEmail, Invited, Pending
  <2> QED
    BY <1>1, <1>5, <2>1, CommitFrame, TokensKept DEF HeldInv
<1>10. RowInv'
  <2>1. ASSUME NEW x \in Emails, account'[x] # Null, account'[x].from # Null
        PROVE  invitation'[account'[x].from] # Null
    <3>1. CASE x = e
      BY <1>1, <1>2, <1>3, <1>5, <1>6, <3>1
    <3>2. CASE x # e
      BY <1>0, <1>5, <1>7, <2>1, <3>2, AccountType DEF IInv, RowInv
    <3> QED
      BY <3>1, <3>2
  <2>2. ASSUME NEW j \in Invitations, invitation'[j] # Null
        PROVE  Members(invitation[j].org)' # {}
    <3>1. PICK x \in Emails : account[x] # Null /\ account[x].org = invitation[j].org
      BY <1>7, <2>2 DEF IInv, RowInv, Members
    <3> QED
      BY <1>1, <1>5, <1>7, <2>2, <3>1 DEF Members
  <2>3. \A t \in Tokens : token'[t] # Null /\ ~token'[t].used => token'[t].resets = 0
    BY <1>1, CommitFrame, TokensKept
  <2> QED
    BY <2>1, <2>2, <2>3 DEF RowInv
<1>11. EmailBelongsToOne'
  <2> SUFFICES ASSUME NEW j \in Invitations, Pending(j)'
               PROVE  /\ account'[invitation'[j].email] = Null
                      /\ \A k \in Invitations \ {j} :
                           Pending(k)' => invitation'[k].email # invitation'[j].email
    BY DEF EmailBelongsToOne
  <2>1. Pending(j) /\ j # i /\ invitation[j] # Null /\ invitation'[j].email = invitation[j].email
    BY <1>7 DEF Pending
  <2>2. invitation[j].email # e /\ invitation[j].email \in Emails
    BY <1>0, <1>1, <2>1, InvitationType
  <2> QED
    BY <1>5, <1>7, <2>1, <2>2 DEF IInv, EmailBelongsToOne, Pending
<1>12. AcceptedMadeAccount'
  <2>1. ASSUME NEW j \in Invitations, invitation'[j] # Null, invitation'[j].accepted
        PROVE  /\ ~invitation'[j].revoked
               /\ account'[invitation'[j].email] # Null
               /\ account'[invitation'[j].email].from = j
               /\ account'[invitation'[j].email].org = invitation'[j].org
    <3>1. CASE j = i
      BY <1>1, <1>2, <1>3, <1>5, <1>6, <3>1
    <3>2. CASE j # i
      <4>1. invitation'[j] = invitation[j]
        BY <1>6, <3>2
      <4>2. invitation[j].email \in Emails /\ invitation[j].email # e
        BY <1>0, <1>1, <2>1, <4>1, InvitationType DEF IInv, AcceptedMadeAccount
      <4> QED
        BY <1>5, <2>1, <4>1, <4>2 DEF IInv, AcceptedMadeAccount
    <3> QED
      BY <3>1, <3>2
  <2>2. ASSUME NEW x \in Emails, account'[x] # Null, account'[x].from # Null
        PROVE  invitation'[account'[x].from].accepted
    <3>1. CASE x = e
      BY <1>2, <1>3, <1>5, <1>6, <3>1
    <3>2. CASE x # e
      BY <1>0, <1>3, <1>5, <1>6, <2>2, <3>2, AccountType DEF IInv, AcceptedMadeAccount
    <3> QED
      BY <3>1, <3>2
  <2> QED
    BY <2>1, <2>2 DEF AcceptedMadeAccount
<1> QED
  BY <1>1, <1>5, <1>8, <1>9, <1>10, <1>11, <1>12, CommitFrame DEF IInv

\* The role or the status of a member changes: the owner the request counted
\* on is another, and nobody else changes the organisation's members.
LEMMA MemberChanges ==
  ASSUME IInv, NEW r \in Requests, NEW entry \in UserRow,
         NEW w, w = req[r].who, NEW o, o = req[r].org,
         HoldsOrg(req[r]),
         entry.org = account[w].org, entry.from = account[w].from,
         account' = [account EXCEPT ![w] = entry],
         Become(r, Idle), UNCHANGED <<invitation, token>>
  PROVE  IInv'
<1>0. TypeOK /\ entry # Null
  BY NullRow DEF IInv, NewestTokenOnly
<1>1. /\ w \in Emails /\ o \in Orgs
      /\ account[w] # Null /\ account[w].org = o
      /\ LeavesAnOwner(w)
  BY <1>0, RequestType DEF HoldsOrg, IInv, HeldInv, HeldMember, HeldOwner, Members
<1>2. /\ account' \in [Emails -> UserRow \cup {Null}]
      /\ account'[w] = entry
      /\ \A x \in Emails \ {w} : account'[x] = account[x]
      /\ \A x \in Emails : /\ account'[x] = Null <=> account[x] = Null
                           /\ account'[x] # Null => /\ account'[x].org = account[x].org
                                                    /\ account'[x].from = account[x].from
  BY <1>0, <1>1 DEF TypeOK
<1>3. \A n : Members(n)' = Members(n)
  BY <1>2 DEF Members
<1>4. \A n : n # o => ActiveOwners(n)' = ActiveOwners(n)
  <2>1. \A n : n # o => w \notin Members(n)
    BY <1>1 DEF Members
  <2> QED
    BY <1>2, <1>3, <2>1 DEF ActiveOwners, Members
<1>5. ActiveOwners(o)' # {}
  <2>1. PICK x \in ActiveOwners(o) : x # w
    BY <1>1 DEF IInv, OwnerRemains, LeavesAnOwner, Members
  <2>2. x \in ActiveOwners(o)'
    BY <1>2, <1>3, <2>1 DEF ActiveOwners, Members
  <2> QED
    BY <2>2
<1>6. OwnerRemains'
  BY <1>3, <1>4, <1>5 DEF IInv, OwnerRemains
<1>7. NewestTokenOnly'
  BY <1>0, <1>2, CommitFrame, TokensKept DEF NewestTokenOnly, TypeOK
<1>8. HeldInv'
  <2>1. ASSUME NEW q \in Requests \ {r}
        PROVE  HeldMember(req[q])' /\ HeldOwner(req[q])' /\ HeldEmail(req[q])'
    <3>1. /\ req'[q] = req[q]
          /\ HeldMember(req[q]) /\ HeldOwner(req[q]) /\ HeldEmail(req[q])
          /\ Compatible(req[r], req[q])
      BY CommitFrame DEF IInv, HeldInv
    <3>2. HeldMember(req[q])'
      BY <1>3, <3>1 DEF HeldMember
    <3>3. HeldOwner(req[q])'
      <4> SUFFICES ASSUME HoldsOrg(req[q]) PROVE LeavesAnOwner(req[q].who)'
        BY <3>1 DEF HeldOwner
      <4>1. /\ req[q].who \in Emails /\ account[req[q].who] # Null
            /\ account[req[q].who].org = req[q].org
            /\ req[q].org # o
        BY <3>1 DEF HeldMember, HoldsOrg, Members, Compatible
      <4> QED
        BY <1>2, <1>4, <3>1, <4>1 DEF HeldOwner, LeavesAnOwner
    <3>4. HeldEmail(req[q])'
      BY <1>0, <1>2, <3>1, RequestType DEF HeldEmail, HoldsEmail, Invited, Pending
    <3> QED
      BY <3>2, <3>3, <3>4
  <2>2. HeldMember(req[r])' /\ HeldOwner(req[r])' /\ HeldEmail(req[r])'
    BY CommitFrame DEF HeldMember, HeldOwner, HeldEmail, HoldsOrg, HoldsEmail, Idle
  <2> QED
    BY <2>1, <2>2, CommitFrame, TokensKept DEF HeldInv
<1>9. RowInv'
  <2>1. \A i \in Invitations : invitation'[i] # Null => Members(invitation[i].org)' # {}
    BY <1>3 DEF IInv, RowInv
  <2> QED
    BY <1>2, <2>1, CommitFrame, TokensKept DEF IInv, RowInv
<1>10. EmailBelongsToOne'
  BY <1>0, <1>2, InvitationType DEF IInv, EmailBelongsToOne, Pending
<1>11. AcceptedMadeAccount'
  BY <1>0, <1>2, InvitationType DEF IInv, AcceptedMadeAccount
<1> QED
  BY <1>6, <1>7, <1>8, <1>9, <1>10, <1>11, CommitFrame DEF IInv

LEMMA CommitMemberInv ==
  ASSUME IInv, NEW r \in Requests, CommitRole(r) \/ CommitStatus(r)
  PROVE  IInv'
<1> DEFINE old == account[req[r].who]
<1>1. old \in UserRow /\ HoldsOrg(req[r])
  BY RequestType, AccountType
     DEF CommitRole, CommitStatus, HoldsOrg, IInv, NewestTokenOnly, HeldInv, HeldMember, Members
<1>2. CASE CommitRole(r)
  <2> DEFINE entry == [old EXCEPT !.role = req[r].role]
  <2>1. entry \in UserRow /\ entry.org = old.org /\ entry.from = old.from
    BY <1>1, <1>2, RequestType DEF CommitRole, UserRow, IInv, NewestTokenOnly
  <2>2. account' = [account EXCEPT ![req[r].who] = entry]
    BY <1>2 DEF CommitRole
  <2> QED
    BY <1>1, <1>2, <2>1, <2>2, MemberChanges DEF CommitRole
<1>3. CASE CommitStatus(r)
  <2> DEFINE entry == [old EXCEPT !.active = req[r].active]
  <2>1. entry \in UserRow /\ entry.org = old.org /\ entry.from = old.from
    BY <1>1, <1>3, RequestType DEF CommitStatus, UserRow, IInv, NewestTokenOnly
  <2>2. account' = [account EXCEPT ![req[r].who] = entry]
    BY <1>3 DEF CommitStatus
  <2> QED
    BY <1>1, <1>3, <2>1, <2>2, MemberChanges DEF CommitStatus
<1> QED
  BY <1>2, <1>3

-----------------------------------------------------------------------------
(* Passwords.                                                              *)

\* A step that changes no account and no invitation: what concerns the tokens
\* is left to show.
LEMMA TokenStep ==
  ASSUME IInv, UNCHANGED <<account, invitation>>,
         LockInv', req' \in [Requests -> RequestState],
         \A q \in Requests : req'[q] \in {req[q], Idle},
         token' \in [Tokens -> TokenRow \cup {Null}],
         \A t \in Tokens : token'[t] # Null /\ ~token'[t].used => token'[t].resets = 0,
         \A t, s \in Tokens : Usable(t)' /\ Usable(s)' /\ token'[t].user = token'[s].user => t = s,
         \A q \in Requests : HeldToken(req[q])'
  PROVE  IInv'
<1>1. NewestTokenOnly'
  BY DEF IInv, NewestTokenOnly, TypeOK
<1>2. \A q \in Requests : HeldEmail(req[q])'
  BY DEF IInv, HeldInv, HeldEmail, HoldsEmail, Invited, Pending, Idle
<1>3. RowInv'
  BY AccountsKept DEF IInv, RowInv
<1>4. EmailBelongsToOne' /\ AcceptedMadeAccount'
  BY DEF IInv, EmailBelongsToOne, AcceptedMadeAccount, Pending
<1> QED
  BY <1>1, <1>2, <1>3, <1>4, AccountsKept DEF IInv, HeldInv

LEMMA IssueTokenInv ==
  ASSUME IInv, NEW r \in Requests, NEW t \in Tokens, IssueToken(r, t)
  PROVE  IInv'
<1> DEFINE w == req[r].who
           new == [user |-> w, used |-> FALSE, expired |-> FALSE, resets |-> 0]
<1>0. TypeOK
  BY DEF IInv, NewestTokenOnly
<1>1. /\ req[r].at = "forgot"
      /\ w \in Emails
      /\ token[t] = Null
      /\ TokensOf(w) \subseteq req[r].drops
      /\ Become(r, Idle)
  BY <1>0, RequestType DEF IssueToken, IInv, HeldInv, HeldToken
<1>2. new \in TokenRow /\ new # Null
  <2>1. new \in TokenRow
    BY <1>1 DEF TokenRow
  <2> QED
    BY <2>1, NullRow
<1>3. /\ token'[t] = new
      /\ \A s \in Tokens \ {t} : token'[s] \in {Null, token[s]}
      /\ \A s \in Tokens \ {t} : s \in req[r].drops => token'[s] = Null
      /\ \A s \in Tokens \ {t} : s \notin req[r].drops => token'[s] = token[s]
      /\ token' \in [Tokens -> TokenRow \cup {Null}]
  BY <1>0, <1>1, <1>2 DEF IssueToken, TypeOK
<1>4. new.user = w /\ new.resets = 0
  OBVIOUS
<1> HIDE DEF new, w
<1>5. \A s \in Tokens \ {t} : token'[s] # Null => token'[s] = token[s] /\ token[s].user # w
  BY <1>1, <1>3 DEF TokensOf
<1>6. \A s \in Tokens : token'[s] # Null /\ ~token'[s].used => token'[s].resets = 0
  BY <1>2, <1>3, <1>4, <1>5 DEF IInv, RowInv
<1>7. ASSUME NEW s \in Tokens, NEW x \in Tokens, Usable(s)', Usable(x)',
             token'[s].user = token'[x].user
      PROVE  s = x
  BY <1>2, <1>3, <1>4, <1>5, <1>7 DEF IInv, NewestTokenOnly, Usable
<1>8. ASSUME NEW q \in Requests PROVE HeldToken(req[q])'
  <2>1. CASE q = r
    BY <1>1, <2>1, CommitFrame DEF HeldToken, Idle
  <2>2. CASE q # r
    <3>1. req'[q] = req[q] /\ HeldToken(req[q]) /\ Compatible(req[r], req[q])
      BY <1>1, <2>2, CommitFrame DEF IInv, HeldInv
    <3>2. req[q].at = "reset" => req[q].token \in Tokens /\ req[q].token \notin req[r].drops
      BY <1>0, <1>1, <3>1, RequestType DEF Compatible
    <3>3. req[q].at = "forgot" => req[q].who # w
      BY <1>1, <3>1 DEF Compatible, w
    <3> QED
      BY <1>1, <1>2, <1>3, <1>4, <1>5, <3>1, <3>2, <3>3 DEF HeldToken, TokensOf
  <2> QED
    BY <2>1, <2>2
<1> QED
  BY <1>1, <1>3, <1>6, <1>7, <1>8, CommitFrame, TokenStep DEF IssueToken

\* A new password of user e leaves none of its tokens usable.
LEMMA PasswordSetRows ==
  ASSUME TypeOK, NEW e
  PROVE  \A t \in Tokens :
           /\ PasswordSet(e)[t] \in TokenRow \cup {Null}
           /\ PasswordSet(e)[t] = Null <=> token[t] = Null
           /\ token[t] # Null => /\ PasswordSet(e)[t].user = token[t].user
                                 /\ PasswordSet(e)[t].resets = token[t].resets
                                 /\ PasswordSet(e)[t].expired <=> token[t].expired
                                 /\ PasswordSet(e)[t].used <=> token[t].used \/ token[t].user = e
<1> SUFFICES ASSUME NEW t \in Tokens
             PROVE  /\ PasswordSet(e)[t] \in TokenRow \cup {Null}
                    /\ PasswordSet(e)[t] = Null <=> token[t] = Null
                    /\ token[t] # Null =>
                         /\ PasswordSet(e)[t].user = token[t].user
                         /\ PasswordSet(e)[t].resets = token[t].resets
                         /\ PasswordSet(e)[t].expired <=> token[t].expired
                         /\ PasswordSet(e)[t].used <=> token[t].used \/ token[t].user = e
  OBVIOUS
<1>1. CASE t \in TokensOf(e)
  <2>1. /\ PasswordSet(e)[t] = [token[t] EXCEPT !.used = TRUE]
        /\ token[t] # Null /\ token[t] \in TokenRow /\ token[t].user = e
    BY <1>1, TokenType DEF PasswordSet, TokensOf
  <2>2. [token[t] EXCEPT !.used = TRUE] \in TokenRow
    BY <2>1 DEF TokenRow
  <2> QED
    BY <2>1, <2>2, NullRow DEF TokenRow
<1>2. CASE t \notin TokensOf(e)
  BY <1>2 DEF PasswordSet, TokensOf, TypeOK
<1> QED
  BY <1>1, <1>2

LEMMA CommitResetInv ==
  ASSUME IInv, NEW r \in Requests, CommitReset(r)
  PROVE  IInv'
<1>0. TypeOK
  BY DEF IInv, NewestTokenOnly
<1>1. PICK t \in Tokens : t = req[r].token
  BY <1>0, RequestType DEF CommitReset
<1>2. PICK e \in Emails : e = token[t].user
  BY <1>0, <1>1, TokenType DEF CommitReset, IInv, HeldInv, HeldToken
<1>3. /\ req[r].at = "reset"
      /\ token[t] # Null /\ token[t].resets = 0
      /\ token' = [PasswordSet(e) EXCEPT ![t].resets = @ + 1]
      /\ UNCHANGED <<account, invitation>>
      /\ Become(r, Idle)
  BY <1>1, <1>2 DEF CommitReset, IInv, HeldInv, HeldToken
<1>4. ASSUME NEW s \in Tokens
      PROVE  /\ token'[s] \in TokenRow \cup {Null}
             /\ token'[s] = Null <=> token[s] = Null
             /\ token[s] # Null => /\ token'[s].user = token[s].user
                                   /\ s # t => token'[s].resets = token[s].resets
                                   /\ token'[s].expired <=> token[s].expired
                                   /\ token'[s].used <=> token[s].used \/ token[s].user = e
  <2>1. PasswordSet(e) = [x \in Tokens |-> PasswordSet(e)[x]]
    BY DEF PasswordSet
  <2>2. CASE s = t
    <3> DEFINE entry == PasswordSet(e)[t]
               new == [entry EXCEPT !.resets = entry.resets + 1]
    <3>1. entry \in TokenRow /\ entry.resets = 0
      BY <1>0, <1>3, NullRow, PasswordSetRows
    <3>2. token'[t] = new
      BY <1>3, <2>1
    <3>3. /\ new \in TokenRow /\ new.user = entry.user
          /\ new.expired = entry.expired /\ new.used = entry.used
      BY <3>1 DEF TokenRow
    <3> HIDE DEF entry, new
    <3>4. new # Null
      BY <3>3, NullRow
    <3> QED
      BY <1>0, <1>3, <2>2, <3>2, <3>3, <3>4, PasswordSetRows DEF entry
  <2>3. CASE s # t
    <3>1. token'[s] = PasswordSet(e)[s]
      BY <1>3, <2>1, <2>3
    <3> QED
      BY <1>0, <2>3, <3>1, PasswordSetRows
  <2> QED
    BY <2>2, <2>3
<1>5. token' \in [Tokens -> TokenRow \cup {Null}]
  BY <1>3, <1>4 DEF PasswordSet
<1>6. \A s \in Tokens : token'[s] # Null /\ ~token'[s].used => token'[s].resets = 0
  BY <1>2, <1>4 DEF IInv, RowInv
<1>7. ASSUME NEW s \in Tokens, NEW x \in Tokens, Usable(s)', Usable(x)',
             token'[s].user = token'[x].user
      PROVE  s = x
  BY <1>4, <1>7 DEF IInv, NewestTokenOnly, Usable
<1>8. ASSUME NEW q \in Requests PROVE HeldToken(req[q])'
  <2>1. CASE q = r
    BY <1>3, <2>1, CommitFrame DEF HeldToken, Idle
  <2>2. CASE q # r
    <3>1. req'[q] = req[q] /\ HeldToken(req[q]) /\ Compatible(req[r], req[q])
      BY <1>3, <2>2, CommitFrame DEF IInv, HeldInv
    <3>2. req[q].at = "reset" => req[q].token \in Tokens /\ req[q].token # t
      BY <1>0, <1>1, <1>3, <3>1, RequestType DEF Compatible
    <3> QED
      BY <1>4, <3>1, <3>2 DEF HeldToken, TokensOf
  <2> QED
    BY <2>1, <2>2
<1> QED
  BY <1>3, <1>5, <1>6, <1>7, <1>8, CommitFrame, TokenStep

\* A step of no request that changes only the tokens.
LEMMA TokensOnly ==
  ASSUME IInv, UNCHANGED <<account, invitation, req>>,
         token' \in [Tokens -> TokenRow \cup {Null}],
         \A t \in Tokens :
           /\ token'[t] = Null <=> token[t] = Null
           /\ token[t] # Null => /\ token'[t].user = token[t].user
                                 /\ token'[t].resets = token[t].resets
                                 /\ Usable(t)' => Usable(t)
                                 /\ ~token'[t].used => ~token[t].used
  PROVE  IInv'
<1>1. LockInv' /\ req' \in [Requests -> RequestState]
  BY DEF IInv, LockInv, Compatible, HoldsEmail, HoldsOrg, NewestTokenOnly, TypeOK
<1>2. \A t \in Tokens : token'[t] # Null /\ ~token'[t].used => token'[t].resets = 0
  BY DEF IInv, RowInv
<1>3. \A t, s \in Tokens : Usable(t)' /\ Usable(s)' /\ token'[t].user = token'[s].user => t = s
  BY DEF IInv, NewestTokenOnly, Usable
<1>4. ASSUME NEW q \in Requests PROVE HeldToken(req[q])'
  BY RequestType DEF IInv, HeldInv, NewestTokenOnly, HeldToken, TokensOf
<1> QED
  BY <1>1, <1>2, <1>3, <1>4, TokenStep

LEMMA ChangePasswordInv ==
  ASSUME IInv, NEW e \in Emails, ChangePassword(e)
  PROVE  IInv'
<1>1. TypeOK
  BY DEF IInv, NewestTokenOnly
<1>2. token' = PasswordSet(e)
  BY DEF ChangePassword
<1>3. token' \in [Tokens -> TokenRow \cup {Null}]
  BY <1>1, <1>2, PasswordSetRows DEF PasswordSet
<1>4. \A t \in Tokens :
        /\ token'[t] = Null <=> token[t] = Null
        /\ token[t] # Null => /\ token'[t].user = token[t].user
                              /\ token'[t].resets = token[t].resets
                              /\ Usable(t)' => Usable(t)
                              /\ ~token'[t].used => ~token[t].used
  BY <1>1, <1>2, PasswordSetRows DEF Usable
<1> QED
  BY <1>3, <1>4, TokensOnly DEF ChangePassword

LEMMA ExpireTokenInv ==
  ASSUME IInv, NEW t \in Tokens, ExpireToken(t)
  PROVE  IInv'
<1> DEFINE entry == [token[t] EXCEPT !.expired = TRUE]
<1>1. TypeOK /\ token[t] \in TokenRow
  BY TokenType DEF ExpireToken, Usable, IInv, NewestTokenOnly
<1>2. /\ entry \in TokenRow /\ entry.expired /\ entry.user = token[t].user
      /\ entry.resets = token[t].resets /\ entry.used = token[t].used
  BY <1>1 DEF TokenRow
<1>3. token' = [token EXCEPT ![t] = entry]
  BY DEF ExpireToken
<1> HIDE DEF entry
<1>4. entry # Null
  BY <1>2, NullRow
<1>5. token' \in [Tokens -> TokenRow \cup {Null}]
  BY <1>1, <1>2, <1>3 DEF TypeOK
<1>6. ASSUME NEW s \in Tokens
      PROVE  /\ token'[s] = Null <=> token[s] = Null
             /\ token[s] # Null => /\ token'[s].user = token[s].user
                                   /\ token'[s].resets = token[s].resets
                                   /\ Usable(s)' => Usable(s)
                                   /\ ~token'[s].used => ~token[s].used
  <2>1. CASE s = t
    BY <1>1, <1>2, <1>3, <1>4, <2>1, NullRow DEF TypeOK, Usable
  <2>2. CASE s # t
    BY <1>1, <1>3, <2>2 DEF TypeOK, Usable
  <2> QED
    BY <2>1, <2>2
<1> QED
  BY <1>5, <1>6, TokensOnly DEF ExpireToken

-----------------------------------------------------------------------------

LEMMA NextInv == IInv /\ [Next]_vars => IInv'
<1> SUFFICES ASSUME IInv, [Next]_vars PROVE IInv'
  OBVIOUS
<1>1. ASSUME NEW r \in Requests, NEW e \in Emails,
             \/ Register(r, e)
             \/ Authenticate(r, e)
             \/ UpdateStatus(r, e)
             \/ ForgotPassword(r, e)
             \/ \E role \in Roles : Invite(r, e, role) \/ UpdateRole(r, e, role)
      PROVE  IInv'
  BY <1>1, EmailReads, MemberReads, TokenReads
<1>2. ASSUME NEW r \in Requests,
             \/ \E o \in Orgs : CommitRegister(r, o)
             \/ \E i \in Invitations : CommitInvite(r, i) \/ Revoke(r, i) \/ Accept(r, i)
             \/ CommitAccept(r) \/ CommitRole(r) \/ CommitStatus(r)
      PROVE  IInv'
  BY <1>2, CommitRegisterInv, CommitInviteInv, RevokeInv, EmailReads, CommitAcceptInv,
     CommitMemberInv
<1>3. ASSUME NEW r \in Requests,
             \/ \E t \in Tokens : IssueToken(r, t) \/ ClaimToken(r, t)
             \/ DropTokens(r) \/ CommitReset(r) \/ Rollback(r)
      PROVE  IInv'
  BY <1>3, IssueTokenInv, TokenReads, CommitResetInv
<1>4. CASE \/ \E e \in Emails : ChangePassword(e)
           \/ \E i \in Invitations : ExpireInvitation(i)
           \/ \E t \in Tokens : ExpireToken(t)
  BY <1>4, ChangePasswordInv, ExpireInvitationInv, ExpireTokenInv
<1>5. CASE UNCHANGED vars
  <2>1. LockInv' /\ req' \in [Requests -> RequestState]
    BY <1>5 DEF vars, IInv, LockInv, Compatible, HoldsEmail, HoldsOrg, NewestTokenOnly, TypeOK
  <2>2. token' \in [Tokens -> TokenRow \cup {Null}]
    BY <1>5 DEF vars, IInv, NewestTokenOnly, TypeOK
  <2> QED
    BY <1>5, <2>1, <2>2, TokensOnly DEF vars, Usable
<1> QED
  BY <1>1, <1>2, <1>3, <1>4, <1>5 DEF Next

\* The inductive invariant holds throughout.
THEOREM Inductive == Spec => []IInv
BY InitInv, NextInv, PTL DEF Spec

\* Owners who demote or deactivate one another at once never leave an
\* organisation without an active one: assertAnotherActiveOwner, read under the
\* lock of the organisation, still holds when the change commits.
THEOREM OwnersRemain == Spec => []OwnerRemains
<1>1. IInv => OwnerRemains
  BY DEF IInv
<1> QED
  BY <1>1, Inductive, PTL

\* Whatever registrations, invitations and acceptances race for an e-mail, it
\* has an account or one pending invitation and never both: the advisory lock of
\* the e-mail keeps what create, accept and register found of it.
THEOREM EmailsBelongToOne == Spec => []EmailBelongsToOne
<1>1. IInv => EmailBelongsToOne
  BY DEF IInv
<1> QED
  BY <1>1, Inductive, PTL

\* An invitation is accepted exactly when it made the account of its e-mail, and
\* none is both accepted and revoked, however revoke and accept interleave.
THEOREM AcceptancesMadeAccounts == Spec => []AcceptedMadeAccount
<1>1. IInv => AcceptedMadeAccount
  BY DEF IInv
<1> QED
  BY <1>1, Inductive, PTL

\* Only the newest reset token of a user is usable and none sets two passwords,
\* however forgotPassword, resetPassword and changePassword interleave.
THEOREM NewestTokensOnly == Spec => []NewestTokenOnly
<1>1. IInv => NewestTokenOnly
  BY DEF IInv
<1> QED
  BY <1>1, Inductive, PTL

-----------------------------------------------------------------------------
(***************************************************************************)
(* The portfolio.                                                          *)
(***************************************************************************)

\* What the row x of the table t refers to.
Refs(t, x) == IF t[x] # Absent THEN RefersTo(x, t[x]) ELSE {}

Removal(s) == s.at \in {"lock", "collected"}

\* A removal holds the row it removes, and will audit what it holds.
HoldsRoot(s) ==
  /\ s.id \in Removable
  /\ s.id \in s.locks
  /\ s.locks \subseteq s.list
  /\ s.todo <= Len(Plan(s.id))
  /\ s.at = "collected" => s.todo = 0

\* Of the kinds it has done, it holds every row that refers to its root.
HoldsBelow(t, s) ==
  \A k \in 1..(Len(Plan(s.id)) - s.todo) :
    \A y \in Plan(s.id)[k] : s.id \in Refs(t, y) => y \in s.locks

\* What it counted as none is still none.
StillNone(t, s) ==
  /\ s.id \in Companies => \A d \in Developments : s.id \notin Refs(t, d)
  /\ s.id \in Developments => \A l \in Allocations : s.id \notin Refs(t, l)

\* It has collected the prices and the returns of the rows it holds.
HasCollected(t, s) ==
  s.at = "collected" /\ Collects(s.id) =>
    \A y \in UnitPrices \cup Returns : Refs(t, y) \cap s.locks # {} => y \in s.list

RemovalStands(t, s) ==
  Removal(s) => HoldsRoot(s) /\ HoldsBelow(t, s) /\ StillNone(t, s) /\ HasCollected(t, s)

\* An edit of a development holds its row, whose dates are those it read.
EditStands(t, s) ==
  s.at = "edit" =>
    /\ s.locks = {s.id}
    /\ t[s.id] # Absent
    /\ s.launch = t[s.id].launch
    /\ s.delivery = t[s.id].delivery

\* What a write of the budget was checked against.
BudgetStands(s) ==
  s.at = "budget" =>
    /\ s.amount \in Nat
    /\ s.write \in Investments =>
         /\ s.exists
         /\ s.investment = s.write
         /\ s.row \in InvestmentRow
         /\ s.amount = s.row.amount
         /\ s.others <= s.amount
    /\ s.write \in Allocations =>
         /\ s.row.amount + s.others <= s.amount
         /\ s.row.amount \in Shares
         /\ ~s.exists => s.row \in AllocationRow /\ s.row.investment = s.investment

\* No row is locked by two requests.
LocksApart ==
  \A q, r \in Operations : q # r => LocksOf(q) \cap LocksOf(r) = {}

OperationsStand ==
  \A r \in Operations :
    RemovalStands(row, op[r]) /\ EditStands(row, op[r]) /\ BudgetStands(op[r])

PortfolioIInv ==
  /\ PortfolioTypeOK
  /\ NoDangling
  /\ SameDevelopment
  /\ DatesOrdered
  /\ LocksApart
  /\ OperationsStand
  /\ silent = {}
-----------------------------------------------------------------------------
(* Tables and their columns.                                               *)

Typed(t) ==
  /\ DOMAIN t = Ids
  /\ \A x \in Ids : t[x] \in Rows[x]

LEMMA TablesApart ==
  /\ \A x \in Companies :
       /\ x \in Ids
       /\ x \notin Developments /\ x \notin UnitTypes /\ x \notin Units /\ x \notin PriceTables /\ x \notin UnitPrices
       /\ x \notin Interests /\ x \notin Investments /\ x \notin Allocations /\ x \notin Returns
  /\ \A x \in Developments :
       /\ x \in Ids
       /\ x \notin Companies /\ x \notin UnitTypes /\ x \notin Units /\ x \notin PriceTables /\ x \notin UnitPrices
       /\ x \notin Interests /\ x \notin Investments /\ x \notin Allocations /\ x \notin Returns
  /\ \A x \in UnitTypes :
       /\ x \in Ids
       /\ x \notin Companies /\ x \notin Developments /\ x \notin Units /\ x \notin PriceTables /\ x \notin UnitPrices
       /\ x \notin Interests /\ x \notin Investments /\ x \notin Allocations /\ x \notin Returns
  /\ \A x \in Units :
       /\ x \in Ids
       /\ x \notin Companies /\ x \notin Developments /\ x \notin UnitTypes /\ x \notin PriceTables /\ x \notin UnitPrices
       /\ x \notin Interests /\ x \notin Investments /\ x \notin Allocations /\ x \notin Returns
  /\ \A x \in PriceTables :
       /\ x \in Ids
       /\ x \notin Companies /\ x \notin Developments /\ x \notin UnitTypes /\ x \notin Units /\ x \notin UnitPrices
       /\ x \notin Interests /\ x \notin Investments /\ x \notin Allocations /\ x \notin Returns
  /\ \A x \in UnitPrices :
       /\ x \in Ids
       /\ x \notin Companies /\ x \notin Developments /\ x \notin UnitTypes /\ x \notin Units /\ x \notin PriceTables
       /\ x \notin Interests /\ x \notin Investments /\ x \notin Allocations /\ x \notin Returns
  /\ \A x \in Interests :
       /\ x \in Ids
       /\ x \notin Companies /\ x \notin Developments /\ x \notin UnitTypes /\ x \notin Units /\ x \notin PriceTables
       /\ x \notin UnitPrices /\ x \notin Investments /\ x \notin Allocations /\ x \notin Returns
  /\ \A x \in Investments :
       /\ x \in Ids
       /\ x \notin Companies /\ x \notin Developments /\ x \notin UnitTypes /\ x \notin Units /\ x \notin PriceTables
       /\ x \notin UnitPrices /\ x \notin Interests /\ x \notin Allocations /\ x \notin Returns
  /\ \A x \in Allocations :
       /\ x \in Ids
       /\ x \notin Companies /\ x \notin Developments /\ x \notin UnitTypes /\ x \notin Units /\ x \notin PriceTables
       /\ x \notin UnitPrices /\ x \notin Interests /\ x \notin Investments /\ x \notin Returns
  /\ \A x \in Returns :
       /\ x \in Ids
       /\ x \notin Companies /\ x \notin Developments /\ x \notin UnitTypes /\ x \notin Units /\ x \notin PriceTables
       /\ x \notin UnitPrices /\ x \notin Interests /\ x \notin Investments /\ x \notin Allocations
BY TableAssumption DEF Ids

LEMMA RowsAre ==
  /\ \A x \in Companies : Rows[x] = {Absent} \cup CompanyRow
  /\ \A x \in Developments : Rows[x] = {Absent} \cup DevelopmentRow
  /\ \A x \in UnitTypes : Rows[x] = {Absent} \cup UnitTypeRow
  /\ \A x \in Units : Rows[x] = {Absent} \cup UnitRow
  /\ \A x \in PriceTables : Rows[x] = {Absent} \cup PriceTableRow
  /\ \A x \in UnitPrices : Rows[x] = {Absent} \cup UnitPriceRow
  /\ \A x \in Interests : Rows[x] = {Absent} \cup InterestRow
  /\ \A x \in Investments : Rows[x] = {Absent} \cup InvestmentRow
  /\ \A x \in Allocations : Rows[x] = {Absent} \cup AllocationRow
  /\ \A x \in Returns : Rows[x] = {Absent} \cup ReturnRow
<1>1. \A x \in Companies : Rows[x] = {Absent} \cup CompanyRow
  BY TablesApart DEF Rows
<1>2. \A x \in Developments : Rows[x] = {Absent} \cup DevelopmentRow
  BY TablesApart DEF Rows
<1>3. \A x \in UnitTypes : Rows[x] = {Absent} \cup UnitTypeRow
  BY TablesApart DEF Rows
<1>4. \A x \in Units : Rows[x] = {Absent} \cup UnitRow
  BY TablesApart DEF Rows
<1>5. \A x \in PriceTables : Rows[x] = {Absent} \cup PriceTableRow
  BY TablesApart DEF Rows
<1>6. \A x \in UnitPrices : Rows[x] = {Absent} \cup UnitPriceRow
  BY TablesApart DEF Rows
<1>7. \A x \in Interests : Rows[x] = {Absent} \cup InterestRow
  BY TablesApart DEF Rows
<1>8. \A x \in Investments : Rows[x] = {Absent} \cup InvestmentRow
  BY TablesApart DEF Rows
<1>9. \A x \in Allocations : Rows[x] = {Absent} \cup AllocationRow
  BY TablesApart DEF Rows
<1>10. \A x \in Returns : Rows[x] = {Absent} \cup ReturnRow
  BY TablesApart DEF Rows
<1> QED
  BY <1>1, <1>2, <1>3, <1>4, <1>5, <1>6, <1>7, <1>8, <1>9, <1>10

LEMMA ColumnsAre ==
  /\ \A x \in Companies : Columns[x] = {}
  /\ \A x \in Developments : Columns[x] = {"company"}
  /\ \A x \in UnitTypes : Columns[x] = {"development"}
  /\ \A x \in Units : Columns[x] = {"development", "unitType"}
  /\ \A x \in PriceTables : Columns[x] = {"development"}
  /\ \A x \in UnitPrices : Columns[x] = {"unit", "table"}
  /\ \A x \in Interests : Columns[x] = {"development", "unitType"}
  /\ \A x \in Investments : Columns[x] = {}
  /\ \A x \in Allocations : Columns[x] = {"investment", "development"}
  /\ \A x \in Returns : Columns[x] = {"allocation"}
<1>1. \A x \in Companies : Columns[x] = {}
  BY TablesApart DEF Columns
<1>2. \A x \in Developments : Columns[x] = {"company"}
  BY TablesApart DEF Columns
<1>3. \A x \in UnitTypes : Columns[x] = {"development"}
  BY TablesApart DEF Columns
<1>4. \A x \in Units : Columns[x] = {"development", "unitType"}
  BY TablesApart DEF Columns
<1>5. \A x \in PriceTables : Columns[x] = {"development"}
  BY TablesApart DEF Columns
<1>6. \A x \in UnitPrices : Columns[x] = {"unit", "table"}
  BY TablesApart DEF Columns
<1>7. \A x \in Interests : Columns[x] = {"development", "unitType"}
  BY TablesApart DEF Columns
<1>8. \A x \in Investments : Columns[x] = {}
  BY TablesApart DEF Columns
<1>9. \A x \in Allocations : Columns[x] = {"investment", "development"}
  BY TablesApart DEF Columns
<1>10. \A x \in Returns : Columns[x] = {"allocation"}
  BY TablesApart DEF Columns
<1> QED
  BY <1>1, <1>2, <1>3, <1>4, <1>5, <1>6, <1>7, <1>8, <1>9, <1>10
LEMMA RefersToIs ==
  ASSUME NEW new
  PROVE  /\ \A x \in Companies : RefersTo(x, new) = {}
         /\ \A x \in Developments : RefersTo(x, new) = {new.company} \ {NULL}
         /\ \A x \in UnitTypes : RefersTo(x, new) = {new.development} \ {NULL}
         /\ \A x \in Units : RefersTo(x, new) = {new.development, new.unitType} \ {NULL}
         /\ \A x \in PriceTables : RefersTo(x, new) = {new.development} \ {NULL}
         /\ \A x \in UnitPrices : RefersTo(x, new) = {new.unit, new.table} \ {NULL}
         /\ \A x \in Interests : RefersTo(x, new) = {new.development, new.unitType} \ {NULL}
         /\ \A x \in Investments : RefersTo(x, new) = {}
         /\ \A x \in Allocations : RefersTo(x, new) = {new.investment, new.development} \ {NULL}
         /\ \A x \in Returns : RefersTo(x, new) = {new.allocation} \ {NULL}
<1>1. \A x \in Companies : RefersTo(x, new) = {}
  BY ColumnsAre DEF RefersTo
<1>2. \A x \in Developments : RefersTo(x, new) = {new.company} \ {NULL}
  BY ColumnsAre DEF RefersTo
<1>3. \A x \in UnitTypes : RefersTo(x, new) = {new.development} \ {NULL}
  BY ColumnsAre DEF RefersTo
<1>4. \A x \in Units : RefersTo(x, new) = {new.development, new.unitType} \ {NULL}
  BY ColumnsAre DEF RefersTo
<1>5. \A x \in PriceTables : RefersTo(x, new) = {new.development} \ {NULL}
  BY ColumnsAre DEF RefersTo
<1>6. \A x \in UnitPrices : RefersTo(x, new) = {new.unit, new.table} \ {NULL}
  BY ColumnsAre DEF RefersTo
<1>7. \A x \in Interests : RefersTo(x, new) = {new.development, new.unitType} \ {NULL}
  BY ColumnsAre DEF RefersTo
<1>8. \A x \in Investments : RefersTo(x, new) = {}
  BY ColumnsAre DEF RefersTo
<1>9. \A x \in Allocations : RefersTo(x, new) = {new.investment, new.development} \ {NULL}
  BY ColumnsAre DEF RefersTo
<1>10. \A x \in Returns : RefersTo(x, new) = {new.allocation} \ {NULL}
  BY ColumnsAre DEF RefersTo
<1> QED
  BY <1>1, <1>2, <1>3, <1>4, <1>5, <1>6, <1>7, <1>8, <1>9, <1>10

\* Each row that is there has the columns of its table.
LEMMA RowTypes ==
  ASSUME NEW t, Typed(t)
  PROVE  /\ \A x \in Companies : t[x] # Absent => t[x] \in CompanyRow
         /\ \A x \in Developments : t[x] # Absent => t[x] \in DevelopmentRow
         /\ \A x \in UnitTypes : t[x] # Absent => t[x] \in UnitTypeRow
         /\ \A x \in Units : t[x] # Absent => t[x] \in UnitRow
         /\ \A x \in PriceTables : t[x] # Absent => t[x] \in PriceTableRow
         /\ \A x \in UnitPrices : t[x] # Absent => t[x] \in UnitPriceRow
         /\ \A x \in Interests : t[x] # Absent => t[x] \in InterestRow
         /\ \A x \in Investments : t[x] # Absent => t[x] \in InvestmentRow
         /\ \A x \in Allocations : t[x] # Absent => t[x] \in AllocationRow
         /\ \A x \in Returns : t[x] # Absent => t[x] \in ReturnRow
BY RowsAre DEF Typed, Ids

\* The tables that the rows of each table refer to.
LEMMA RefTypes ==
  ASSUME NEW t, Typed(t)
  PROVE  /\ \A x \in Companies : Refs(t, x) \subseteq {}
         /\ \A x \in Developments : Refs(t, x) \subseteq Companies
         /\ \A x \in UnitTypes : Refs(t, x) \subseteq Developments
         /\ \A x \in Units : Refs(t, x) \subseteq Developments \cup UnitTypes
         /\ \A x \in PriceTables : Refs(t, x) \subseteq Developments
         /\ \A x \in UnitPrices : Refs(t, x) \subseteq Units \cup PriceTables
         /\ \A x \in Interests : Refs(t, x) \subseteq Developments \cup UnitTypes
         /\ \A x \in Investments : Refs(t, x) \subseteq {}
         /\ \A x \in Allocations : Refs(t, x) \subseteq Investments \cup Developments
         /\ \A x \in Returns : Refs(t, x) \subseteq Allocations
<1>1. \A x \in Companies : Refs(t, x) \subseteq {}
  BY RowTypes, RefersToIs DEF Refs, CompanyRow
<1>2. \A x \in Developments : Refs(t, x) \subseteq Companies
  BY RowTypes, RefersToIs DEF Refs, DevelopmentRow
<1>3. \A x \in UnitTypes : Refs(t, x) \subseteq Developments
  BY RowTypes, RefersToIs DEF Refs, UnitTypeRow
<1>4. \A x \in Units : Refs(t, x) \subseteq Developments \cup UnitTypes
  BY RowTypes, RefersToIs DEF Refs, UnitRow
<1>5. \A x \in PriceTables : Refs(t, x) \subseteq Developments
  BY RowTypes, RefersToIs DEF Refs, PriceTableRow
<1>6. \A x \in UnitPrices : Refs(t, x) \subseteq Units \cup PriceTables
  BY RowTypes, RefersToIs DEF Refs, UnitPriceRow
<1>7. \A x \in Interests : Refs(t, x) \subseteq Developments \cup UnitTypes
  BY RowTypes, RefersToIs DEF Refs, InterestRow
<1>8. \A x \in Investments : Refs(t, x) \subseteq {}
  BY RowTypes, RefersToIs DEF Refs, InvestmentRow
<1>9. \A x \in Allocations : Refs(t, x) \subseteq Investments \cup Developments
  BY RowTypes, RefersToIs DEF Refs, AllocationRow
<1>10. \A x \in Returns : Refs(t, x) \subseteq Allocations
  BY RowTypes, RefersToIs DEF Refs, ReturnRow
<1> QED
  BY <1>1, <1>2, <1>3, <1>4, <1>5, <1>6, <1>7, <1>8, <1>9, <1>10

LEMMA RefsAreRows ==
  ASSUME NEW t, Typed(t), NEW x \in Ids
  PROVE  Refs(t, x) \subseteq Ids
BY RefTypes DEF Ids

LEMMA ParentsAre ==
  /\ \A x : Parents(x) = Refs(row, x)
  /\ \A x : Parents(x)' = Refs(row', x)
BY DEF Parents, Refs, Here
-----------------------------------------------------------------------------
(* What a deletion takes with it.                                          *)

LEMMA TypedRow ==
  ASSUME PortfolioTypeOK
  PROVE  Typed(row)
BY DEF PortfolioTypeOK, Typed

\* The references that cascade, by table.
Cascade(y, p) ==
  \/ y \in UnitTypes \cup Units \cup PriceTables /\ p \in Developments
  \/ y \in UnitPrices /\ p \in Units \cup PriceTables
  \/ y \in Allocations /\ p \in Investments
  \/ y \in Returns /\ p \in Allocations

LEMMA CascadeTables ==
  ASSUME PortfolioTypeOK, NEW y \in Ids, NEW p \in Parents(y)
  PROVE  ~SetsNull(y, p) <=> Cascade(y, p)
<1>1. p \in Refs(row, y)
  BY ParentsAre
<1>2. Typed(row)
  BY TypedRow
<1>3. CASE y \in Companies \cup Developments \cup Interests \cup Investments
  BY <1>1, <1>2, <1>3, RefTypes, TablesApart DEF SetsNull, Cascade
<1>4. CASE y \in UnitTypes \cup Units \cup PriceTables
  BY <1>1, <1>2, <1>4, RefTypes, TablesApart DEF SetsNull, Cascade
<1>5. CASE y \in UnitPrices \cup Allocations \cup Returns
  BY <1>1, <1>2, <1>5, RefTypes, TablesApart DEF SetsNull, Cascade
<1> QED
  BY <1>3, <1>4, <1>5 DEF Ids

LEMMA BelowIs ==
  ASSUME PortfolioTypeOK, NEW S, NEW y
  PROVE  y \in Below(S) <=> y \in Ids /\ \E p \in Parents(y) : p \in S /\ Cascade(y, p)
BY CascadeTables DEF Below

\* Of two cascades after each other nothing refers to the second.
LEMMA DeletedIs ==
  ASSUME PortfolioTypeOK, NEW x \in Ids
  PROVE  /\ Deleted(x) = {x} \cup Below({x}) \cup Below(Below({x}))
         /\ Deleted(x) \subseteq Ids
         /\ \A y \in Ids : \A p \in Parents(y) : p \in Deleted(x) => y \in Deleted(x) \/ SetsNull(y, p)
<1> DEFINE B1 == Below({x})
           B2 == Below(B1)
<1>1. ASSUME NEW y \in Below(B2) PROVE FALSE
  <2>1. PICK p \in Parents(y) : p \in B2 /\ Cascade(y, p)
    BY BelowIs
  <2>2. PICK q \in Parents(p) : q \in B1 /\ Cascade(p, q)
    BY <2>1, BelowIs
  <2>3. PICK z \in Parents(q) : Cascade(q, z)
    BY <2>2, BelowIs
  <2> QED
    BY <2>1, <2>2, <2>3, TablesApart DEF Cascade
<1>2. Deleted(x) = {x} \cup B1 \cup B2
  <2>1. ASSUME NEW S, NEW T PROVE Below(S \cup T) = Below(S) \cup Below(T)
    BY DEF Below
  <2>2. Below({x} \cup B1) = B1 \cup B2
    BY <2>1
  <2>3. Deleted(x) = {x} \cup B1 \cup (B1 \cup B2) \cup Below({x} \cup B1 \cup (B1 \cup B2))
    BY <2>2 DEF Deleted
  <2>4. {x} \cup B1 \cup (B1 \cup B2) = ({x} \cup B1) \cup B2
    OBVIOUS
  <2>5. Below(({x} \cup B1) \cup B2) = B1 \cup B2 \cup Below(B2)
    <3>1. Below(({x} \cup B1) \cup B2) = Below({x} \cup B1) \cup Below(B2)
      <4> HIDE DEF B1, B2
      <4> QED
        BY ONLY <2>1
    <3> QED
      BY <2>2, <3>1
  <2>6. Below(B2) = {}
    BY <1>1
  <2> QED
    BY <2>3, <2>4, <2>5, <2>6
<1>3. Deleted(x) \subseteq Ids
  BY <1>2 DEF Below
<1>4. ASSUME NEW y \in Ids, NEW p \in Parents(y), p \in Deleted(x), ~SetsNull(y, p)
      PROVE  y \in Deleted(x)
  <2>1. Cascade(y, p)
    BY <1>4, CascadeTables
  <2>2. p = x => y \in B1
    BY <2>1, BelowIs
  <2>3. p \in B1 => y \in B2
    BY <2>1, BelowIs
  <2>4. p \in B2 => y \in Below(B2)
    BY <2>1, BelowIs
  <2> QED
    BY <1>1, <1>2, <1>4, <2>2, <2>3, <2>4
<1> QED
  BY <1>2, <1>3, <1>4

\* A removal takes no company and no development but the one it is of.
LEMMA DeletedRoots ==
  ASSUME PortfolioTypeOK, NEW x \in Ids, NEW y \in Deleted(x),
         y \in Companies \cup Developments \cup Investments
  PROVE  y = x
<1>1. ASSUME NEW S PROVE y \notin Below(S)
  BY BelowIs, TablesApart DEF Cascade
<1> QED
  BY <1>1, DeletedIs
-----------------------------------------------------------------------------
(* What a deletion leaves.                                                 *)

\* The value of a column that referred to D.
Cleared(v, D) == IF v \in D THEN NULL ELSE v

LEMMA AfterIs ==
  ASSUME NEW D, NEW y \in Ids
  PROVE  /\ y \in D => After(D)[y] = Absent
         /\ y \notin D /\ Parents(y) \cap D = {} => After(D)[y] = row[y]
         /\ y \notin D /\ Parents(y) \cap D # {} =>
              After(D)[y] = [c \in DOMAIN row[y] |->
                               IF c \in Columns[y] /\ row[y][c] \in D THEN NULL ELSE row[y][c]]
BY DEF After

LEMMA AfterDevelopment ==
  ASSUME PortfolioTypeOK, NEW D, NULL \notin D, NEW y \in Developments, Here(y), y \notin D
  PROVE  After(D)[y] = [company |-> Cleared(row[y].company, D),
                        launch |-> row[y].launch, delivery |-> row[y].delivery]
<1>1. row[y] \in DevelopmentRow
  BY TypedRow, RowTypes DEF Here
<1>2. DOMAIN row[y] = {"company", "launch", "delivery"}
  BY <1>1 DEF DevelopmentRow
<1>3. Parents(y) = {row[y].company} \ {NULL} /\ Columns[y] = {"company"} /\ y \in Ids
  BY RefersToIs, ColumnsAre, TablesApart DEF Parents
<1>4. CASE Parents(y) \cap D = {}
  <2>1. row[y].company \notin D
    BY <1>3, <1>4
  <2>2. After(D)[y] = row[y]
    BY <1>3, <1>4, AfterIs
  <2> QED
    BY <1>1, <2>1, <2>2 DEF Cleared, DevelopmentRow
<1>5. CASE Parents(y) \cap D # {}
  <2>1. After(D)[y] = [c \in DOMAIN row[y] |->
                         IF c \in Columns[y] /\ row[y][c] \in D THEN NULL ELSE row[y][c]]
    BY <1>3, <1>5, AfterIs
  <2>2. After(D)[y] = [c \in {"company", "launch", "delivery"} |->
                         IF c \in {"company"} /\ row[y][c] \in D
                         THEN NULL ELSE row[y][c]]
    BY <1>2, <1>3, <2>1
  <2> QED
    BY ONLY <2>2 DEF Cleared
<1> QED
  BY <1>4, <1>5

LEMMA AfterUnit ==
  ASSUME PortfolioTypeOK, NEW D, NULL \notin D, NEW y \in Units, Here(y), y \notin D
  PROVE  After(D)[y] = [development |-> Cleared(row[y].development, D),
                        unitType |-> Cleared(row[y].unitType, D), history |-> row[y].history]
<1>1. row[y] \in UnitRow
  BY TypedRow, RowTypes DEF Here
<1>2. DOMAIN row[y] = {"development", "unitType", "history"}
  BY <1>1 DEF UnitRow
<1>3. /\ Parents(y) = {row[y].development, row[y].unitType} \ {NULL}
      /\ Columns[y] = {"development", "unitType"} /\ y \in Ids
  BY RefersToIs, ColumnsAre, TablesApart DEF Parents
<1>4. CASE Parents(y) \cap D = {}
  <2>1. row[y].development \notin D /\ row[y].unitType \notin D
    BY <1>3, <1>4
  <2>2. After(D)[y] = row[y]
    BY <1>3, <1>4, AfterIs
  <2> QED
    BY <1>1, <2>1, <2>2 DEF Cleared, UnitRow
<1>5. CASE Parents(y) \cap D # {}
  <2>1. After(D)[y] = [c \in DOMAIN row[y] |->
                         IF c \in Columns[y] /\ row[y][c] \in D THEN NULL ELSE row[y][c]]
    BY <1>3, <1>5, AfterIs
  <2>2. After(D)[y] = [c \in {"development", "unitType", "history"} |->
                         IF c \in {"development", "unitType"} /\ row[y][c] \in D
                         THEN NULL ELSE row[y][c]]
    BY <1>2, <1>3, <2>1
  <2> QED
    BY ONLY <2>2 DEF Cleared
<1> QED
  BY <1>4, <1>5

LEMMA AfterInterest ==
  ASSUME PortfolioTypeOK, NEW D, NULL \notin D, NEW y \in Interests, Here(y), y \notin D
  PROVE  After(D)[y] = [development |-> Cleared(row[y].development, D),
                        unitType |-> Cleared(row[y].unitType, D)]
<1>1. row[y] \in InterestRow
  BY TypedRow, RowTypes DEF Here
<1>2. DOMAIN row[y] = {"development", "unitType"}
  BY <1>1 DEF InterestRow
<1>3. /\ Parents(y) = {row[y].development, row[y].unitType} \ {NULL}
      /\ Columns[y] = {"development", "unitType"} /\ y \in Ids
  BY RefersToIs, ColumnsAre, TablesApart DEF Parents
<1>4. CASE Parents(y) \cap D = {}
  <2>1. row[y].development \notin D /\ row[y].unitType \notin D
    BY <1>3, <1>4
  <2>2. After(D)[y] = row[y]
    BY <1>3, <1>4, AfterIs
  <2> QED
    BY <1>1, <2>1, <2>2 DEF Cleared, InterestRow
<1>5. CASE Parents(y) \cap D # {}
  <2>1. After(D)[y] = [c \in DOMAIN row[y] |->
                         IF c \in Columns[y] /\ row[y][c] \in D THEN NULL ELSE row[y][c]]
    BY <1>3, <1>5, AfterIs
  <2>2. After(D)[y] = [c \in {"development", "unitType"} |->
                         IF c \in {"development", "unitType"} /\ row[y][c] \in D
                         THEN NULL ELSE row[y][c]]
    BY <1>2, <1>3, <2>1
  <2> QED
    BY ONLY <2>2 DEF Cleared
<1> QED
  BY <1>4, <1>5

LEMMA AfterAllocation ==
  ASSUME PortfolioTypeOK, NEW D, NULL \notin D, NEW y \in Allocations, Here(y), y \notin D
  PROVE  After(D)[y] = [investment |-> Cleared(row[y].investment, D),
                        development |-> Cleared(row[y].development, D),
                        amount |-> row[y].amount]
<1>1. row[y] \in AllocationRow
  BY TypedRow, RowTypes DEF Here
<1>2. DOMAIN row[y] = {"investment", "development", "amount"}
  BY <1>1 DEF AllocationRow
<1>3. /\ Parents(y) = {row[y].investment, row[y].development} \ {NULL}
      /\ Columns[y] = {"investment", "development"} /\ y \in Ids
  BY RefersToIs, ColumnsAre, TablesApart DEF Parents
<1>4. CASE Parents(y) \cap D = {}
  <2>1. row[y].investment \notin D /\ row[y].development \notin D
    BY <1>3, <1>4
  <2>2. After(D)[y] = row[y]
    BY <1>3, <1>4, AfterIs
  <2> QED
    BY <1>1, <2>1, <2>2 DEF Cleared, AllocationRow
<1>5. CASE Parents(y) \cap D # {}
  <2>1. After(D)[y] = [c \in DOMAIN row[y] |->
                         IF c \in Columns[y] /\ row[y][c] \in D THEN NULL ELSE row[y][c]]
    BY <1>3, <1>5, AfterIs
  <2>2. After(D)[y] = [c \in {"investment", "development", "amount"} |->
                         IF c \in {"investment", "development"} /\ row[y][c] \in D
                         THEN NULL ELSE row[y][c]]
    BY <1>2, <1>3, <2>1
  <2> QED
    BY ONLY <2>2 DEF Cleared
<1> QED
  BY <1>4, <1>5
LEMMA DeletedHasNoNull ==
  ASSUME PortfolioTypeOK, NEW x \in Ids
  PROVE  NULL \notin Deleted(x)
BY DeletedIs, FieldAssumption

\* Rows of the other tables refer to nothing deleted, or are.
LEMMA AfterOther ==
  ASSUME PortfolioTypeOK, NEW x \in Ids,
         NEW y \in Ids \ (Developments \cup Units \cup Interests \cup Allocations), y \notin Deleted(x)
  PROVE  After(Deleted(x))[y] = row[y]
<1>1. ASSUME NEW p \in Parents(y), p \in Deleted(x) PROVE FALSE
  <2>1. SetsNull(y, p)
    BY <1>1, DeletedIs
  <2> QED
    BY <2>1 DEF SetsNull
<1> QED
  BY <1>1, AfterIs

LEMMA AfterTyped ==
  ASSUME PortfolioTypeOK, NEW x \in Ids
  PROVE  Typed(After(Deleted(x)))
<1> DEFINE D == Deleted(x)
<1>1. NULL \notin D /\ D \subseteq Ids
  BY DeletedHasNoNull, DeletedIs
<1>2. DOMAIN After(D) = Ids
  BY DEF After
<1>3. ASSUME NEW y \in Ids PROVE After(D)[y] \in Rows[y]
  <2>1. row[y] \in Rows[y] /\ Typed(row)
    BY TypedRow DEF PortfolioTypeOK
  <2>2. CASE y \in D
    <3>1. Absent \in Rows[y]
      BY RowsAre DEF Ids
    <3> QED
      BY <2>2, <3>1, AfterIs
  <2>3. CASE ~Here(y)
    BY <2>1, <2>2, <2>3, AfterIs DEF Parents
  <2>4. CASE y \notin D /\ Here(y) /\ y \in Developments
    <3>1. row[y] \in DevelopmentRow
      BY <2>1, <2>4, RowTypes DEF Here
    <3>2. After(D)[y] \in DevelopmentRow
      <4>1. After(D)[y] = [company |-> Cleared(row[y].company, D),
                           launch |-> row[y].launch, delivery |-> row[y].delivery]
        BY <1>1, <2>4, AfterDevelopment
      <4>2. Cleared(row[y].company, D) \in Companies \cup {NULL}
        BY <3>1 DEF Cleared, DevelopmentRow
      <4> QED
        BY <3>1, <4>1, <4>2 DEF DevelopmentRow
    <3> QED
      BY <2>4, <3>2, RowsAre
  <2>5. CASE y \notin D /\ Here(y) /\ y \in Units
    <3>1. row[y] \in UnitRow
      BY <2>1, <2>5, RowTypes DEF Here
    <3>2. row[y].development \notin D
      <4>1. row[y].development \in Parents(y) /\ row[y].development \in Developments
        BY <2>5, <3>1, RefersToIs, TablesApart, FieldAssumption DEF UnitRow, Parents
      <4>2. ~SetsNull(y, row[y].development)
        BY <2>5, <4>1, TablesApart DEF SetsNull
      <4> QED
        BY <2>5, <4>1, <4>2, DeletedIs
    <3>3. After(D)[y] \in UnitRow
      <4>1. After(D)[y] = [development |-> Cleared(row[y].development, D),
                           unitType |-> Cleared(row[y].unitType, D),
                           history |-> row[y].history]
        BY <1>1, <2>5, AfterUnit
      <4>2. Cleared(row[y].unitType, D) \in UnitTypes \cup {NULL}
        BY <3>1 DEF Cleared, UnitRow
      <4>3. Cleared(row[y].development, D) \in Developments
        BY <3>1, <3>2 DEF Cleared, UnitRow
      <4> QED
        BY <3>1, <4>1, <4>2, <4>3 DEF UnitRow
    <3> QED
      BY <2>5, <3>3, RowsAre
  <2>6. CASE y \notin D /\ Here(y) /\ y \in Interests
    <3>1. row[y] \in InterestRow
      BY <2>1, <2>6, RowTypes DEF Here
    <3>2. After(D)[y] \in InterestRow
      <4>1. After(D)[y] = [development |-> Cleared(row[y].development, D),
                           unitType |-> Cleared(row[y].unitType, D)]
        BY <1>1, <2>6, AfterInterest
      <4>2. /\ Cleared(row[y].unitType, D) \in UnitTypes \cup {NULL}
            /\ Cleared(row[y].development, D) \in Developments \cup {NULL}
        BY <3>1 DEF Cleared, InterestRow
      <4> QED
        BY <4>1, <4>2 DEF InterestRow
    <3> QED
      BY <2>6, <3>2, RowsAre
  <2>7. CASE y \notin D /\ Here(y) /\ y \in Allocations
    <3>1. row[y] \in AllocationRow
      BY <2>1, <2>7, RowTypes DEF Here
    <3>2. row[y].investment \notin D
      <4>1. row[y].investment \in Parents(y) /\ row[y].investment \in Investments
        BY <2>7, <3>1, RefersToIs, TablesApart, FieldAssumption DEF AllocationRow, Parents
      <4>2. ~SetsNull(y, row[y].investment)
        BY <2>7, <4>1, TablesApart DEF SetsNull
      <4> QED
        BY <2>7, <4>1, <4>2, DeletedIs
    <3>3. After(D)[y] \in AllocationRow
      <4>1. After(D)[y] = [investment |-> Cleared(row[y].investment, D),
                           development |-> Cleared(row[y].development, D),
                           amount |-> row[y].amount]
        BY <1>1, <2>7, AfterAllocation
      <4>2. Cleared(row[y].development, D) \in Developments \cup {NULL}
        BY <3>1 DEF Cleared, AllocationRow
      <4>3. Cleared(row[y].investment, D) \in Investments
        BY <3>1, <3>2 DEF Cleared, AllocationRow
      <4> QED
        BY <3>1, <4>1, <4>2, <4>3 DEF AllocationRow
    <3> QED
      BY <2>7, <3>3, RowsAre
  <2>8. CASE y \notin D /\ y \notin Developments \cup Units \cup Interests \cup Allocations
    BY <2>1, <2>8, AfterOther
  <2> QED
    BY <2>2, <2>3, <2>4, <2>5, <2>6, <2>7, <2>8
<1> QED
  BY <1>2, <1>3 DEF Typed

\* The rows that stay, and what they refer to.
LEMMA AfterRefs ==
  ASSUME PortfolioTypeOK, NEW x \in Ids, NEW y \in Ids
  PROVE  /\ (After(Deleted(x))[y] = Absent) <=> (y \in Deleted(x) \/ ~Here(y))
         /\ Refs(After(Deleted(x)), y) = IF y \in Deleted(x) THEN {} ELSE Parents(y) \ Deleted(x)
<1> DEFINE D == Deleted(x)
           t == After(D)
<1>1. NULL \notin D /\ D \subseteq Ids /\ Typed(t) /\ Typed(row)
  BY DeletedHasNoNull, DeletedIs, AfterTyped, TypedRow
<1>2. CASE y \in D
  BY <1>2, AfterIs DEF Refs
<1>3. CASE y \notin D /\ ~Here(y)
  BY <1>3, AfterIs DEF Refs, Parents, Here
<1>4. CASE y \notin D /\ Here(y) /\ y \in Developments
  <2>1. t[y] = [company |-> Cleared(row[y].company, D), launch |-> row[y].launch,
                delivery |-> row[y].delivery]
    BY <1>1, <1>4, AfterDevelopment
  <2>2. t[y] # Absent
    BY <2>1 DEF Absent
  <2>3. RefersTo(y, t[y]) = {t[y].company} \ {NULL} /\ Parents(y) = {row[y].company} \ {NULL}
    BY <1>4, RefersToIs DEF Parents
  <2>4. t[y].company = Cleared(row[y].company, D)
    BY <2>1
  <2> QED
    BY <1>1, <1>4, <2>2, <2>3, <2>4 DEF Refs, Cleared
<1>5. CASE y \notin D /\ Here(y) /\ y \in Units
  <2>1. t[y] = [development |-> Cleared(row[y].development, D),
                unitType |-> Cleared(row[y].unitType, D), history |-> row[y].history]
    BY <1>1, <1>5, AfterUnit
  <2>2. t[y] # Absent
    BY <2>1 DEF Absent
  <2>3. /\ RefersTo(y, t[y]) = {t[y].development, t[y].unitType} \ {NULL}
        /\ Parents(y) = {row[y].development, row[y].unitType} \ {NULL}
    BY <1>5, RefersToIs DEF Parents
  <2>4. /\ t[y].development = Cleared(row[y].development, D)
        /\ t[y].unitType = Cleared(row[y].unitType, D)
    BY <2>1
  <2> QED
    BY <1>1, <1>5, <2>2, <2>3, <2>4 DEF Refs, Cleared
<1>6. CASE y \notin D /\ Here(y) /\ y \in Interests
  <2>1. t[y] = [development |-> Cleared(row[y].development, D),
                unitType |-> Cleared(row[y].unitType, D)]
    BY <1>1, <1>6, AfterInterest
  <2>2. t[y] # Absent
    BY <2>1 DEF Absent
  <2>3. /\ RefersTo(y, t[y]) = {t[y].development, t[y].unitType} \ {NULL}
        /\ Parents(y) = {row[y].development, row[y].unitType} \ {NULL}
    BY <1>6, RefersToIs DEF Parents
  <2>4. /\ t[y].development = Cleared(row[y].development, D)
        /\ t[y].unitType = Cleared(row[y].unitType, D)
    BY <2>1
  <2> QED
    BY <1>1, <1>6, <2>2, <2>3, <2>4 DEF Refs, Cleared
<1>7. CASE y \notin D /\ Here(y) /\ y \in Allocations
  <2>1. t[y] = [investment |-> Cleared(row[y].investment, D),
                development |-> Cleared(row[y].development, D), amount |-> row[y].amount]
    BY <1>1, <1>7, AfterAllocation
  <2>2. t[y] # Absent
    BY <2>1 DEF Absent
  <2>3. /\ RefersTo(y, t[y]) = {t[y].investment, t[y].development} \ {NULL}
        /\ Parents(y) = {row[y].investment, row[y].development} \ {NULL}
    BY <1>7, RefersToIs DEF Parents
  <2>4. /\ t[y].investment = Cleared(row[y].investment, D)
        /\ t[y].development = Cleared(row[y].development, D)
    BY <2>1
  <2> QED
    BY <1>1, <1>7, <2>2, <2>3, <2>4 DEF Refs, Cleared
<1>8. CASE y \notin D /\ Here(y) /\ y \notin Developments \cup Units \cup Interests \cup Allocations
  <2>1. t[y] = row[y]
    BY <1>8, AfterOther
  <2>2. Parents(y) \cap D = {}
    BY <1>8, DeletedIs DEF SetsNull
  <2> QED
    BY <1>8, <2>1, <2>2 DEF Refs, Parents, Here
<1> QED
  BY <1>2, <1>3, <1>4, <1>5, <1>6, <1>7, <1>8
-----------------------------------------------------------------------------
(* What the tables promise, of any value of them.                          *)

Whole(t) == \A x \in Ids : \A y \in Refs(t, x) : t[y] # Absent

Agrees(t) ==
  /\ \A x \in UnitPrices : t[x] # Absent => t[t[x].unit].development = t[t[x].table].development
  /\ \A x \in Units \cup Interests :
       t[x] # Absent /\ t[x].unitType # NULL => t[t[x].unitType].development = t[x].development

Ordered(t) ==
  \A d \in Developments : t[d] # Absent => DateOrder(t[d].launch, t[d].delivery)

LEMMA TablesSay ==
  /\ (NoDangling <=> Whole(row)) /\ (NoDangling' <=> Whole(row'))
  /\ (SameDevelopment <=> Agrees(row)) /\ (SameDevelopment' <=> Agrees(row'))
  /\ (DatesOrdered <=> Ordered(row)) /\ (DatesOrdered' <=> Ordered(row'))
<1>1. (NoDangling <=> Whole(row)) /\ (NoDangling' <=> Whole(row'))
  BY ParentsAre DEF NoDangling, Whole, Here
<1>2. (SameDevelopment <=> Agrees(row)) /\ (SameDevelopment' <=> Agrees(row'))
  BY DEF SameDevelopment, Agrees, Present, Here, Ids
<1>3. (DatesOrdered <=> Ordered(row)) /\ (DatesOrdered' <=> Ordered(row'))
  BY DEF DatesOrdered, Ordered, Present, Here, Ids
<1> QED
  BY <1>1, <1>2, <1>3

TablesStand(t) == Typed(t) /\ Whole(t) /\ Agrees(t) /\ Ordered(t)

LEMMA RemovalKeepsTables ==
  ASSUME PortfolioTypeOK, TablesStand(row), NEW x \in Ids
  PROVE  TablesStand(After(Deleted(x)))
<1> DEFINE D == Deleted(x)
           t == After(D)
<1>1. NULL \notin D /\ D \subseteq Ids /\ Typed(t) /\ Typed(row)
  BY DeletedHasNoNull, DeletedIs, AfterTyped, TypedRow
<1>2. Whole(t)
  <2> SUFFICES ASSUME NEW z \in Ids, NEW y \in Refs(t, z) PROVE t[y] # Absent
    BY DEF Whole
  <2>1. y \in Parents(z) /\ y \notin D
    BY AfterRefs
  <2>2. y \in Ids
    BY <1>1, RefsAreRows
  <2>3. Here(y)
    BY <2>1, ParentsAre DEF TablesStand, Whole, Here
  <2> QED
    BY <2>1, <2>2, <2>3, AfterRefs
<1>3. ASSUME NEW z \in UnitPrices, t[z] # Absent
      PROVE  t[t[z].unit].development = t[t[z].table].development
  <2>1. z \in Ids /\ z \notin D /\ Here(z)
    BY <1>3, AfterRefs DEF Ids
  <2>2. t[z] = row[z]
    BY <2>1, AfterOther, TablesApart
  <2>3. row[z] \in UnitPriceRow
    BY <1>1, <2>1, RowTypes DEF Here
  <2> DEFINE u == row[z].unit
             p == row[z].table
  <2>4. u \in Units /\ p \in PriceTables /\ u \in Ids /\ p \in Ids
    BY <2>3 DEF UnitPriceRow, Ids
  <2>5. u \in Parents(z) /\ p \in Parents(z)
    BY <2>1, <2>4, RefersToIs, FieldAssumption DEF Parents
  <2>6. u \notin D /\ p \notin D
    BY <2>1, <2>5, DeletedIs, TablesApart DEF SetsNull
  <2>7. Here(u) /\ Here(p)
    BY <2>1, <2>5, ParentsAre DEF TablesStand, Whole, Here
  <2>8. t[p] = row[p]
    BY <2>4, <2>6, AfterOther, TablesApart
  <2>9. t[u].development = row[u].development
    <3>1. t[u] = [development |-> Cleared(row[u].development, D),
                  unitType |-> Cleared(row[u].unitType, D), history |-> row[u].history]
      BY <1>1, <2>4, <2>6, <2>7, AfterUnit
    <3>2. row[u] \in UnitRow
      BY <1>1, <2>4, <2>7, RowTypes DEF Here
    <3>3. row[u].development \in Parents(u) /\ row[u].development \in Developments
      BY <2>4, <2>7, <3>2, RefersToIs, FieldAssumption DEF Parents, UnitRow, Ids
    <3>4. ~SetsNull(u, row[u].development)
      BY <2>4, <3>3, TablesApart DEF SetsNull
    <3>5. row[u].development \notin D
      BY <2>4, <2>6, <3>3, <3>4, DeletedIs
    <3> QED
      BY <3>1, <3>5 DEF Cleared
  <2>10. row[u].development = row[p].development
    BY <2>1 DEF TablesStand, Agrees, Here
  <2> QED
    BY <2>2, <2>8, <2>9, <2>10
<1>4. ASSUME NEW z \in Units \cup Interests, t[z] # Absent, t[z].unitType # NULL
      PROVE  t[t[z].unitType].development = t[z].development
  <2>1. z \in Ids /\ z \notin D /\ Here(z)
    BY <1>4, AfterRefs DEF Ids
  <2>2. /\ t[z].development = Cleared(row[z].development, D)
        /\ t[z].unitType = Cleared(row[z].unitType, D)
    <3>1. CASE z \in Units
      <4>1. t[z] = [development |-> Cleared(row[z].development, D),
                    unitType |-> Cleared(row[z].unitType, D), history |-> row[z].history]
        BY <1>1, <2>1, <3>1, AfterUnit
      <4> QED
        BY ONLY <4>1
    <3>2. CASE z \in Interests
      <4>1. t[z] = [development |-> Cleared(row[z].development, D),
                    unitType |-> Cleared(row[z].unitType, D)]
        BY <1>1, <2>1, <3>2, AfterInterest
      <4> QED
        BY ONLY <4>1
    <3> QED
      BY <3>1, <3>2
  <2> DEFINE y == row[z].unitType
  <2>3. t[z].unitType = y /\ y \notin D /\ y # NULL
    BY <1>4, <2>2 DEF Cleared
  <2>4. /\ y \in UnitTypes /\ y \in Ids
        /\ Parents(z) = {row[z].development, y} \ {NULL}
    BY <1>1, <2>1, <2>3, RowTypes, RefersToIs DEF Here, UnitRow, InterestRow, Ids, Parents
  <2>5. Here(y)
    BY <2>1, <2>3, <2>4, ParentsAre DEF TablesStand, Whole, Here
  <2>6. t[y] = row[y]
    BY <2>3, <2>4, AfterOther, TablesApart
  <2>7. row[y].development = row[z].development
    BY <2>1, <2>3 DEF TablesStand, Agrees, Here
  <2>8. row[y].development \notin D
    <3>1. row[y].development \in Parents(y)
      BY <1>1, <2>4, <2>5, RowTypes, RefersToIs, FieldAssumption DEF Parents, UnitTypeRow, Here, Ids
    <3>2. ~SetsNull(y, row[y].development)
      BY <2>4, TablesApart DEF SetsNull
    <3> QED
      BY <2>3, <2>4, <3>1, <3>2, DeletedIs
  <2> QED
    BY <2>2, <2>3, <2>6, <2>7, <2>8 DEF Cleared
<1>5. ASSUME NEW d \in Developments, t[d] # Absent
      PROVE  DateOrder(t[d].launch, t[d].delivery)
  <2>1. d \in Ids /\ d \notin D /\ Here(d)
    BY <1>5, AfterRefs DEF Ids
  <2>2. t[d] = [company |-> Cleared(row[d].company, D), launch |-> row[d].launch,
                delivery |-> row[d].delivery]
    BY <1>1, <2>1, AfterDevelopment
  <2>3. t[d].launch = row[d].launch /\ t[d].delivery = row[d].delivery
    BY <2>2
  <2> QED
    BY <2>1, <2>3 DEF TablesStand, Ordered, Here
<1> QED
  BY <1>1, <1>2, <1>3, <1>4, <1>5 DEF TablesStand, Agrees, Ordered
-----------------------------------------------------------------------------
(* A write of one row.                                                     *)

\* What new may be, for the tables to stand when it is written as x.
Fits(x, new) ==
  /\ x \in Ids
  /\ new \in Rows[x]
  /\ new = Absent => x \in UnitPrices \cup Interests \cup Returns
  /\ new # Absent =>
       /\ \A y \in RefersTo(x, new) : Here(y)
       /\ x \in UnitPrices => row[new.unit].development = row[new.table].development
       /\ x \in Units \cup Interests /\ new.unitType # NULL =>
            row[new.unitType].development = new.development
       /\ x \in Developments => DateOrder(new.launch, new.delivery)
       /\ Here(x) /\ x \in UnitTypes \cup Units \cup PriceTables =>
            new.development = row[x].development

LEMMA WriteKeepsTables ==
  ASSUME TablesStand(row), NEW x, NEW new, Fits(x, new)
  PROVE  TablesStand([row EXCEPT ![x] = new])
<1> DEFINE t == [row EXCEPT ![x] = new]
<1>1. /\ x \in Ids /\ new \in Rows[x]
      /\ t[x] = new
      /\ \A y \in Ids : y # x => t[y] = row[y]
  BY DEF Fits, TablesStand, Typed
<1>2. Typed(t) /\ Typed(row)
  BY <1>1 DEF TablesStand, Typed
<1>3. \A y \in Ids : y # x => Refs(t, y) = Refs(row, y)
  BY <1>1 DEF Refs
<1>4. Refs(t, x) = IF new # Absent THEN RefersTo(x, new) ELSE {}
  BY <1>1 DEF Refs
<1>5. \A y \in Ids : Refs(row, y) \subseteq Ids
  BY <1>2, RefsAreRows
\* Nothing refers to what is removed.
<1>6. ASSUME new = Absent, NEW z \in Ids, x \in Refs(row, z) PROVE FALSE
  <2>1. x \in UnitPrices \cup Interests \cup Returns
    BY <1>6 DEF Fits
  <2> QED
    BY <1>2, <1>6, <2>1, RefTypes, TablesApart DEF Ids
\* Nor to what is only now inserted.
<1>7. ASSUME ~Here(x), NEW z \in Ids, x \in Refs(row, z) PROVE FALSE
  BY <1>7 DEF TablesStand, Whole, Here
<1> HIDE DEF t
<1>8. Whole(t)
  <2> SUFFICES ASSUME NEW z \in Ids, NEW y \in Refs(t, z) PROVE t[y] # Absent
    BY DEF Whole
  <2>1. CASE z # x
    <3>1. y \in Refs(row, z) /\ y \in Ids /\ row[y] # Absent
      BY <1>3, <1>5, <2>1 DEF TablesStand, Whole
    <3> QED
      BY <1>1, <1>6, <3>1
  <2>2. CASE z = x
    <3>1. new # Absent /\ y \in RefersTo(x, new)
      BY <1>4, <2>2
    <3>2. Here(y) /\ y \in Ids
      BY <1>2, <2>2, <3>1, RefsAreRows DEF Fits
    <3> QED
      BY <1>1, <3>1, <3>2 DEF Here
  <2> QED
    BY <2>1, <2>2
\* The development of a row that others refer to is what it was.
<1>9. ASSUME NEW y \in UnitTypes \cup Units \cup PriceTables, row[y] # Absent
      PROVE  t[y].development = row[y].development
  <2>1. y \in Ids
    BY <1>9 DEF Ids
  <2>2. CASE y = x
    <3>1. new # Absent
      BY <2>2, TablesApart DEF Fits
    <3> QED
      BY <1>1, <1>9, <2>2, <3>1 DEF Fits, Here
  <2> QED
    BY <1>1, <2>1, <2>2
<1>10. ASSUME NEW z \in UnitPrices, t[z] # Absent
       PROVE  t[t[z].unit].development = t[t[z].table].development
  <2>1. z \in Ids
    BY DEF Ids
  <2>2. t[z] \in UnitPriceRow
    BY <1>2, <1>10, RowTypes
  <2> DEFINE u == t[z].unit
             p == t[z].table
  <2>3. u \in Units /\ p \in PriceTables
    BY <2>2 DEF UnitPriceRow
  <2>4. row[u].development = row[p].development /\ row[u] # Absent /\ row[p] # Absent
    <3>1. CASE z # x
      <4>1. t[z] = row[z] /\ row[z] # Absent
        BY <1>1, <1>10, <2>1, <3>1
      <4>2. u \in Refs(row, z) /\ p \in Refs(row, z)
        BY <2>3, <4>1, RefersToIs, FieldAssumption DEF Refs, Ids
      <4> QED
        BY <2>1, <4>1, <4>2 DEF TablesStand, Whole, Agrees
    <3>2. CASE z = x
      <4>1. t[z] = new /\ new # Absent
        BY <1>1, <1>10, <3>2
      <4>2. u \in RefersTo(x, new) /\ p \in RefersTo(x, new)
        BY <2>3, <3>2, <4>1, RefersToIs, FieldAssumption DEF Ids
      <4> QED
        BY <3>2, <4>1, <4>2 DEF Fits, Here
    <3> QED
      BY <3>1, <3>2
  <2> QED
    BY <1>9, <2>3, <2>4
<1>11. ASSUME NEW z \in Units \cup Interests, t[z] # Absent, t[z].unitType # NULL
       PROVE  t[t[z].unitType].development = t[z].development
  <2>1. z \in Ids
    BY DEF Ids
  <2> DEFINE y == t[z].unitType
  <2>2. y \in UnitTypes
    BY <1>2, <1>11, RowTypes DEF UnitRow, InterestRow
  <2>3. row[y].development = t[z].development /\ row[y] # Absent
    <3>1. CASE z # x
      <4>1. t[z] = row[z] /\ row[z] # Absent
        BY <1>1, <1>11, <2>1, <3>1
      <4>2. y \in Refs(row, z)
        BY <2>2, <4>1, RefersToIs, FieldAssumption DEF Refs, Ids
      <4> QED
        BY <1>11, <2>1, <4>1, <4>2 DEF TablesStand, Whole, Agrees
    <3>2. CASE z = x
      <4>1. t[z] = new /\ new # Absent
        BY <1>1, <1>11, <3>2
      <4>2. y \in RefersTo(x, new)
        BY <2>2, <3>2, <4>1, RefersToIs, FieldAssumption DEF Ids
      <4> QED
        BY <1>11, <3>2, <4>1, <4>2 DEF Fits, Here
    <3> QED
      BY <3>1, <3>2
  <2> QED
    BY <1>9, <2>2, <2>3
<1>12. ASSUME NEW d \in Developments, t[d] # Absent
       PROVE  DateOrder(t[d].launch, t[d].delivery)
  BY <1>1, <1>12 DEF TablesStand, Ordered, Fits, Ids
<1> QED
  BY <1>2, <1>8, <1>10, <1>11, <1>12 DEF TablesStand, Agrees, Ordered, t
\* A write makes no reference to a row that is locked.
NoNewReference(x, new) ==
  new # Absent =>
    \A r \in Operations : \A y \in RefersTo(x, new) : y \in LocksOf(r) => y \in Parents(x)

Puts(x, new) ==
  /\ Fits(x, new)
  /\ NoNewReference(x, new)
  /\ row' = [row EXCEPT ![x] = new]
  /\ silent' = silent

\* Writes of one row: by a request of one statement, or by one that ends.
WritesAlone ==
  \E x, new :
    /\ Puts(x, new)
    /\ x \in Developments => ~Here(x)
    /\ op' = op

WritesAndEnds(r) ==
  \E x, new :
    /\ Puts(x, new)
    /\ x \in Developments => op[r].at = "edit" /\ op[r].id = x
    /\ op[r] # NoOp
    /\ End(r)

LEMMA NoRowIsAbsent ==
  Absent \notin UNION {CompanyRow, DevelopmentRow, UnitTypeRow, UnitRow, PriceTableRow,
                       UnitPriceRow, InterestRow, InvestmentRow, AllocationRow, ReturnRow}
<1>1. /\ Absent \notin CompanyRow /\ Absent \notin DevelopmentRow
      /\ Absent \notin UnitTypeRow /\ Absent \notin UnitRow
  BY DEF Absent, CompanyRow, DevelopmentRow, UnitTypeRow, UnitRow
<1>2. /\ Absent \notin PriceTableRow /\ Absent \notin UnitPriceRow /\ Absent \notin InterestRow
      /\ Absent \notin InvestmentRow /\ Absent \notin AllocationRow /\ Absent \notin ReturnRow
  BY DEF Absent, PriceTableRow, UnitPriceRow, InterestRow, InvestmentRow, AllocationRow, ReturnRow
<1> QED
  BY <1>1, <1>2

LEMMA CreateWrites ==
  ASSUME PortfolioTypeOK, Create
  PROVE  WritesAlone
<1>1. PICK x \in Ids :
        /\ ~Here(x)
        /\ \/ x \in Companies /\ CreateCompany(x)
           \/ x \in Developments /\ \E new \in DevelopmentRow : CreateDevelopment(x, new)
           \/ x \in UnitTypes /\ \E new \in UnitTypeRow : Insert(x, new)
           \/ x \in Units /\ \E new \in UnitRow : CreateUnit(x, new)
           \/ x \in PriceTables /\ \E new \in PriceTableRow : Insert(x, new)
           \/ x \in UnitPrices /\ \E new \in UnitPriceRow : SetPrice(x, new)
           \/ x \in Investments /\ \E new \in InvestmentRow : Insert(x, new)
           \/ x \in Returns /\ \E new \in ReturnRow : Insert(x, new)
  BY DEF Create
<1>2. SUFFICES ASSUME NEW new, Insert(x, new), new \in Rows[x], new # Absent,
                      x \in UnitPrices => PriceFits(new),
                      x \in Units => TypeFits(new.unitType, new.development),
                      x \in Developments => DateOrder(new.launch, new.delivery),
                      x \notin Interests
               PROVE  WritesAlone
  <2>1. CASE x \in Companies /\ CreateCompany(x)
    <3>1. [kind |-> "company"] \in CompanyRow
      BY DEF CompanyRow
    <3>2. [kind |-> "company"] \in Rows[x] /\ [kind |-> "company"] # Absent
      BY <2>1, <3>1, RowsAre, NoRowIsAbsent
    <3> QED
      BY <2>1, <3>2, <1>2, TablesApart DEF CreateCompany
  <2>2. ASSUME NEW new \in DevelopmentRow, x \in Developments, CreateDevelopment(x, new)
        PROVE  WritesAlone
    BY <2>2, <1>2, RowsAre, NoRowIsAbsent, TablesApart DEF CreateDevelopment
  <2>3. ASSUME NEW new \in UnitTypeRow, x \in UnitTypes, Insert(x, new)
        PROVE  WritesAlone
    BY <2>3, <1>2, RowsAre, NoRowIsAbsent, TablesApart
  <2>4. ASSUME NEW new \in UnitRow, x \in Units, CreateUnit(x, new)
        PROVE  WritesAlone
    BY <2>4, <1>2, RowsAre, NoRowIsAbsent, TablesApart DEF CreateUnit
  <2>5. ASSUME NEW new \in PriceTableRow, x \in PriceTables, Insert(x, new)
        PROVE  WritesAlone
    BY <2>5, <1>2, RowsAre, NoRowIsAbsent, TablesApart
  <2>6. ASSUME NEW new \in UnitPriceRow, x \in UnitPrices, SetPrice(x, new)
        PROVE  WritesAlone
    BY <2>6, <1>2, RowsAre, NoRowIsAbsent, TablesApart DEF SetPrice
  <2>7. ASSUME NEW new \in InvestmentRow, x \in Investments, Insert(x, new)
        PROVE  WritesAlone
    BY <2>7, <1>2, RowsAre, NoRowIsAbsent, TablesApart
  <2>8. ASSUME NEW new \in ReturnRow, x \in Returns, Insert(x, new)
        PROVE  WritesAlone
    BY <2>8, <1>2, RowsAre, NoRowIsAbsent, TablesApart
  <2> QED
    BY <1>1, <2>1, <2>2, <2>3, <2>4, <2>5, <2>6, <2>7, <2>8
<1>4. Fits(x, new)
  BY <1>1, <1>2 DEF Fits, Insert, PriceFits, TypeFits
<1>5. NoNewReference(x, new)
  BY <1>2 DEF NoNewReference, Insert, Free
<1> QED
  BY <1>1, <1>2, <1>4, <1>5 DEF WritesAlone, Puts, Insert, Create

\* An edit of some columns of a row.
LEMMA UpdateUnitTypeWrites ==
  ASSUME PortfolioTypeOK, TablesStand(row), NEW u \in Units, NEW type \in UnitTypes \cup {NULL},
         UpdateUnitType(u, type)
  PROVE  WritesAlone
<1> DEFINE new == [row[u] EXCEPT !.unitType = type]
<1>1. row[u] \in UnitRow /\ u \in Ids /\ Here(u)
  BY RowTypes DEF UpdateUnitType, TablesStand, Here, Ids
<1>2. /\ new \in UnitRow /\ new.unitType = type
      /\ new.development = row[u].development
  BY <1>1 DEF UnitRow
<1>3. /\ RefersTo(u, new) = {row[u].development, type} \ {NULL}
      /\ Parents(u) = {row[u].development, row[u].unitType} \ {NULL}
  <2>1. RefersTo(u, new) = {new.development, new.unitType} \ {NULL}
    BY ONLY RefersToIs, u \in Units
  <2>2. RefersTo(u, row[u]) = {row[u].development, row[u].unitType} \ {NULL}
    BY RefersToIs
  <2> QED
    BY <1>1, <1>2, <2>1, <2>2 DEF Parents
<1>4. new \in Rows[u] /\ new # Absent
  BY <1>2, RowsAre, NoRowIsAbsent
<1>5. row' = [row EXCEPT ![u] = new]
  BY DEF UpdateUnitType
<1> HIDE DEF new
<1>6. \A y \in RefersTo(u, new) : Here(y)
  <2>1. \A y \in Parents(u) : Here(y)
    BY <1>1, ParentsAre DEF TablesStand, Whole, Here
  <2> QED
    BY <1>3, <2>1 DEF UpdateUnitType, TypeFits
<1>7. Fits(u, new)
  BY <1>1, <1>2, <1>4, <1>6, TablesApart DEF Fits, UpdateUnitType, TypeFits
<1>8. NoNewReference(u, new)
  BY <1>3 DEF NoNewReference, UpdateUnitType, Free
<1>9. Puts(u, new)
  BY <1>5, <1>7, <1>8 DEF Puts, UpdateUnitType
<1> QED
  BY <1>9, TablesApart DEF WritesAlone, UpdateUnitType

LEMMA TakeWrites ==
  ASSUME PortfolioTypeOK, TablesStand(row), NEW u \in Units,
         NEW history \in {"reserved", "sold"}, Take(u, history)
  PROVE  WritesAlone
<1> DEFINE new == [row[u] EXCEPT !.history = history]
<1>1. row[u] \in UnitRow /\ u \in Ids /\ Here(u)
  BY RowTypes DEF Take, TablesStand, Here, Ids
<1>2. /\ new \in UnitRow /\ new.unitType = row[u].unitType
      /\ new.development = row[u].development
  BY <1>1 DEF UnitRow
<1>3. /\ RefersTo(u, new) = {row[u].development, row[u].unitType} \ {NULL}
      /\ Parents(u) = {row[u].development, row[u].unitType} \ {NULL}
  <2>1. RefersTo(u, new) = {new.development, new.unitType} \ {NULL}
    BY ONLY RefersToIs, u \in Units
  <2>2. RefersTo(u, row[u]) = {row[u].development, row[u].unitType} \ {NULL}
    BY RefersToIs
  <2> QED
    BY <1>1, <1>2, <2>1, <2>2 DEF Parents
<1>4. new \in Rows[u] /\ new # Absent
  BY <1>2, RowsAre, NoRowIsAbsent
<1>5. row' = [row EXCEPT ![u] = new]
  BY DEF Take
<1> HIDE DEF new
<1>6. \A y \in RefersTo(u, new) : Here(y)
  BY <1>1, <1>3, ParentsAre DEF TablesStand, Whole, Here
<1>7. Fits(u, new)
  <2>1. new.unitType # NULL => row[new.unitType].development = new.development
    BY <1>1, <1>2 DEF TablesStand, Agrees, Here
  <2> QED
    BY <1>1, <1>2, <1>4, <1>6, <2>1, TablesApart DEF Fits
<1>8. NoNewReference(u, new)
  BY <1>3 DEF NoNewReference
<1>9. Puts(u, new)
  BY <1>5, <1>7, <1>8 DEF Puts, Take
<1> QED
  BY <1>9, TablesApart DEF WritesAlone, Take

LEMMA UpsertInterestWrites ==
  ASSUME PortfolioTypeOK, NEW q \in Interests, NEW new \in InterestRow, UpsertInterest(q, new)
  PROVE  WritesAlone
<1>1. q \in Ids /\ new \in Rows[q] /\ new # Absent
  BY RowsAre, NoRowIsAbsent DEF Ids
<1>2. RefersTo(q, new) = {new.development, new.unitType} \ {NULL}
  BY RefersToIs
<1>3. \A y \in RefersTo(q, new) : Here(y)
  BY <1>2 DEF UpsertInterest, TypeFits
<1>4. Fits(q, new)
  BY <1>1, <1>3, TablesApart DEF Fits, UpsertInterest, TypeFits
<1>5. NoNewReference(q, new)
  BY <1>2 DEF NoNewReference, UpsertInterest, Free
<1>6. Puts(q, new)
  BY <1>4, <1>5 DEF Puts, UpsertInterest
<1> QED
  BY <1>6, TablesApart DEF WritesAlone, UpsertInterest

LEMMA LeafWrites ==
  ASSUME PortfolioTypeOK, NEW x \in UnitPrices \cup Interests \cup Returns,
         row' = [row EXCEPT ![x] = Absent], UNCHANGED <<silent, op>>
  PROVE  WritesAlone
<1>1. x \in Ids /\ Absent \in Rows[x] /\ x \notin Developments
  BY RowsAre, TablesApart DEF Ids
<1>2. Puts(x, Absent)
  BY <1>1 DEF Puts, Fits, NoNewReference
<1> QED
  BY <1>1, <1>2 DEF WritesAlone

LEMMA MoveAllocationWrites ==
  ASSUME PortfolioTypeOK, TablesStand(row), NEW l \in Allocations,
         NEW d \in Developments \cup {NULL}, MoveAllocation(l, d)
  PROVE  WritesAlone
<1> DEFINE new == [row[l] EXCEPT !.development = d]
<1>1. row[l] \in AllocationRow /\ l \in Ids /\ Here(l)
  BY RowTypes DEF MoveAllocation, TablesStand, Here, Ids
<1>2. /\ new \in AllocationRow /\ new.development = d
      /\ new.investment = row[l].investment
  BY <1>1 DEF AllocationRow
<1>3. /\ RefersTo(l, new) = {row[l].investment, d} \ {NULL}
      /\ Parents(l) = {row[l].investment, row[l].development} \ {NULL}
  <2>1. RefersTo(l, new) = {new.investment, new.development} \ {NULL}
    BY ONLY RefersToIs, l \in Allocations
  <2>2. RefersTo(l, row[l]) = {row[l].investment, row[l].development} \ {NULL}
    BY RefersToIs
  <2> QED
    BY <1>1, <1>2, <2>1, <2>2 DEF Parents
<1>4. new \in Rows[l] /\ new # Absent
  BY <1>2, RowsAre, NoRowIsAbsent
<1>5. row' = [row EXCEPT ![l] = new]
  BY DEF MoveAllocation
<1> HIDE DEF new
<1>6. \A y \in RefersTo(l, new) : Here(y)
  <2>1. \A y \in Parents(l) : Here(y)
    BY <1>1, ParentsAre DEF TablesStand, Whole, Here
  <2> QED
    BY <1>3, <2>1 DEF MoveAllocation
<1>7. Fits(l, new)
  BY <1>1, <1>4, <1>6, TablesApart DEF Fits
<1>8. NoNewReference(l, new)
  BY <1>3 DEF NoNewReference, MoveAllocation, Free
<1>9. Puts(l, new)
  BY <1>5, <1>7, <1>8 DEF Puts, MoveAllocation
<1> QED
  BY <1>9, TablesApart DEF WritesAlone, MoveAllocation

LEMMA OperationTypes ==
  ASSUME PortfolioTypeOK, NEW r \in Operations
  PROVE  /\ op[r].at \in {"idle", "lock", "collected", "edit", "budget"}
         /\ op[r].at = "idle" <=> op[r] = NoOp
         /\ Removal(op[r]) => /\ op[r].id \in Ids /\ op[r].locks \subseteq Ids
                              /\ op[r].todo \in 0..3 /\ op[r].list \subseteq Ids
         /\ op[r].at = "edit" => /\ op[r].id \in Developments /\ op[r].locks \subseteq Developments
                                 /\ op[r].launch \in Dates /\ op[r].delivery \in Dates
         /\ op[r].at = "budget" => /\ op[r].write \in Investments \cup Allocations
                                   /\ op[r].investment \in Investments
                                   /\ op[r].exists \in BOOLEAN /\ op[r].others \in Nat
<1>1. op[r] \in OperationState
  BY DEF PortfolioTypeOK
<1> QED
  BY <1>1 DEF OperationState, NoOp, Removal

LEMMA CommitDevelopmentWrites ==
  ASSUME PortfolioTypeOK, TablesStand(row), OperationsStand, NEW r \in Operations,
         NEW company \in Companies \cup {NULL, Keep},
         NEW launch \in Dates \cup {Keep}, NEW delivery \in Dates \cup {Keep},
         CommitDevelopment(r, company, launch, delivery)
  PROVE  WritesAndEnds(r)
<1> DEFINE d == op[r].id
           Sent(field, current) == IF field = Keep THEN current ELSE field
           new == [company |-> Sent(company, row[d].company),
                   launch |-> Sent(launch, row[d].launch),
                   delivery |-> Sent(delivery, row[d].delivery)]
<1>1. /\ op[r].at = "edit" /\ d \in Developments /\ d \in Ids
      /\ Here(d) /\ row[d] \in DevelopmentRow
      /\ row[d].launch = op[r].launch /\ row[d].delivery = op[r].delivery
      /\ op[r].locks = {d}
  BY OperationTypes, RowTypes
     DEF CommitDevelopment, OperationsStand, EditStands, TablesStand, Here, Ids
<1>2. row' = [row EXCEPT ![d] = new]
  BY DEF CommitDevelopment
<1>3. /\ Sent(company, row[d].company) \in Companies \cup {NULL}
      /\ Sent(launch, row[d].launch) \in Dates
      /\ Sent(delivery, row[d].delivery) \in Dates
  BY <1>1 DEF DevelopmentRow
<1>4. /\ new.company = Sent(company, row[d].company)
      /\ new.launch = Sent(launch, row[d].launch)
      /\ new.delivery = Sent(delivery, row[d].delivery)
      /\ new \in DevelopmentRow
  <2> HIDE DEF Sent
  <2> QED
    BY <1>3 DEF DevelopmentRow
<1> HIDE DEF new
<1>5. new \in Rows[d] /\ new # Absent
  BY <1>1, <1>4, RowsAre, NoRowIsAbsent
<1>6. /\ RefersTo(d, new) = {new.company} \ {NULL}
      /\ Parents(d) = {row[d].company} \ {NULL}
  BY <1>1, RefersToIs DEF Parents
<1>7. DateOrder(new.launch, new.delivery)
  BY <1>1, <1>4 DEF CommitDevelopment
<1>8. \A y \in RefersTo(d, new) : y \in Parents(d) \/ (y \in Companies /\ y = company)
  BY <1>3, <1>4, <1>6
<1>9. \A y \in RefersTo(d, new) : Here(y)
  <2>1. \A y \in Parents(d) : Here(y)
    BY <1>1, ParentsAre DEF TablesStand, Whole, Here
  <2> QED
    BY <1>8, <2>1 DEF CommitDevelopment
<1>10. Fits(d, new)
  BY <1>1, <1>5, <1>7, <1>9, TablesApart DEF Fits
<1>11. NoNewReference(d, new)
  <2> SUFFICES ASSUME NEW q \in Operations, NEW y \in RefersTo(d, new), y \in LocksOf(q),
                      y \notin Parents(d)
               PROVE  FALSE
    BY DEF NoNewReference
  <2>1. y \in Companies /\ y = company
    BY <1>8
  <2>2. q = r
    BY <2>1 DEF CommitDevelopment, Locked
  <2> QED
    BY <1>1, <2>1, <2>2, TablesApart DEF LocksOf
<1>12. Puts(d, new)
  BY <1>2, <1>10, <1>11 DEF Puts, CommitDevelopment
<1>13. op[r] # NoOp
  BY <1>1 DEF NoOp
<1> QED
  BY <1>1, <1>12, <1>13 DEF WritesAndEnds, CommitDevelopment

LEMMA WriteBudgetWrites ==
  ASSUME PortfolioTypeOK, TablesStand(row), OperationsStand, NEW r \in Operations, WriteBudget(r)
  PROVE  WritesAndEnds(r)
<1> DEFINE x == op[r].write
           new == op[r].row
<1>1. /\ op[r].at = "budget" /\ x \in Investments \cup Allocations /\ x \in Ids
      /\ x \notin Developments /\ op[r] # NoOp
  BY OperationTypes, TablesApart DEF WriteBudget, NoOp
<1>2. BudgetStands(op[r])
  BY DEF OperationsStand
<1>3. CASE Here(x) /\ x \in Investments
  <2> DEFINE put == [row[x] EXCEPT !.amount = new.amount]
  <2>1. row[x] \in InvestmentRow /\ new \in InvestmentRow
    BY <1>1, <1>2, <1>3, RowTypes DEF TablesStand, Here, BudgetStands
  <2>2. put \in InvestmentRow /\ row' = [row EXCEPT ![x] = put]
    BY <1>3, <2>1 DEF InvestmentRow, WriteBudget
  <2> HIDE DEF put
  <2>3. put \in Rows[x] /\ put # Absent /\ RefersTo(x, put) = {}
    BY <1>3, <2>2, RowsAre, NoRowIsAbsent, RefersToIs
  <2>4. Puts(x, put)
    BY <1>1, <1>3, <2>2, <2>3, TablesApart DEF Puts, Fits, NoNewReference, WriteBudget
  <2> QED
    BY <1>1, <2>4 DEF WritesAndEnds, WriteBudget
<1>4. CASE Here(x) /\ x \in Allocations
  <2> DEFINE put == [row[x] EXCEPT !.amount = new.amount]
  <2>1. row[x] \in AllocationRow /\ new.amount \in Shares
    BY <1>1, <1>2, <1>4, RowTypes DEF TablesStand, Here, BudgetStands
  <2>2. /\ put \in AllocationRow /\ row' = [row EXCEPT ![x] = put]
        /\ put.investment = row[x].investment /\ put.development = row[x].development
    BY <1>4, <2>1 DEF AllocationRow, WriteBudget
  <2> HIDE DEF put
  <2>3. put \in Rows[x] /\ put # Absent
    BY <1>4, <2>2, RowsAre, NoRowIsAbsent
  <2>4. RefersTo(x, put) = Parents(x)
    <3>1. RefersTo(x, put) = {put.investment, put.development} \ {NULL}
      BY <1>4, RefersToIs
    <3>2. Parents(x) = {row[x].investment, row[x].development} \ {NULL}
      BY <1>4, RefersToIs DEF Parents
    <3> QED
      BY <2>2, <3>1, <3>2
  <2>5. \A y \in Parents(x) : Here(y)
    BY <1>1, ParentsAre DEF TablesStand, Whole, Here
  <2>6. Puts(x, put)
    BY <1>1, <1>4, <2>2, <2>3, <2>4, <2>5, TablesApart DEF Puts, Fits, NoNewReference, WriteBudget
  <2> QED
    BY <1>1, <2>6 DEF WritesAndEnds, WriteBudget
<1>5. CASE ~Here(x)
  <2>1. /\ \A y \in RefersTo(x, new) : Here(y)
        /\ ~Locked(RefersTo(x, new), r)
        /\ row' = [row EXCEPT ![x] = new]
        /\ ~op[r].exists
    BY <1>5, OperationTypes DEF WriteBudget, Here
  <2>2. x \in Allocations /\ new \in AllocationRow
    BY <1>1, <1>2, <2>1 DEF BudgetStands
  <2>3. new \in Rows[x] /\ new # Absent
    BY <2>2, RowsAre, NoRowIsAbsent
  <2>4. Fits(x, new)
    BY <1>1, <1>5, <2>1, <2>2, <2>3, TablesApart DEF Fits
  <2>5. NoNewReference(x, new)
    BY <1>1, <2>1 DEF NoNewReference, Locked, LocksOf
  <2>6. Puts(x, new)
    BY <2>1, <2>4, <2>5 DEF Puts, WriteBudget
  <2> QED
    BY <1>1, <2>6 DEF WritesAndEnds, WriteBudget
<1> QED
  BY <1>1, <1>3, <1>4, <1>5
-----------------------------------------------------------------------------
(* Requests in flight, while others write.                                 *)

LEMMA PlanIs ==
  /\ \A x \in Developments : Plan(x) = <<UnitTypes, Units, PriceTables>>
  /\ \A x \in Investments : Plan(x) = <<Allocations>>
  /\ \A x \in UnitTypes : Plan(x) = <<Units>>
  /\ \A x \in Companies \cup Units \cup PriceTables \cup Allocations : Plan(x) = <<>>
<1>1. \A x \in Developments : Plan(x) = <<UnitTypes, Units, PriceTables>>
  BY TablesApart DEF Plan
<1>2. \A x \in Investments : Plan(x) = <<Allocations>>
  BY TablesApart DEF Plan
<1>3. \A x \in UnitTypes : Plan(x) = <<Units>>
  BY TablesApart DEF Plan
<1>4. \A x \in Companies \cup Units \cup PriceTables \cup Allocations : Plan(x) = <<>>
  BY TablesApart DEF Plan
<1> QED
  BY <1>1, <1>2, <1>3, <1>4

LEMMA RemovableTables ==
  Removable = UNION {Companies, Developments, UnitTypes, Units, PriceTables, Investments, Allocations}
BY TablesApart DEF Removable, Ids

LEMMA PlanTypes ==
  ASSUME NEW x \in Removable
  PROVE  /\ Len(Plan(x)) \in 0..3
         /\ \A k \in 1..Len(Plan(x)) : Plan(x)[k] \subseteq Ids
<1>1. CASE x \in Developments
  <2>1. Plan(x) = <<UnitTypes, Units, PriceTables>>
    BY <1>1, PlanIs
  <2>2. \A k \in 1..3 : k = 1 \/ k = 2 \/ k = 3
    OBVIOUS
  <2> QED
    BY <2>1, <2>2 DEF Ids
<1>2. CASE x \in Investments
  <2>1. Plan(x) = <<Allocations>>
    BY <1>2, PlanIs
  <2> QED
    BY <2>1 DEF Ids
<1>3. CASE x \in UnitTypes
  <2>1. Plan(x) = <<Units>>
    BY <1>3, PlanIs
  <2> QED
    BY <2>1 DEF Ids
<1>4. CASE x \in Companies \cup Units \cup PriceTables \cup Allocations
  <2>1. Plan(x) = <<>>
    BY <1>4, PlanIs
  <2> QED
    BY <2>1
<1> QED
  BY <1>1, <1>2, <1>3, <1>4, RemovableTables

\* A removal stands as long as nothing new refers to what it holds.
LEMMA RemovalStaysStanding ==
  ASSUME NEW t, NEW u, NEW s, RemovalStands(t, s), Removal(s) => s.todo \in 0..3,
         Removal(s) => \A y \in Ids : \A p \in s.locks : p \in Refs(u, y) => p \in Refs(t, y)
  PROVE  RemovalStands(u, s)
<1> SUFFICES ASSUME Removal(s) PROVE RemovalStands(u, s)
  BY DEF RemovalStands
<1>1. HoldsRoot(s) /\ HoldsBelow(t, s) /\ StillNone(t, s) /\ HasCollected(t, s)
  BY DEF RemovalStands
<1>2. s.id \in Removable /\ s.id \in s.locks
  BY <1>1 DEF HoldsRoot
<1>3. HoldsBelow(u, s)
  <2> SUFFICES ASSUME NEW k \in 1..(Len(Plan(s.id)) - s.todo), NEW y \in Plan(s.id)[k],
                      s.id \in Refs(u, y)
               PROVE  y \in s.locks
    BY DEF HoldsBelow
  <2>1. k \in 1..Len(Plan(s.id))
    BY <1>2, PlanTypes
  <2>2. y \in Ids
    BY <1>2, <2>1, PlanTypes
  <2> QED
    BY <1>1, <1>2, <2>2 DEF HoldsBelow
<1>4. StillNone(u, s)
  BY <1>1, <1>2 DEF StillNone, Ids
<1>5. HasCollected(u, s)
  BY <1>1 DEF HasCollected, Ids
<1> QED
  BY <1>1, <1>3, <1>4, <1>5 DEF RemovalStands

LEMMA WriteKeepsRemoval ==
  ASSUME PortfolioIInv, NEW x, NEW new, Puts(x, new), NEW q \in Operations
  PROVE  RemovalStands(row', op[q])
<1>1. RemovalStands(row, op[q]) /\ (Removal(op[q]) => op[q].todo \in 0..3)
  BY OperationTypes DEF PortfolioIInv, OperationsStand
<1>2. ASSUME Removal(op[q]), NEW y \in Ids, NEW p \in op[q].locks, p \in Refs(row', y)
      PROVE  p \in Refs(row, y)
  <2>1. x \in Ids /\ row' = [row EXCEPT ![x] = new] /\ DOMAIN row = Ids
    BY DEF Puts, Fits, PortfolioIInv, PortfolioTypeOK
  <2>2. CASE y # x
    BY <1>2, <2>1, <2>2 DEF Refs
  <2>3. CASE y = x
    <3>1. new # Absent /\ p \in RefersTo(x, new)
      BY <1>2, <2>1, <2>3 DEF Refs
    <3>2. p \in LocksOf(q)
      BY <1>2 DEF LocksOf, Removal
    <3> QED
      BY <2>3, <3>1, <3>2, ParentsAre DEF Puts, NoNewReference
  <2> QED
    BY <2>2, <2>3
<1> QED
  BY <1>1, <1>2, RemovalStaysStanding

LEMMA IInvTables ==
  PortfolioIInv => PortfolioTypeOK /\ TablesStand(row) /\ Typed(row)
BY TypedRow, TablesSay DEF PortfolioIInv, TablesStand

\* What there is to prove of a step.
LEMMA IInvNext ==
  ASSUME TablesStand(row'), op' \in [Operations -> OperationState], silent' = {},
         \A q, r \in Operations : q # r => LocksOf(q)' \cap LocksOf(r)' = {},
         \A r \in Operations :
           RemovalStands(row', op'[r]) /\ EditStands(row', op'[r]) /\ BudgetStands(op'[r])
  PROVE  PortfolioIInv'
<1>1. PortfolioTypeOK'
  BY DEF PortfolioTypeOK, TablesStand, Typed
<1>2. NoDangling' /\ SameDevelopment' /\ DatesOrdered'
  BY TablesSay DEF TablesStand
<1>3. LocksApart'
  BY DEF LocksApart
<1>4. OperationsStand'
  BY DEF OperationsStand
<1> QED
  BY <1>1, <1>2, <1>3, <1>4 DEF PortfolioIInv

LEMMA NoOpStands ==
  ASSUME NEW t
  PROVE  RemovalStands(t, NoOp) /\ EditStands(t, NoOp) /\ BudgetStands(NoOp)
BY DEF RemovalStands, EditStands, BudgetStands, NoOp, Removal

LEMMA WritesAloneKeepsInv ==
  ASSUME PortfolioIInv, WritesAlone
  PROVE  PortfolioIInv'
<1>1. PICK x, new : Puts(x, new) /\ (x \in Developments => ~Here(x)) /\ op' = op
  BY DEF WritesAlone
<1>2. TablesStand(row')
  BY <1>1, IInvTables, WriteKeepsTables DEF Puts
<1>3. \A q \in Operations : LocksOf(q)' = LocksOf(q)
  BY <1>1 DEF LocksOf
<1>4. ASSUME NEW q \in Operations
      PROVE  RemovalStands(row', op'[q]) /\ EditStands(row', op'[q]) /\ BudgetStands(op'[q])
  <2>1. RemovalStands(row', op[q])
    BY <1>1, WriteKeepsRemoval
  <2>2. EditStands(row, op[q]) /\ BudgetStands(op[q])
    BY DEF PortfolioIInv, OperationsStand
  <2>3. EditStands(row', op[q])
    <3> SUFFICES ASSUME op[q].at = "edit" PROVE EditStands(row', op[q])
      BY DEF EditStands
    <3>1. op[q].id \in Developments /\ Here(op[q].id) /\ op[q].id \in Ids
      BY <2>2, OperationTypes, IInvTables DEF EditStands, Here, Ids
    <3>2. op[q].id # x
      BY <1>1, <3>1
    <3>3. row'[op[q].id] = row[op[q].id]
      BY <1>1, <3>1, <3>2, IInvTables DEF Puts, Typed
    <3> QED
      BY <2>2, <3>3 DEF EditStands
  <2> QED
    BY <1>1, <2>1, <2>2, <2>3
<1>5. silent' = {} /\ op' \in [Operations -> OperationState]
  BY <1>1 DEF Puts, PortfolioIInv, PortfolioTypeOK
<1>6. \A q, r \in Operations : q # r => LocksOf(q)' \cap LocksOf(r)' = {}
  BY <1>3 DEF PortfolioIInv, LocksApart
<1> QED
  BY <1>2, <1>4, <1>5, <1>6, IInvNext

\* The end of a request.
LEMMA EndIs ==
  ASSUME PortfolioIInv, NEW r \in Operations, End(r)
  PROVE  /\ op' \in [Operations -> OperationState]
         /\ op'[r] = NoOp
         /\ \A q \in Operations : q # r => op'[q] = op[q]
         /\ \A q \in Operations : LocksOf(q)' \subseteq LocksOf(q)
         /\ \A q, p \in Operations : q # p => LocksOf(q)' \cap LocksOf(p)' = {}
<1>1. op \in [Operations -> OperationState] /\ NoOp \in OperationState
  BY DEF PortfolioIInv, PortfolioTypeOK, OperationState
<1>2. /\ op' \in [Operations -> OperationState]
      /\ op'[r] = NoOp
      /\ \A q \in Operations : q # r => op'[q] = op[q]
  BY <1>1 DEF End
<1>3. LocksOf(r)' = {}
  BY <1>2 DEF LocksOf, NoOp
<1>4. \A q \in Operations : q # r => LocksOf(q)' = LocksOf(q)
  BY <1>2 DEF LocksOf
<1> QED
  BY <1>2, <1>3, <1>4 DEF PortfolioIInv, LocksApart

LEMMA WritesAndEndsKeepsInv ==
  ASSUME PortfolioIInv, NEW r \in Operations, WritesAndEnds(r)
  PROVE  PortfolioIInv'
<1>1. PICK x, new : /\ Puts(x, new) /\ End(r)
                    /\ x \in Developments => op[r].at = "edit" /\ op[r].id = x
  BY DEF WritesAndEnds
<1>2. TablesStand(row')
  BY <1>1, IInvTables, WriteKeepsTables DEF Puts
<1>3. /\ op' \in [Operations -> OperationState]
      /\ op'[r] = NoOp
      /\ \A q \in Operations : q # r => op'[q] = op[q]
      /\ \A q, p \in Operations : q # p => LocksOf(q)' \cap LocksOf(p)' = {}
  BY <1>1, EndIs
<1>4. ASSUME NEW q \in Operations
      PROVE  RemovalStands(row', op'[q]) /\ EditStands(row', op'[q]) /\ BudgetStands(op'[q])
  <2>1. CASE q = r
    BY <1>3, <2>1, NoOpStands
  <2>2. CASE q # r
    <3>1. RemovalStands(row', op[q])
      BY <1>1, WriteKeepsRemoval
    <3>2. EditStands(row, op[q]) /\ BudgetStands(op[q]) /\ EditStands(row, op[r])
      BY DEF PortfolioIInv, OperationsStand
    <3>3. EditStands(row', op[q])
      <4> SUFFICES ASSUME op[q].at = "edit" PROVE EditStands(row', op[q])
        BY DEF EditStands
      <4>1. op[q].id \in Developments /\ op[q].id \in Ids
        BY OperationTypes, IInvTables DEF Ids
      <4>2. op[q].id # x
        <5> SUFFICES ASSUME op[q].id = x PROVE FALSE
          OBVIOUS
        <5>1. op[r].at = "edit" /\ op[r].id = x
          BY <1>1, <4>1
        <5>2. x \in LocksOf(q) /\ x \in LocksOf(r)
          BY <3>2, <5>1 DEF EditStands, LocksOf
        <5> QED
          BY <2>2, <5>2 DEF PortfolioIInv, LocksApart
      <4>3. row'[op[q].id] = row[op[q].id]
        BY <1>1, <4>1, <4>2, IInvTables DEF Puts, Typed
      <4> QED
        BY <3>2, <4>3 DEF EditStands
    <3> QED
      BY <1>3, <2>2, <3>1, <3>2, <3>3
  <2> QED
    BY <2>1, <2>2
<1>5. silent' = {}
  BY <1>1 DEF Puts, PortfolioIInv
<1> QED
  BY <1>2, <1>3, <1>4, <1>5, IInvNext
-----------------------------------------------------------------------------
(* What is taken of an investment.                                         *)

Capital == Investments \cup Allocations

AmountsOf(t) == [l \in Capital |-> t[l].amount]
CentsOf(t) == [l \in Capital |-> MoneyToCents(t[l].amount)]

LEMMA TakenOfTable ==
  ASSUME NEW t, NEW S \in SUBSET Capital
  PROVE  MapThenSumSet(LAMBDA l : t[l].amount, S)
           = SumOf(AmountsOf(t), S)
<1> DEFINE f == AmountsOf(t)
           A(g) == g = [s \in SUBSET S |->
                          IF s = {} THEN 0 ELSE t[Chosen(s)].amount + g[s \ {Chosen(s)}]]
<1>1. \A s \in SUBSET S : s # {} => f[Chosen(s)] = t[Chosen(s)].amount
  BY ChosenMember DEF AmountsOf
<1>2. ASSUME NEW g
      PROVE  A(g) <=> Adds(g, f, S)
  <2> HIDE DEF f
  <2>1. \A s \in SUBSET S :
          (IF s = {} THEN 0 ELSE t[Chosen(s)].amount + g[s \ {Chosen(s)}])
            = IF s = {} THEN 0 ELSE f[Chosen(s)] + g[s \ {Chosen(s)}]
    BY <1>1
  <2> QED
    BY <2>1 DEF Adds
<1>3. MapThenSumSet(LAMBDA l : t[l].amount, S) = (CHOOSE g : A(g))[S]
  BY DEF MapThenSumSet, MapThenFoldSet, Chosen
<1>4. (CHOOSE g : A(g)) = (CHOOSE g : Adds(g, f, S))
  <2> HIDE DEF A, f
  <2> QED
    BY <1>2
<1> QED
  BY <1>3, <1>4, SumOfIsAdds

LEMMA TakenIs ==
  ASSUME NEW S \in SUBSET Capital
  PROVE  Taken(S) = SumOf(AmountsOf(row), S)
BY TakenOfTable DEF Taken

LEMMA CentsOfTable ==
  ASSUME NEW t, NEW S \in SUBSET Capital
  PROVE  MapThenSumSet(LAMBDA l : MoneyToCents(t[l].amount), S)
           = SumOf(CentsOf(t), S)
<1> DEFINE f == CentsOf(t)
           A(g) == g = [s \in SUBSET S |->
                          IF s = {} THEN 0
                          ELSE MoneyToCents(t[Chosen(s)].amount) + g[s \ {Chosen(s)}]]
<1>1. \A s \in SUBSET S : s # {} => f[Chosen(s)] = MoneyToCents(t[Chosen(s)].amount)
  BY ChosenMember DEF CentsOf
<1>2. ASSUME NEW g
      PROVE  A(g) <=> Adds(g, f, S)
  <2> HIDE DEF f
  <2>1. \A s \in SUBSET S :
          (IF s = {} THEN 0
           ELSE MoneyToCents(t[Chosen(s)].amount) + g[s \ {Chosen(s)}])
            = IF s = {} THEN 0 ELSE f[Chosen(s)] + g[s \ {Chosen(s)}]
    BY <1>1
  <2> QED
    BY <2>1 DEF Adds
<1>3. MapThenSumSet(LAMBDA l : MoneyToCents(t[l].amount), S) = (CHOOSE g : A(g))[S]
  BY DEF MapThenSumSet, MapThenFoldSet, Chosen
<1>4. (CHOOSE g : A(g)) = (CHOOSE g : Adds(g, f, S))
  <2> HIDE DEF A, f
  <2> QED
    BY <1>2
<1> QED
  BY <1>3, <1>4, SumOfIsAdds

LEMMA InCentsIs ==
  ASSUME NEW S \in SUBSET Capital
  PROVE  InCents(S) = SumOf(CentsOf(row), S)
BY CentsOfTable DEF InCents

LEMMA AmountsAreNaturals ==
  ASSUME NEW t, Typed(t)
  PROVE  /\ \A l \in Capital : t[l] # Absent => AmountsOf(t)[l] \in Nat
         /\ \A l \in Investments : t[l] # Absent => AmountsOf(t)[l] \in Amounts
<1>1. \A l \in Investments : t[l] # Absent => t[l].amount \in Amounts
  BY RowTypes DEF InvestmentRow
<1>2. \A l \in Allocations : t[l] # Absent => t[l].amount \in Shares
  BY RowTypes DEF AllocationRow
<1> QED
  BY <1>1, <1>2, CapitalAssumption DEF AmountsOf, Capital

LEMMA CapitalIsFinite ==
  ASSUME NEW S \in SUBSET Capital
  PROVE  IsFiniteSet(S)
BY CapitalAssumption, FS_Union, FS_Subset DEF Capital

LEMMA TakenIsNatural ==
  ASSUME Typed(row), NEW S \in SUBSET Capital, \A l \in S : Here(l)
  PROVE  Taken(S) \in Nat
<1>1. \A l \in S : AmountsOf(row)[l] \in Nat
  BY AmountsAreNaturals DEF Here
<1> QED
  BY <1>1, TakenIs, CapitalIsFinite, SumOfNaturals

LEMMA AllocationsAre ==
  ASSUME NEW i
  PROVE  /\ AllocationsOf(i) = {l \in Allocations : Here(l) /\ row[l].investment = i}
         /\ AllocationsOf(i) \subseteq Capital
BY DEF AllocationsOf, Present, Ids, Capital

LEMMA OthersIsNatural ==
  ASSUME Typed(row), NEW i, NEW l
  PROVE  Others(i, l) \in Nat
<1>1. AllocationsOf(i) \ {l} \in SUBSET Capital /\ \A k \in AllocationsOf(i) \ {l} : Here(k)
  BY AllocationsAre
<1> QED
  BY <1>1, TakenIsNatural DEF Others

-----------------------------------------------------------------------------
(* Steps that write no row.                                                *)

LEMMA OperationKeepsInv ==
  ASSUME PortfolioIInv, UNCHANGED <<row, silent>>, NEW r \in Operations,
         NEW s \in OperationState, op' = [op EXCEPT ![r] = s],
         RemovalStands(row, s), EditStands(row, s), BudgetStands(s),
         \A q \in Operations \ {r} :
           s.at \in {"lock", "collected", "edit"} => LocksOf(q) \cap s.locks = {}
  PROVE  PortfolioIInv'
<1>1. /\ op' \in [Operations -> OperationState]
      /\ op'[r] = s
      /\ \A q \in Operations : q # r => op'[q] = op[q]
  BY DEF PortfolioIInv, PortfolioTypeOK
<1>2. TablesStand(row') /\ silent' = {}
  BY IInvTables DEF PortfolioIInv
<1>3. \A q \in Operations : q # r => LocksOf(q)' = LocksOf(q)
  BY <1>1 DEF LocksOf
<1>4. LocksOf(r)' = IF s.at \in {"lock", "collected", "edit"} THEN s.locks ELSE {}
  BY <1>1 DEF LocksOf
<1>5. \A q, p \in Operations : q # p => LocksOf(q)' \cap LocksOf(p)' = {}
  BY <1>3, <1>4 DEF PortfolioIInv, LocksApart
<1>6. \A q \in Operations :
        RemovalStands(row', op'[q]) /\ EditStands(row', op'[q]) /\ BudgetStands(op'[q])
  BY <1>1 DEF PortfolioIInv, OperationsStand
<1> QED
  BY <1>1, <1>2, <1>5, <1>6, IInvNext

LEMMA AbortKeepsInv ==
  ASSUME PortfolioIInv, NEW r \in Operations, Abort(r)
  PROVE  PortfolioIInv'
BY NoOpStands, OperationKeepsInv DEF Abort, End, OperationState, NoOp

LEMMA EditDevelopmentKeepsInv ==
  ASSUME PortfolioIInv, NEW r \in Operations, NEW d \in Developments, EditDevelopment(r, d)
  PROVE  PortfolioIInv'
<1> DEFINE s == [at |-> "edit", id |-> d, locks |-> {d},
                 launch |-> row[d].launch, delivery |-> row[d].delivery]
<1>1. row[d] \in DevelopmentRow /\ Here(d)
  BY IInvTables, RowTypes DEF EditDevelopment, Here
<1>2. s \in OperationState
  BY <1>1 DEF OperationState, DevelopmentRow
<1>3. RemovalStands(row, s) /\ EditStands(row, s) /\ BudgetStands(s)
  BY <1>1 DEF RemovalStands, EditStands, BudgetStands, Removal, Here
<1>4. \A q \in Operations \ {r} : LocksOf(q) \cap s.locks = {}
  BY DEF EditDevelopment, Locked
<1>5. op' = [op EXCEPT ![r] = s] /\ UNCHANGED <<row, silent>>
  BY DEF EditDevelopment
<1> HIDE DEF s
<1> QED
  BY <1>2, <1>3, <1>4, <1>5, OperationKeepsInv

LEMMA CheckKeepsInv ==
  ASSUME PortfolioIInv, NEW r \in Operations, NEW x \in Investments \cup Allocations,
         NEW new \in AllocationRow \cup InvestmentRow \cup [amount : Shares],
         NEW i \in Investments, NEW amount \in Amounts, NEW others \in Nat,
         Check(r, x, new, i, amount, others),
         x \in Investments => Here(x) /\ i = x /\ new \in InvestmentRow /\ amount = new.amount,
         x \in Allocations => new.amount + others <= amount /\ new.amount \in Shares,
         x \in Allocations /\ ~Here(x) => new \in AllocationRow /\ new.investment = i
  PROVE  PortfolioIInv'
<1> DEFINE s == [at |-> "budget", write |-> x, row |-> new, investment |-> i,
                 exists |-> Here(x), amount |-> amount, others |-> others]
<1>1. s \in OperationState
  BY DEF OperationState, Here
<1>2. BudgetStands(s)
  BY CapitalAssumption DEF BudgetStands, Check
<1>3. RemovalStands(row, s) /\ EditStands(row, s)
  BY DEF RemovalStands, EditStands, Removal
<1>4. op' = [op EXCEPT ![r] = s] /\ UNCHANGED <<row, silent>>
  BY DEF Check
<1>5. s.at = "budget"
  OBVIOUS
<1> HIDE DEF s
<1> QED
  BY <1>1, <1>2, <1>3, <1>4, <1>5, OperationKeepsInv

LEMMA CreateAllocationKeepsInv ==
  ASSUME PortfolioIInv, NEW r \in Operations, NEW l \in Allocations, NEW new \in AllocationRow,
         CreateAllocation(r, l, new)
  PROVE  PortfolioIInv'
<1> DEFINE i == new.investment
<1>1. /\ i \in Investments /\ new.amount \in Shares /\ row[i].amount \in Amounts
      /\ Others(i, l) \in Nat
  BY IInvTables, RowTypes, OthersIsNatural
     DEF AllocationRow, InvestmentRow, CreateAllocation, Here
<1>2. new.amount + Others(i, l) <= row[i].amount
  <2>1. Others(i, l) + new.amount <= row[i].amount
    BY DEF CreateAllocation
  <2>2. new.amount \in Nat /\ row[i].amount \in Nat
    BY <1>1, CapitalAssumption
  <2> HIDE DEF i
  <2> QED
    BY <1>1, <2>1, <2>2
<1>3. Check(r, l, new, i, row[i].amount, Others(i, l))
  BY DEF CreateAllocation
<1> QED
  BY <1>1, <1>2, <1>3, CheckKeepsInv, TablesApart

LEMMA UpdateAllocationKeepsInv ==
  ASSUME PortfolioIInv, NEW r \in Operations, NEW l \in Allocations, NEW amount \in Shares,
         UpdateAllocation(r, l, amount)
  PROVE  PortfolioIInv'
<1> DEFINE i == row[l].investment
           new == [amount |-> amount]
<1>1. Here(l) /\ row[l] \in AllocationRow /\ l \in Ids
  BY IInvTables, RowTypes DEF UpdateAllocation, Here, Ids
<1>2. i \in Investments /\ Here(i)
  <2>1. i \in Investments
    BY <1>1 DEF AllocationRow
  <2>2. i \in Parents(l)
    BY <1>1, <2>1, RefersToIs, FieldAssumption DEF Parents, Ids
  <2> QED
    BY <1>1, <2>1, <2>2 DEF PortfolioIInv, NoDangling
<1>3. row[i].amount \in Amounts /\ Others(i, l) \in Nat
  BY <1>2, IInvTables, RowTypes, OthersIsNatural DEF InvestmentRow, Here
<1>4. new \in [amount : Shares] /\ new.amount = amount
  OBVIOUS
<1>5. new.amount + Others(i, l) <= row[i].amount
  BY <1>3, <1>4, CapitalAssumption DEF UpdateAllocation
<1>6. Check(r, l, new, i, row[i].amount, Others(i, l))
  BY DEF UpdateAllocation
<1> HIDE DEF new, i
<1> QED
  BY <1>1, <1>2, <1>3, <1>4, <1>5, <1>6, CheckKeepsInv, TablesApart

LEMMA UpdateInvestmentKeepsInv ==
  ASSUME PortfolioIInv, NEW r \in Operations, NEW i \in Investments, NEW new \in InvestmentRow,
         UpdateInvestment(r, i, new)
  PROVE  PortfolioIInv'
<1>1. new.amount \in Amounts /\ Others(i, i) \in Nat
  BY IInvTables, OthersIsNatural DEF InvestmentRow
<1>2. Here(i) /\ Check(r, i, new, i, new.amount, Others(i, i))
  BY DEF UpdateInvestment
<1> QED
  BY <1>1, <1>2, CheckKeepsInv, TablesApart

\* The state of a removal, put together.
RemovalRecord(at, x, locks, todo, list) ==
  [at |-> at, id |-> x, locks |-> locks, todo |-> todo, list |-> list]

LEMMA RemovalStep ==
  ASSUME PortfolioIInv, UNCHANGED <<row, silent>>, NEW r \in Operations,
         NEW at \in {"lock", "collected"}, NEW x \in Ids, NEW locks \in SUBSET Ids,
         NEW todo \in 0..3, NEW list \in SUBSET Ids,
         op' = [op EXCEPT ![r] = RemovalRecord(at, x, locks, todo, list)],
         RemovalStands(row, RemovalRecord(at, x, locks, todo, list)),
         \A q \in Operations \ {r} : LocksOf(q) \cap locks = {}
  PROVE  PortfolioIInv'
<1> DEFINE s == RemovalRecord(at, x, locks, todo, list)
<1>1. s \in OperationState
  BY DEF OperationState, RemovalRecord
<1>2. EditStands(row, s) /\ BudgetStands(s) /\ s.locks = locks
  BY DEF EditStands, BudgetStands, RemovalRecord
<1> HIDE DEF s
<1> QED
  BY <1>1, <1>2, OperationKeepsInv DEF s

LEMMA RemoveBeginKeepsInv ==
  ASSUME PortfolioIInv, NEW r \in Operations, NEW x \in Ids, RemoveBegin(r, x)
  PROVE  PortfolioIInv'
<1> DEFINE at == IF Len(Plan(x)) = 0 /\ ~Collects(x) THEN "collected" ELSE "lock"
           s == RemovalRecord(at, x, {x}, Len(Plan(x)), {x})
<1>1. x \in Removable /\ Len(Plan(x)) \in 0..3
  BY PlanTypes DEF RemoveBegin
<1>2. op' = [op EXCEPT ![r] = s] /\ UNCHANGED <<row, silent>>
  BY DEF RemoveBegin, RemovalRecord
<1>3. /\ s.at = at /\ s.id = x /\ s.locks = {x} /\ s.todo = Len(Plan(x)) /\ s.list = {x}
      /\ at \in {"lock", "collected"}
  BY DEF RemovalRecord
<1>4. RemovalStands(row, s)
  <2> HIDE DEF s
  <2>1. HoldsRoot(s)
    BY <1>1, <1>3 DEF HoldsRoot
  <2>2. HoldsBelow(row, s)
    BY <1>1, <1>3 DEF HoldsBelow
  <2>3. HasCollected(row, s)
    BY <1>3 DEF HasCollected
  <2>4. StillNone(row, s)
    <3>1. ASSUME x \in Companies, NEW d \in Developments, x \in Refs(row, d) PROVE FALSE
      <4>1. d \in Ids /\ row[d] # Absent /\ row[d].company = x
        BY <3>1, RefersToIs DEF Refs, Ids
      <4> QED
        BY <3>1, <4>1 DEF RemoveBegin, Refused, Present, Here
    <3>2. ASSUME x \in Developments, NEW l \in Allocations, x \in Refs(row, l) PROVE FALSE
      <4>1. l \in Ids /\ row[l] # Absent /\ row[l] \in AllocationRow
        BY <3>2, IInvTables, RowTypes DEF Refs, Ids
      <4>2. x = row[l].investment \/ x = row[l].development
        BY <3>2, RefersToIs DEF Refs
      <4>3. x # row[l].investment
        BY <3>2, <4>1, TablesApart DEF AllocationRow
      <4> QED
        BY <3>2, <4>1, <4>2, <4>3 DEF RemoveBegin, Refused, Present, Here
    <3> QED
      BY <1>3, <3>1, <3>2 DEF StillNone
  <2> QED
    BY <2>1, <2>2, <2>3, <2>4 DEF RemovalStands
<1>5. \A q \in Operations \ {r} : LocksOf(q) \cap {x} = {}
  BY DEF RemoveBegin, Locked
<1>6. at \in {"lock", "collected"} /\ {x} \in SUBSET Ids
  BY <1>3
<1> HIDE DEF at
<1> QED
  BY <1>1, <1>2, <1>4, <1>5, <1>6, RemovalStep DEF s

LEMMA LockBelowKeepsInv ==
  ASSUME PortfolioIInv, NEW r \in Operations, LockBelow(r)
  PROVE  PortfolioIInv'
<1> DEFINE s == op[r]
           x == s.id
           kind == Plan(x)[Len(Plan(x)) - s.todo + 1]
           found == {y \in kind : x \in Parents(y)}
           at == IF s.todo = 1 /\ ~Collects(x) THEN "collected" ELSE "lock"
           next == RemovalRecord(at, x, s.locks \cup found, s.todo - 1, s.list \cup found)
<1>1. /\ s.at = "lock" /\ Removal(s) /\ s.todo \in 1..3 /\ x \in Ids
      /\ s.locks \subseteq Ids /\ s.list \subseteq Ids
  <2>1. s.at = "lock" /\ s.todo > 0 /\ Removal(s)
    BY DEF LockBelow, Removal
  <2> QED
    BY <2>1, IInvTables, OperationTypes
<1>2. HoldsRoot(s) /\ HoldsBelow(row, s) /\ StillNone(row, s)
  BY <1>1 DEF PortfolioIInv, OperationsStand, RemovalStands
<1>3. Len(Plan(x)) \in 0..3 /\ s.todo <= Len(Plan(x)) /\ found \subseteq Ids
  <2>1. x \in Removable /\ s.todo <= Len(Plan(x))
    BY <1>2 DEF HoldsRoot
  <2>2. Len(Plan(x)) \in 0..3
    BY <2>1, PlanTypes
  <2>3. Len(Plan(x)) - s.todo + 1 \in 1..Len(Plan(x))
    BY <1>1, <2>1, <2>2
  <2>4. kind \subseteq Ids
    BY <2>1, <2>3, PlanTypes
  <2> QED
    BY <2>1, <2>2, <2>4
<1>4. op' = [op EXCEPT ![r] = next] /\ UNCHANGED <<row, silent>> /\ ~Locked(found, r)
  BY <1>1 DEF LockBelow, RemovalRecord, PortfolioIInv, PortfolioTypeOK
<1>5. /\ next.at = at /\ next.id = x /\ next.locks = s.locks \cup found
      /\ next.todo = s.todo - 1 /\ next.list = s.list \cup found
      /\ at \in {"lock", "collected"}
  BY DEF RemovalRecord
<1>6. RemovalStands(row, next)
  <2> HIDE DEF next, found, at
  <2>1. HoldsRoot(next)
    BY <1>1, <1>2, <1>3, <1>5 DEF HoldsRoot, at
  <2>2. HoldsBelow(row, next)
    <3> SUFFICES ASSUME NEW k \in 1..(Len(Plan(x)) - next.todo), NEW y \in Plan(x)[k],
                        x \in Refs(row, y)
                 PROVE  y \in next.locks
      BY <1>5 DEF HoldsBelow
    <3>1. k \in 1..(Len(Plan(x)) - s.todo) \/ k = Len(Plan(x)) - s.todo + 1
      BY <1>1, <1>3, <1>5
    <3>2. CASE k \in 1..(Len(Plan(x)) - s.todo)
      BY <1>2, <1>5, <3>2 DEF HoldsBelow
    <3>3. CASE k = Len(Plan(x)) - s.todo + 1
      BY <1>5, <3>3, ParentsAre DEF found
    <3> QED
      BY <3>1, <3>2, <3>3
  <2>3. HasCollected(row, next)
    BY <1>5 DEF HasCollected, at
  <2>4. StillNone(row, next)
    BY <1>2, <1>5 DEF StillNone
  <2> QED
    BY <2>1, <2>2, <2>3, <2>4 DEF RemovalStands
<1>7. \A q \in Operations \ {r} : LocksOf(q) \cap (s.locks \cup found) = {}
  <2>1. LocksOf(r) = s.locks
    BY <1>1 DEF LocksOf
  <2>2. \A q \in Operations \ {r} : LocksOf(q) \cap found = {}
    BY <1>4 DEF Locked
  <2>3. \A q \in Operations \ {r} : LocksOf(q) \cap s.locks = {}
    BY <2>1 DEF PortfolioIInv, LocksApart
  <2> QED
    BY <2>2, <2>3
<1>8. /\ x \in Ids /\ s.todo - 1 \in 0..3 /\ s.locks \cup found \subseteq Ids
      /\ s.list \cup found \subseteq Ids /\ at \in {"lock", "collected"}
  BY <1>1, <1>3
<1> HIDE DEF at, found, s
<1> QED
  BY <1>4, <1>6, <1>7, <1>8, RemovalStep DEF next

LEMMA CollectKeepsInv ==
  ASSUME PortfolioIInv, NEW r \in Operations, Collect(r)
  PROVE  PortfolioIInv'
<1> DEFINE s == op[r]
           found == {y \in UnitPrices \cup Returns : Parents(y) \cap s.locks # {}}
           next == RemovalRecord("collected", s.id, s.locks, 0, s.list \cup found)
<1>1. /\ s.at = "lock" /\ Removal(s) /\ s.todo = 0 /\ s.id \in Ids
      /\ s.locks \subseteq Ids /\ s.list \subseteq Ids
  <2>1. s.at = "lock" /\ s.todo = 0 /\ Removal(s)
    BY DEF Collect, Removal
  <2> QED
    BY <2>1, IInvTables, OperationTypes
<1>2. HoldsRoot(s) /\ HoldsBelow(row, s) /\ StillNone(row, s)
  BY <1>1 DEF PortfolioIInv, OperationsStand, RemovalStands
<1>3. op' = [op EXCEPT ![r] = next] /\ UNCHANGED <<row, silent>>
  BY DEF Collect, RemovalRecord
<1>4. /\ next.at = "collected" /\ next.id = s.id /\ next.locks = s.locks
      /\ next.todo = 0 /\ next.list = s.list \cup found
  BY DEF RemovalRecord
<1>5. RemovalStands(row, next)
  <2> HIDE DEF next, found
  <2>1. HoldsRoot(next)
    BY <1>1, <1>2, <1>4 DEF HoldsRoot
  <2>2. HoldsBelow(row, next)
    BY <1>1, <1>2, <1>4 DEF HoldsBelow
  <2>3. HasCollected(row, next)
    BY <1>4, ParentsAre DEF HasCollected, found
  <2>4. StillNone(row, next)
    BY <1>2, <1>4 DEF StillNone
  <2> QED
    BY <2>1, <2>2, <2>3, <2>4 DEF RemovalStands
<1>6. \A q \in Operations \ {r} : LocksOf(q) \cap s.locks = {}
  <2>1. LocksOf(r) = s.locks
    BY <1>1 DEF LocksOf
  <2> QED
    BY <2>1 DEF PortfolioIInv, LocksApart
<1>7. /\ s.list \cup found \in SUBSET Ids /\ s.locks \in SUBSET Ids
      /\ "collected" \in {"lock", "collected"} /\ 0 \in 0..3
  BY <1>1 DEF Ids
<1> DEFINE id == s.id
           locks == s.locks
           list == s.list \cup found
<1>8. id \in Ids /\ locks \in SUBSET Ids /\ list \in SUBSET Ids
  BY <1>1, <1>7
<1>9. /\ op' = [op EXCEPT ![r] = RemovalRecord("collected", id, locks, 0, list)]
      /\ RemovalStands(row, RemovalRecord("collected", id, locks, 0, list))
      /\ \A q \in Operations \ {r} : LocksOf(q) \cap locks = {}
  BY <1>3, <1>5, <1>6
<1> HIDE DEF id, locks, list
<1> QED
  BY <1>3, <1>7, <1>8, <1>9, RemovalStep
-----------------------------------------------------------------------------
(* The commit of a removal.                                                *)

\* All that goes, and every unit that loses its type, is to be audited.
LEMMA CommitIsListed ==
  ASSUME PortfolioIInv, NEW r \in Operations, op[r].at = "collected"
  PROVE  ToAudit(op[r].id, Deleted(op[r].id)) \subseteq op[r].list
<1> DEFINE s == op[r]
           x == s.id
           D == Deleted(x)
<1>1. /\ HoldsRoot(s) /\ HoldsBelow(row, s) /\ HasCollected(row, s)
      /\ s.todo = 0 /\ x \in Ids /\ x \in Removable /\ x \in s.locks /\ s.locks \subseteq s.list
  <2>1. Removal(s)
    BY DEF Removal
  <2>2. HoldsRoot(s) /\ HoldsBelow(row, s) /\ HasCollected(row, s)
    BY <2>1 DEF PortfolioIInv, OperationsStand, RemovalStands
  <2> QED
    BY <2>1, <2>2, IInvTables, OperationTypes DEF HoldsRoot
<1> HIDE DEF s
<1>2. PortfolioTypeOK /\ s.at = "collected"
  BY IInvTables DEF s
\* The rows that are locked.
<1>3. /\ x \in Developments => \A y \in UnitTypes \cup Units \cup PriceTables : x \in Parents(y) => y \in s.locks
      /\ x \in Investments => \A y \in Allocations : x \in Parents(y) => y \in s.locks
      /\ x \in UnitTypes => \A y \in Units : x \in Parents(y) => y \in s.locks
  <2>1. \A k \in 1..Len(Plan(x)) : \A y \in Plan(x)[k] : x \in Parents(y) => y \in s.locks
    <3>1. Len(Plan(x)) \in 0..3
      BY <1>1, PlanTypes
    <3>2. Len(Plan(x)) - s.todo = Len(Plan(x))
      BY <1>1, <3>1
    <3> QED
      BY <1>1, <3>2, ParentsAre DEF HoldsBelow
  <2>2. ASSUME x \in Developments
        PROVE  \A y \in UnitTypes \cup Units \cup PriceTables : x \in Parents(y) => y \in s.locks
    <3>1. Plan(x) = <<UnitTypes, Units, PriceTables>>
      BY <2>2, PlanIs
    <3>2. /\ Len(Plan(x)) = 3
          /\ Plan(x)[1] = UnitTypes /\ Plan(x)[2] = Units /\ Plan(x)[3] = PriceTables
      BY <3>1
    <3>3. 1 \in 1..3 /\ 2 \in 1..3 /\ 3 \in 1..3
      OBVIOUS
    <3> QED
      BY <2>1, <3>2, <3>3
  <2>3. ASSUME x \in Investments PROVE \A y \in Allocations : x \in Parents(y) => y \in s.locks
    <3>1. Len(Plan(x)) = 1 /\ Plan(x)[1] = Allocations /\ 1 \in 1..1
      BY <2>3, PlanIs
    <3> QED
      BY <2>1, <3>1
  <2>4. ASSUME x \in UnitTypes PROVE \A y \in Units : x \in Parents(y) => y \in s.locks
    <3>1. Len(Plan(x)) = 1 /\ Plan(x)[1] = Units /\ 1 \in 1..1
      BY <2>4, PlanIs
    <3> QED
      BY <2>1, <3>1
  <2> QED
    BY <2>2, <2>3, <2>4
\* The rows that were read without a lock.
<1>4. ASSUME NEW y \in UnitPrices \cup Returns, NEW p \in Parents(y), p \in s.locks,
             x \notin Companies \cup UnitTypes
      PROVE  y \in s.list
  <2>1. p \in Refs(row, y)
    BY <1>4, ParentsAre
  <2>2. Collects(x)
    BY <1>4 DEF Collects
  <2> QED
    BY <1>1, <1>2, <1>4, <2>1, <2>2 DEF HasCollected
<1>5. \A y \in Below({x}) : y \in s.list /\ (y \in Units \cup PriceTables \cup Allocations => y \in s.locks)
  <2> SUFFICES ASSUME NEW y \in Below({x})
               PROVE  y \in s.list /\ (y \in Units \cup PriceTables \cup Allocations => y \in s.locks)
    OBVIOUS
  <2>1. y \in Ids /\ x \in Parents(y) /\ Cascade(y, x)
    BY <1>2, BelowIs
  <2>2. CASE y \in UnitTypes \cup Units \cup PriceTables /\ x \in Developments
    BY <1>1, <1>3, <2>1, <2>2
  <2>3. CASE y \in UnitPrices /\ x \in Units \cup PriceTables
    BY <1>1, <1>4, <2>1, <2>3, TablesApart
  <2>4. CASE y \in Allocations /\ x \in Investments
    BY <1>1, <1>3, <2>1, <2>4
  <2>5. CASE y \in Returns /\ x \in Allocations
    BY <1>1, <1>4, <2>1, <2>5, TablesApart
  <2> QED
    BY <2>1, <2>2, <2>3, <2>4, <2>5 DEF Cascade
<1>6. \A y \in Below(Below({x})) : y \in s.list
  <2> SUFFICES ASSUME NEW y \in Below(Below({x})) PROVE y \in s.list
    OBVIOUS
  <2>1. PICK p \in Parents(y) : p \in Below({x}) /\ Cascade(y, p)
    BY <1>2, BelowIs
  <2>2. Cascade(p, x)
    BY <1>2, <2>1, BelowIs
  <2>3. /\ y \in UnitPrices \cup Returns /\ p \in Units \cup PriceTables \cup Allocations
        /\ x \notin Companies \cup UnitTypes
    BY <2>1, <2>2, TablesApart DEF Cascade
  <2> QED
    BY <1>4, <1>5, <2>1, <2>3
<1>7. D \subseteq s.list
  BY <1>1, <1>2, <1>5, <1>6, DeletedIs
<1>8. ASSUME x \in UnitTypes, NEW u \in Units, u \in Detached(D)
      PROVE  u \in s.list
  <2>1. ASSUME NEW y PROVE y \notin Below({x})
    BY <1>2, <1>8, BelowIs, TablesApart DEF Cascade
  <2>2. ASSUME NEW y PROVE y \notin Below(Below({x}))
    BY <1>2, <2>1, BelowIs
  <2>3. D = {x}
    BY <1>1, <1>2, <2>1, <2>2, DeletedIs
  <2> QED
    BY <1>1, <1>3, <1>8, <2>3 DEF Detached
<1> QED
  BY <1>7, <1>8 DEF ToAudit, s

LEMMA RemoveCommitKeepsInv ==
  ASSUME PortfolioIInv, NEW r \in Operations, RemoveCommit(r)
  PROVE  PortfolioIInv'
<1> DEFINE x == op[r].id
           D == Deleted(x)
<1>1. /\ op[r].at = "collected" /\ x \in Ids /\ End(r) /\ row' = After(D)
      /\ ~Locked(D \cup Detached(D), r)
      /\ silent' = silent \cup (ToAudit(x, D) \ op[r].list)
  BY DEF RemoveCommit, Present
<1>2. silent' = {}
  BY <1>1, CommitIsListed DEF PortfolioIInv
<1>3. TablesStand(row')
  BY <1>1, IInvTables, RemovalKeepsTables
<1>4. /\ op' \in [Operations -> OperationState]
      /\ op'[r] = NoOp
      /\ \A q \in Operations : q # r => op'[q] = op[q]
      /\ \A q, p \in Operations : q # p => LocksOf(q)' \cap LocksOf(p)' = {}
  BY <1>1, EndIs
<1>5. ASSUME NEW q \in Operations
      PROVE  RemovalStands(row', op'[q]) /\ EditStands(row', op'[q]) /\ BudgetStands(op'[q])
  <2>1. CASE q = r
    BY <1>4, <2>1, NoOpStands
  <2>2. CASE q # r
    <3>1. RemovalStands(row', op[q])
      <4>1. RemovalStands(row, op[q]) /\ (Removal(op[q]) => op[q].todo \in 0..3)
        BY IInvTables, OperationTypes DEF PortfolioIInv, OperationsStand
      <4>2. \A y \in Ids : \A p : p \in Refs(row', y) => p \in Refs(row, y)
        BY <1>1, IInvTables, AfterRefs, ParentsAre
      <4> QED
        BY <4>1, <4>2, RemovalStaysStanding
    <3>2. EditStands(row, op[q]) /\ BudgetStands(op[q])
      BY DEF PortfolioIInv, OperationsStand
    <3>3. EditStands(row', op[q])
      <4> SUFFICES ASSUME op[q].at = "edit" PROVE EditStands(row', op[q])
        BY DEF EditStands
      <4> DEFINE d == op[q].id
      <4>1. /\ d \in Developments /\ Here(d) /\ op[q].locks = {d}
            /\ op[q].launch = row[d].launch /\ op[q].delivery = row[d].delivery
        BY <3>2, IInvTables, OperationTypes DEF EditStands, Here
      <4>2. d \notin D
        BY <1>1, <2>2, <4>1 DEF Locked, LocksOf
      <4>3. row'[d] = [company |-> Cleared(row[d].company, D), launch |-> row[d].launch,
                       delivery |-> row[d].delivery]
        BY <1>1, <4>1, <4>2, IInvTables, DeletedHasNoNull, AfterDevelopment
      <4>4. row'[d].launch = row[d].launch /\ row'[d].delivery = row[d].delivery
        BY <4>3
      <4>5. row'[d] # Absent
        BY <4>3 DEF Absent
      <4> QED
        BY <4>1, <4>4, <4>5 DEF EditStands
    <3> QED
      BY <1>4, <2>2, <3>1, <3>2, <3>3
  <2> QED
    BY <2>1, <2>2
<1> QED
  BY <1>2, <1>3, <1>4, <1>5, IInvNext

-----------------------------------------------------------------------------
(* The theorems.                                                           *)

\* A step that leaves the rows alone.
OperationMoves(r) ==
  \/ Abort(r)
  \/ \E d \in Developments : EditDevelopment(r, d)
  \/ \E l \in Allocations, new \in AllocationRow : CreateAllocation(r, l, new)
  \/ \E l \in Allocations, amount \in Shares : UpdateAllocation(r, l, amount)
  \/ \E i \in Investments, new \in InvestmentRow : UpdateInvestment(r, i, new)
  \/ \E x \in Ids : RemoveBegin(r, x)
  \/ LockBelow(r)
  \/ Collect(r)

\* A step of one statement.
Statement ==
  \/ Create
  \/ \E u \in Units, type \in UnitTypes \cup {NULL} : UpdateUnitType(u, type)
  \/ \E u \in Units, history \in {"reserved", "sold"} : Take(u, history)
  \/ \E q \in Interests, new \in InterestRow : UpsertInterest(q, new)
  \/ \E q \in Interests : RemoveInterest(q)
  \/ \E x \in Ids : RemoveLeaf(x)
  \/ \E l \in Allocations, d \in Developments \cup {NULL} : MoveAllocation(l, d)

Commits(r) ==
  \E company \in Companies \cup {NULL, Keep},
     launch \in Dates \cup {Keep}, delivery \in Dates \cup {Keep} :
    CommitDevelopment(r, company, launch, delivery)

LEMMA StepCases ==
  ASSUME [PortfolioNext]_portfolioVars
  PROVE  \/ UNCHANGED portfolioVars
         \/ Statement
         \/ \E r \in Operations :
              OperationMoves(r) \/ Commits(r) \/ WriteBudget(r) \/ RemoveCommit(r)
BY DEF PortfolioNext, Statement, OperationMoves, Commits

LEMMA StatementWrites ==
  ASSUME PortfolioIInv, Statement
  PROVE  WritesAlone
<1>1. PortfolioTypeOK /\ TablesStand(row)
  BY IInvTables
<1>2. CASE Create
  BY <1>1, <1>2, CreateWrites
<1>3. ASSUME NEW u \in Units, NEW type \in UnitTypes \cup {NULL}, UpdateUnitType(u, type)
      PROVE  WritesAlone
  BY <1>1, <1>3, UpdateUnitTypeWrites
<1>4. ASSUME NEW u \in Units, NEW history \in {"reserved", "sold"}, Take(u, history)
      PROVE  WritesAlone
  BY <1>1, <1>4, TakeWrites
<1>5. ASSUME NEW q \in Interests, NEW new \in InterestRow, UpsertInterest(q, new)
      PROVE  WritesAlone
  BY <1>1, <1>5, UpsertInterestWrites
<1>6. ASSUME NEW q \in Interests, RemoveInterest(q)
      PROVE  WritesAlone
  BY <1>1, <1>6, LeafWrites DEF RemoveInterest
<1>7. ASSUME NEW x \in Ids, RemoveLeaf(x)
      PROVE  WritesAlone
  BY <1>1, <1>7, LeafWrites DEF RemoveLeaf
<1>8. ASSUME NEW l \in Allocations, NEW d \in Developments \cup {NULL}, MoveAllocation(l, d)
      PROVE  WritesAlone
  BY <1>1, <1>8, MoveAllocationWrites
<1> QED
  BY <1>2, <1>3, <1>4, <1>5, <1>6, <1>7, <1>8 DEF Statement

LEMMA CommitsWrite ==
  ASSUME PortfolioIInv, NEW r \in Operations, Commits(r) \/ WriteBudget(r)
  PROVE  WritesAndEnds(r)
<1>1. PortfolioTypeOK /\ TablesStand(row) /\ OperationsStand
  BY IInvTables DEF PortfolioIInv
<1>2. ASSUME NEW company \in Companies \cup {NULL, Keep},
             NEW launch \in Dates \cup {Keep}, NEW delivery \in Dates \cup {Keep},
             CommitDevelopment(r, company, launch, delivery)
      PROVE  WritesAndEnds(r)
  BY <1>1, <1>2, CommitDevelopmentWrites
<1>3. CASE WriteBudget(r)
  BY <1>1, <1>3, WriteBudgetWrites
<1> QED
  BY <1>2, <1>3 DEF Commits

LEMMA OperationMovesKeepsInv ==
  ASSUME PortfolioIInv, NEW r \in Operations, OperationMoves(r)
  PROVE  PortfolioIInv' /\ UNCHANGED row
<1>1. PortfolioIInv'
  BY AbortKeepsInv, EditDevelopmentKeepsInv, CreateAllocationKeepsInv, UpdateAllocationKeepsInv,
     UpdateInvestmentKeepsInv, RemoveBeginKeepsInv, LockBelowKeepsInv, CollectKeepsInv
     DEF OperationMoves
<1>2. UNCHANGED row
  BY DEF OperationMoves, Abort, EditDevelopment, CreateAllocation, UpdateAllocation,
         UpdateInvestment, Check, RemoveBegin, LockBelow, Collect
<1> QED
  BY <1>1, <1>2

LEMMA PortfolioInitInv ==
  ASSUME PortfolioInit
  PROVE  PortfolioIInv
<1>1. \A x \in Ids : row[x] = Absent
  BY DEF PortfolioInit
<1>2. TablesStand(row)
  <2>1. Typed(row)
    <3>1. \A x \in Ids : Absent \in Rows[x]
      BY RowsAre DEF Ids
    <3> QED
      BY <1>1, <3>1 DEF PortfolioInit, Typed
  <2> QED
    BY <1>1, <2>1 DEF TablesStand, Whole, Agrees, Ordered, Refs, Ids
<1>3. \A r \in Operations : op[r] = NoOp
  BY DEF PortfolioInit
<1>4. \A r \in Operations : LocksOf(r) = {}
  BY <1>3 DEF LocksOf, NoOp
<1>5. OperationsStand
  BY <1>3, NoOpStands DEF OperationsStand
<1>6. PortfolioTypeOK
  BY <1>2 DEF PortfolioTypeOK, PortfolioInit, OperationState, TablesStand, Typed
<1> QED
  BY <1>2, <1>4, <1>5, <1>6, TablesSay DEF PortfolioIInv, LocksApart, PortfolioInit, TablesStand

LEMMA PortfolioUnchanged ==
  ASSUME PortfolioIInv, UNCHANGED portfolioVars
  PROVE  PortfolioIInv'
<1>1. TablesStand(row') /\ op' \in [Operations -> OperationState] /\ silent' = {}
  BY IInvTables DEF portfolioVars, PortfolioIInv, PortfolioTypeOK
<1>2. \A q \in Operations : LocksOf(q)' = LocksOf(q)
  BY DEF LocksOf, portfolioVars
<1>3. \A q, r \in Operations : q # r => LocksOf(q)' \cap LocksOf(r)' = {}
  BY <1>2 DEF PortfolioIInv, LocksApart
<1>4. \A r \in Operations :
        RemovalStands(row', op'[r]) /\ EditStands(row', op'[r]) /\ BudgetStands(op'[r])
  BY DEF portfolioVars, PortfolioIInv, OperationsStand
<1> QED
  BY <1>1, <1>3, <1>4, IInvNext

LEMMA PortfolioNextInv ==
  ASSUME PortfolioIInv, [PortfolioNext]_portfolioVars
  PROVE  PortfolioIInv'
<1>1. CASE Statement
  BY <1>1, StatementWrites, WritesAloneKeepsInv
<1>2. ASSUME NEW r \in Operations, OperationMoves(r)
      PROVE  PortfolioIInv'
  BY <1>2, OperationMovesKeepsInv
<1>3. ASSUME NEW r \in Operations, Commits(r) \/ WriteBudget(r)
      PROVE  PortfolioIInv'
  BY <1>3, CommitsWrite, WritesAndEndsKeepsInv
<1>4. ASSUME NEW r \in Operations, RemoveCommit(r)
      PROVE  PortfolioIInv'
  BY <1>4, RemoveCommitKeepsInv
<1> QED
  BY <1>1, <1>2, <1>3, <1>4, StepCases, PortfolioUnchanged

\* Of every request in flight, what it has read and locked still stands.
THEOREM PortfolioInductive == PortfolioSpec => []PortfolioIInv
<1>1. PortfolioInit => PortfolioIInv
  BY PortfolioInitInv
<1>2. PortfolioIInv /\ [PortfolioNext]_portfolioVars => PortfolioIInv'
  BY PortfolioNextInv
<1> QED
  BY <1>1, <1>2, PTL DEF PortfolioSpec

\* CascadeAudited: whatever other requests do between the statements of a
\* removal, it audits all that it takes with it (developments.service.ts).
THEOREM CascadesAreAudited == PortfolioSpec => []CascadeAudited
<1>1. PortfolioIInv => CascadeAudited
  BY DEF PortfolioIInv, CascadeAudited
<1> QED
  BY <1>1, PortfolioInductive, PTL

DetachesNothing ==
  \A x \in Developments \cup Allocations :
    \A y \in (Companies \cup Developments) \cap Parents(x) :
      row'[y] # Absent \/ row'[x] = Absent

LEMMA StepDetachesNothing ==
  ASSUME PortfolioIInv, [PortfolioNext]_portfolioVars
  PROVE  DetachesNothing
<1> SUFFICES ASSUME NEW x \in Developments \cup Allocations,
                    NEW y \in (Companies \cup Developments) \cap Parents(x)
             PROVE  row'[y] # Absent \/ row'[x] = Absent
  BY DEF DetachesNothing
<1>1. x \in Ids /\ y \in Ids /\ row[y] # Absent /\ PortfolioTypeOK /\ Typed(row)
  BY IInvTables, ParentsAre DEF TablesStand, Whole, Ids
<1>2. CASE UNCHANGED row
  BY <1>1, <1>2
<1>3. ASSUME NEW z, NEW new, Puts(z, new)
      PROVE  row'[y] # Absent
  <2>1. y # z \/ new # Absent
    BY <1>3, TablesApart DEF Puts, Fits
  <2> QED
    BY <1>1, <1>3, <2>1 DEF Puts, Typed
<1>4. ASSUME NEW r \in Operations, RemoveCommit(r)
      PROVE  row'[y] # Absent
  <2> DEFINE root == op[r].id
  <2>1. root \in Ids /\ row' = After(Deleted(root)) /\ op[r].at = "collected"
    BY <1>4 DEF RemoveCommit, Present
  <2>2. StillNone(row, op[r])
    BY <2>1 DEF PortfolioIInv, OperationsStand, RemovalStands, Removal
  <2>3. y \in Deleted(root) => y = root
    BY <1>1, <2>1, DeletedRoots
  <2>4. y \in Refs(row, x)
    BY ParentsAre
  <2>5. y # root
    <3> SUFFICES ASSUME y = root PROVE FALSE
      OBVIOUS
    <3>1. CASE x \in Developments
      <4>1. y \in Companies
        BY <1>1, <2>4, <3>1, RefTypes
      <4> QED
        BY <2>2, <2>4, <3>1, <4>1 DEF StillNone
    <3>2. CASE x \in Allocations
      <4>1. y \in Developments
        BY <1>1, <2>4, <3>2, RefTypes, TablesApart
      <4> QED
        BY <2>2, <2>4, <3>2, <4>1 DEF StillNone
    <3> QED
      BY <3>1, <3>2
  <2> QED
    BY <1>1, <2>1, <2>3, <2>5, AfterRefs DEF Here
<1>5. CASE Statement
  BY <1>3, <1>5, StatementWrites DEF WritesAlone
<1>6. ASSUME NEW r \in Operations, Commits(r) \/ WriteBudget(r)
      PROVE  row'[y] # Absent
  BY <1>3, <1>6, CommitsWrite DEF WritesAndEnds
<1> QED
  BY <1>2, <1>4, <1>5, <1>6, StepCases, OperationMovesKeepsInv DEF portfolioVars

\* RemovalDetachesNothing: no removal takes the company of a development or the
\* development of an allocation, however it races the edits that set them
\* (companies.remove, developments.remove).
THEOREM NothingIsDetached == PortfolioSpec => RemovalDetachesNothing
<1>1. PortfolioIInv /\ [PortfolioNext]_portfolioVars => [DetachesNothing]_portfolioVars
  BY StepDetachesNothing
<1> QED
  BY <1>1, PortfolioInductive, PTL DEF PortfolioSpec, RemovalDetachesNothing, DetachesNothing

-----------------------------------------------------------------------------
(* The reports of the capital.                                             *)

\* The allocations of L to investments of I.
Within(L, I) == {l \in L : row[l].investment \in I}

\* A column of the captations, and the other columns that are added up.
CaptationColumn(t) == [i \in Investments |-> Captation(i)[t]]
UnallocatedColumn == [i \in Investments |-> Unallocated(i)]
CapturedColumn == [d \in Developments |-> CapturedBy(d)]

LEMMA CaptationSum ==
  ASSUME NEW t, NEW S \in SUBSET Investments
  PROVE  MapThenSumSet(LAMBDA i : Captation(i)[t], S)
           = SumOf(CaptationColumn(t), S)
<1> DEFINE f == CaptationColumn(t)
           A(g) == g = [s \in SUBSET S |->
                          IF s = {} THEN 0 ELSE Captation(Chosen(s))[t] + g[s \ {Chosen(s)}]]
<1>1. \A s \in SUBSET S : s # {} => f[Chosen(s)] = Captation(Chosen(s))[t]
  BY ChosenMember DEF CaptationColumn
<1>2. ASSUME NEW g
      PROVE  A(g) <=> Adds(g, f, S)
  <2> HIDE DEF f
  <2>1. \A s \in SUBSET S :
          (IF s = {} THEN 0 ELSE Captation(Chosen(s))[t] + g[s \ {Chosen(s)}])
            = IF s = {} THEN 0 ELSE f[Chosen(s)] + g[s \ {Chosen(s)}]
    BY <1>1
  <2> QED
    BY <2>1 DEF Adds
<1>3. MapThenSumSet(LAMBDA i : Captation(i)[t], S) = (CHOOSE g : A(g))[S]
  BY DEF MapThenSumSet, MapThenFoldSet, Chosen
<1>4. (CHOOSE g : A(g)) = (CHOOSE g : Adds(g, f, S))
  <2> HIDE DEF A, f
  <2> QED
    BY <1>2
<1> QED
  BY <1>3, <1>4, SumOfIsAdds

LEMMA UnallocatedSum ==
  ASSUME NEW S \in SUBSET Investments
  PROVE  MapThenSumSet(Unallocated, S)
           = SumOf(UnallocatedColumn, S)
<1> DEFINE f == UnallocatedColumn
           A(g) == g = [s \in SUBSET S |->
                          IF s = {} THEN 0 ELSE Unallocated(Chosen(s)) + g[s \ {Chosen(s)}]]
<1>1. \A s \in SUBSET S : s # {} => f[Chosen(s)] = Unallocated(Chosen(s))
  BY ChosenMember DEF UnallocatedColumn
<1>2. ASSUME NEW g
      PROVE  A(g) <=> Adds(g, f, S)
  <2> HIDE DEF f
  <2>1. \A s \in SUBSET S :
          (IF s = {} THEN 0 ELSE Unallocated(Chosen(s)) + g[s \ {Chosen(s)}])
            = IF s = {} THEN 0 ELSE f[Chosen(s)] + g[s \ {Chosen(s)}]
    BY <1>1
  <2> QED
    BY <2>1 DEF Adds
<1>3. MapThenSumSet(Unallocated, S) = (CHOOSE g : A(g))[S]
  BY DEF MapThenSumSet, MapThenFoldSet, Chosen
<1>4. (CHOOSE g : A(g)) = (CHOOSE g : Adds(g, f, S))
  <2> HIDE DEF A, f
  <2> QED
    BY <1>2
<1> QED
  BY <1>3, <1>4, SumOfIsAdds

LEMMA CapturedSum ==
  ASSUME NEW S \in SUBSET Developments
  PROVE  MapThenSumSet(CapturedBy, S)
           = SumOf(CapturedColumn, S)
<1> DEFINE f == CapturedColumn
           A(g) == g = [s \in SUBSET S |->
                          IF s = {} THEN 0 ELSE CapturedBy(Chosen(s)) + g[s \ {Chosen(s)}]]
<1>1. \A s \in SUBSET S : s # {} => f[Chosen(s)] = CapturedBy(Chosen(s))
  BY ChosenMember DEF CapturedColumn
<1>2. ASSUME NEW g
      PROVE  A(g) <=> Adds(g, f, S)
  <2> HIDE DEF f
  <2>1. \A s \in SUBSET S :
          (IF s = {} THEN 0 ELSE CapturedBy(Chosen(s)) + g[s \ {Chosen(s)}])
            = IF s = {} THEN 0 ELSE f[Chosen(s)] + g[s \ {Chosen(s)}]
    BY <1>1
  <2> QED
    BY <2>1 DEF Adds
<1>3. MapThenSumSet(CapturedBy, S) = (CHOOSE g : A(g))[S]
  BY DEF MapThenSumSet, MapThenFoldSet, Chosen
<1>4. (CHOOSE g : A(g)) = (CHOOSE g : Adds(g, f, S))
  <2> HIDE DEF A, f
  <2> QED
    BY <1>2
<1> QED
  BY <1>3, <1>4, SumOfIsAdds

\* An amount in cents is half a cent off at most.
LEMMA RoundedAmount ==
  ASSUME NEW a \in Nat
  PROVE  /\ MoneyToCents(a) \in Nat
         /\ MoneyToCents(a) * (2 * Parts) - a * 2 <= Parts
         /\ a * 2 - MoneyToCents(a) * (2 * Parts) <= Parts
<1>1. /\ Parts \in Nat \ {0}
      /\ a \div Parts \in Nat
      /\ a % Parts \in Nat
  BY PartsAssumption, DivisionParts
<1>2. \/ MoneyToCents(a) = a \div Parts /\ 2 * (a % Parts) <= Parts
      \/ MoneyToCents(a) = (a \div Parts) + 1 /\ 2 * (a % Parts) >= Parts
  BY <1>1 DEF MoneyToCents, AboveHalf, AtHalf
<1> QED
  BY <1>1, <1>2, NearestWhole

LEMMA CapitalRows ==
  ASSUME Typed(row)
  PROVE  /\ Invested \in SUBSET Capital /\ \A i \in Invested : Here(i)
         /\ AllAllocations \in SUBSET Capital /\ \A l \in AllAllocations : Here(l)
         /\ \A l \in AllAllocations :
              /\ row[l].investment \in Investments
              /\ row[l].development \in Developments \cup {NULL}
         /\ \A x \in Invested \cup AllAllocations :
              /\ AmountsOf(row)[x] \in Nat
              /\ CentsOf(row)[x] \in Nat
              /\ CentsOf(row)[x] * (2 * Parts) - AmountsOf(row)[x] * 2 <= Parts
              /\ AmountsOf(row)[x] * 2 - CentsOf(row)[x] * (2 * Parts) <= Parts
         /\ IsFiniteSet(Invested) /\ IsFiniteSet(AllAllocations)
<1>1. /\ Invested \in SUBSET Capital /\ \A i \in Invested : Here(i)
      /\ AllAllocations \in SUBSET Capital /\ \A l \in AllAllocations : Here(l)
  BY DEF Invested, AllAllocations, Capital, Present
<1>2. ASSUME NEW x \in Invested \cup AllAllocations
      PROVE  /\ AmountsOf(row)[x] \in Nat
             /\ CentsOf(row)[x] \in Nat
             /\ CentsOf(row)[x] * (2 * Parts) - AmountsOf(row)[x] * 2 <= Parts
             /\ AmountsOf(row)[x] * 2 - CentsOf(row)[x] * (2 * Parts) <= Parts
  <2>1. AmountsOf(row)[x] \in Nat
    BY <1>1, AmountsAreNaturals DEF Here
  <2>2. CentsOf(row)[x] = MoneyToCents(AmountsOf(row)[x])
    BY <1>1 DEF CentsOf, AmountsOf
  <2> QED
    BY <2>1, <2>2, RoundedAmount
<1>3. \A l \in AllAllocations : row[l] \in AllocationRow
  BY <1>1, RowTypes DEF Here, AllAllocations
<1>4. \A l \in AllAllocations :
        /\ row[l].investment \in Investments
        /\ row[l].development \in Developments \cup {NULL}
  BY <1>3 DEF AllocationRow
<1> QED
  BY <1>1, <1>2, <1>4, CapitalIsFinite

\* What some investments or some allocations add up to, in cents and unrounded.
LEMMA SumsOfSome ==
  ASSUME Typed(row), NEW S, S \subseteq Invested \/ S \subseteq AllAllocations
  PROVE  /\ Taken(S) = SumOf(AmountsOf(row), S)
         /\ InCents(S) = SumOf(CentsOf(row), S)
         /\ Taken(S) \in Int /\ InCents(S) \in Int
         /\ IsFiniteSet(S) /\ Cardinality(S) \in Nat
<1>1. S \in SUBSET Capital /\ \A l \in S : Here(l)
  BY CapitalRows
<1>2. IsFiniteSet(S) /\ Cardinality(S) \in Nat
  BY <1>1, CapitalIsFinite, FS_CardinalityType
<1>3. \A l \in S : AmountsOf(row)[l] \in Int /\ CentsOf(row)[l] \in Int
  BY CapitalRows
<1>4. SumOf(AmountsOf(row), S) \in Int /\ SumOf(CentsOf(row), S) \in Int
  BY <1>2, <1>3, SumType
<1> QED
  BY <1>1, <1>2, <1>4, TakenIs, InCentsIs

\* Sums of amounts that are half a cent apart at most.
LEMMA SumsRounded ==
  ASSUME NEW f, NEW g, NEW S, IsFiniteSet(S),
         \A x \in S : /\ f[x] \in Int /\ g[x] \in Int
                     /\ f[x] * (2 * Parts) - g[x] * 2 <= Parts
                     /\ g[x] * 2 - f[x] * (2 * Parts) <= Parts
  PROVE  RoundedFrom(SumOf(f, S), SumOf(g, S), Cardinality(S))
<1> DEFINE n == Cardinality(S)
<1>1. Parts \in Int /\ 2 * Parts \in Int /\ n \in Int
  BY PartsAssumption, FS_CardinalityType
<1>2. SumOf(f, S) * (2 * Parts) - SumOf(g, S) * 2 <= Parts * n
  <2> DEFINE p == 2 * Parts
  <2>1. p \in Int /\ 2 \in Int
    BY <1>1
  <2>2. \A x \in S : f[x] \in Int /\ g[x] \in Int /\ f[x] * p - g[x] * 2 <= Parts
    OBVIOUS
  <2> HIDE DEF p
  <2>3. SumOf(f, S) * p - SumOf(g, S) * 2 <= Parts * Cardinality(S)
    BY <1>1, <2>1, <2>2, SumScaled
  <2> QED
    BY <2>3 DEF p
<1>3. SumOf(g, S) * 2 - SumOf(f, S) * (2 * Parts) <= Parts * n
  BY <1>1, SumScaled
<1>4. SumOf(f, S) \in Int /\ SumOf(g, S) \in Int
  BY SumType
<1> HIDE DEF n
<1>5. \A c \in Int : c * (2 * Parts) = 2 * (c * Parts) /\ c * Parts \in Int
  BY <1>1
<1>6. Parts * n = n * Parts /\ n * Parts \in Int
  BY <1>1
<1>7. /\ 2 * (SumOf(f, S) * Parts - SumOf(g, S)) <= n * Parts
      /\ 2 * (SumOf(g, S) - SumOf(f, S) * Parts) <= n * Parts
  BY <1>2, <1>3, <1>4, <1>5, <1>6
<1> QED
  BY <1>7 DEF RoundedFrom, ToFloat, n

\* The one is the other to half a cent for each amount.
LEMMA SomeRounded ==
  ASSUME Typed(row), NEW S, S \subseteq Invested \/ S \subseteq AllAllocations
  PROVE  RoundedFrom(InCents(S), Taken(S), Cardinality(S))
<1>1. /\ InCents(S) = SumOf(CentsOf(row), S) /\ Taken(S) = SumOf(AmountsOf(row), S)
      /\ IsFiniteSet(S)
  BY SumsOfSome
<1>2. \A x \in S :
        /\ CentsOf(row)[x] \in Int /\ AmountsOf(row)[x] \in Int
        /\ CentsOf(row)[x] * (2 * Parts) - AmountsOf(row)[x] * 2 <= Parts
        /\ AmountsOf(row)[x] * 2 - CentsOf(row)[x] * (2 * Parts) <= Parts
  BY CapitalRows
<1>3. RoundedFrom(SumOf(CentsOf(row), S), SumOf(AmountsOf(row), S), Cardinality(S))
  BY <1>1, <1>2, SumsRounded
<1> QED
  BY <1>1, <1>3

\* What is rounded may be subtracted: the errors add up.
LEMMA RoundedDifference ==
  ASSUME NEW c \in Int, NEW d \in Int, NEW a \in Int, NEW b \in Int,
         NEW n \in Int, NEW m \in Int, RoundedFrom(c, a, n), RoundedFrom(d, b, m)
  PROVE  RoundedFrom(c - d, a - b, n + m)
<1>1. Parts \in Int
  BY PartsAssumption
<1>2. /\ c * Parts \in Int /\ d * Parts \in Int
      /\ n * Parts \in Int /\ m * Parts \in Int
      /\ (c - d) * Parts = c * Parts - d * Parts
      /\ (n + m) * Parts = n * Parts + m * Parts
  BY <1>1
<1> QED
  BY <1>2 DEF RoundedFrom, ToFloat

\* Every allocation is to a development or in cash.
LEMMA DevelopmentsOrCash ==
  ASSUME Typed(row), NEW L \in SUBSET AllAllocations
  PROVE  InCents(L) = InCents(ToDevelopments(L)) + InCents(ToCash(L))
<1>1. /\ ToDevelopments(L) \subseteq AllAllocations /\ ToCash(L) \subseteq AllAllocations
      /\ ToDevelopments(L) \cup ToCash(L) = L /\ ToDevelopments(L) \cap ToCash(L) = {}
  BY DEF ToDevelopments, ToCash
<1>2. \A x \in ToDevelopments(L) \cup ToCash(L) : CentsOf(row)[x] \in Int
  BY <1>1, CapitalRows
<1>3. SumOf(CentsOf(row), ToDevelopments(L) \cup ToCash(L))
        = SumOf(CentsOf(row), ToDevelopments(L)) + SumOf(CentsOf(row), ToCash(L))
  BY <1>1, <1>2, SumsOfSome, SumDisjoint
<1> QED
  BY <1>1, <1>3, SumsOfSome

\* Whatever is added up over allocations may be investment by investment.
LEMMA ByInvestment ==
  ASSUME Typed(row), NEW L \in SUBSET AllAllocations, NEW I \in SUBSET Invested,
         NEW f, \A x \in AllAllocations : f[x] \in Int,
         NEW G, \A i \in I : G[i] = SumOf(f, Within(L, {i}))
  PROVE  SumOf(G, I) = SumOf(f, Within(L, I))
<1> DEFINE g == [l \in Allocations |-> row[l].investment]
           S == Within(L, I)
<1>1. S \subseteq AllAllocations /\ IsFiniteSet(S) /\ IsFiniteSet(I)
  BY SumsOfSome DEF Within
<1>2. \A x \in S : f[x] \in Int
  BY <1>1
<1>3. \A x \in S : g[x] \in I
  BY DEF Within, AllAllocations
<1>4. \A i \in I : G[i] = SumOf(f, {x \in S : g[x] = i})
  <2> SUFFICES ASSUME NEW i \in I PROVE G[i] = SumOf(f, {x \in S : g[x] = i})
    OBVIOUS
  <2>1. {x \in S : g[x] = i} = Within(L, {i})
    BY DEF Within, AllAllocations
  <2> QED
    BY <2>1
<1>5. SumOf(G, I) = SumOf(f, S)
  <2> HIDE DEF g, S
  <2>1. Grouped(f, g, G, S, I)
    BY <1>1, <1>2, <1>3, <1>4 DEF Grouped
  <2> QED
    BY <2>1, SumGroups
<1> QED
  BY <1>5

\* So may what is in cents, and what is not.
LEMMA SumsByInvestment ==
  ASSUME Typed(row), NEW L \in SUBSET AllAllocations, NEW I \in SUBSET Invested, NEW G
  PROVE  /\ (\A i \in I : G[i] = InCents(Within(L, {i}))) => SumOf(G, I) = InCents(Within(L, I))
         /\ (\A i \in I : G[i] = Taken(Within(L, {i}))) => SumOf(G, I) = Taken(Within(L, I))
<1>1. \A J : Within(L, J) \subseteq AllAllocations
  BY DEF Within
<1>2. \A J : /\ InCents(Within(L, J)) = SumOf(CentsOf(row), Within(L, J))
             /\ Taken(Within(L, J)) = SumOf(AmountsOf(row), Within(L, J))
  BY <1>1, SumsOfSome
<1>3. \A x \in AllAllocations : CentsOf(row)[x] \in Int /\ AmountsOf(row)[x] \in Int
  BY CapitalRows
<1>4. ASSUME \A i \in I : G[i] = InCents(Within(L, {i}))
      PROVE  SumOf(G, I) = InCents(Within(L, I))
  <2>1. \A i \in I : G[i] = SumOf(CentsOf(row), Within(L, {i}))
    BY <1>2, <1>4
  <2>2. SumOf(G, I) = SumOf(CentsOf(row), Within(L, I))
    BY <1>3, <2>1, ByInvestment
  <2> QED
    BY <1>2, <2>2
<1>5. ASSUME \A i \in I : G[i] = Taken(Within(L, {i}))
      PROVE  SumOf(G, I) = Taken(Within(L, I))
  <2>1. \A i \in I : G[i] = SumOf(AmountsOf(row), Within(L, {i}))
    BY <1>2, <1>5
  <2>2. SumOf(G, I) = SumOf(AmountsOf(row), Within(L, I))
    BY <1>3, <2>1, ByInvestment
  <2> QED
    BY <1>2, <2>2
<1> QED
  BY <1>4, <1>5

LEMMA WithinSome ==
  ASSUME NEW I
  PROVE  /\ \A i : AllocationsOf(i) = Within(AllAllocations, {i})
         /\ \A i : ToDevelopments(AllocationsOf(i)) = Within(ToDevelopments(AllAllocations), {i})
         /\ \A i : ToCash(AllocationsOf(i)) = Within(ToCash(AllAllocations), {i})
         /\ ToDevelopments(Within(AllAllocations, I)) = Within(ToDevelopments(AllAllocations), I)
         /\ ToCash(Within(AllAllocations, I)) = Within(ToCash(AllAllocations), I)
         /\ AllAllocations \in SUBSET AllAllocations
         /\ ToDevelopments(AllAllocations) \in SUBSET AllAllocations
         /\ ToCash(AllAllocations) \in SUBSET AllAllocations
         /\ Within(AllAllocations, I) \in SUBSET AllAllocations
BY DEF AllocationsOf, Within, ToDevelopments, ToCash, AllAllocations

\* The four columns of a captation.
LEMMA CaptationIs ==
  ASSUME NEW i
  PROVE  /\ Captation(i)["total"] = MoneyToCents(row[i].amount)
         /\ Captation(i)["developments"] = InCents(Within(ToDevelopments(AllAllocations), {i}))
         /\ Captation(i)["cash"] = InCents(Within(ToCash(AllAllocations), {i}))
         /\ Captation(i)["unassigned"] = MoneyToCents(row[i].amount) - InCents(Within(AllAllocations, {i}))
BY WithinSome DEF Captation

\* What the captations of the investments of I add up to.
LEMMA CaptationTotals ==
  ASSUME Typed(row), NEW I \in SUBSET Invested
  PROVE  CaptationsReport(I) =
           [total        |-> InCents(I),
            developments |-> InCents(Within(ToDevelopments(AllAllocations), I)),
            cash         |-> InCents(Within(ToCash(AllAllocations), I)),
            unassigned   |-> InCents(I) - InCents(Within(AllAllocations, I))]
<1> DEFINE C(t) == SumOf(CaptationColumn(t), I)
<1>1. /\ I \in SUBSET Investments /\ I \in SUBSET Capital /\ IsFiniteSet(I)
      /\ \A i \in I : CentsOf(row)[i] \in Nat /\ CentsOf(row)[i] = MoneyToCents(row[i].amount)
  BY CapitalRows, SumsOfSome DEF Invested, CentsOf, Capital
<1>2. \A t : \A i \in I : CaptationColumn(t)[i] = Captation(i)[t]
  BY <1>1 DEF CaptationColumn
<1>3. CaptationsReport(I) = [t \in {"total", "developments", "cash", "unassigned"} |-> C(t)]
  BY <1>1, CaptationSum DEF CaptationsReport
<1>4. C("total") = InCents(I)
  <2>1. \A i \in I : CentsOf(row)[i] \in Int /\ CentsOf(row)[i] = CaptationColumn("total")[i]
    <3>1. \A i \in I : CaptationColumn("total")[i] = MoneyToCents(row[i].amount)
      BY <1>2, CaptationIs
    <3> QED
      BY <1>1, <3>1
  <2>2. SumOf(CentsOf(row), I) = C("total")
    BY <1>1, <2>1, SumSame
  <2> QED
    BY <2>2, SumsOfSome
<1>5. C("developments") = InCents(Within(ToDevelopments(AllAllocations), I))
  <2>1. \A i \in I : CaptationColumn("developments")[i]
                       = InCents(Within(ToDevelopments(AllAllocations), {i}))
    BY <1>2, CaptationIs
  <2> QED
    BY <2>1, SumsByInvestment, WithinSome
<1>6. C("cash") = InCents(Within(ToCash(AllAllocations), I))
  <2>1. \A i \in I : CaptationColumn("cash")[i] = InCents(Within(ToCash(AllAllocations), {i}))
    BY <1>2, CaptationIs
  <2> QED
    BY <2>1, SumsByInvestment, WithinSome
<1>7. C("unassigned") = InCents(I) - InCents(Within(AllAllocations, I))
  <2> DEFINE G == [i \in I |-> InCents(Within(AllAllocations, {i}))]
  <2>1. SumOf(G, I) = InCents(Within(AllAllocations, I))
    BY SumsByInvestment, WithinSome
  <2>2. \A i \in I : /\ CaptationColumn("unassigned")[i] \in Int /\ G[i] \in Int
                     /\ CentsOf(row)[i] = CaptationColumn("unassigned")[i] + G[i]
    <3> SUFFICES ASSUME NEW i \in I
                 PROVE  /\ CaptationColumn("unassigned")[i] \in Int /\ G[i] \in Int
                        /\ CentsOf(row)[i] = CaptationColumn("unassigned")[i] + G[i]
      OBVIOUS
    <3>1. G[i] \in Int
      BY SumsOfSome, WithinSome
    <3>2. CaptationColumn("unassigned")[i] = CentsOf(row)[i] - G[i]
      BY <1>1, <1>2, CaptationIs
    <3> QED
      BY <1>1, <3>1, <3>2
  <2> HIDE DEF G
  <2>3. SumOf(CentsOf(row), I) = C("unassigned") + SumOf(G, I)
    BY <1>1, <2>2, SumPlus
  <2>4. C("unassigned") \in Int /\ SumOf(G, I) \in Int
    BY <1>1, <2>2, SumType
  <2>5. SumOf(CentsOf(row), I) = InCents(I)
    BY SumsOfSome
  <2> QED
    BY <2>1, <2>3, <2>4, <2>5
<1> QED
  BY <1>3, <1>4, <1>5, <1>6, <1>7

\* No allocation is without its investment.
LEMMA AllWithin ==
  ASSUME Typed(row), NoDangling
  PROVE  /\ \A l \in AllAllocations : row[l].investment \in Invested
         /\ \A l \in AllAllocations :
              row[l].development # NULL => row[l].development \in Developments \cap Present
         /\ \A L \in SUBSET AllAllocations : Within(L, Invested) = L
<1>1. \A l \in AllAllocations : Parents(l) = {row[l].investment, row[l].development} \ {NULL}
  BY CapitalRows, RefersToIs DEF Parents, AllAllocations
<1>2. NULL \notin Investments
  BY FieldAssumption DEF Ids
<1>3. \A l \in AllAllocations : \A y \in Parents(l) : Here(y)
  BY DEF NoDangling, AllAllocations, Present
<1>4. \A l \in AllAllocations : row[l].investment \in Invested
  BY <1>1, <1>2, <1>3, CapitalRows DEF Invested, Present, Ids
<1>5. \A l \in AllAllocations :
        row[l].development # NULL => row[l].development \in Developments \cap Present
  BY <1>1, <1>3, CapitalRows DEF Present, Ids
<1> QED
  BY <1>4, <1>5 DEF Within

\* Captations, and the overview but for the roundings.
LEMMA OverviewAgrees ==
  ASSUME Typed(row), NoDangling
  PROVE  LET report == CaptationsReport(Invested) IN
         /\ report = [total        |-> InCents(Invested),
                      developments |-> InCents(ToDevelopments(AllAllocations)),
                      cash         |-> InCents(ToCash(AllAllocations)),
                      unassigned   |-> InCents(Invested) - InCents(AllAllocations)]
         /\ report.total = report.developments + report.cash + report.unassigned
         /\ report.cash + report.unassigned
              = InCents(Invested) - InCents(ToDevelopments(AllAllocations))
         /\ RoundedFrom(report.total, Overview.total, Cardinality(Invested))
         /\ RoundedFrom(report.developments, Overview.developments,
                        Cardinality(ToDevelopments(AllAllocations)))
         /\ RoundedFrom(report.cash, Overview.cash, Cardinality(ToCash(AllAllocations)))
<1> DEFINE report == CaptationsReport(Invested)
<1>1. report = [total        |-> InCents(Invested),
                developments |-> InCents(ToDevelopments(AllAllocations)),
                cash         |-> InCents(ToCash(AllAllocations)),
                unassigned   |-> InCents(Invested) - InCents(AllAllocations)]
  BY CaptationTotals, AllWithin, WithinSome
<1> HIDE DEF report
<1>2. InCents(AllAllocations)
        = InCents(ToDevelopments(AllAllocations)) + InCents(ToCash(AllAllocations))
  BY DevelopmentsOrCash
<1>3. /\ InCents(ToDevelopments(AllAllocations)) \in Int
      /\ InCents(ToCash(AllAllocations)) \in Int
      /\ InCents(Invested) \in Int
  BY SumsOfSome, WithinSome
<1>4. /\ report.total = report.developments + report.cash + report.unassigned
      /\ report.cash + report.unassigned
           = InCents(Invested) - InCents(ToDevelopments(AllAllocations))
  BY <1>1, <1>2, <1>3
<1>5. /\ Overview.total = Taken(Invested)
      /\ Overview.developments = Taken(ToDevelopments(AllAllocations))
      /\ Overview.cash = Taken(ToCash(AllAllocations))
  BY DEF Overview
<1>6. /\ RoundedFrom(InCents(Invested), Taken(Invested), Cardinality(Invested))
      /\ RoundedFrom(InCents(ToDevelopments(AllAllocations)),
                     Taken(ToDevelopments(AllAllocations)),
                     Cardinality(ToDevelopments(AllAllocations)))
      /\ RoundedFrom(InCents(ToCash(AllAllocations)), Taken(ToCash(AllAllocations)),
                     Cardinality(ToCash(AllAllocations)))
  BY SomeRounded, WithinSome
<1> QED
  BY <1>1, <1>4, <1>5, <1>6 DEF report

\* Captations and the positions of an investor.
LEMMA PositionAgrees ==
  ASSUME Typed(row), NEW I \in SUBSET Invested
  PROVE  Position(I, NULL) = CaptationsReport(I)
<1>1. {l \in AllAllocations :
         row[l].investment \in I /\ (NULL # NULL => row[l].development = NULL)}
        = Within(AllAllocations, I)
  BY DEF Within
<1>2. Position(I, NULL) =
        [total        |-> InCents(I),
         developments |-> InCents(ToDevelopments(Within(AllAllocations, I))),
         cash         |-> InCents(ToCash(Within(AllAllocations, I))),
         unassigned   |-> InCents(I) - InCents(Within(AllAllocations, I))]
  BY <1>1 DEF Position
<1> QED
  BY <1>2, WithinSome, CaptationTotals

\* Allocations are added up development by development.
LEMMA ByDevelopment ==
  ASSUME Typed(row), NoDangling, NEW G,
         \A d \in Developments \cap Present :
           G[d] = InCents({l \in AllAllocations : row[l].development = d})
  PROVE  SumOf(G, Developments \cap Present) = InCents(ToDevelopments(AllAllocations))
<1> DEFINE K == Developments \cap Present
           S == ToDevelopments(AllAllocations)
           g == [l \in Allocations |-> row[l].development]
           f == CentsOf(row)
<1>1. S \subseteq AllAllocations /\ IsFiniteSet(S) /\ IsFiniteSet(K)
  BY SumsOfSome, CapitalAssumption, FS_Subset DEF ToDevelopments
<1>2. \A x \in S : f[x] \in Int
  BY <1>1, CapitalRows
<1>3. \A x \in S : g[x] \in K
  BY <1>1, AllWithin DEF ToDevelopments, AllAllocations
<1>4. \A d \in K : G[d] = SumOf(f, {x \in S : g[x] = d})
  <2> SUFFICES ASSUME NEW d \in K PROVE G[d] = SumOf(f, {x \in S : g[x] = d})
    OBVIOUS
  <2>1. d # NULL
    BY FieldAssumption DEF Ids
  <2>2. {x \in S : g[x] = d} = {l \in AllAllocations : row[l].development = d}
    BY <2>1 DEF ToDevelopments, AllAllocations
  <2>3. {l \in AllAllocations : row[l].development = d} \subseteq AllAllocations
    OBVIOUS
  <2> QED
    BY <2>2, <2>3, SumsOfSome
<1>5. SumOf(G, K) = SumOf(f, S)
  <2> HIDE DEF f, g, S, K
  <2>1. Grouped(f, g, G, S, K)
    BY <1>1, <1>2, <1>3, <1>4 DEF Grouped
  <2> QED
    BY <2>1, SumGroups
<1> QED
  BY <1>1, <1>5, SumsOfSome

\* What the developments captured is what is not in cash.
LEMMA CapturedAgrees ==
  ASSUME Typed(row), NoDangling
  PROVE  MapThenSumSet(CapturedBy, Developments \cap Present)
           = InCents(ToDevelopments(AllAllocations))
<1> DEFINE K == Developments \cap Present
<1>1. \A d \in K : CapturedColumn[d] = InCents({l \in AllAllocations : row[l].development = d})
  BY DEF CapturedColumn, CapturedBy
<1>2. SumOf(CapturedColumn, K) = InCents(ToDevelopments(AllAllocations))
  BY <1>1, ByDevelopment
<1>3. K \in SUBSET Developments
  OBVIOUS
<1> HIDE DEF K
<1>4. MapThenSumSet(CapturedBy, K) = SumOf(CapturedColumn, K)
  BY <1>3, CapturedSum
<1> QED
  BY <1>2, <1>4 DEF K

\* The positions in one development.
LEMMA CapturedPosition ==
  ASSUME Typed(row), NoDangling, NEW d \in Developments \cap Present
  PROVE  Position(Invested, d) = [total |-> CapturedBy(d), developments |-> CapturedBy(d),
                                  cash |-> 0, unassigned |-> 0]
<1> DEFINE L == {l \in AllAllocations : row[l].development = d}
<1>1. d # NULL
  BY FieldAssumption DEF Ids
<1>2. {l \in AllAllocations :
         row[l].investment \in Invested /\ (d # NULL => row[l].development = d)} = L
  BY <1>1, AllWithin
<1>3. ToDevelopments(L) = L /\ ToCash(L) = {}
  BY <1>1 DEF ToDevelopments, ToCash
<1>4. Position(Invested, d) = [total |-> InCents(L), developments |-> InCents(ToDevelopments(L)),
                               cash |-> InCents(ToCash(L)), unassigned |-> 0]
  BY <1>1, <1>2 DEF Position
<1>5. InCents({}) = 0
  BY SumsOfSome, SumEmpty
<1> QED
  BY <1>3, <1>4, <1>5 DEF CapturedBy

\* What withComputedAmounts leaves unallocated, investment by investment.
LEMMA UnallocatedIs ==
  ASSUME Typed(row), NoDangling
  PROVE  MapThenSumSet(Unallocated, Invested)
           = Taken(Invested) - Taken(ToDevelopments(AllAllocations))
<1> DEFINE D == ToDevelopments(AllAllocations)
           G == [i \in Invested |-> Taken(Within(D, {i}))]
           f == AmountsOf(row)
<1>1. /\ Invested \in SUBSET Investments /\ IsFiniteSet(Invested)
      /\ \A i \in Invested : f[i] \in Nat /\ f[i] = row[i].amount
  BY CapitalRows DEF Invested, AmountsOf, Capital
<1>2. ASSUME NEW i \in Invested
      PROVE  /\ UnallocatedColumn[i] \in Int /\ G[i] \in Int
             /\ f[i] = UnallocatedColumn[i] + G[i]
  <2>1. UnallocatedColumn[i] = row[i].amount - Taken(Within(D, {i}))
    BY <1>1, WithinSome DEF UnallocatedColumn, Unallocated
  <2>2. Within(D, {i}) \subseteq AllAllocations
    BY DEF Within, ToDevelopments
  <2>3. Taken(Within(D, {i})) \in Int /\ G[i] = Taken(Within(D, {i}))
    BY <2>2, SumsOfSome
  <2> HIDE DEF f, G, D
  <2> QED
    BY <1>1, <2>1, <2>3
<1>3. SumOf(G, Invested) = Taken(D)
  <2>1. SumOf(G, Invested) = Taken(Within(D, Invested))
    BY WithinSome, SumsByInvestment
  <2> QED
    BY <2>1, AllWithin, WithinSome
<1>4. Taken(Invested) = SumOf(f, Invested)
  BY SumsOfSome
<1> HIDE DEF f, G, D
<1>5. SumOf(f, Invested) = SumOf(UnallocatedColumn, Invested) + SumOf(G, Invested)
  BY <1>1, <1>2, SumPlus
<1>6. SumOf(UnallocatedColumn, Invested) \in Int /\ SumOf(G, Invested) \in Int
  BY <1>1, <1>2, SumType
<1>7. MapThenSumSet(Unallocated, Invested) = SumOf(UnallocatedColumn, Invested)
  BY <1>1, UnallocatedSum
<1> QED
  BY <1>3, <1>4, <1>5, <1>6, <1>7 DEF D

\* It is in cash or unassigned, but for the roundings.
LEMMA UnallocatedAgrees ==
  ASSUME Typed(row), NoDangling
  PROVE  RoundedFrom(CaptationsReport(Invested).cash + CaptationsReport(Invested).unassigned,
                     MapThenSumSet(Unallocated, Invested),
                     Cardinality(Invested) + Cardinality(ToDevelopments(AllAllocations)))
<1> DEFINE I == Invested
           D == ToDevelopments(AllAllocations)
<1>1. /\ RoundedFrom(InCents(I), Taken(I), Cardinality(I))
      /\ RoundedFrom(InCents(D), Taken(D), Cardinality(D))
  BY SomeRounded, WithinSome
<1>2. /\ InCents(I) \in Int /\ Taken(I) \in Int /\ Cardinality(I) \in Int
      /\ InCents(D) \in Int /\ Taken(D) \in Int /\ Cardinality(D) \in Int
  BY SumsOfSome, WithinSome
<1>3. CaptationsReport(I).cash + CaptationsReport(I).unassigned = InCents(I) - InCents(D)
  BY OverviewAgrees
<1>4. MapThenSumSet(Unallocated, I) = Taken(I) - Taken(D)
  BY UnallocatedIs
<1>5. RoundedFrom(InCents(I) - InCents(D), Taken(I) - Taken(D),
                  Cardinality(I) + Cardinality(D))
  <2> HIDE DEF I, D
  <2> QED
    BY <1>1, <1>2, RoundedDifference
<1> QED
  BY <1>3, <1>4, <1>5

\* Whatever the rows are, the reports agree on them.
LEMMA ReportsDoAgree ==
  ASSUME Typed(row), NoDangling
  PROVE  ReportsAgree
BY OverviewAgrees, PositionAgrees, CapturedAgrees, CapturedPosition, UnallocatedAgrees
   DEF ReportsAgree

\* PortfolioConsistent: however removals, inserts and partial edits meet, no
\* reference is left dangling or across developments, no development is
\* delivered before its launch, and every report of the capital adds up to the
\* others, to the cent or to half a cent for each amount that is rounded
\* (developments.update, units, setPrice, reports.service.ts, getOverview).
THEOREM PortfolioIsConsistent == PortfolioSpec => []PortfolioConsistent
<1>1. PortfolioIInv => PortfolioConsistent
  BY ReportsDoAgree, TypedRow DEF PortfolioIInv, PortfolioConsistent
<1> QED
  BY <1>1, PortfolioInductive, PTL

-----------------------------------------------------------------------------
(* The budget of an investment, of any value of the tables.                *)

AllocationsIn(t, i) == {l \in Allocations : t[l] # Absent /\ t[l].investment = i}

Exceeds(t, i) ==
  t[i] # Absent /\ SumOf(AmountsOf(t), AllocationsIn(t, i)) > t[i].amount

LEMMA OverAllocatedIs ==
  ASSUME NEW i \in Investments
  PROVE  /\ OverAllocated(i) <=> Exceeds(row, i)
         /\ OverAllocated(i)' <=> Exceeds(row', i)
<1>1. OverAllocated(i) <=> Exceeds(row, i)
  <2>1. AllocationsOf(i) = AllocationsIn(row, i)
    BY AllocationsAre DEF AllocationsIn, Here
  <2>2. Taken(AllocationsOf(i)) = SumOf(AmountsOf(row), AllocationsIn(row, i))
    BY <2>1, AllocationsAre, TakenIs
  <2> QED
    BY <2>2 DEF OverAllocated, Exceeds, Here
<1>2. (OverAllocated(i) <=> Exceeds(row, i))'
  BY <1>1, PTL
<1> QED
  BY <1>1, <1>2

LEMMA OthersIs ==
  ASSUME NEW i, NEW l
  PROVE  Others(i, l) = SumOf(AmountsOf(row), AllocationsIn(row, i) \ {l})
<1>1. AllocationsOf(i) \ {l} = AllocationsIn(row, i) \ {l}
  BY AllocationsAre DEF AllocationsIn, Here
<1>2. AllocationsIn(row, i) \ {l} \in SUBSET Capital
  BY DEF AllocationsIn, Capital
<1> QED
  BY <1>1, <1>2, TakenIs DEF Others

LEMMA AllocationsInTable ==
  ASSUME NEW t, Typed(t), NEW i
  PROVE  /\ IsFiniteSet(AllocationsIn(t, i))
         /\ \A l \in AllocationsIn(t, i) :
              AmountsOf(t)[l] \in Nat /\ AmountsOf(t)[l] = t[l].amount
<1>1. AllocationsIn(t, i) \in SUBSET Capital
  BY DEF AllocationsIn, Capital
<1> QED
  BY <1>1, CapitalIsFinite, AmountsAreNaturals DEF AmountsOf, AllocationsIn

\* Of fewer allocations, each of the same amount, no more is taken.
LEMMA FewerTakeLess ==
  ASSUME NEW t, NEW u, Typed(t), Typed(u), NEW i,
         \A l \in AllocationsIn(u, i) : l \in AllocationsIn(t, i) /\ t[l].amount = u[l].amount
  PROVE  /\ SumOf(AmountsOf(u), AllocationsIn(u, i)) <= SumOf(AmountsOf(t), AllocationsIn(t, i))
         /\ SumOf(AmountsOf(u), AllocationsIn(u, i)) \in Nat
         /\ SumOf(AmountsOf(t), AllocationsIn(t, i)) \in Nat
<1> DEFINE S == AllocationsIn(u, i)
           R == AllocationsIn(t, i) \ AllocationsIn(u, i)
<1>1. S \cup R = AllocationsIn(t, i) /\ S \cap R = {}
  OBVIOUS
<1>2. /\ IsFiniteSet(AllocationsIn(t, i)) /\ IsFiniteSet(S)
      /\ \A l \in AllocationsIn(t, i) : AmountsOf(t)[l] \in Nat /\ AmountsOf(t)[l] = t[l].amount
      /\ \A l \in S : AmountsOf(u)[l] \in Nat /\ AmountsOf(u)[l] = u[l].amount
  BY AllocationsInTable
<1>3. IsFiniteSet(R)
  BY <1>2, FS_Subset
<1>4. \A l \in S : AmountsOf(u)[l] \in Int /\ AmountsOf(u)[l] = AmountsOf(t)[l]
  BY <1>2
<1>5. /\ \A l \in S \cup R : AmountsOf(t)[l] \in Int
      /\ \A l \in R : AmountsOf(t)[l] \in Nat
      /\ \A l \in S : AmountsOf(t)[l] \in Nat
  BY <1>1, <1>2
<1> HIDE DEF S, R
<1>6. SumOf(AmountsOf(u), S) = SumOf(AmountsOf(t), S)
  BY <1>2, <1>4, SumSame
<1>7. SumOf(AmountsOf(t), S \cup R) = SumOf(AmountsOf(t), S) + SumOf(AmountsOf(t), R)
  BY <1>1, <1>2, <1>3, <1>5, SumDisjoint
<1>8. SumOf(AmountsOf(t), S) \in Nat /\ SumOf(AmountsOf(t), R) \in Nat
  BY <1>2, <1>3, <1>5, SumOfNaturals
<1>9. SumOf(AmountsOf(t), AllocationsIn(t, i)) = SumOf(AmountsOf(t), S \cup R)
  BY <1>1
<1>10. /\ SumOf(AmountsOf(u), S) <= SumOf(AmountsOf(t), AllocationsIn(t, i))
       /\ SumOf(AmountsOf(u), S) \in Nat
       /\ SumOf(AmountsOf(t), AllocationsIn(t, i)) \in Nat
  BY <1>6, <1>7, <1>8, <1>9
<1> QED
  BY <1>10 DEF S

\* No row of an investment that is not there is left among the allocations.
LEMMA NoneBelowAbsent ==
  ASSUME NEW t, Typed(t), Whole(t), NEW i \in Investments, t[i] = Absent
  PROVE  AllocationsIn(t, i) = {}
<1> SUFFICES ASSUME NEW l \in Allocations, t[l] # Absent, t[l].investment = i
             PROVE  FALSE
  BY DEF AllocationsIn
<1>1. i # NULL /\ l \in Ids
  BY FieldAssumption DEF Ids
<1>2. RefersTo(l, t[l]) = {t[l].investment, t[l].development} \ {NULL}
  BY RefersToIs
<1>3. i \in Refs(t, l)
  BY <1>1, <1>2 DEF Refs
<1> QED
  BY <1>1, <1>3 DEF Whole

\* A step that allocates nothing and changes no amount.
KeepsCapital ==
  /\ \A l \in Allocations : row'[l] # Absent =>
       /\ row[l] # Absent
       /\ row'[l].investment = row[l].investment
       /\ row'[l].amount = row[l].amount
  /\ \A i \in Investments :
       row'[i] # Absent /\ row[i] # Absent => row'[i].amount = row[i].amount

LEMMA KeepsCapitalKeepsBudget ==
  ASSUME PortfolioIInv, Typed(row'), KeepsCapital, NEW i \in Investments, Exceeds(row', i)
  PROVE  Exceeds(row, i)
<1>1. Typed(row) /\ Whole(row)
  BY IInvTables DEF TablesStand
<1>2. \A l \in AllocationsIn(row', i) : l \in AllocationsIn(row, i) /\ row[l].amount = row'[l].amount
  BY DEF KeepsCapital, AllocationsIn
<1>3. /\ SumOf(AmountsOf(row'), AllocationsIn(row', i))
           <= SumOf(AmountsOf(row), AllocationsIn(row, i))
      /\ SumOf(AmountsOf(row'), AllocationsIn(row', i)) \in Nat
      /\ SumOf(AmountsOf(row), AllocationsIn(row, i)) \in Nat
  BY <1>1, <1>2, FewerTakeLess
<1>4. row'[i].amount \in Nat
  BY AmountsAreNaturals DEF Exceeds, AmountsOf, Capital
<1>5. CASE row[i] = Absent
  <2>1. AllocationsIn(row, i) = {}
    BY <1>1, <1>5, NoneBelowAbsent
  <2>2. SumOf(AmountsOf(row), AllocationsIn(row, i)) = 0
    BY <2>1, SumEmpty
  <2> QED
    BY <1>3, <1>4, <2>2 DEF Exceeds
<1>6. CASE row[i] # Absent
  <2>1. row'[i].amount = row[i].amount
    BY <1>6 DEF KeepsCapital, Exceeds
  <2> QED
    BY <1>3, <1>4, <1>6, <2>1 DEF Exceeds
<1> QED
  BY <1>5, <1>6

LEMMA StatementKeepsCapital ==
  ASSUME PortfolioIInv, Statement
  PROVE  KeepsCapital
<1>1. Typed(row)
  BY IInvTables
<1>2. ASSUME NEW z \in Ids, NEW new, row' = [row EXCEPT ![z] = new],
             z \notin Allocations, z \in Investments => row[z] = Absent
      PROVE  KeepsCapital
  <2>1. \A x \in Capital : x # z => row'[x] = row[x]
    BY <1>1, <1>2, TablesApart DEF Typed, Capital
  <2> QED
    BY <1>2, <2>1 DEF KeepsCapital, Capital
<1>3. ASSUME Create PROVE KeepsCapital
  <2>1. PICK x \in Ids :
          /\ ~Here(x)
          /\ x \notin Allocations
          /\ \E new : Insert(x, new)
    BY <1>3, TablesApart DEF Create, CreateCompany, CreateDevelopment, CreateUnit, SetPrice
  <2> QED
    BY <1>2, <2>1 DEF Insert, Here
<1>4. ASSUME NEW u \in Units, NEW type \in UnitTypes \cup {NULL}, UpdateUnitType(u, type)
      PROVE  KeepsCapital
  <2>1. row' = [row EXCEPT ![u] = [row[u] EXCEPT !.unitType = type]]
    BY <1>4 DEF UpdateUnitType
  <2> QED
    BY <1>2, <2>1, TablesApart
<1>5. ASSUME NEW u \in Units, NEW history \in {"reserved", "sold"}, Take(u, history)
      PROVE  KeepsCapital
  <2>1. row' = [row EXCEPT ![u] = [row[u] EXCEPT !.history = history]]
    BY <1>5 DEF Take
  <2> QED
    BY <1>2, <2>1, TablesApart
<1>6. ASSUME NEW q \in Interests, NEW new \in InterestRow, UpsertInterest(q, new)
      PROVE  KeepsCapital
  BY <1>2, <1>6, TablesApart DEF UpsertInterest
<1>7. ASSUME NEW q \in Interests, RemoveInterest(q)
      PROVE  KeepsCapital
  BY <1>2, <1>7, TablesApart DEF RemoveInterest
<1>8. ASSUME NEW x \in Ids, RemoveLeaf(x)
      PROVE  KeepsCapital
  BY <1>2, <1>8, TablesApart DEF RemoveLeaf
<1>9. ASSUME NEW l \in Allocations, NEW d \in Developments \cup {NULL}, MoveAllocation(l, d)
      PROVE  KeepsCapital
  <2> DEFINE new == [row[l] EXCEPT !.development = d]
  <2>1. row' = [row EXCEPT ![l] = new] /\ Here(l) /\ row[l] \in AllocationRow /\ l \in Ids
    BY <1>1, <1>9, RowTypes, TablesApart DEF MoveAllocation, Here
  <2>2. new.investment = row[l].investment /\ new.amount = row[l].amount
    BY <2>1 DEF AllocationRow
  <2> HIDE DEF new
  <2>3. row'[l] = new /\ \A x \in Capital : x # l => row'[x] = row[x]
    BY <1>1, <2>1, TablesApart DEF Typed, Capital
  <2>4. l \notin Investments
    BY TablesApart
  <2> QED
    BY <2>1, <2>2, <2>3, <2>4 DEF KeepsCapital, Capital, Here
<1> QED
  BY <1>3, <1>4, <1>5, <1>6, <1>7, <1>8, <1>9 DEF Statement

LEMMA CommitsKeepCapital ==
  ASSUME PortfolioIInv, NEW r \in Operations, Commits(r)
  PROVE  KeepsCapital
<1> DEFINE d == op[r].id
<1>1. d \in Developments /\ Typed(row)
  BY IInvTables, OperationTypes DEF Commits, CommitDevelopment
<1>2. \E new : row' = [row EXCEPT ![d] = new]
  BY DEF Commits, CommitDevelopment
<1> HIDE DEF d
<1>3. \A x \in Capital : row'[x] = row[x]
  BY <1>1, <1>2, TablesApart DEF Typed, Capital
<1> QED
  BY <1>3 DEF KeepsCapital, Capital

LEMMA RemovalKeepsCapital ==
  ASSUME PortfolioIInv, Typed(row'), NEW r \in Operations, RemoveCommit(r)
  PROVE  KeepsCapital
<1> DEFINE D == Deleted(op[r].id)
<1>1. /\ op[r].id \in Ids /\ row' = After(D) /\ PortfolioTypeOK /\ Typed(row)
      /\ NULL \notin D
  BY IInvTables, DeletedHasNoNull DEF RemoveCommit, Present
<1>2. ASSUME NEW l \in Allocations, row'[l] # Absent
      PROVE  /\ row[l] # Absent
             /\ row'[l].investment = row[l].investment
             /\ row'[l].amount = row[l].amount
  <2>1. l \notin D /\ l \in Ids
    BY <1>1, <1>2, TablesApart, AfterIs
  <2>2. row[l] # Absent
    <3> SUFFICES ASSUME row[l] = Absent PROVE FALSE
      OBVIOUS
    <3>1. Parents(l) = {}
      BY DEF Parents, Here
    <3> QED
      BY <1>1, <1>2, <2>1, <3>1, AfterIs
  <2>3. row'[l] = [investment |-> Cleared(row[l].investment, D),
                   development |-> Cleared(row[l].development, D),
                   amount |-> row[l].amount]
    BY <1>1, <2>1, <2>2, AfterAllocation DEF Here
  <2>4. row'[l].investment \in Investments
    BY <1>2, RowTypes DEF AllocationRow
  <2>5. NULL \notin Investments
    BY FieldAssumption DEF Ids
  <2> QED
    BY <2>2, <2>3, <2>4, <2>5 DEF Cleared
<1>3. ASSUME NEW i \in Investments, row'[i] # Absent
      PROVE  row'[i].amount = row[i].amount
  <2>1. i \notin D /\ i \in Ids
    BY <1>1, <1>3, TablesApart, AfterIs
  <2> QED
    BY <1>1, <2>1, AfterOther, TablesApart
<1> QED
  BY <1>2, <1>3 DEF KeepsCapital

\* A write that was checked against what still stands keeps the budget.
LEMMA WriteKeepsBudget ==
  ASSUME PortfolioIInv, Typed(row'), NEW r \in Operations, WriteBudget(r),
         NEW i \in Investments, Exceeds(row', i), ~Exceeds(row, i)
  PROVE  op[r].investment = i /\ Outdated(r)
<1> DEFINE x == op[r].write
           new == op[r].row
           S == AllocationsIn(row, i) \ {x}
<1>1. /\ op[r].at = "budget" /\ x \in Investments \cup Allocations /\ x \in Ids
      /\ op[r].investment \in Investments /\ op[r].others \in Nat
      /\ Here(x) = op[r].exists
  BY IInvTables, OperationTypes, TablesApart DEF WriteBudget
<1>2. BudgetStands(op[r])
  BY DEF PortfolioIInv, OperationsStand
<1>3. Typed(row) /\ Whole(row)
  BY IInvTables DEF TablesStand
<1>4. /\ row'[x] # Absent
      /\ row'[x].amount = new.amount
      /\ x \in Allocations => row'[x].investment = op[r].investment
      /\ x \in Allocations /\ Here(x) => row[x].investment = op[r].investment
      /\ \A y \in Capital : y # x => row'[y] = row[y]
  <2>1. CASE Here(x)
    <3>1. row' = [row EXCEPT ![x] = [row[x] EXCEPT !.amount = new.amount]]
      BY <2>1 DEF WriteBudget
    <3>2. /\ x \in Investments => row[x] \in InvestmentRow
          /\ x \in Allocations => row[x] \in AllocationRow
          /\ x \in Allocations => row[x].investment = op[r].investment
      BY <1>3, <2>1, RowTypes DEF Here, WriteBudget
    <3> DEFINE put == [row[x] EXCEPT !.amount = new.amount]
    <3>3. /\ put.amount = new.amount
          /\ x \in Allocations => put.investment = row[x].investment
      BY <1>1, <3>2 DEF InvestmentRow, AllocationRow
    <3>4. /\ x \in Investments => put \in [amount : {new.amount}]
          /\ x \in Allocations => put \in [investment : Investments,
                                           development : Developments \cup {NULL},
                                           amount : {new.amount}]
      BY <3>2 DEF InvestmentRow, AllocationRow
    <3>5. put # Absent
      BY <1>1, <3>4 DEF Absent
    <3> HIDE DEF put
    <3>6. row' = [row EXCEPT ![x] = put]
      BY <3>1 DEF put
    <3>7. row'[x] = put /\ \A y \in Capital : y # x => row'[y] = row[y]
      BY <1>1, <1>3, <3>6, TablesApart DEF Typed, Capital
    <3> QED
      BY <3>2, <3>3, <3>5, <3>7
  <2>2. CASE ~Here(x)
    <3>1. row' = [row EXCEPT ![x] = new] /\ ~op[r].exists
      BY <1>1, <2>2 DEF WriteBudget
    <3>2. x \in Allocations /\ new \in AllocationRow /\ new.investment = op[r].investment
      BY <1>1, <1>2, <3>1 DEF BudgetStands
    <3>3. new # Absent
      BY <3>2, NoRowIsAbsent
    <3>4. row'[x] = new /\ \A y \in Capital : y # x => row'[y] = row[y]
      BY <1>1, <1>3, <3>1, TablesApart DEF Typed, Capital
    <3> QED
      BY <2>2, <3>2, <3>3, <3>4
  <2> QED
    BY <2>1, <2>2
<1> HIDE DEF x, new
<1>5. CASE op[r].investment # i
  <2>1. x # i /\ row'[i] = row[i]
    <3>1. x # i
      BY <1>1, <1>2, <1>5 DEF BudgetStands, x
    <3> QED
      BY <1>4, <3>1 DEF Capital
  <2>2. \A l \in AllocationsIn(row', i) : l # x /\ l \in AllocationsIn(row, i) /\ row[l].amount = row'[l].amount
    BY <1>4, <1>5 DEF AllocationsIn, Capital
  <2>3. SumOf(AmountsOf(row'), AllocationsIn(row', i))
          <= SumOf(AmountsOf(row), AllocationsIn(row, i))
        /\ SumOf(AmountsOf(row'), AllocationsIn(row', i)) \in Nat
        /\ SumOf(AmountsOf(row), AllocationsIn(row, i)) \in Nat
    BY <1>3, <2>2, FewerTakeLess
  <2>4. row'[i].amount \in Nat
    BY AmountsAreNaturals DEF Exceeds, AmountsOf, Capital
  <2> QED
    BY <2>1, <2>3, <2>4 DEF Exceeds
<1>6. CASE op[r].investment = i
  <2> SUFFICES ASSUME ~Outdated(r) PROVE FALSE
    BY <1>6
  <2>1. /\ x # i => row[i].amount = op[r].amount
        /\ SumOf(AmountsOf(row), S) = op[r].others
    BY <1>6, OthersIs DEF Outdated, x
  <2>2. \A l \in S : AmountsOf(row)[l] \in Int /\ AmountsOf(row)[l] = AmountsOf(row')[l]
    <3>1. \A l \in S : l \in Capital /\ l # x /\ AmountsOf(row)[l] \in Nat
      BY <1>3, AllocationsInTable DEF AllocationsIn, Capital
    <3> QED
      BY <1>4, <3>1 DEF AmountsOf
  <2>3. IsFiniteSet(S)
    BY <1>3, AllocationsInTable, FS_Subset
  <2>4. SumOf(AmountsOf(row'), S) = op[r].others
    <3> HIDE DEF S
    <3> QED
      BY <2>1, <2>2, <2>3, SumSame
  <2>5. CASE x \in Investments
    <3>1. x = i /\ op[r].amount = new.amount /\ op[r].others <= op[r].amount
      BY <1>1, <1>2, <1>6, <2>5 DEF BudgetStands, x, new
    <3>2. AllocationsIn(row', i) = S
      <4>1. \A l \in Allocations : l # x /\ row'[l] = row[l]
        BY <1>4, <2>5, TablesApart DEF Capital
      <4> QED
        BY <4>1 DEF AllocationsIn
    <3>3. row'[i].amount \in Nat
      BY AmountsAreNaturals DEF Exceeds, AmountsOf, Capital
    <3> QED
      BY <1>1, <1>4, <2>4, <3>1, <3>2, <3>3 DEF Exceeds
  <2>6. CASE x \in Allocations
    <3>1. x # i /\ row'[i] = row[i]
      BY <1>4, <2>6, TablesApart DEF Capital
    <3>2. new.amount + op[r].others <= op[r].amount /\ new.amount \in Shares
      BY <1>1, <1>2, <2>6 DEF BudgetStands, x, new
    <3>3. AllocationsIn(row', i) = S \cup {x} /\ x \notin S
      BY <1>4, <1>6, <2>6 DEF AllocationsIn, Capital
    <3>4. AmountsOf(row')[x] = new.amount /\ new.amount \in Nat
      BY <1>4, <2>6, <3>2, CapitalAssumption DEF AmountsOf, Capital
    <3>5. SumOf(AmountsOf(row'), S \cup {x}) = AmountsOf(row')[x] + SumOf(AmountsOf(row'), S)
      <4>1. \A l \in S : AmountsOf(row')[l] \in Int
        BY <2>2
      <4> HIDE DEF S
      <4> QED
        BY <2>3, <3>3, <3>4, <4>1, SumInsert
    <3>6. row'[i].amount = op[r].amount /\ op[r].amount \in Nat
      BY <1>1, <1>2, <2>1, <3>1 DEF BudgetStands
    <3> QED
      BY <1>1, <2>4, <3>2, <3>3, <3>4, <3>5, <3>6 DEF Exceeds
  <2> QED
    BY <1>1, <2>5, <2>6 DEF x
<1> QED
  BY <1>5, <1>6

RacesOverAllocate ==
  \A i \in Investments :
    OverAllocated(i)' =>
      \/ OverAllocated(i)
      \/ \E r \in Operations :
           /\ op[r].at = "budget"
           /\ op'[r] = NoOp
           /\ op[r].investment = i
           /\ Outdated(r)

LEMMA StepOverAllocates ==
  ASSUME PortfolioIInv, [PortfolioNext]_portfolioVars
  PROVE  RacesOverAllocate
<1>1. Typed(row')
  BY PortfolioNextInv DEF PortfolioIInv, PortfolioTypeOK, Typed
<1> SUFFICES ASSUME NEW i \in Investments, Exceeds(row', i), ~Exceeds(row, i)
             PROVE  \E r \in Operations :
                      op[r].at = "budget" /\ op'[r] = NoOp /\ op[r].investment = i /\ Outdated(r)
  BY OverAllocatedIs DEF RacesOverAllocate
<1>2. ~KeepsCapital
  BY <1>1, KeepsCapitalKeepsBudget
<1>3. row' # row
  BY <1>2 DEF KeepsCapital
<1>4. PICK r \in Operations : WriteBudget(r)
  BY <1>1, <1>2, <1>3, StepCases, StatementKeepsCapital, CommitsKeepCapital,
     RemovalKeepsCapital, OperationMovesKeepsInv DEF portfolioVars
<1>5. op[r].investment = i /\ Outdated(r)
  BY <1>1, <1>4, WriteKeepsBudget
<1>6. op[r].at = "budget" /\ op'[r] = NoOp
  BY <1>4, EndIs DEF WriteBudget
<1> QED
  BY <1>4, <1>5, <1>6

\* OverAllocatedOnlyByRace: the allocations of an investment come to exceed it
\* only by a write whose check read what another request has changed since; an
\* edit, a removal or a write that read what stands never does it
\* (assertWithinBudget of allocations.service.ts, investments.update).
THEOREM OverAllocationNeedsARace == PortfolioSpec => OverAllocatedOnlyByRace
<1>1. PortfolioIInv /\ [PortfolioNext]_portfolioVars => [RacesOverAllocate]_portfolioVars
  BY StepOverAllocates
<1> QED
  BY <1>1, PortfolioInductive, PTL DEF PortfolioSpec, OverAllocatedOnlyByRace, RacesOverAllocate
=============================================================================
