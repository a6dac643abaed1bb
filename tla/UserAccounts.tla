---------------------------- MODULE UserAccounts ----------------------------
(* Accounts, the roles within an organisation, invitations and password    *)
(* resets (src/src/auth, src/src/users).                                    *)
(*                                                                          *)
(* A request is a transaction that takes a lock, reads, and commits; the    *)
(* other requests run between the two.  The locks are those of the code:    *)
(* the advisory locks of an e-mail and of an organisation, the row locks of *)
(* a user, of an invitation and of a reset token, all held until commit.    *)
(* An account is named by its normalised e-mail, which is unique in the     *)
(* table and which no operation changes.  Logins and sessions are left out. *)
EXTENDS Naturals

CONSTANTS
  Emails,        \* normalised e-mails
  Orgs,          \* organisations
  Invitations,   \* identities of UserInvitation rows
  Tokens,        \* identities of PasswordResetToken rows
  Requests,      \* requests in flight at once
  OtherRoles,    \* roles without the permission USERS_MANAGE
  Null

VARIABLES
  account,     \* User rows, by e-mail
  invitation,  \* UserInvitation rows
  token,       \* PasswordResetToken rows
  req          \* requests in flight

vars == <<account, invitation, token, req>>

Roles == {"OWNER", "ADMIN"} \cup OtherRoles

UserRow ==
  [org    : Orgs,
   role   : Roles,
   active : BOOLEAN,
   from   : Invitations \cup {Null}]   \* the invitation accepted, if any

InvitationRow ==
  [email    : Emails,
   org      : Orgs,
   role     : Roles,
   accepted : BOOLEAN,   \* acceptedAt IS NOT NULL
   revoked  : BOOLEAN,   \* revokedAt IS NOT NULL
   expired  : BOOLEAN]   \* expiresAt has passed

\* The last field is history the code does not store.
TokenRow ==
  [user    : Emails,
   used    : BOOLEAN,    \* usedAt IS NOT NULL
   expired : BOOLEAN,    \* expiresAt has passed
   resets  : 0..1]       \* passwords set with it

\* A foreign key that is NULL and a row that is not there are no value.
ASSUME NullAssumption ==
  Null \notin UserRow \cup InvitationRow \cup TokenRow \cup Invitations

Idle == [at |-> "idle"]

RequestState ==
  {Idle}
    \cup [at : {"actor"}, who : Emails, org : Orgs, role : Roles]
    \cup [at : {"register"}, email : Emails]
    \cup [at : {"invite"}, email : Emails, org : Orgs, role : Roles]
    \cup [at : {"accept"}, email : Emails, inv : Invitations]
    \cup [at : {"role"}, org : Orgs, who : Emails, role : Roles]
    \cup [at : {"status"}, org : Orgs, who : Emails, active : BOOLEAN]
    \cup [at : {"lookup"}, who : Emails]
    \cup [at : {"forgot"}, who : Emails, drops : SUBSET Tokens]
    \cup [at : {"reset"}, token : Tokens]

Init ==
  /\ account = [e \in Emails |-> Null]
  /\ invitation = [i \in Invitations |-> Null]
  /\ token = [t \in Tokens |-> Null]
  /\ req = [r \in Requests |-> Idle]

Become(r, state) == req' = [req EXCEPT ![r] = state]

-----------------------------------------------------------------------------
\* Locks.

\* Mutant: the lock of the e-mail is not taken.
BugEmailUnlocked(e) == TRUE

\* pg_advisory_xact_lock of the e-mail
EmailUnlocked(e) ==
  \A r \in Requests : req[r].at \in {"register", "invite", "accept"} => req[r].email # e

\* Mutant: the lock of the organisation is not taken.
BugOrgUnlocked(o) == TRUE

\* pg_advisory_xact_lock of users:<organisation>
OrgUnlocked(o) ==
  \A r \in Requests : req[r].at \in {"role", "status"} => req[r].org # o

\* Mutant: revoke reads the invitation and then updates it by its id alone.
BugInvitationUnlocked(i) == TRUE

\* The row of an invitation, locked by the UPDATE of its acceptance.
InvitationUnlocked(i) ==
  \A r \in Requests : req[r].at = "accept" => req[r].inv # i

\* Mutant: forgotPassword does not lock the user.
BugUserUnlocked(e) == TRUE

\* SELECT ... FOR UPDATE of the user
UserUnlocked(e) ==
  \A r \in Requests : req[r].at = "forgot" => req[r].who # e

\* The row of a token, locked by the UPDATE of its claim or by its DELETE.
TokenUnlocked(t) ==
  \A r \in Requests :
    /\ req[r].at = "reset" => req[r].token # t
    /\ req[r].at = "forgot" => t \notin req[r].drops

-----------------------------------------------------------------------------
\* Accounts and invitations.

Members(o) == {e \in Emails : account[e] # Null /\ account[e].org = o}

Pending(i) ==
  /\ invitation[i] # Null
  /\ ~invitation[i].accepted
  /\ ~invitation[i].revoked
  /\ ~invitation[i].expired

Invited(e) == \E i \in Invitations : Pending(i) /\ invitation[i].email = e

\* register: the e-mail has neither an account nor a pending invitation.
Register(r, e) ==
  /\ req[r] = Idle
  /\ EmailUnlocked(e)
  /\ account[e] = Null
  /\ ~Invited(e)
  /\ Become(r, [at |-> "register", email |-> e])
  /\ UNCHANGED <<account, invitation, token>>

CommitRegister(r, o) ==
  /\ req[r].at = "register"
  /\ account[req[r].email] = Null
  /\ Members(o) = {}
  /\ account' = [account EXCEPT
                   ![req[r].email] = [org |-> o, role |-> "OWNER", active |-> TRUE, from |-> Null]]
  /\ Become(r, Idle)
  /\ UNCHANGED <<invitation, token>>

\* JwtStrategy.validate and the permissions guard: the role the operation goes
\* by is the one read here, before its transaction.
Authenticate(r, e) ==
  /\ req[r] = Idle
  /\ account[e] # Null
  /\ account[e].active
  /\ account[e].role \in {"OWNER", "ADMIN"}
  /\ Become(r, [at |-> "actor", who |-> e, org |-> account[e].org, role |-> account[e].role])
  /\ UNCHANGED <<account, invitation, token>>

\* assertActorCanManageRole, assertAdminCanAlterTarget
MayManage(actor, role) == actor.role = "ADMIN" => role # "OWNER"

\* create of an invitation
Invite(r, e, role) ==
  /\ req[r].at = "actor"
  /\ MayManage(req[r], role)
  /\ EmailUnlocked(e)
  /\ account[e] = Null
  /\ ~Invited(e)
  /\ Become(r, [at |-> "invite", email |-> e, org |-> req[r].org, role |-> role])
  /\ UNCHANGED <<account, invitation, token>>

\* The organisation's expired invitations of the e-mail are revoked.
CommitInvite(r, i) ==
  /\ req[r].at = "invite"
  /\ invitation[i] = Null
  /\ invitation' =
       [j \in Invitations |->
          IF j = i THEN
            [email |-> req[r].email, org |-> req[r].org, role |-> req[r].role,
             accepted |-> FALSE, revoked |-> FALSE, expired |-> FALSE]
          ELSE IF /\ invitation[j] # Null
                  /\ invitation[j].org = req[r].org
                  /\ invitation[j].email = req[r].email
                  /\ ~invitation[j].accepted
                  /\ invitation[j].expired
            THEN [invitation[j] EXCEPT !.revoked = TRUE]
          ELSE invitation[j]]
  /\ Become(r, Idle)
  /\ UNCHANGED <<account, token>>

\* revoke: one conditional UPDATE, which waits for an acceptance in flight.
Revoke(r, i) ==
  /\ req[r].at = "actor"
  /\ Pending(i)
  /\ invitation[i].org = req[r].org
  /\ MayManage(req[r], invitation[i].role)
  /\ InvitationUnlocked(i)
  /\ invitation' = [invitation EXCEPT ![i].revoked = TRUE]
  /\ Become(r, Idle)
  /\ UNCHANGED <<account, token>>

\* accept: the claim; an e-mail that has an account ends it.
Accept(r, i) ==
  /\ req[r] = Idle
  /\ Pending(i)
  /\ EmailUnlocked(invitation[i].email)
  /\ InvitationUnlocked(i)
  /\ account[invitation[i].email] = Null
  /\ Become(r, [at |-> "accept", email |-> invitation[i].email, inv |-> i])
  /\ UNCHANGED <<account, invitation, token>>

CommitAccept(r) ==
  LET i == req[r].inv IN
  /\ req[r].at = "accept"
  /\ account[req[r].email] = Null
  /\ invitation' = [invitation EXCEPT ![i].accepted = TRUE]
  /\ account' = [account EXCEPT
                   ![req[r].email] = [org |-> invitation[i].org, role |-> invitation[i].role,
                                      active |-> TRUE, from |-> i]]
  /\ Become(r, Idle)
  /\ UNCHANGED token

-----------------------------------------------------------------------------
\* Roles and status.

ActiveOwners(o) == {e \in Members(o) : account[e].role = "OWNER" /\ account[e].active}

\* assertAnotherActiveOwner, of an active OWNER only
LeavesAnOwner(e) ==
  e \in ActiveOwners(account[e].org) => ActiveOwners(account[e].org) \ {e} # {}

UpdateRole(r, e, role) ==
  /\ req[r].at = "actor"
  /\ OrgUnlocked(req[r].org)
  /\ e \in Members(req[r].org)
  /\ MayManage(req[r], account[e].role)
  /\ MayManage(req[r], role)
  /\ account[e].role # role
  /\ LeavesAnOwner(e)
  /\ Become(r, [at |-> "role", org |-> req[r].org, who |-> e, role |-> role])
  /\ UNCHANGED <<account, invitation, token>>

CommitRole(r) ==
  /\ req[r].at = "role"
  /\ UserUnlocked(req[r].who)
  /\ account' = [account EXCEPT ![req[r].who].role = req[r].role]
  /\ Become(r, Idle)
  /\ UNCHANGED <<invitation, token>>

\* An actor does not deactivate its own account.
UpdateStatus(r, e) ==
  /\ req[r].at = "actor"
  /\ OrgUnlocked(req[r].org)
  /\ e \in Members(req[r].org)
  /\ MayManage(req[r], account[e].role)
  /\ account[e].active => e # req[r].who
  /\ LeavesAnOwner(e)
  /\ Become(r, [at |-> "status", org |-> req[r].org, who |-> e, active |-> ~account[e].active])
  /\ UNCHANGED <<account, invitation, token>>

CommitStatus(r) ==
  /\ req[r].at = "status"
  /\ UserUnlocked(req[r].who)
  /\ account' = [account EXCEPT ![req[r].who].active = req[r].active]
  /\ Become(r, Idle)
  /\ UNCHANGED <<invitation, token>>

-----------------------------------------------------------------------------
\* Passwords.

TokensOf(e) == {t \in Tokens : token[t] # Null /\ token[t].user = e}

Usable(t) == token[t] # Null /\ ~token[t].used /\ ~token[t].expired

\* forgotPassword looks the user up before its transaction.
ForgotPassword(r, e) ==
  /\ req[r] = Idle
  /\ account[e] # Null
  /\ account[e].active
  /\ Become(r, [at |-> "lookup", who |-> e])
  /\ UNCHANGED <<account, invitation, token>>

DropTokens(r) ==
  /\ req[r].at = "lookup"
  /\ UserUnlocked(req[r].who)
  /\ \A t \in TokensOf(req[r].who) : TokenUnlocked(t)
  /\ Become(r, [at |-> "forgot", who |-> req[r].who, drops |-> TokensOf(req[r].who)])
  /\ UNCHANGED <<account, invitation, token>>

IssueToken(r, t) ==
  /\ req[r].at = "forgot"
  /\ token[t] = Null
  /\ token' =
       [s \in Tokens |->
          IF s = t THEN
            [user |-> req[r].who, used |-> FALSE, expired |-> FALSE, resets |-> 0]
          ELSE IF s \in req[r].drops THEN Null
          ELSE token[s]]
  /\ Become(r, Idle)
  /\ UNCHANGED <<account, invitation>>

\* A new password uses up the tokens of its user.
PasswordSet(e) ==
  [t \in Tokens |->
     IF t \in TokensOf(e) THEN [token[t] EXCEPT !.used = TRUE] ELSE token[t]]

\* resetPassword: the claim, and the user it reads after it.
ClaimToken(r, t) ==
  /\ req[r] = Idle
  /\ Usable(t)
  /\ TokenUnlocked(t)
  /\ account[token[t].user].active
  /\ Become(r, [at |-> "reset", token |-> t])
  /\ UNCHANGED <<account, invitation, token>>

CommitReset(r) ==
  LET t == req[r].token IN
  /\ req[r].at = "reset"
  /\ UserUnlocked(token[t].user)
  /\ token' = [PasswordSet(token[t].user) EXCEPT ![t].resets = @ + 1]
  /\ Become(r, Idle)
  /\ UNCHANGED <<account, invitation>>

\* changePassword, of a user who was active when the request came in; it holds
\* the row of its user from its first statement on.
ChangePassword(e) ==
  /\ account[e] # Null
  /\ UserUnlocked(e)
  /\ \A t \in TokensOf(e) : TokenUnlocked(t)
  /\ token' = PasswordSet(e)
  /\ UNCHANGED <<account, invitation, req>>

-----------------------------------------------------------------------------
\* A request that is refused, times out, is the victim of a deadlock or dies
\* with the server: its transaction is undone.
Rollback(r) ==
  /\ req[r] # Idle
  /\ Become(r, Idle)
  /\ UNCHANGED <<account, invitation, token>>

ExpireInvitation(i) ==
  /\ Pending(i)
  /\ invitation' = [invitation EXCEPT ![i].expired = TRUE]
  /\ UNCHANGED <<account, token, req>>

ExpireToken(t) ==
  /\ Usable(t)
  /\ token' = [token EXCEPT ![t].expired = TRUE]
  /\ UNCHANGED <<account, invitation, req>>

Next ==
  \/ \E r \in Requests :
       \/ \E e \in Emails :
            \/ Register(r, e)
            \/ Authenticate(r, e)
            \/ UpdateStatus(r, e)
            \/ ForgotPassword(r, e)
            \/ \E role \in Roles : Invite(r, e, role) \/ UpdateRole(r, e, role)
       \/ \E o \in Orgs : CommitRegister(r, o)
       \/ \E i \in Invitations : CommitInvite(r, i) \/ Revoke(r, i) \/ Accept(r, i)
       \/ \E t \in Tokens : IssueToken(r, t) \/ ClaimToken(r, t)
       \/ CommitAccept(r) \/ CommitRole(r) \/ CommitStatus(r)
       \/ DropTokens(r) \/ CommitReset(r) \/ Rollback(r)
  \/ \E e \in Emails : ChangePassword(e)
  \/ \E i \in Invitations : ExpireInvitation(i)
  \/ \E t \in Tokens : ExpireToken(t)

Spec == Init /\ [][Next]_vars

-----------------------------------------------------------------------------
\* Every row and request has its type; no reset token sets two passwords.
TypeOK ==
  /\ account \in [Emails -> UserRow \cup {Null}]
  /\ invitation \in [Invitations -> InvitationRow \cup {Null}]
  /\ token \in [Tokens -> TokenRow \cup {Null}]
  /\ req \in [Requests -> RequestState]

\* Owners who demote or deactivate one another at once never leave an
\* organisation without an active OWNER (assertAnotherActiveOwner).
OwnerRemains ==
  \A o \in Orgs : Members(o) # {} => ActiveOwners(o) # {}

\* An e-mail is promised to one organisation: it has an account or one pending
\* invitation, never both, whatever registrations and invitations race for it.
EmailBelongsToOne ==
  \A i \in Invitations : Pending(i) =>
    /\ account[invitation[i].email] = Null
    /\ \A j \in Invitations \ {i} : Pending(j) => invitation[j].email # invitation[i].email

\* An invitation is accepted exactly when it made the account of its e-mail, in
\* its organisation, and what was accepted was not revoked as well.
AcceptedMadeAccount ==
  /\ \A i \in Invitations :
       invitation[i] # Null /\ invitation[i].accepted =>
         /\ ~invitation[i].revoked
         /\ account[invitation[i].email] # Null
         /\ account[invitation[i].email].from = i
         /\ account[invitation[i].email].org = invitation[i].org
  /\ \A e \in Emails :
       account[e] # Null /\ account[e].from # Null => invitation[account[e].from].accepted

\* Only the newest reset token of a user is usable, however many requests for
\* one and changes of the password run at once (the comment in forgotPassword),
\* and none sets two passwords (TypeOK).
NewestTokenOnly ==
  /\ TypeOK
  /\ \A t, s \in Tokens :
       Usable(t) /\ Usable(s) /\ token[t].user = token[s].user => t = s
=============================================================================
