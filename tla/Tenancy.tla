-------------------------------- MODULE Tenancy --------------------------------
(***************************************************************************)
(* Who may come in and what he belongs to: the accounts, their sessions    *)
(* and the links that reset a password (services/auth.py, api/auth.py),    *)
(* the organisations, their members and the invitations to join them       *)
(* (services/tenancy.py, services/invitations.py, api/organizations.py),   *)
(* behind the dependencies of api/deps.py.                                 *)
(*                                                                         *)
(* Requests are served in threads of the API.  A request checks what it    *)
(* has read, hashes a password or sends a mail, and only then commits, so  *)
(* that what it read may have changed; the database keeps nothing locked   *)
(* meanwhile, and only its unique constraints are checked at the commit.   *)
(* A step here is what a request does between two such moments.  Requests  *)
(* that the checks refuse change nothing and are left out, but the wrong   *)
(* passwords, which are counted.  Audit rows, mails, names and settings    *)
(* are left out.                                                           *)
(***************************************************************************)
EXTENDS Integers, FiniteSets

CONSTANTS
  Users,        \* the e-mail addresses, whether they have an account or not
  Founder,      \* settings.admin_email, also the account of the API key
  Threads,      \* the requests served at a time
  MaxFailures,  \* MAX_ECHECS
  MaxEvents     \* bounds the requests, the expirations and the restarts

ASSUME TenancyAssumption ==
  /\ Founder \in Users
  /\ MaxFailures \in Nat \ {0}
  /\ MaxEvents \in Nat
  /\ IsFiniteSet(Threads)

(* What a request or a restart makes bears its number; NoId is no row.     *)
NoId == -1
Ids == 0..MaxEvents
OrgIds == Ids \X Users
NoOrg == <<NoId, Founder>>
Roles == {"owner", "admin", "member"}

VARIABLES
  password,     \* users: the version of each password, NoId without account
  sessions,     \* auth_sessions
  links,        \* password_reset_tokens
  orgs,         \* organizations
  members,      \* organization_memberships
  invitations,  \* organization_invitations
  failures,     \* API: _ECHECS
  req,          \* API: where each thread is
  events,       \* the requests, expirations and restarts so far
  interrupted   \* observation: users whose sessions a crash left open

accountVars == <<password, sessions, links>>
orgVars == <<orgs, members, invitations>>
vars == <<accountVars, orgVars, failures, req, events, interrupted>>

(* Observations, no columns.  since: the version of the password that the  *)
(* request of the session has verified or written.  late: the commit found *)
(* what its request had not seen.                                          *)
AuthSession ==
  [user : Users, id : Ids, since : Ids, expired : BOOLEAN, late : BOOLEAN]
PasswordResetToken ==
  [user : Users, id : Ids, used : BOOLEAN, expired : BOOLEAN, late : BOOLEAN]
OrganizationInvitation ==
  [org : OrgIds, email : Users, role : Roles, id : Ids, accepted : BOOLEAN,
   revoked : BOOLEAN, expired : BOOLEAN, late : BOOLEAN]

(* default: the space the code gives to a user who belongs nowhere.        *)
Organization == [id : OrgIds, default : BOOLEAN, late : BOOLEAN]
OrganizationMembership == [org : OrgIds, user : Users, role : Roles, id : Ids]

(* The requests that trop_de_tentatives may refuse, and where they go on.  *)
CheckSteps == {"checkLogin", "checkForgot", "checkAccept"}
Checked == [checkLogin |-> "login", checkForgot |-> "forgot",
            checkAccept |-> "accept"]

Steps == CheckSteps \cup
         {"idle", "login", "open", "setPassword", "revokeAll", "deleteAll",
          "applyLink", "forgot", "sendLink", "accept", "join", "welcome",
          "createSpace", "addMember", "setRole", "removeMember", "invite",
          "revokeInvitation"}

(* read: what _ECHECS held for trop_de_tentatives; since: the version of   *)
(* the password in the row of the user, NoId without a row.                *)
Request ==
  [step : Steps, id : Ids \cup {NoId}, user : Users, org : OrgIds \cup {NoOrg},
   role : Roles, row : Ids \cup {NoId}, seen : SUBSET Ids,
   since : Ids \cup {NoId}, read : Nat]
Idle == [step |-> "idle", id |-> NoId, user |-> Founder, org |-> NoOrg,
         role |-> "member", row |-> NoId, seen |-> {}, since |-> NoId,
         read |-> 0]

(* One address: a counter for each account, each invitation, and forgot.   *)
LoginKey(u) == <<"login", u>>
InviteKey(i) == <<"invite", i>>
ForgotKey == <<"forgot", 0>>
Keys == {LoginKey(u) : u \in Users} \cup {InviteKey(i) : i \in Ids}
          \cup {ForgotKey}

(* counted: the length of the list of _ECHECS.  Observations: tried, the   *)
(* wrong passwords or the demands since it was last emptied; lost, whether *)
(* a list put back has erased some of them.                                *)
Attempts == [counted : Nat, tried : Nat, lost : BOOLEAN]
NoAttempt == [counted |-> 0, tried |-> 0, lost |-> FALSE]

TypeInvariant ==
  /\ password \in [Users -> Ids \cup {NoId}]
  /\ sessions \subseteq AuthSession
  /\ links \subseteq PasswordResetToken
  /\ orgs \subseteq Organization
  /\ members \subseteq OrganizationMembership
  /\ invitations \subseteq OrganizationInvitation
  /\ failures \in [Keys -> Attempts]
  /\ req \in [Threads -> Request]
  /\ events \in 0..MaxEvents
  /\ interrupted \subseteq Users

-------------------------------------------------------------------------------
HasAccount(u) == password[u] # NoId
MembersOf(u) == {m \in members : m.user = u}
Member(o, u) == \E m \in members : m.org = o /\ m.user = u
OpenLinks(u) == {l \in links : l.user = u /\ ~l.used}
PendingInvitations(o, u) ==
  {i \in invitations : i.org = o /\ i.email = u /\ ~i.accepted /\ ~i.revoked}
Usable(i) == ~i.accepted /\ ~i.revoked /\ ~i.expired
IdsOf(rows) == {x.id : x \in rows}

Owner(o, u, id) == [org |-> o, user |-> u, role |-> "owner", id |-> id]
Space(id, u, default, late) ==
  [id |-> <<id, u>>, default |-> default, late |-> late]

(* The first start: ensure_first_user, ensure_legacy_organizations.  In    *)
(* the second state a user has since accepted an invitation as an          *)
(* administrator and is still connected.                                   *)
Init ==
  /\ orgs = {Space(0, Founder, TRUE, FALSE)}
  /\ links = {}
  /\ \E guests \in {{}} \cup {{u} : u \in Users \ {Founder}} :
       /\ password = [u \in Users |->
                        IF u \in guests \cup {Founder} THEN 0 ELSE NoId]
       /\ sessions = {[user |-> u, id |-> 0, since |-> 0, expired |-> FALSE,
                        late |-> FALSE] : u \in guests}
       /\ members = {Owner(<<0, Founder>>, Founder, 0)} \cup
            {[org |-> <<0, Founder>>, user |-> u, role |-> "admin", id |-> 0] :
               u \in guests}
       /\ invitations =
            {[org |-> <<0, Founder>>, email |-> u, role |-> "admin", id |-> 0,
              accepted |-> TRUE, revoked |-> FALSE, expired |-> FALSE,
              late |-> FALSE] : u \in guests}
  /\ failures = [k \in Keys |-> NoAttempt]
  /\ req = [t \in Threads |-> Idle]
  /\ events = 0
  /\ interrupted = {}

-------------------------------------------------------------------------------
(* current_user: a live session, or the API key, which acts as its user.   *)
Authenticated(u) ==
  \/ u = Founder
  \/ \E s \in sessions : s.user = u /\ ~s.expired

(* organization_admin.  The role is the one of this moment.                *)
OrganizationAdmin(o, u) ==
  /\ Authenticated(u)
  /\ \E m \in members : m.org = o /\ m.user = u /\ m.role \in {"owner", "admin"}

Event == events < MaxEvents /\ events' = events + 1
Start(t, step, u, r) ==
  /\ req[t] = Idle
  /\ Event
  /\ req' = [req EXCEPT ![t] = [r EXCEPT !.step = step, !.user = u,
                                         !.id = events + 1]]
Goes(t, step) == req' = [req EXCEPT ![t].step = step]
Ends(t) == req' = [req EXCEPT ![t] = Idle]
At(t, step) == req[t].step = step

(* The counter of a request: one for each account, invitation, and forgot. *)
CounterOf(r) ==
  CASE r.step \in {"checkLogin", "login"} -> LoginKey(r.user)
    [] r.step \in {"checkAccept", "accept"} -> InviteKey(r.row)
    [] OTHER -> ForgotKey

(* Mutant: one failure too many. *)
OneTooMany(n) == n > MaxFailures

TooMany(n) == n >= MaxFailures

(* trop_de_tentatives reads the list of the recent failures, then puts it  *)
(* back: what other threads have added or emptied meanwhile is undone.     *)
(* Then the row of the user is read.                                       *)
TropDeTentatives(t) ==
  /\ req[t].step \in CheckSteps
  /\ LET r == req[t]
         Back(a) == [a EXCEPT !.counted = r.read,
                              !.lost = @ \/ r.read < a.counted]
     IN /\ failures' = [failures EXCEPT ![CounterOf(r)] = Back(@)]
        /\ IF TooMany(r.read)
           THEN Ends(t)
           ELSE req' = [req EXCEPT ![t].step = Checked[r.step], ![t].read = 0,
                                   ![t].since = password[r.user]]
  /\ UNCHANGED <<accountVars, orgVars, events, interrupted>>

(* noter_echec and reinitialiser_tentatives.                               *)
NoterEchec(k) ==
  failures' = [failures EXCEPT ![k].counted = @ + 1, ![k].tried = @ + 1]
ReinitialiserTentatives(k) == failures' = [failures EXCEPT ![k] = NoAttempt]

(* login, of any address.                                                  *)
Login(t, u) ==
  /\ Start(t, "checkLogin", u,
           [Idle EXCEPT !.read = failures[LoginKey(u)].counted])
  /\ UNCHANGED <<accountVars, orgVars, failures, interrupted>>

(* No account or another password; an invitation without account makes one.*)
WrongPassword(t) ==
  /\ At(t, "login") \/ (At(t, "accept") /\ req[t].since # NoId)
  /\ NoterEchec(CounterOf(req[t]))
  /\ Ends(t)
  /\ UNCHANGED <<accountVars, orgVars, events, interrupted>>

(* Mutant: the account is not looked for.                                  *)
AnyPassword(t) ==
  /\ At(t, "login")
  /\ ReinitialiserTentatives(CounterOf(req[t]))
  /\ Goes(t, "open")
  /\ UNCHANGED <<accountVars, orgVars, events, interrupted>>

(* verify_password, on the hash that the row had.                          *)
RightPassword(t) ==
  /\ At(t, "login")
  /\ req[t].since # NoId
  /\ ReinitialiserTentatives(CounterOf(req[t]))
  /\ Goes(t, "open")
  /\ UNCHANGED <<accountVars, orgVars, events, interrupted>>

Revokes(t, u) == At(t, "revokeAll") /\ req[t].user = u

(* create_session.  It is late when the password has changed since it was  *)
(* verified and no revocation will see the session any more.               *)
OpenSession(t) ==
  /\ At(t, "open")
  /\ LET r == req[t] IN
       sessions' = sessions \cup
         {[user |-> r.user, id |-> r.id, since |-> r.since, expired |-> FALSE,
           late |-> /\ r.since # password[r.user]
                    /\ ~ \E t2 \in Threads : Revokes(t2, r.user)]}
  /\ Ends(t)
  /\ UNCHANGED <<password, links, orgVars, failures, events, interrupted>>

(* logout: revoke_session.                                                 *)
Logout(s) ==
  /\ Event
  /\ sessions' = sessions \ {s}
  /\ UNCHANGED <<password, links, orgVars, failures, req, interrupted>>

(* resolve_session deletes the expired session it is asked about.          *)
ResolveExpired(s) ==
  /\ s.expired
  /\ sessions' = sessions \ {s}
  /\ UNCHANGED <<password, links, orgVars, failures, req, events, interrupted>>

(* change_password: the current password is right.                         *)
ChangePassword(t, u) ==
  /\ Authenticated(u)
  /\ Start(t, "setPassword", u, Idle)
  /\ UNCHANGED <<accountVars, orgVars, failures, interrupted>>

SetPassword(t) ==
  /\ At(t, "setPassword")
  /\ password' = [password EXCEPT ![req[t].user] = req[t].id]
  /\ req' = [req EXCEPT ![t].step = "revokeAll", ![t].since = req[t].id]
  /\ UNCHANGED <<sessions, links, orgVars, failures, events, interrupted>>

(* revoke_all_sessions, in a transaction of its own, reads the sessions    *)
(* and deletes those it has read.  A change then opens a session, a reset  *)
(* does not.                                                               *)
SessionsOf(u) == {s \in sessions : s.user = u}
RevokeAllSessions(t) ==
  /\ At(t, "revokeAll")
  /\ req' = [req EXCEPT ![t].step = "deleteAll",
                        ![t].seen = IdsOf(SessionsOf(req[t].user))]
  /\ UNCHANGED <<accountVars, orgVars, failures, events, interrupted>>

Revoked(r, s) == s.user = r.user /\ s.id \in r.seen
DeleteSessions(t) ==
  /\ At(t, "deleteAll")
  /\ sessions' = {s \in sessions : ~Revoked(req[t], s)}
  /\ interrupted' = interrupted \ {req[t].user}
  /\ IF req[t].row = NoId THEN Goes(t, "open") ELSE Ends(t)
  /\ UNCHANGED <<password, links, orgVars, failures, events>>

(* Mutant: the previous links stay valid.                                  *)
CreateAnotherToken(t) ==
  /\ At(t, "sendLink")
  /\ LET u == req[t].user IN
       links' = links \cup {[user |-> u, id |-> req[t].id, used |-> FALSE,
                             expired |-> FALSE, late |-> FALSE]}
  /\ Ends(t)
  /\ UNCHANGED <<password, sessions, orgVars, failures, events, interrupted>>

(* forgot_password, for any address: every demand is counted.              *)
Forgot(t, u) ==
  /\ Start(t, "checkForgot", u, [Idle EXCEPT !.read = failures[ForgotKey].counted])
  /\ UNCHANGED <<accountVars, orgVars, failures, interrupted>>

(* create_reset_token reads the links that are not used, then marks them   *)
(* with its INSERT.                                                        *)
CountDemand(t) ==
  /\ At(t, "forgot")
  /\ NoterEchec(CounterOf(req[t]))
  /\ LET u == req[t].user IN
       IF HasAccount(u)
       THEN req' = [req EXCEPT ![t].step = "sendLink",
                               ![t].seen = IdsOf(OpenLinks(u))]
       ELSE Ends(t)
  /\ UNCHANGED <<accountVars, orgVars, events, interrupted>>

CreateResetToken(t) ==
  /\ At(t, "sendLink")
  /\ LET u == req[t].user
         Invalidated(l) == [l EXCEPT !.used = @ \/ l.id \in req[t].seen]
         fresh == [user |-> u, id |-> req[t].id, used |-> FALSE,
                   expired |-> FALSE,
                   late |-> ~(IdsOf(OpenLinks(u)) \subseteq req[t].seen)]
     IN links' = {Invalidated(l) : l \in links} \cup {fresh}
  /\ Ends(t)
  /\ UNCHANGED <<password, sessions, orgVars, failures, events, interrupted>>

(* Mutant: a reset leaves the sessions open.                               *)
ApplyLinkOnly(t) ==
  /\ At(t, "applyLink")
  /\ password' = [password EXCEPT ![req[t].user] = req[t].id]
  /\ links' = {[l EXCEPT !.used = @ \/ l.id = req[t].row] : l \in links}
  /\ Ends(t)
  /\ UNCHANGED <<sessions, orgVars, failures, events, interrupted>>

(* consume_reset_token.                                                    *)
ResetPassword(t, l) ==
  /\ ~l.used /\ ~l.expired
  /\ Start(t, "applyLink", l.user, [Idle EXCEPT !.row = l.id])
  /\ UNCHANGED <<accountVars, orgVars, failures, interrupted>>

ApplyLink(t) ==
  /\ At(t, "applyLink")
  /\ password' = [password EXCEPT ![req[t].user] = req[t].id]
  /\ links' = {[l EXCEPT !.used = @ \/ l.id = req[t].row] : l \in links}
  /\ req' = [req EXCEPT ![t].step = "revokeAll", ![t].since = req[t].id]
  /\ UNCHANGED <<sessions, orgVars, failures, events, interrupted>>

-------------------------------------------------------------------------------
(* ensure_user_organization, for a request that names no organisation.     *)
EnsureUserOrganization(t, u) ==
  /\ Authenticated(u)
  /\ MembersOf(u) = {}
  /\ Start(t, "createSpace", u, Idle)
  /\ UNCHANGED <<accountVars, orgVars, failures, interrupted>>

CreateSpace(t) ==
  /\ At(t, "createSpace")
  /\ LET u == req[t].user
         space == Space(req[t].id, u, TRUE, MembersOf(u) # {})
     IN /\ orgs' = orgs \cup {space}
        /\ members' = members \cup {Owner(space.id, u, req[t].id)}
  /\ Ends(t)
  /\ UNCHANGED <<accountVars, invitations, failures, events, interrupted>>

CreateOrganization(u) ==
  /\ Authenticated(u)
  /\ Event
  /\ LET space == Space(events', u, FALSE, FALSE) IN
       /\ orgs' = orgs \cup {space}
       /\ members' = members \cup {Owner(space.id, u, events')}
  /\ UNCHANGED <<accountVars, invitations, failures, req, interrupted>>

(* add_member.                                                             *)
AddMember(t, o, caller, u, role) ==
  /\ OrganizationAdmin(o, caller)
  /\ HasAccount(u) /\ ~Member(o, u)
  /\ role # "owner"
  /\ Start(t, "addMember", u, [Idle EXCEPT !.org = o, !.role = role])
  /\ UNCHANGED <<accountVars, orgVars, failures, interrupted>>

(* Mutant: no unique constraint.                                           *)
ConflictIgnored(o, u) == FALSE

(* uq_org_membership: a second row is an IntegrityError, and nothing of    *)
(* the transaction remains.                                                *)
Conflict(o, u) == Member(o, u)

InsertMember(t) ==
  /\ At(t, "addMember")
  /\ LET r == req[t] IN
       members' = members \cup
         {m \in {[org |-> r.org, user |-> r.user, role |-> r.role, id |-> r.id]} :
            ~Conflict(r.org, r.user)}
  /\ Ends(t)
  /\ UNCHANGED <<accountVars, orgs, invitations, failures, events, interrupted>>

(* Mutant: the owner is edited like anyone.                                *)
EditableAll(m) == TRUE

(* update_member and remove_member read the row of the member.             *)
Editable(m) == m.role # "owner"
EditMember(t, step, m, caller, role) ==
  /\ OrganizationAdmin(m.org, caller)
  /\ Editable(m)
  /\ Start(t, step, m.user, [Idle EXCEPT !.org = m.org, !.row = m.id,
                                         !.role = role])
  /\ UNCHANGED <<accountVars, orgVars, failures, interrupted>>

UpdateMember(t, m, caller, role) ==
  /\ role # "owner"
  /\ EditMember(t, "setRole", m, caller, role)

RemoveMember(t, m, caller) == EditMember(t, "removeMember", m, caller, "member")

(* The row read, if it is still there: the UPDATE of a row that is gone is *)
(* a StaleDataError, its DELETE a warning.                                 *)
TheRow(m, r) == m.org = r.org /\ m.user = r.user /\ m.id = r.row

SetRole(t) ==
  /\ At(t, "setRole")
  /\ members' = {IF TheRow(m, req[t]) THEN [m EXCEPT !.role = req[t].role]
                                      ELSE m : m \in members}
  /\ Ends(t)
  /\ UNCHANGED <<accountVars, orgs, invitations, failures, events, interrupted>>

DeleteMember(t) ==
  /\ At(t, "removeMember")
  /\ members' = {m \in members : ~TheRow(m, req[t])}
  /\ Ends(t)
  /\ UNCHANGED <<accountVars, orgs, invitations, failures, events, interrupted>>

(* create_invitation; create reads the pending invitations of the address, *)
(* then revokes them with its INSERT.                                      *)
Invite(t, o, caller, u, role) ==
  /\ OrganizationAdmin(o, caller)
  /\ role # "owner"
  /\ ~(HasAccount(u) /\ Member(o, u))
  /\ Start(t, "invite", u, [Idle EXCEPT !.org = o, !.role = role,
                              !.seen = IdsOf(PendingInvitations(o, u))])
  /\ UNCHANGED <<accountVars, orgVars, failures, interrupted>>

CreateInvitation(t) ==
  /\ At(t, "invite")
  /\ LET r == req[t]
         Replaced(i) == [i EXCEPT !.revoked = @ \/ i.id \in r.seen]
         fresh == [org |-> r.org, email |-> r.user, role |-> r.role, id |-> r.id,
                   accepted |-> FALSE, revoked |-> FALSE, expired |-> FALSE,
                   late |-> ~(IdsOf(PendingInvitations(r.org, r.user))
                                \subseteq r.seen)]
     IN invitations' = {Replaced(i) : i \in invitations} \cup {fresh}
  /\ Ends(t)
  /\ UNCHANGED <<accountVars, orgs, members, failures, events, interrupted>>

(* revoke_invitation refuses the accepted ones, even expired is accepted.  *)
RevokeInvitation(t, i, caller) ==
  /\ OrganizationAdmin(i.org, caller)
  /\ ~i.accepted
  /\ Start(t, "revokeInvitation", i.email, [Idle EXCEPT !.row = i.id])
  /\ UNCHANGED <<accountVars, orgVars, failures, interrupted>>

CommitRevocation(t) ==
  /\ At(t, "revokeInvitation")
  /\ invitations' = {[i EXCEPT !.revoked = @ \/ i.id = req[t].row] :
                       i \in invitations}
  /\ Ends(t)
  /\ UNCHANGED <<accountVars, orgs, members, failures, events, interrupted>>

-------------------------------------------------------------------------------
(* accept_invitation: resolve, then trop_de_tentatives and the account of  *)
(* the address, then bcrypt.                                               *)
AcceptInvitation(t, i) ==
  /\ Usable(i)
  /\ Start(t, "checkAccept", i.email,
           [Idle EXCEPT !.org = i.org, !.role = i.role, !.row = i.id,
                        !.read = failures[InviteKey(i.id)].counted])
  /\ UNCHANGED <<accountVars, orgVars, failures, interrupted>>

(* The password is right, or makes a new account, flushed and uncommitted; *)
(* accept reads the membership: seen is empty when there is none.          *)
ReadMembership(t) ==
  /\ At(t, "accept")
  /\ LET r == req[t] IN
       req' = [req EXCEPT ![t].step = "join",
                 ![t].seen = IdsOf({m \in MembersOf(r.user) : m.org = r.org})]
  /\ UNCHANGED <<accountVars, orgVars, failures, events, interrupted>>

(* One commit: the new account, the membership, accepted_at.  users.email  *)
(* and uq_org_membership refuse a second row, and then the whole of it.    *)
Join(t) ==
  /\ At(t, "join")
  /\ LET r == req[t]
         new == r.since = NoId
         twice == \/ new /\ HasAccount(r.user)
                  \/ r.seen = {} /\ Conflict(r.org, r.user)
     IN IF twice
        THEN Ends(t) /\ UNCHANGED <<accountVars, orgVars, failures>>
        ELSE /\ password' = IF new THEN [password EXCEPT ![r.user] = r.id]
                            ELSE password
             /\ members' = IF r.seen # {} THEN members
                           ELSE members \cup {[org |-> r.org, user |-> r.user,
                                               role |-> r.role, id |-> r.id]}
             /\ invitations' = {[i EXCEPT !.accepted = @ \/ i.id = r.row] :
                                  i \in invitations}
             /\ req' = [req EXCEPT ![t].step = "welcome",
                                   ![t].since = IF new THEN r.id ELSE @]
             /\ UNCHANGED <<sessions, links, orgs, failures>>
  /\ UNCHANGED <<events, interrupted>>

(* accept refreshes the membership, which may be gone again; then the      *)
(* failures are forgotten and the user connected.                          *)
Welcome(t) ==
  /\ At(t, "welcome")
  /\ IF Member(req[t].org, req[t].user)
     THEN /\ ReinitialiserTentatives(InviteKey(req[t].row))
          /\ Goes(t, "open")
     ELSE Ends(t) /\ UNCHANGED failures
  /\ UNCHANGED <<accountVars, orgVars, events, interrupted>>

-------------------------------------------------------------------------------
(* Time: the links last an hour, the sessions twelve, the invitations a    *)
(* week, and the failures are counted over five minutes.                   *)
Expire(rows) == {[x EXCEPT !.expired = TRUE] : x \in rows}
TimePasses ==
  /\ Event
  /\ failures' = [k \in Keys |-> NoAttempt]
  /\ \/ links' = Expire(links) /\ UNCHANGED <<sessions, invitations>>
     \/ /\ links' = Expire(links)
        /\ sessions' = Expire(sessions)
        /\ UNCHANGED invitations
     \/ /\ links' = Expire(links)
        /\ sessions' = Expire(sessions)
        /\ invitations' = Expire(invitations)
  /\ UNCHANGED <<password, orgs, members, req, interrupted>>

(* Mutant: each start gives everyone a space.                              *)
AnyAccount == {u \in Users : HasAccount(u)}

(* ensure_legacy_organizations.                                            *)
WithoutSpace == {u \in Users : HasAccount(u) /\ MembersOf(u) = {}}

PurgedSessions == {s \in sessions : ~s.expired}
PurgedLinks == {l \in links : ~l.expired}

(* The API process dies in the middle of anything and starts again: the    *)
(* counters are gone, the expired rows are purged, and everyone who        *)
(* belongs nowhere gets a space.                                           *)
Restart ==
  /\ Event
  /\ orgs' = orgs \cup {Space(events', u, TRUE, FALSE) : u \in WithoutSpace}
  /\ members' = members \cup
       {Owner(<<events', u>>, u, events') : u \in WithoutSpace}
  /\ interrupted' = interrupted \cup
       {req[t].user : t \in {t1 \in Threads :
                          At(t1, "revokeAll") \/ At(t1, "deleteAll")}}
  /\ req' = [t \in Threads |-> Idle]
  /\ failures' = [k \in Keys |-> NoAttempt]
  /\ sessions' = PurgedSessions
  /\ links' = PurgedLinks
  /\ UNCHANGED <<password, invitations>>

Begins(t) ==
  /\ req[t] = Idle /\ events < MaxEvents
  /\ \/ \E u \in Users :
          \/ Login(t, u) \/ ChangePassword(t, u) \/ Forgot(t, u)
          \/ EnsureUserOrganization(t, u)
     \/ \E l \in links : ResetPassword(t, l)
     \/ \E i \in invitations : AcceptInvitation(t, i)
     \/ \E caller \in Users :
          \/ \E m \in members : RemoveMember(t, m, caller)
          \/ \E m \in members, role \in Roles : UpdateMember(t, m, caller, role)
          \/ \E o \in orgs, u \in Users, role \in Roles :
               \/ AddMember(t, o.id, caller, u, role)
               \/ Invite(t, o.id, caller, u, role)
          \/ \E i \in invitations : RevokeInvitation(t, i, caller)

Proceeds(t) ==
  \/ TropDeTentatives(t)
  \/ WrongPassword(t) \/ RightPassword(t) \/ OpenSession(t)
  \/ SetPassword(t) \/ RevokeAllSessions(t) \/ DeleteSessions(t)
  \/ CountDemand(t) \/ CreateResetToken(t) \/ ApplyLink(t)
  \/ CreateSpace(t)
  \/ InsertMember(t) \/ SetRole(t) \/ DeleteMember(t)
  \/ CreateInvitation(t) \/ CommitRevocation(t)
  \/ ReadMembership(t) \/ Join(t) \/ Welcome(t)

Next ==
  \/ \E t \in Threads : Begins(t) \/ Proceeds(t)
  \/ \E u \in Users : CreateOrganization(u)
  \/ \E s \in sessions : Logout(s) \/ ResolveExpired(s)
  \/ TimePasses \/ Restart

Spec == Init /\ [][Next]_vars

-------------------------------------------------------------------------------
(* uq_org_membership, the checks of add_member and create_invitation and   *)
(* the SELECT of accept: a user has one row in an organisation, and so one *)
(* role, whichever requests admit him at the same time.                    *)
OneMembership ==
  \A m1, m2 \in members : m1.org = m2.org /\ m1.user = m2.user => m1 = m2

(* Whatever the administrators do to each other, through stale reads too,  *)
(* an organisation keeps the one owner who created it.                     *)
Owned ==
  \A o \in orgs :
    /\ \E m \in members : m.org = o.id /\ m.role = "owner"
    /\ \A m \in members :
         m.org = o.id => (m.role = "owner" <=> m.user = o.id[2])

(* A user gets one default space for ever, because its owner can never be  *)
(* removed from it; only two first requests at the same time make two.     *)
OneDefaultSpace ==
  \A o1, o2 \in orgs :
    o1.id[2] = o2.id[2] /\ o1.default /\ o2.default /\ ~o1.late /\ ~o2.late
      => o1 = o2

(* A changed password disconnects every device: no session whose request   *)
(* verified a previous one is left when the change or the reset ends, but  *)
(* two kinds: the API died between the two commits, or the session was     *)
(* committed after the revocation had read the sessions to delete.         *)
Condemned(s) ==
  \/ s.late
  \/ \E t \in Threads :
       Revokes(t, s.user) \/ (At(t, "deleteAll") /\ Revoked(req[t], s))
PasswordsEndSessions ==
  \A s \in sessions :
    s.since # password[s.user] => s.user \in interrupted \/ Condemned(s)

(* "Un seul lien vivant a la fois", and one pending invitation for an      *)
(* address: a new one ends the previous ones, except those that another    *)
(* request was making at the same time.                                    *)
OneLiveLink ==
  /\ \A l1, l2 \in links :
       /\ l1.user = l2.user
       /\ \A l \in {l1, l2} : ~l.used /\ ~l.late
       => l1 = l2
  /\ \A i1, i2 \in invitations :
       /\ i1.org = i2.org /\ i1.email = i2.email
       /\ \A i \in {i1, i2} : ~i.accepted /\ ~i.revoked /\ ~i.late
       => i1 = i2

(* What may be tried before a counter is emptied: trop_de_tentatives and   *)
(* noter_echec are separated by bcrypt, hence as many wrong passwords more *)
(* as there are other threads, and never one more, unless a check that     *)
(* overlapped a failure has put back the list without it.                  *)
AttemptsAreBounded ==
  \A k \in Keys :
    ~failures[k].lost =>
      failures[k].tried <= MaxFailures + Cardinality(Threads) - 1

===============================================================================
