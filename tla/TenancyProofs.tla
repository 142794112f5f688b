----------------------------- MODULE TenancyProofs -----------------------------
(***************************************************************************)
(* Proofs about Tenancy, for any number of users, of requests at a time,   *)
(* of failures and of events.                                              *)
(***************************************************************************)
EXTENDS Tenancy, FiniteSetTheorems, TLAPS

-----------------------------------------------------------------------------
(* What a request still knows of what it has read.                         *)

(* The steps of a request made for a user who has an account, and those    *)
(* that have verified or written his password.                             *)
AccountSteps == {"setPassword", "applyLink", "sendLink"}
PasswordSteps == {"revokeAll", "deleteAll", "open", "welcome"}

(* The steps that will write a row of an organisation already there.       *)
OrganizationSteps == {"addMember", "setRole", "removeMember", "invite",
                      "checkAccept", "accept", "join", "welcome"}
RoleSteps == {"addMember", "setRole", "invite", "checkAccept", "accept", "join"}
EditSteps == {"setRole", "removeMember"}

KnownOrgs == {o.id : o \in orgs}

Known(r) ==
  /\ r.step \in AccountSteps \/ r.since # NoId => HasAccount(r.user)
  /\ r.step \in PasswordSteps => r.since # NoId
  /\ r.step \in OrganizationSteps => r.org \in KnownOrgs
  /\ r.step \in RoleSteps => r.role # "owner"
  /\ r.step \in EditSteps => r.user # r.org[2]
Sound(r) == Known(r) /\ (r.step # "idle" => r.id \in 1..events)

RequestsAreSound == \A t \in Threads : Sound(req[t])

(* Accounts are never closed: what names a user keeps an account.          *)
AccountsStay ==
  /\ HasAccount(Founder)
  /\ \A s \in sessions : HasAccount(s.user)
  /\ \A l \in links : HasAccount(l.user)

(* Organisations are never deleted, and nobody is invited as an owner.     *)
RowsAreRooted ==
  /\ \A m \in members : m.org \in KnownOrgs
  /\ \A i \in invitations : i.org \in KnownOrgs /\ i.role # "owner"

Grounds == TypeInvariant /\ RequestsAreSound /\ AccountsStay /\ RowsAreRooted

(* The number of an event is used once.                                    *)
IdsAreFresh ==
  /\ \A o \in orgs : o.id[1] <= events
  /\ \A t \in Threads : At(t, "createSpace") =>
       \A o \in orgs : o.id[1] # req[t].id
  /\ \A t1, t2 \in Threads :
       req[t1].step # "idle" /\ req[t2].step # "idle" /\ req[t1].id = req[t2].id
         => t1 = t2

(* A session of an older password that a crash has left open is not spared *)
(* by a revocation that begins later.                                      *)
Deletes(t, u) == At(t, "deleteAll") /\ req[t].user = u
LeftOpen(s) ==
  s.user \in interrupted /\ \A t \in Threads : ~Deletes(t, s.user)
OldSessions ==
  \A s \in sessions :
    s.since # password[s.user] => LeftOpen(s) \/ Condemned(s)

TenancyInvariant ==
  Grounds /\ IdsAreFresh /\ OneMembership /\ Owned /\ OneDefaultSpace
    /\ OldSessions /\ OneLiveLink

(* The requests that have passed trop_de_tentatives for a counter and have *)
(* not counted their failure yet.                                          *)
Checking(k) == {t \in Threads : /\ req[t].step \in {"login", "accept", "forgot"}
                                /\ CounterOf(req[t]) = k}

Room(k) ==
  ~failures[k].lost =>
    /\ failures[k].tried <= failures[k].counted
    /\ failures[k].tried + Cardinality(Checking(k))
         <= MaxFailures + Cardinality(Threads) - 1
RoomForTries == \A k \in Keys : Room(k)

-----------------------------------------------------------------------------
(* The moves of a request.                                                 *)

AccountsGrow == \A u \in Users : HasAccount(u) => password'[u] # NoId
OrgsGrow == orgs \subseteq orgs'

LEMMA IdleIsSound ==
  ASSUME TenancyAssumption
  PROVE  Idle \in Request /\ Idle.step = "idle" /\ Sound(Idle) /\ Sound(Idle)'
  BY DEF TenancyAssumption, Idle, Request, Steps, Roles, NoOrg, Sound, Known,
         AccountSteps, PasswordSteps, OrganizationSteps, RoleSteps, EditSteps

(* What a request knows stays true.                                        *)
LEMMA KnownStays ==
  ASSUME NEW r \in Request, Known(r), AccountsGrow, OrgsGrow
  PROVE  Known(r)'
  BY DEF Known, AccountsGrow, OrgsGrow, HasAccount, KnownOrgs, Request

(* One request moves to a sound state, the others stay sound.              *)
LEMMA RequestMoves ==
  ASSUME Grounds, AccountsGrow, OrgsGrow, events' \in {events, events + 1},
         NEW t \in Threads, NEW r \in Request, Sound(r)',
         req' = [req EXCEPT ![t] = r]
  PROVE  req' \in [Threads -> Request] /\ RequestsAreSound'
<1>1. req \in [Threads -> Request] /\ events \in Nat
  BY DEF Grounds, TypeInvariant
<1>2. req' \in [Threads -> Request]
  BY <1>1
<1>3. ASSUME NEW t2 \in Threads \ {t}
      PROVE  Sound(req[t2])'
  <2>1. req'[t2] = req[t2] /\ req[t2] \in Request /\ Sound(req[t2])
    BY <1>1, <1>3 DEF Grounds, RequestsAreSound
  <2>2. Known(req[t2])'
    BY <2>1, KnownStays DEF Sound
  <2>3. req[t2].step # "idle" => req[t2].id \in 1..events'
    BY <1>1, <2>1 DEF Sound
  <2>4. QED
    BY <2>1, <2>2, <2>3 DEF Sound, Known, HasAccount, KnownOrgs
<1>4. Sound(req[t])'
  BY <1>1 DEF Sound, Known, HasAccount, KnownOrgs
<1>5. QED
  BY <1>2, <1>3, <1>4 DEF RequestsAreSound

(* A request that begins: its number is new and it changes no table.       *)
BeginSteps == CheckSteps \cup
  {"setPassword", "applyLink", "createSpace", "addMember", "setRole",
   "removeMember", "invite", "revokeInvitation"}
Begun(t, r) ==
  /\ r \in Request /\ r.step \in BeginSteps /\ r.id = events + 1 /\ Known(r)
  /\ req[t] = Idle /\ req' = [req EXCEPT ![t] = r]
  /\ events < MaxEvents /\ events' = events + 1
  /\ UNCHANGED <<accountVars, orgVars, failures, interrupted>>

LEMMA StartMoves ==
  ASSUME TenancyAssumption, Grounds, NEW t \in Threads, NEW step \in Steps,
         NEW u \in Users, NEW r0 \in Request, Start(t, step, u, r0)
  PROVE  \E r \in Request :
           /\ r.step = step /\ r.user = u /\ r.id = events + 1
           /\ r.org = r0.org /\ r.role = r0.role /\ r.since = r0.since
           /\ req[t] = Idle /\ req' = [req EXCEPT ![t] = r]
           /\ events < MaxEvents /\ events' = events + 1
<1> DEFINE r == [r0 EXCEPT !.step = step, !.user = u, !.id = events + 1]
<1>1. events \in 0..MaxEvents /\ events < MaxEvents /\ MaxEvents \in Nat
  BY DEF Grounds, TypeInvariant, Start, Event, TenancyAssumption
<1>2. events + 1 \in Ids
  BY <1>1 DEF Ids
<1>3. /\ r \in Request
      /\ r.step = step /\ r.user = u /\ r.id = events + 1
      /\ r.org = r0.org /\ r.role = r0.role /\ r.since = r0.since
  BY <1>2 DEF Request
<1>4. QED
  BY <1>1, <1>3 DEF Start, Event

LEMMA StartBegins ==
  ASSUME Grounds, TenancyAssumption, NEW t \in Threads, NEW step \in Steps,
         NEW u \in Users, NEW r0 \in Request, Start(t, step, u, r0),
         step \in BeginSteps, r0.since = NoId,
         step \in AccountSteps => HasAccount(u),
         step \notin OrganizationSteps \cup RoleSteps \cup EditSteps,
         UNCHANGED <<accountVars, orgVars, failures, interrupted>>
  PROVE  \E r : Begun(t, r)
<1>1. PICK r \in Request :
       /\ r.step = step /\ r.user = u /\ r.id = events + 1
       /\ r.org = r0.org /\ r.role = r0.role /\ r.since = r0.since
       /\ req[t] = Idle /\ req' = [req EXCEPT ![t] = r]
       /\ events < MaxEvents /\ events' = events + 1
  BY StartMoves
<1>2. Known(r)
  BY <1>1 DEF Known, HasAccount, BeginSteps, CheckSteps, PasswordSteps
<1>3. QED
  BY <1>1, <1>2 DEF Begun

LEMMA BeginsMoves ==
  ASSUME TenancyAssumption, Grounds, Owned, NEW t \in Threads, Begins(t)
  PROVE  \E r : Begun(t, r)
<1> USE DEF Begun, BeginSteps, CheckSteps, PasswordSteps
<1>0. /\ Idle \in Request /\ Idle.role = "member" /\ Idle.org = NoOrg
      /\ Idle.since = NoId
  BY IdleIsSound DEF Idle
<1>1. ASSUME NEW u \in Users,
             \/ Login(t, u) \/ ChangePassword(t, u) \/ Forgot(t, u)
             \/ EnsureUserOrganization(t, u)
      PROVE  \E r : Begun(t, r)
  <2>0. ASSUME NEW k \in Keys
        PROVE  /\ [Idle EXCEPT !.read = failures[k].counted] \in Request
               /\ [Idle EXCEPT !.read = failures[k].counted].since = NoId
    <3>1. failures[k].counted \in Nat
      BY DEF Grounds, TypeInvariant, Attempts
    <3>2. QED
      BY <1>0, <3>1 DEF Request
  <2>1. CASE Login(t, u)
    <3>1. LoginKey(u) \in Keys /\ "checkLogin" \in Steps
      BY DEF Keys, Steps
    <3> DEFINE r0 == [Idle EXCEPT !.read = failures[LoginKey(u)].counted]
    <3>2. r0 \in Request /\ r0.since = NoId
      BY <2>0, <3>1
    <3>3. /\ Start(t, "checkLogin", u, r0)
          /\ UNCHANGED <<accountVars, orgVars, failures, interrupted>>
      BY <2>1 DEF Login
    <3> HIDE DEF r0
    <3>4. QED
      BY <3>1, <3>2, <3>3, StartBegins
      DEF AccountSteps, OrganizationSteps, RoleSteps, EditSteps
  <2>2. CASE ChangePassword(t, u)
    <3>1. HasAccount(u)
      BY <2>2 DEF ChangePassword, Authenticated, Grounds, AccountsStay
    <3>2. QED
      BY <1>0, <2>2, <3>1, StartMoves
      DEF ChangePassword, Known, Steps, AccountSteps, OrganizationSteps,
          RoleSteps, EditSteps
  <2>3. CASE Forgot(t, u)
    <3>1. ForgotKey \in Keys /\ "checkForgot" \in Steps
      BY DEF Keys, Steps
    <3> DEFINE r0 == [Idle EXCEPT !.read = failures[ForgotKey].counted]
    <3>2. r0 \in Request /\ r0.since = NoId
      BY <2>0, <3>1
    <3>3. /\ Start(t, "checkForgot", u, r0)
          /\ UNCHANGED <<accountVars, orgVars, failures, interrupted>>
      BY <2>3 DEF Forgot
    <3> HIDE DEF r0
    <3>4. QED
      BY <3>1, <3>2, <3>3, StartBegins
      DEF AccountSteps, OrganizationSteps, RoleSteps, EditSteps
  <2>4. CASE EnsureUserOrganization(t, u)
    BY <1>0, <2>4, StartMoves
    DEF EnsureUserOrganization, Known, Steps, AccountSteps, OrganizationSteps,
        RoleSteps, EditSteps
  <2>5. QED
    BY <1>1, <2>1, <2>2, <2>3, <2>4
<1>2. ASSUME NEW l \in links, ResetPassword(t, l)
      PROVE  \E r : Begun(t, r)
  <2>1. l.user \in Users /\ HasAccount(l.user) /\ l.id \in Ids
    BY DEF Grounds, TypeInvariant, AccountsStay, PasswordResetToken
  <2>2. /\ [Idle EXCEPT !.row = l.id] \in Request
        /\ [Idle EXCEPT !.row = l.id].since = NoId
    BY <1>0, <2>1 DEF Request
  <2>3. QED
    BY <1>0, <1>2, <2>1, <2>2, StartMoves
    DEF ResetPassword, Known, Steps, AccountSteps, OrganizationSteps, RoleSteps,
        EditSteps
<1>3. ASSUME NEW i \in invitations, AcceptInvitation(t, i)
      PROVE  \E r : Begun(t, r)
  <2>1. /\ i.email \in Users /\ i.id \in Ids /\ i.role \in Roles
        /\ i.org \in OrgIds /\ i.org \in KnownOrgs /\ i.role # "owner"
    BY DEF Grounds, TypeInvariant, RowsAreRooted, OrganizationInvitation
  <2> DEFINE r0 == [Idle EXCEPT !.org = i.org, !.role = i.role, !.row = i.id,
                                !.read = failures[InviteKey(i.id)].counted]
  <2>2a. failures[InviteKey(i.id)].counted \in Nat
    BY <2>1 DEF Grounds, TypeInvariant, Attempts, Keys
  <2>2. /\ r0 \in Request /\ r0.org = i.org /\ r0.role = i.role
        /\ r0.since = NoId
    BY <1>0, <2>1, <2>2a DEF Request
  <2>3a. "checkAccept" \in Steps /\ Start(t, "checkAccept", i.email, r0)
    BY <1>3, <2>1, <2>2 DEF AcceptInvitation, Steps, CheckSteps
  <2> HIDE DEF r0
  <2>3. PICK r \in Request :
         /\ r.step = "checkAccept" /\ r.user = i.email /\ r.id = events + 1
         /\ r.org = r0.org /\ r.role = r0.role /\ r.since = r0.since
         /\ req[t] = Idle /\ req' = [req EXCEPT ![t] = r]
         /\ events < MaxEvents /\ events' = events + 1
    BY <1>3, <2>1, <2>2, <2>3a, StartMoves
  <2>4. Known(r)
    BY <2>1, <2>2, <2>3 DEF Known, AccountSteps, OrganizationSteps, RoleSteps, EditSteps
  <2>5. QED
    BY <1>3, <2>3, <2>4 DEF AcceptInvitation
<1>4. ASSUME NEW caller \in Users, NEW m \in members, NEW role \in Roles,
             RemoveMember(t, m, caller) \/ UpdateMember(t, m, caller, role)
      PROVE  \E r : Begun(t, r)
  <2>1. /\ m.org \in OrgIds /\ m.user \in Users /\ m.id \in Ids
        /\ m.org \in KnownOrgs
    BY DEF Grounds, TypeInvariant, RowsAreRooted, OrganizationMembership
  <2>2. PICK step \in {"setRole", "removeMember"}, role2 \in Roles :
          role2 # "owner" /\ EditMember(t, step, m, caller, role2)
    BY <1>4 DEF RemoveMember, UpdateMember, Roles
  <2> DEFINE r0 == [Idle EXCEPT !.org = m.org, !.row = m.id, !.role = role2]
  <2>3. r0 \in Request /\ r0.org = m.org /\ r0.role = role2 /\ r0.since = NoId
    BY <1>0, <2>1 DEF Request
  <2>4a. step \in Steps /\ Start(t, step, m.user, r0)
    BY <2>1, <2>2, <2>3 DEF EditMember, Steps
  <2> HIDE DEF r0
  <2>4. PICK r \in Request :
         /\ r.step = step /\ r.user = m.user /\ r.id = events + 1
         /\ r.org = r0.org /\ r.role = r0.role /\ r.since = r0.since
         /\ req[t] = Idle /\ req' = [req EXCEPT ![t] = r]
         /\ events < MaxEvents /\ events' = events + 1
    BY <2>1, <2>2, <2>3, <2>4a, StartMoves
  <2>5. m.user # m.org[2]
    BY <2>1, <2>2 DEF EditMember, Editable, Owned, KnownOrgs
  <2>6. Known(r)
    BY <2>1, <2>2, <2>3, <2>4, <2>5 DEF Known, AccountSteps, OrganizationSteps, RoleSteps, EditSteps
  <2>7. QED
    BY <2>2, <2>4, <2>6 DEF EditMember
<1>5. ASSUME NEW caller \in Users, NEW o \in orgs, NEW u \in Users,
             NEW role \in Roles,
             AddMember(t, o.id, caller, u, role) \/ Invite(t, o.id, caller, u, role)
      PROVE  \E r : Begun(t, r)
  <2>1. o.id \in OrgIds /\ o.id \in KnownOrgs
    BY DEF Grounds, TypeInvariant, Organization, KnownOrgs
  <2>2. IdsOf(PendingInvitations(o.id, u)) \subseteq Ids
    BY DEF IdsOf, PendingInvitations, Grounds, TypeInvariant,
           OrganizationInvitation
  <2> DEFINE r1 == [Idle EXCEPT !.org = o.id, !.role = role]
             r2 == [Idle EXCEPT !.org = o.id, !.role = role,
                                !.seen = IdsOf(PendingInvitations(o.id, u))]
  <2>3. /\ r1 \in Request /\ r1.org = o.id /\ r1.role = role /\ r1.since = NoId
        /\ r2 \in Request /\ r2.org = o.id /\ r2.role = role /\ r2.since = NoId
    BY <1>0, <2>1, <2>2 DEF Request
  <2>4. CASE AddMember(t, o.id, caller, u, role)
    <3>1a. "addMember" \in Steps /\ Start(t, "addMember", u, r1)
      BY <2>3, <2>4 DEF AddMember, Steps
    <3> HIDE DEF r1
    <3>1. PICK r \in Request :
           /\ r.step = "addMember" /\ r.user = u /\ r.id = events + 1
           /\ r.org = r1.org /\ r.role = r1.role /\ r.since = r1.since
           /\ req[t] = Idle /\ req' = [req EXCEPT ![t] = r]
           /\ events < MaxEvents /\ events' = events + 1
      BY <2>3, <2>4, <3>1a, StartMoves
    <3>2. Known(r)
      BY <2>1, <2>3, <2>4, <3>1
      DEF AddMember, Known, AccountSteps, OrganizationSteps, RoleSteps, EditSteps
    <3>3. QED
      BY <2>4, <3>1, <3>2 DEF AddMember
  <2>5. CASE Invite(t, o.id, caller, u, role)
    <3>1a. "invite" \in Steps /\ Start(t, "invite", u, r2)
      BY <2>3, <2>5 DEF Invite, Steps
    <3> HIDE DEF r2
    <3>1. PICK r \in Request :
           /\ r.step = "invite" /\ r.user = u /\ r.id = events + 1
           /\ r.org = r2.org /\ r.role = r2.role /\ r.since = r2.since
           /\ req[t] = Idle /\ req' = [req EXCEPT ![t] = r]
           /\ events < MaxEvents /\ events' = events + 1
      BY <2>3, <2>5, <3>1a, StartMoves
    <3>2. Known(r)
      BY <2>1, <2>3, <2>5, <3>1
      DEF Invite, Known, AccountSteps, OrganizationSteps, RoleSteps, EditSteps
    <3>3. QED
      BY <2>5, <3>1, <3>2 DEF Invite
  <2>6. QED
    BY <1>5, <2>4, <2>5
<1>6. ASSUME NEW caller \in Users, NEW i \in invitations,
             RevokeInvitation(t, i, caller)
      PROVE  \E r : Begun(t, r)
  <2>1. i.email \in Users /\ i.id \in Ids
    BY DEF Grounds, TypeInvariant, OrganizationInvitation
  <2> DEFINE r0 == [Idle EXCEPT !.row = i.id]
  <2>2. r0 \in Request /\ r0.since = NoId
    BY <1>0, <2>1 DEF Request
  <2>3. /\ Start(t, "revokeInvitation", i.email, r0)
        /\ UNCHANGED <<accountVars, orgVars, failures, interrupted>>
    BY <1>6 DEF RevokeInvitation
  <2> HIDE DEF r0
  <2>4. QED
    BY <2>1, <2>2, <2>3, StartBegins
    DEF Steps, AccountSteps, OrganizationSteps, RoleSteps, EditSteps
<1>7. QED
  BY <1>1, <1>2, <1>3, <1>4, <1>5, <1>6 DEF Begins, Roles

(* What a request that goes on, or ends, leaves of the requests.           *)
LEMMA EndsIsSound ==
  ASSUME TenancyAssumption, Grounds, AccountsGrow, OrgsGrow, UNCHANGED events,
         NEW t \in Threads, Ends(t)
  PROVE  req' \in [Threads -> Request] /\ RequestsAreSound'
  BY IdleIsSound, RequestMoves DEF Ends

(* A request that goes on keeps its number, its user and what it is about. *)
ContinuedSteps == {"login", "forgot", "accept", "join", "sendLink"}
                    \cup PasswordSteps
GoesOn(t, step, seen, since, read) ==
  req' = [req EXCEPT ![t] = [req[t] EXCEPT !.step = step, !.seen = seen,
                                           !.since = since, !.read = read]]

LEMMA Continued ==
  ASSUME TenancyAssumption, Grounds, NEW t \in Threads,
         NEW step \in ContinuedSteps, NEW seen \in SUBSET Ids,
         NEW since \in Ids \cup {NoId}, NEW read \in Nat,
         GoesOn(t, step, seen, since, read)
  PROVE  /\ req'[t] \in Request /\ req' = [req EXCEPT ![t] = req'[t]]
         /\ req'[t].step = step /\ req'[t].seen = seen
         /\ req'[t].since = since
         /\ req'[t].id = req[t].id /\ req'[t].user = req[t].user
         /\ req'[t].org = req[t].org /\ req'[t].role = req[t].role
         /\ req'[t].row = req[t].row
         /\ \A t2 \in Threads \ {t} : req'[t2] = req[t2]
<1>1. req \in [Threads -> Request] /\ req[t] \in Request /\ step \in Steps
  BY DEF Grounds, TypeInvariant, ContinuedSteps, PasswordSteps, Steps
<1> DEFINE r == [req[t] EXCEPT !.step = step, !.seen = seen,
                               !.since = since, !.read = read]
<1>2. /\ r \in Request /\ r.step = step /\ r.seen = seen /\ r.since = since
      /\ r.id = req[t].id /\ r.user = req[t].user
      /\ r.org = req[t].org /\ r.role = req[t].role /\ r.row = req[t].row
  BY <1>1 DEF Request
<1>3. req' = [req EXCEPT ![t] = r]
  BY DEF GoesOn
<1> HIDE DEF r
<1>4. QED
  BY <1>1, <1>2, <1>3

LEMMA GoesOnIsSound ==
  ASSUME TenancyAssumption, Grounds, AccountsGrow, OrgsGrow, UNCHANGED events,
         NEW t \in Threads, req[t].step # "idle",
         NEW step \in ContinuedSteps, NEW seen \in SUBSET Ids,
         NEW since \in Ids \cup {NoId}, NEW read \in Nat,
         GoesOn(t, step, seen, since, read),
         step = "sendLink" \/ since # NoId => password'[req[t].user] # NoId,
         step \in PasswordSteps => since # NoId,
         step \in OrganizationSteps => req[t].org \in KnownOrgs,
         step \in RoleSteps => req[t].role # "owner"
  PROVE  req' \in [Threads -> Request] /\ RequestsAreSound'
<1>1. req[t].id \in 1..events
  BY DEF Grounds, RequestsAreSound, Sound
<1>2. req[t] \in Request /\ step \in Steps
  BY DEF Grounds, TypeInvariant, ContinuedSteps, PasswordSteps, Steps
<1> DEFINE next == [req[t] EXCEPT !.step = step, !.seen = seen,
                                  !.since = since, !.read = read]
<1>2a. /\ next \in Request /\ req' = [req EXCEPT ![t] = next]
       /\ next.step = step /\ next.since = since
       /\ next.id = req[t].id /\ next.user = req[t].user
       /\ next.org = req[t].org /\ next.role = req[t].role
  BY <1>2 DEF Request, GoesOn
<1> HIDE DEF next
<1>3. PICK r \in Request :
        /\ req' = [req EXCEPT ![t] = r]
        /\ r.step = step /\ r.since = since
        /\ r.id = req[t].id /\ r.user = req[t].user
        /\ r.org = req[t].org /\ r.role = req[t].role
  BY <1>2a
<1>4. step \in OrganizationSteps => r.org \in KnownOrgs'
  BY <1>3 DEF KnownOrgs, OrgsGrow
<1>5. Known(r)'
  <2>1. r.step \notin EditSteps
    BY <1>3 DEF ContinuedSteps, PasswordSteps, EditSteps
  <2>2. r.step \in AccountSteps => step = "sendLink"
    BY <1>3 DEF ContinuedSteps, PasswordSteps, AccountSteps
  <2>3. QED
    BY <1>3, <1>4, <2>1, <2>2 DEF Known, HasAccount, KnownOrgs
<1>6. Sound(r)'
  BY <1>1, <1>3, <1>5 DEF Sound, Known, HasAccount, KnownOrgs
<1>7. QED
  BY <1>3, <1>6, RequestMoves

-----------------------------------------------------------------------------
(* Types, accounts and roots                                               *)

LEMMA GroundsInit == TenancyAssumption /\ Init => Grounds
<1> SUFFICES ASSUME TenancyAssumption, Init
             PROVE  Grounds
  OBVIOUS
<1>1. 0 \in Ids /\ Founder \in Users /\ 0 \in 0..MaxEvents /\ NoId \notin Ids
  BY DEF TenancyAssumption, Ids, NoId
<1>2. PICK guests \in {{}} \cup {{u} : u \in Users \ {Founder}} :
        /\ password = [u \in Users |->
                         IF u \in guests \cup {Founder} THEN 0 ELSE NoId]
        /\ sessions = {[user |-> u, id |-> 0, since |-> 0, expired |-> FALSE,
                        late |-> FALSE] : u \in guests}
        /\ members = {Owner(<<0, Founder>>, Founder, 0)} \cup
             {[org |-> <<0, Founder>>, user |-> u, role |-> "admin", id |-> 0] :
                u \in guests}
        /\ invitations =
             {[org |-> <<0, Founder>>, email |-> u, role |-> "admin", id |-> 0,
               accepted |-> TRUE, revoked |-> FALSE, expired |-> FALSE,
               late |-> FALSE] : u \in guests}
  BY DEF Init
<1>3. guests \subseteq Users
  OBVIOUS
<1>4. orgs = {Space(0, Founder, TRUE, FALSE)} /\ links = {}
  BY DEF Init
<1>5. password \in [Users -> Ids \cup {NoId}]
  BY <1>1, <1>2
<1>5a. sessions \subseteq AuthSession
  <2>1. ASSUME NEW u \in guests
        PROVE  [user |-> u, id |-> 0, since |-> 0, expired |-> FALSE,
                late |-> FALSE] \in AuthSession
    BY <1>1, <1>3 DEF AuthSession
  <2>2. QED
    BY <1>2, <2>1
<1>6. orgs \subseteq Organization /\ KnownOrgs = {<<0, Founder>>}
  BY <1>1, <1>4 DEF Organization, Space, OrgIds, KnownOrgs
<1>7. members \subseteq OrganizationMembership
  BY <1>1, <1>2, <1>3 DEF OrganizationMembership, Owner, OrgIds, Roles
<1>7a. invitations \subseteq OrganizationInvitation
  <2>1. ASSUME NEW u \in guests
        PROVE  [org |-> <<0, Founder>>, email |-> u, role |-> "admin", id |-> 0,
                accepted |-> TRUE, revoked |-> FALSE, expired |-> FALSE,
                late |-> FALSE] \in OrganizationInvitation
    BY <1>1, <1>3 DEF OrganizationInvitation, OrgIds, Roles
  <2>2. QED
    BY <1>2, <2>1
<1>8. RowsAreRooted
  BY <1>2, <1>6 DEF RowsAreRooted, Owner
<1>9. AccountsStay
  BY <1>1, <1>2, <1>4 DEF AccountsStay, HasAccount, NoId
<1>10. req \in [Threads -> Request] /\ RequestsAreSound
  BY IdleIsSound DEF Init, RequestsAreSound
<1>11. failures \in [Keys -> Attempts] /\ events \in 0..MaxEvents /\ interrupted \subseteq Users
  BY <1>1 DEF Init, Attempts, NoAttempt
<1>12. QED
  BY <1>4, <1>5, <1>5a, <1>6, <1>7, <1>7a, <1>8, <1>9, <1>10, <1>11 DEF Grounds, TypeInvariant

(* A request begins: nothing changes besides.                              *)
LEMMA GroundsBegins ==
  ASSUME TenancyAssumption, Grounds, Owned, NEW t \in Threads, Begins(t)
  PROVE  Grounds'
<1>1. PICK r : Begun(t, r)
  BY BeginsMoves
<1>2. AccountsGrow /\ OrgsGrow
  BY <1>1 DEF Begun, AccountsGrow, OrgsGrow, accountVars, orgVars, HasAccount
<1>3. Known(r)'
  BY <1>1, <1>2, KnownStays DEF Begun
<1>4. Sound(r)'
  BY <1>1, <1>3
  DEF Begun, Sound, Known, HasAccount, KnownOrgs, Grounds, TypeInvariant
<1>5. req' \in [Threads -> Request] /\ RequestsAreSound'
  BY <1>1, <1>2, <1>4, RequestMoves DEF Begun
<1>6. AccountsStay' /\ RowsAreRooted'
  BY <1>1
  DEF Begun, accountVars, orgVars, Grounds, AccountsStay, RowsAreRooted,
      HasAccount, KnownOrgs
<1>7. failures' \in [Keys -> Attempts]
  BY <1>1 DEF Begun, Grounds, TypeInvariant
<1>8. events' \in 0..MaxEvents
  BY <1>1 DEF Begun, Grounds, TypeInvariant, TenancyAssumption
<1>9. TypeInvariant'
  BY <1>1, <1>5, <1>7, <1>8
  DEF Begun, accountVars, orgVars, Grounds, TypeInvariant
<1>10. QED
  BY <1>5, <1>6, <1>9 DEF Grounds

(* The counters of failures.                                               *)
LEMMA CounterChanges ==
  ASSUME Grounds, NEW k, NEW a, k \in Keys => a \in Attempts,
         failures' = [failures EXCEPT ![k] = a]
  PROVE  /\ failures' \in [Keys -> Attempts]
         /\ \A x \in Keys : failures'[x] = IF x = k THEN a ELSE failures[x]
<1>1. failures \in [Keys -> Attempts]
  BY DEF Grounds, TypeInvariant
<1>2. CASE k \in Keys
  BY <1>1, <1>2
<1>3. CASE k \notin Keys
  BY <1>1, <1>3
<1>4. QED
  BY <1>2, <1>3

LEMMA FailureCounted ==
  ASSUME Grounds, NEW k, NoterEchec(k)
  PROVE  /\ failures' \in [Keys -> Attempts]
         /\ \A x \in Keys : x # k => failures'[x] = failures[x]
         /\ k \in Keys => /\ failures'[k].counted = failures[k].counted + 1
                          /\ failures'[k].tried = failures[k].tried + 1
                          /\ failures'[k].lost = failures[k].lost
<1> DEFINE a == [failures[k] EXCEPT !.counted = @ + 1, !.tried = @ + 1]
<1>1. failures \in [Keys -> Attempts]
  BY DEF Grounds, TypeInvariant
<1>2. ASSUME k \in Keys
      PROVE  /\ a \in Attempts /\ a.counted = failures[k].counted + 1
             /\ a.tried = failures[k].tried + 1 /\ a.lost = failures[k].lost
  <2>1. PICK f \in Attempts : f = failures[k]
    BY <1>1, <1>2
  <2>2. f.counted + 1 \in Nat /\ f.tried + 1 \in Nat /\ f.lost \in BOOLEAN
    BY DEF Attempts
  <2>3. ASSUME NEW c \in Nat, NEW d \in Nat
        PROVE  /\ [f EXCEPT !.counted = c, !.tried = d] \in Attempts
               /\ [f EXCEPT !.counted = c, !.tried = d].counted = c
               /\ [f EXCEPT !.counted = c, !.tried = d].tried = d
               /\ [f EXCEPT !.counted = c, !.tried = d].lost = f.lost
    BY DEF Attempts
  <2>4. a = [f EXCEPT !.counted = f.counted + 1, !.tried = f.tried + 1]
    BY <2>1
  <2> HIDE DEF a
  <2>5. /\ a \in Attempts /\ a.counted = f.counted + 1
        /\ a.tried = f.tried + 1 /\ a.lost = f.lost
    BY <2>2, <2>3, <2>4
  <2>6. QED
    BY <2>1, <2>5
<1>3. failures' = [failures EXCEPT ![k] = a]
  BY <1>1 DEF NoterEchec
<1> HIDE DEF a
<1>4. QED
  BY <1>1, <1>2, <1>3, CounterChanges

LEMMA FailuresForgotten ==
  ASSUME Grounds, NEW k, ReinitialiserTentatives(k)
  PROVE  /\ failures' \in [Keys -> Attempts]
         /\ \A x \in Keys :
              failures'[x] = IF x = k THEN NoAttempt ELSE failures[x]
  BY CounterChanges DEF ReinitialiserTentatives, Attempts, NoAttempt

(* The list of trop_de_tentatives is put back.                             *)
LEMMA FailuresPutBack ==
  ASSUME Grounds, NEW t \in Threads, TropDeTentatives(t)
  PROVE  LET k == CounterOf(req[t])
             read == req[t].read
         IN /\ read \in Nat /\ failures' \in [Keys -> Attempts]
            /\ \A x \in Keys : x # k => failures'[x] = failures[x]
            /\ k \in Keys =>
                 /\ failures'[k].counted = read
                 /\ failures'[k].tried = failures[k].tried
                 /\ ~failures'[k].lost =>
                      ~failures[k].lost /\ failures[k].counted <= read
<1> DEFINE k == CounterOf(req[t])
           read == req[t].read
           a == [failures[k] EXCEPT !.counted = read,
                                    !.lost = @ \/ read < failures[k].counted]
<1>1. failures \in [Keys -> Attempts] /\ read \in Nat
  BY DEF Grounds, TypeInvariant, Request
<1>2. failures' = [failures EXCEPT ![k] = a]
  BY <1>1 DEF TropDeTentatives
<1>3. ASSUME k \in Keys
      PROVE  /\ a \in Attempts /\ a.counted = read
             /\ a.tried = failures[k].tried
             /\ ~a.lost => ~failures[k].lost /\ failures[k].counted <= read
             /\ failures[k].counted \in Nat
  <2>1. PICK f \in Attempts : f = failures[k] /\ f.counted \in Nat
    BY <1>1, <1>3 DEF Attempts
  <2>2. ASSUME NEW n \in Nat, NEW b \in BOOLEAN
        PROVE  /\ [f EXCEPT !.counted = n, !.lost = b] \in Attempts
               /\ [f EXCEPT !.counted = n, !.lost = b].counted = n
               /\ [f EXCEPT !.counted = n, !.lost = b].tried = f.tried
               /\ [f EXCEPT !.counted = n, !.lost = b].lost = b
    BY DEF Attempts
  <2>3. PICK b \in BOOLEAN : b = (f.lost \/ read < f.counted)
    OBVIOUS
  <2>4. a = [f EXCEPT !.counted = read, !.lost = b]
    BY <2>1, <2>3
  <2> HIDE DEF a, read
  <2>5. /\ a \in Attempts /\ a.counted = read /\ a.tried = f.tried
        /\ a.lost = b
    BY <1>1, <2>2, <2>4
  <2>5a. ~b => ~f.lost /\ ~(read < f.counted)
    BY <2>3, Zenon
  <2>6. ~b => ~f.lost /\ f.counted <= read
    BY <1>1, <2>1, <2>5a
  <2>7. QED
    BY <2>1, <2>5, <2>6
<1> HIDE DEF a, k, read
<1>4. /\ failures' \in [Keys -> Attempts]
      /\ \A x \in Keys : failures'[x] = IF x = k THEN a ELSE failures[x]
  BY <1>2, <1>3, CounterChanges
<1>5. /\ \A x \in Keys : x # k => failures'[x] = failures[x]
      /\ k \in Keys =>
           /\ failures'[k].counted = read
           /\ failures'[k].tried = failures[k].tried
           /\ ~failures'[k].lost =>
                ~failures[k].lost /\ failures[k].counted <= read
  BY <1>1, <1>3, <1>4
<1>6. QED
  BY <1>1, <1>4, <1>5 DEF k, read

(* What is known of a request under way.                                   *)
LEMMA RequestUnderWay ==
  ASSUME TenancyAssumption, Grounds, NEW t \in Threads, req[t].step # "idle"
  PROVE  /\ req[t] \in Request /\ Known(req[t])
         /\ req[t].id \in 1..events /\ req[t].id \in Ids /\ req[t].id # NoId
         /\ req[t].user \in Users /\ req[t].role \in Roles
<1>1. /\ req[t] \in Request /\ Known(req[t]) /\ req[t].id \in 1..events
      /\ events \in 0..MaxEvents /\ MaxEvents \in Nat
  BY DEF Grounds, TypeInvariant, RequestsAreSound, Sound, TenancyAssumption
<1>2. QED
  BY <1>1 DEF Request, Ids, NoId

(* A step that changes nothing but the requests and the failures.          *)
LEMMA GroundsElsewhere ==
  ASSUME Grounds, UNCHANGED <<accountVars, orgVars, events, interrupted>>,
         failures' \in [Keys -> Attempts], req' \in [Threads -> Request],
         RequestsAreSound'
  PROVE  Grounds'
  BY DEF Grounds, TypeInvariant, AccountsStay, RowsAreRooted, HasAccount,
         KnownOrgs, accountVars, orgVars

LEMMA GroundsOfPasswords ==
  ASSUME TenancyAssumption, Grounds, NEW t \in Threads,
         \/ TropDeTentatives(t) \/ WrongPassword(t) \/ RightPassword(t)
         \/ CountDemand(t) \/ ReadMembership(t) \/ Welcome(t)
  PROVE  Grounds'
<1>1. /\ req \in [Threads -> Request] /\ failures \in [Keys -> Attempts]
      /\ password \in [Users -> Ids \cup {NoId}] /\ 0 \in Nat
  BY DEF Grounds, TypeInvariant
<1>2. UNCHANGED <<accountVars, orgVars, events, interrupted>>
  BY DEF TropDeTentatives, WrongPassword, RightPassword, CountDemand,
         ReadMembership, Welcome
<1>3. /\ AccountsGrow /\ OrgsGrow /\ UNCHANGED <<events, password>>
      /\ password' \in [Users -> Ids \cup {NoId}]
  BY <1>1, <1>2 DEF AccountsGrow, OrgsGrow, accountVars, orgVars, HasAccount
<1>4. req[t].step # "idle"
  BY DEF TropDeTentatives, WrongPassword, RightPassword, CountDemand,
         ReadMembership, Welcome, At, CheckSteps
<1>5. /\ req[t] \in Request /\ Known(req[t]) /\ req[t].user \in Users
      /\ req[t].seen \subseteq Ids /\ req[t].since \in Ids \cup {NoId}
      /\ req[t].read \in Nat
      /\ req[t].since # NoId => password'[req[t].user] # NoId
  BY <1>3, <1>4, RequestUnderWay DEF Known, HasAccount, Request
<1>6. CASE WrongPassword(t)
  BY <1>1, <1>2, <1>3, <1>6, EndsIsSound, FailureCounted, GroundsElsewhere
  DEF WrongPassword
<1>7. CASE RightPassword(t)
  <2>1. /\ req[t].since # NoId
        /\ GoesOn(t, "open", req[t].seen, req[t].since, req[t].read)
    BY <1>1, <1>5, <1>7 DEF RightPassword, Goes, GoesOn, Request
  <2>2. req' \in [Threads -> Request] /\ RequestsAreSound'
    BY <1>3, <1>4, <1>5, <2>1, GoesOnIsSound
    DEF ContinuedSteps, PasswordSteps, OrganizationSteps, RoleSteps
  <2>3. QED
    BY <1>2, <1>7, <2>2, FailuresForgotten, GroundsElsewhere DEF RightPassword
<1>8. CASE ReadMembership(t)
  <2> DEFINE seen == IdsOf({m \in MembersOf(req[t].user) : m.org = req[t].org})
  <2>1. seen \subseteq Ids
    BY DEF IdsOf, MembersOf, Grounds, TypeInvariant, OrganizationMembership
  <2>2. req[t].step = "accept"
    BY <1>8 DEF ReadMembership, At
  <2>3. req[t].org \in KnownOrgs /\ req[t].role # "owner"
    BY <1>5, <2>2 DEF Known, OrganizationSteps, RoleSteps
  <2>4. GoesOn(t, "join", seen, req[t].since, req[t].read)
    BY <1>1, <1>5, <1>8 DEF ReadMembership, GoesOn, Request
  <2> HIDE DEF seen
  <2>5. req' \in [Threads -> Request] /\ RequestsAreSound'
    BY <1>3, <1>4, <1>5, <2>1, <2>3, <2>4, GoesOnIsSound
    DEF ContinuedSteps, PasswordSteps
  <2>6. QED
    BY <1>1, <1>2, <1>8, <2>5, GroundsElsewhere DEF ReadMembership
<1>9. CASE Welcome(t)
  <2>1. req[t].since # NoId
    BY <1>5, <1>9 DEF Welcome, At, Known, PasswordSteps
  <2>2. Ends(t) \/ GoesOn(t, "open", req[t].seen, req[t].since, req[t].read)
    BY <1>1, <1>5, <1>9 DEF Welcome, Goes, GoesOn, Request
  <2>3. req' \in [Threads -> Request] /\ RequestsAreSound'
    BY <1>3, <1>4, <1>5, <2>1, <2>2, EndsIsSound, GoesOnIsSound
    DEF ContinuedSteps, PasswordSteps, OrganizationSteps, RoleSteps
  <2>4. failures' \in [Keys -> Attempts]
    BY <1>1, <1>9, FailuresForgotten DEF Welcome
  <2>5. QED
    BY <1>2, <2>3, <2>4, GroundsElsewhere
<1>10. CASE TropDeTentatives(t)
  <2>1. req[t].step \in CheckSteps
    BY <1>10 DEF TropDeTentatives
  <2>2. \/ Ends(t)
        \/ GoesOn(t, Checked[req[t].step], req[t].seen, password[req[t].user], 0)
    BY <1>1, <1>5, <1>10 DEF TropDeTentatives, GoesOn, Request
  <2>3. /\ Checked[req[t].step] \in {"login", "forgot", "accept"}
        /\ Checked[req[t].step] = "accept" => req[t].step = "checkAccept"
    BY <2>1 DEF Checked, CheckSteps
  <2>4. /\ Checked[req[t].step] \in OrganizationSteps => req[t].org \in KnownOrgs
        /\ Checked[req[t].step] \in RoleSteps => req[t].role # "owner"
    BY <1>5, <2>3 DEF Known, OrganizationSteps, RoleSteps
  <2>5. /\ Checked[req[t].step] \in ContinuedSteps
        /\ Checked[req[t].step] \notin PasswordSteps
        /\ Checked[req[t].step] # "sendLink"
    BY <2>3 DEF ContinuedSteps, PasswordSteps
  <2>6. password[req[t].user] \in Ids \cup {NoId}
    BY <1>1, <1>5
  <2>7. req' \in [Threads -> Request] /\ RequestsAreSound'
    BY <1>1, <1>3, <1>4, <1>5, <2>2, <2>4, <2>5, <2>6, EndsIsSound, GoesOnIsSound
  <2>8. QED
    BY <1>2, <1>10, <2>7, FailuresPutBack, GroundsElsewhere
<1>11. CASE CountDemand(t)
  <2> DEFINE seen == IdsOf(OpenLinks(req[t].user))
  <2>1. seen \subseteq Ids
    BY DEF IdsOf, OpenLinks, Grounds, TypeInvariant, PasswordResetToken
  <2>2. \/ Ends(t)
        \/ /\ password'[req[t].user] # NoId
           /\ GoesOn(t, "sendLink", seen, req[t].since, req[t].read)
    BY <1>1, <1>3, <1>5, <1>11 DEF CountDemand, GoesOn, Request, HasAccount
  <2> HIDE DEF seen
  <2>3. req' \in [Threads -> Request] /\ RequestsAreSound'
    BY <1>3, <1>4, <1>5, <2>1, <2>2, EndsIsSound, GoesOnIsSound
    DEF ContinuedSteps, PasswordSteps, OrganizationSteps, RoleSteps
  <2>4. QED
    BY <1>2, <1>11, <2>3, FailureCounted, GroundsElsewhere DEF CountDemand
<1>12. QED
  BY <1>6, <1>7, <1>8, <1>9, <1>10, <1>11

(* A step of accounts, sessions and links: no organisation changes.        *)
LEMMA GroundsOfAccounts ==
  ASSUME Grounds, UNCHANGED <<orgVars, failures, events>>,
         password' \in [Users -> Ids \cup {NoId}], AccountsGrow,
         sessions' \subseteq AuthSession, links' \subseteq PasswordResetToken,
         \A s \in sessions' : password'[s.user] # NoId,
         \A l \in links' : password'[l.user] # NoId,
         req' \in [Threads -> Request], RequestsAreSound',
         interrupted' \subseteq Users,
         Founder \in Users
  PROVE  Grounds'
  BY DEF Grounds, TypeInvariant, AccountsStay, RowsAreRooted, HasAccount,
         KnownOrgs, orgVars, AccountsGrow

(* The password of a request under way is written.                         *)
LEMMA PasswordWritten ==
  ASSUME TenancyAssumption, Grounds, NEW t \in Threads, req[t].step # "idle",
         password' = [password EXCEPT ![req[t].user] = req[t].id]
  PROVE  /\ password' \in [Users -> Ids \cup {NoId}]
         /\ AccountsGrow /\ password'[req[t].user] # NoId
         /\ \A u \in Users \ {req[t].user} : password'[u] = password[u]
         /\ \A u \in Users : HasAccount(u) => password'[u] # NoId
  BY RequestUnderWay DEF Grounds, TypeInvariant, AccountsGrow, HasAccount

LEMMA RowsHaveTypes ==
  ASSUME Grounds
  PROVE  /\ \A s \in sessions : s \in AuthSession /\ s.user \in Users
                                  /\ HasAccount(s.user)
         /\ \A l \in links : l \in PasswordResetToken /\ l.user \in Users
                               /\ HasAccount(l.user)
         /\ password \in [Users -> Ids \cup {NoId}]
         /\ interrupted \subseteq Users
         /\ req \in [Threads -> Request]
  BY DEF Grounds, TypeInvariant, AccountsStay, AuthSession, PasswordResetToken

LEMMA GroundsOfSessions ==
  ASSUME TenancyAssumption, Grounds, NEW t \in Threads,
         \/ OpenSession(t) \/ SetPassword(t) \/ RevokeAllSessions(t)
         \/ DeleteSessions(t)
  PROVE  Grounds'
<1>0. Founder \in Users /\ req \in [Threads -> Request]
  BY RowsHaveTypes DEF TenancyAssumption
<1>a. req[t].step # "idle"
  BY DEF OpenSession, SetPassword, RevokeAllSessions, DeleteSessions, At
<1>b. /\ req[t] \in Request /\ Known(req[t]) /\ req[t].user \in Users
      /\ req[t].id \in Ids /\ req[t].id # NoId
      /\ req[t].seen \subseteq Ids /\ req[t].since \in Ids \cup {NoId}
      /\ req[t].read \in Nat
      /\ req[t].since # NoId => HasAccount(req[t].user)
  BY <1>a, RequestUnderWay DEF Known, Request
<1>1. CASE OpenSession(t)
  <2> DEFINE s(late) == [user |-> req[t].user, id |-> req[t].id,
                         since |-> req[t].since, expired |-> FALSE, late |-> late]
  <2>1. req[t].since # NoId
    BY <1>1, <1>b DEF OpenSession, At, Known, PasswordSteps
  <2>2. PICK late \in BOOLEAN : sessions' = sessions \cup {s(late)}
    BY <1>1 DEF OpenSession
  <2>3. s(late) \in AuthSession /\ s(late).user = req[t].user
    BY <1>b, <2>1 DEF AuthSession
  <2> HIDE DEF s
  <2>4. AccountsGrow /\ OrgsGrow /\ UNCHANGED events
    BY <1>1 DEF OpenSession, AccountsGrow, OrgsGrow, orgVars, HasAccount
  <2>5. req' \in [Threads -> Request] /\ RequestsAreSound'
    BY <1>1, <2>4, EndsIsSound DEF OpenSession
  <2>6. QED
    BY <1>0, <1>1, <1>b, <2>1, <2>2, <2>3, <2>4, <2>5, RowsHaveTypes,
       GroundsOfAccounts DEF OpenSession, HasAccount
<1>2. CASE SetPassword(t)
  <2>1. GoesOn(t, "revokeAll", req[t].seen, req[t].id, req[t].read)
    BY <1>0, <1>2, <1>b DEF SetPassword, GoesOn, Request
  <2>2. OrgsGrow /\ UNCHANGED <<sessions, links, orgVars, failures, events, interrupted>>
    BY <1>2 DEF SetPassword, OrgsGrow, orgVars
  <2>3. AccountsGrow /\ password'[req[t].user] # NoId
    BY <1>2, <1>a, PasswordWritten DEF SetPassword
  <2>4. req' \in [Threads -> Request] /\ RequestsAreSound'
    BY <1>a, <1>b, <2>1, <2>2, <2>3, GoesOnIsSound
    DEF ContinuedSteps, PasswordSteps, OrganizationSteps, RoleSteps
  <2>5. QED
    BY <1>0, <1>2, <1>a, <2>2, <2>4, RowsHaveTypes, PasswordWritten, GroundsOfAccounts
    DEF SetPassword
<1>3. CASE RevokeAllSessions(t)
  <2> DEFINE seen == IdsOf(SessionsOf(req[t].user))
  <2>1. req[t].since # NoId
    BY <1>3, <1>b DEF RevokeAllSessions, At, Known, PasswordSteps
  <2>2. seen \subseteq Ids
    BY DEF IdsOf, SessionsOf, Grounds, TypeInvariant, AuthSession
  <2>3. GoesOn(t, "deleteAll", seen, req[t].since, req[t].read)
    BY <1>0, <1>3, <1>b DEF RevokeAllSessions, GoesOn, Request
  <2> HIDE DEF seen
  <2>4. /\ AccountsGrow /\ OrgsGrow /\ password'[req[t].user] # NoId
        /\ UNCHANGED <<accountVars, orgVars, failures, events, interrupted>>
    BY <1>3, <1>b, <2>1
    DEF RevokeAllSessions, AccountsGrow, OrgsGrow, accountVars, orgVars, HasAccount
  <2>5. req' \in [Threads -> Request] /\ RequestsAreSound'
    BY <1>a, <1>b, <2>1, <2>2, <2>3, <2>4, GoesOnIsSound
    DEF ContinuedSteps, PasswordSteps, OrganizationSteps, RoleSteps
  <2>6. QED
    BY <2>4, <2>5, GroundsElsewhere DEF Grounds, TypeInvariant
<1>4. CASE DeleteSessions(t)
  <2>1. req[t].since # NoId
    BY <1>4, <1>b DEF DeleteSessions, At, Known, PasswordSteps
  <2>2. Ends(t) \/ GoesOn(t, "open", req[t].seen, req[t].since, req[t].read)
    BY <1>0, <1>4, <1>b DEF DeleteSessions, Goes, GoesOn, Request
  <2>3. /\ AccountsGrow /\ OrgsGrow /\ password'[req[t].user] # NoId
        /\ UNCHANGED <<password, links, orgVars, failures, events>>
    BY <1>4, <1>b, <2>1
    DEF DeleteSessions, AccountsGrow, OrgsGrow, orgVars, HasAccount
  <2>4. req' \in [Threads -> Request] /\ RequestsAreSound'
    BY <1>a, <1>b, <2>1, <2>2, <2>3, EndsIsSound, GoesOnIsSound
    DEF ContinuedSteps, PasswordSteps, OrganizationSteps, RoleSteps
  <2>5. sessions' \subseteq sessions /\ interrupted' \subseteq interrupted
    BY <1>4 DEF DeleteSessions
  <2>6. QED
    BY <1>0, <2>3, <2>4, <2>5, RowsHaveTypes, GroundsOfAccounts DEF HasAccount
<1>5. QED
  BY <1>1, <1>2, <1>3, <1>4

(* Links are marked: the user of each stays.                               *)
LEMMA MarkedLinks ==
  ASSUME Grounds, NEW l \in links, NEW used \in BOOLEAN
  PROVE  LET x == [l EXCEPT !.used = used] IN
           x \in PasswordResetToken /\ x.user \in Users /\ HasAccount(x.user)
  BY RowsHaveTypes DEF PasswordResetToken

LEMMA GroundsOfLinks ==
  ASSUME TenancyAssumption, Grounds, NEW t \in Threads,
         CreateResetToken(t) \/ ApplyLink(t)
  PROVE  Grounds'
<1>0. Founder \in Users
  BY DEF TenancyAssumption
<1>1. CASE CreateResetToken(t)
  <2>1. /\ req[t].step = "sendLink" /\ HasAccount(req[t].user)
        /\ req[t] \in Request /\ req[t].user \in Users /\ req[t].id \in Ids
        /\ req[t].seen \subseteq Ids
    BY <1>1, RequestUnderWay DEF CreateResetToken, At, Known, AccountSteps, Request
  <2> DEFINE fresh(late) == [user |-> req[t].user, id |-> req[t].id,
                             used |-> FALSE, expired |-> FALSE, late |-> late]
  <2>2. PICK late \in BOOLEAN :
          links' = {[l EXCEPT !.used = @ \/ l.id \in req[t].seen] : l \in links}
                     \cup {fresh(late)}
    BY <1>1 DEF CreateResetToken
  <2>3. fresh(late) \in PasswordResetToken /\ fresh(late).user = req[t].user
    BY <2>1 DEF PasswordResetToken
  <2>4. ASSUME NEW x \in links'
        PROVE  x \in PasswordResetToken /\ HasAccount(x.user)
    <3>1. CASE x = fresh(late)
      BY <2>1, <2>3, <3>1
    <3>2. CASE x # fresh(late)
      <4>1. PICK l \in links : x = [l EXCEPT !.used = @ \/ l.id \in req[t].seen]
        BY <2>2, <3>2
      <4>2. (l.used \/ l.id \in req[t].seen) \in BOOLEAN
        OBVIOUS
      <4>3. QED
        BY <4>1, <4>2, MarkedLinks
    <3>3. QED
      BY <3>1, <3>2
  <2>5. /\ AccountsGrow /\ OrgsGrow
        /\ UNCHANGED <<password, sessions, orgVars, failures, events, interrupted>>
    BY <1>1 DEF CreateResetToken, AccountsGrow, OrgsGrow, orgVars, HasAccount
  <2>6. req' \in [Threads -> Request] /\ RequestsAreSound'
    BY <1>1, <2>5, EndsIsSound DEF CreateResetToken
  <2>7. QED
    BY <1>0, <2>4, <2>5, <2>6, RowsHaveTypes, GroundsOfAccounts DEF HasAccount
<1>2. CASE ApplyLink(t)
  <2>1. /\ req[t].step = "applyLink" /\ req[t] \in Request
    BY <1>2, RequestUnderWay DEF ApplyLink, At
  <2>3. ASSUME NEW x \in links'
        PROVE  x \in PasswordResetToken /\ x.user \in Users /\ HasAccount(x.user)
    <3>1. PICK l \in links : x = [l EXCEPT !.used = @ \/ l.id = req[t].row]
      BY <1>2 DEF ApplyLink
    <3>2. (l.used \/ l.id = req[t].row) \in BOOLEAN
      OBVIOUS
    <3>3. QED
      BY <3>1, <3>2, MarkedLinks
  <2>4. OrgsGrow /\ UNCHANGED <<sessions, orgVars, failures, events, interrupted>>
    BY <1>2 DEF ApplyLink, OrgsGrow, orgVars
  <2>4a. GoesOn(t, "revokeAll", req[t].seen, req[t].id, req[t].read)
    BY <1>2, <2>1, RowsHaveTypes DEF ApplyLink, GoesOn, Request
  <2>4b. /\ AccountsGrow /\ password'[req[t].user] # NoId
         /\ req[t].seen \subseteq Ids /\ req[t].read \in Nat
         /\ req[t].id \in Ids /\ req[t].id # NoId
    BY <1>2, <2>1, PasswordWritten, RequestUnderWay DEF ApplyLink, Request
  <2>5. req' \in [Threads -> Request] /\ RequestsAreSound'
    BY <2>1, <2>4, <2>4a, <2>4b, GoesOnIsSound
    DEF ContinuedSteps, PasswordSteps, OrganizationSteps, RoleSteps
  <2>6. QED
    BY <1>0, <1>2, <2>1, <2>3, <2>4, <2>5, RowsHaveTypes, PasswordWritten,
       GroundsOfAccounts DEF ApplyLink
<1>3. QED
  BY <1>1, <1>2

(* A step of organisations, members and invitations.                       *)
LEMMA GroundsOfTables ==
  ASSUME Grounds, UNCHANGED <<accountVars, failures, interrupted>>,
         events' \in 0..MaxEvents, orgs' \subseteq Organization,
         \A m \in members' : m \in OrganizationMembership /\ m.org \in KnownOrgs',
         \A i \in invitations' : /\ i \in OrganizationInvitation
                                 /\ i.org \in KnownOrgs' /\ i.role # "owner",
         req' \in [Threads -> Request], RequestsAreSound'
  PROVE  Grounds'
  BY DEF Grounds, TypeInvariant, AccountsStay, RowsAreRooted, HasAccount,
         accountVars

LEMMA TablesHaveTypes ==
  ASSUME TenancyAssumption, Grounds
  PROVE  /\ \A m \in members : m \in OrganizationMembership /\ m.org \in KnownOrgs
         /\ \A i \in invitations : /\ i \in OrganizationInvitation
                                   /\ i.org \in KnownOrgs /\ i.role # "owner"
         /\ orgs \subseteq Organization /\ events \in 0..MaxEvents
         /\ events \in Nat /\ MaxEvents \in Nat
         /\ req \in [Threads -> Request]
  BY DEF Grounds, TypeInvariant, RowsAreRooted, TenancyAssumption

(* A step of no request.                                                   *)
LEMMA RequestsStay ==
  ASSUME TenancyAssumption, Grounds, AccountsGrow, OrgsGrow, UNCHANGED req,
         events' \in {events, events + 1}
  PROVE  RequestsAreSound'
<1>1. ASSUME NEW t \in Threads
      PROVE  Sound(req[t])'
  <2>1. Known(req[t])'
    BY KnownStays, TablesHaveTypes
    DEF Grounds, RequestsAreSound, Sound, Known, HasAccount, KnownOrgs
  <2>2. req[t].step # "idle" => req[t].id \in 1..events'
    BY TablesHaveTypes DEF Grounds, RequestsAreSound, Sound
  <2>3. QED
    BY <2>1, <2>2 DEF Sound, Known, HasAccount, KnownOrgs
<1>2. QED
  BY <1>1 DEF RequestsAreSound

(* A space and its owner.                                                  *)
LEMMA SpaceIsTyped ==
  ASSUME NEW id \in Ids, NEW u \in Users, NEW default \in BOOLEAN,
         NEW late \in BOOLEAN
  PROVE  /\ Space(id, u, default, late) \in Organization
         /\ Space(id, u, default, late).id = <<id, u>>
         /\ Owner(<<id, u>>, u, id) \in OrganizationMembership
         /\ Owner(<<id, u>>, u, id).org = <<id, u>>
  BY DEF Space, Owner, Organization, OrganizationMembership, OrgIds, Roles

LEMMA GroundsOfSpaces ==
  ASSUME TenancyAssumption, Grounds,
         \/ \E t \in Threads : CreateSpace(t)
         \/ \E u \in Users : CreateOrganization(u)
  PROVE  Grounds'
<1>1. ASSUME NEW id \in Ids, NEW u \in Users, NEW default \in BOOLEAN,
             NEW late \in BOOLEAN,
             orgs' = orgs \cup {Space(id, u, default, late)},
             members' = members \cup {Owner(<<id, u>>, u, id)},
             UNCHANGED <<accountVars, invitations, failures, interrupted>>,
             events' \in 0..MaxEvents,
             req' \in [Threads -> Request], RequestsAreSound'
      PROVE  Grounds'
  <2>1. orgs' \subseteq Organization
    BY <1>1, SpaceIsTyped, TablesHaveTypes
  <2>2. KnownOrgs \subseteq KnownOrgs' /\ <<id, u>> \in KnownOrgs'
    BY <1>1, SpaceIsTyped DEF KnownOrgs
  <2>3. QED
    BY <1>1, <2>1, <2>2, SpaceIsTyped, TablesHaveTypes, GroundsOfTables
<1>2. ASSUME NEW t \in Threads, CreateSpace(t)
      PROVE  Grounds'
  <2>1. req[t].step = "createSpace" /\ req[t].id \in Ids /\ req[t].user \in Users
    BY <1>2, RequestUnderWay DEF CreateSpace, At
  <2>2. PICK late \in BOOLEAN :
          /\ orgs' = orgs \cup {Space(req[t].id, req[t].user, TRUE, late)}
          /\ members' = members \cup
               {Owner(<<req[t].id, req[t].user>>, req[t].user, req[t].id)}
    BY <1>2 DEF CreateSpace, Space
  <2>3. /\ AccountsGrow /\ OrgsGrow
        /\ UNCHANGED <<accountVars, invitations, failures, events, interrupted>>
    BY <1>2 DEF CreateSpace, AccountsGrow, OrgsGrow, accountVars, HasAccount
  <2>4. req' \in [Threads -> Request] /\ RequestsAreSound'
    BY <1>2, <2>3, EndsIsSound DEF CreateSpace
  <2>5. QED
    BY <1>1, <2>1, <2>2, <2>3, <2>4, TablesHaveTypes
<1>3. ASSUME NEW u \in Users, CreateOrganization(u)
      PROVE  Grounds'
  <2>1. /\ events' \in 0..MaxEvents /\ events' = events + 1
        /\ events' \in Ids /\ events \in Nat
    BY <1>3, TablesHaveTypes DEF CreateOrganization, Event, Ids
  <2>2. /\ orgs' = orgs \cup {Space(events', u, FALSE, FALSE)}
        /\ members' = members \cup {Owner(<<events', u>>, u, events')}
    BY <1>3 DEF CreateOrganization, Space
  <2>3. /\ AccountsGrow /\ OrgsGrow
        /\ UNCHANGED <<accountVars, invitations, failures, req, interrupted>>
    BY <1>3 DEF CreateOrganization, AccountsGrow, OrgsGrow, accountVars, HasAccount
  <2>4. RequestsAreSound'
    BY <2>1, <2>3, RequestsStay
  <2>5. QED
    BY <1>1, <2>1, <2>2, <2>3, <2>4, TablesHaveTypes
<1>4. QED
  BY <1>2, <1>3

LEMMA GroundsOfMembers ==
  ASSUME TenancyAssumption, Grounds, NEW t \in Threads,
         InsertMember(t) \/ SetRole(t) \/ DeleteMember(t)
  PROVE  Grounds'
<1>1. req[t].step \in {"addMember", "setRole", "removeMember"}
  BY DEF InsertMember, SetRole, DeleteMember, At
<1>2. /\ req[t] \in Request /\ Known(req[t]) /\ req[t].id \in Ids
      /\ req[t].user \in Users /\ req[t].role \in Roles
  BY <1>1, RequestUnderWay
<1>3. req[t].org \in KnownOrgs /\ req[t].org \in OrgIds
  BY <1>1, <1>2, TablesHaveTypes
  DEF Known, OrganizationSteps, KnownOrgs, Organization
<1>4. /\ AccountsGrow /\ OrgsGrow /\ Ends(t)
      /\ UNCHANGED <<accountVars, orgs, invitations, failures, events, interrupted>>
  BY DEF InsertMember, SetRole, DeleteMember, AccountsGrow, OrgsGrow,
         accountVars, HasAccount
<1>5. req' \in [Threads -> Request] /\ RequestsAreSound'
  BY <1>4, EndsIsSound
<1>6. ASSUME NEW x \in members'
      PROVE  x \in OrganizationMembership /\ x.org \in KnownOrgs
  <2>1. CASE InsertMember(t)
    <3>1. x \in members \/ x = [org |-> req[t].org, user |-> req[t].user,
                                role |-> req[t].role, id |-> req[t].id]
      BY <1>6, <2>1 DEF InsertMember
    <3>2. QED
      BY <1>2, <1>3, <3>1, TablesHaveTypes DEF OrganizationMembership
  <2>2. CASE SetRole(t)
    <3>1. PICK m \in members : x = m \/ x = [m EXCEPT !.role = req[t].role]
      BY <1>6, <2>2 DEF SetRole
    <3>2. QED
      BY <1>2, <3>1, TablesHaveTypes DEF OrganizationMembership
  <2>3. CASE DeleteMember(t)
    BY <1>6, <2>3, TablesHaveTypes DEF DeleteMember
  <2>4. QED
    BY <2>1, <2>2, <2>3
<1>7. KnownOrgs' = KnownOrgs
  BY <1>4 DEF KnownOrgs
<1>8. QED
  BY <1>4, <1>5, <1>6, <1>7, TablesHaveTypes, GroundsOfTables

(* Invitations are marked: their organisation, address and role stay.      *)
LEMMA MarkedInvitations ==
  ASSUME TenancyAssumption, Grounds, NEW i \in invitations,
         NEW accepted \in BOOLEAN, NEW revoked \in BOOLEAN,
         NEW expired \in BOOLEAN, NEW x,
         \/ x = [i EXCEPT !.revoked = revoked]
         \/ x = [i EXCEPT !.accepted = accepted]
         \/ x = [i EXCEPT !.expired = expired]
  PROVE  x \in OrganizationInvitation /\ x.org \in KnownOrgs /\ x.role # "owner"
  BY TablesHaveTypes DEF OrganizationInvitation

LEMMA GroundsOfInvitations ==
  ASSUME TenancyAssumption, Grounds, NEW t \in Threads,
         CreateInvitation(t) \/ CommitRevocation(t)
  PROVE  Grounds'
<1>1. req[t].step \in {"invite", "revokeInvitation"}
  BY DEF CreateInvitation, CommitRevocation, At
<1>2. /\ req[t] \in Request /\ Known(req[t]) /\ req[t].id \in Ids
      /\ req[t].user \in Users /\ req[t].role \in Roles
  BY <1>1, RequestUnderWay
<1>3. /\ AccountsGrow /\ OrgsGrow /\ Ends(t)
      /\ UNCHANGED <<accountVars, orgs, members, failures, events, interrupted>>
  BY DEF CreateInvitation, CommitRevocation, AccountsGrow, OrgsGrow,
         accountVars, HasAccount
<1>4. req' \in [Threads -> Request] /\ RequestsAreSound'
  BY <1>3, EndsIsSound
<1>5. ASSUME NEW x \in invitations'
      PROVE  x \in OrganizationInvitation /\ x.org \in KnownOrgs /\ x.role # "owner"
  <2>1. CASE CreateInvitation(t)
    <3> DEFINE fresh(late) ==
          [org |-> req[t].org, email |-> req[t].user, role |-> req[t].role,
           id |-> req[t].id, accepted |-> FALSE, revoked |-> FALSE,
           expired |-> FALSE, late |-> late]
    <3>1. PICK late \in BOOLEAN :
            invitations' = {[i EXCEPT !.revoked = @ \/ i.id \in req[t].seen] :
                              i \in invitations} \cup {fresh(late)}
      BY <2>1 DEF CreateInvitation
    <3>2. CASE x = fresh(late)
      <4>1. req[t].step = "invite"
        BY <2>1 DEF CreateInvitation, At
      <4>2. /\ req[t].org \in KnownOrgs /\ req[t].org \in OrgIds
            /\ req[t].role # "owner"
        BY <4>1, <1>2, TablesHaveTypes
        DEF Known, OrganizationSteps, RoleSteps, KnownOrgs, Organization
      <4>3. QED
        BY <1>2, <3>2, <4>2 DEF OrganizationInvitation
    <3>3. CASE x # fresh(late)
      <4>1. PICK i \in invitations : x = [i EXCEPT !.revoked = @ \/ i.id \in req[t].seen]
        BY <1>5, <3>1, <3>3
      <4>2. (i.revoked \/ i.id \in req[t].seen) \in BOOLEAN
        OBVIOUS
      <4>3. QED
        BY <4>1, <4>2, MarkedInvitations
    <3>4. QED
      BY <3>2, <3>3
  <2>2. CASE CommitRevocation(t)
    <3>1. PICK i \in invitations : x = [i EXCEPT !.revoked = @ \/ i.id = req[t].row]
      BY <1>5, <2>2 DEF CommitRevocation
    <3>2. (i.revoked \/ i.id = req[t].row) \in BOOLEAN
      OBVIOUS
    <3>3. QED
      BY <3>1, <3>2, MarkedInvitations
  <2>3. QED
    BY <2>1, <2>2
<1>6. KnownOrgs' = KnownOrgs
  BY <1>3 DEF KnownOrgs
<1>7. QED
  BY <1>3, <1>4, <1>5, <1>6, TablesHaveTypes, GroundsOfTables

LEMMA GroundsOfJoin ==
  ASSUME TenancyAssumption, Grounds, NEW t \in Threads, Join(t)
  PROVE  Grounds'
<1> DEFINE r == req[t]
           new == r.since = NoId
           twice == \/ new /\ HasAccount(r.user)
                    \/ r.seen = {} /\ Conflict(r.org, r.user)
<1>1. req[t].step = "join"
  BY DEF Join, At
<1>2. /\ req[t] \in Request /\ Known(req[t]) /\ req[t].id \in Ids
      /\ req[t].id # NoId /\ req[t].user \in Users /\ req[t].role \in Roles
      /\ req[t].since \in Ids \cup {NoId} /\ req[t].seen \subseteq Ids
      /\ req[t].read \in Nat
  BY <1>1, RequestUnderWay DEF Request
<1>3. /\ req[t].org \in KnownOrgs /\ req[t].org \in OrgIds
      /\ req[t].role # "owner"
      /\ req[t].since # NoId => HasAccount(req[t].user)
  BY <1>1, <1>2, TablesHaveTypes
  DEF Known, OrganizationSteps, RoleSteps, KnownOrgs, Organization
<1>4. CASE twice
  <2>1. /\ Ends(t)
        /\ UNCHANGED <<accountVars, orgVars, failures, events, interrupted>>
    BY <1>4 DEF Join
  <2>2. AccountsGrow /\ OrgsGrow
    BY <2>1 DEF AccountsGrow, OrgsGrow, accountVars, orgVars, HasAccount
  <2>3. QED
    BY <2>1, <2>2, EndsIsSound, GroundsElsewhere DEF Grounds, TypeInvariant
<1>5. CASE ~twice
  <2>1. /\ password' = IF new THEN [password EXCEPT ![r.user] = r.id]
                       ELSE password
        /\ members' = IF r.seen # {} THEN members
                      ELSE members \cup {[org |-> r.org, user |-> r.user,
                                          role |-> r.role, id |-> r.id]}
        /\ invitations' = {[i EXCEPT !.accepted = @ \/ i.id = r.row] :
                             i \in invitations}
        /\ req' = [req EXCEPT ![t].step = "welcome",
                              ![t].since = IF new THEN r.id ELSE @]
        /\ UNCHANGED <<sessions, links, orgs, failures, events, interrupted>>
    BY <1>5 DEF Join
  <2>2. /\ password' \in [Users -> Ids \cup {NoId}]
        /\ AccountsGrow /\ password'[req[t].user] # NoId
        /\ \A u \in Users : HasAccount(u) => password'[u] # NoId
    <3>1. CASE ~new
      BY <1>2, <1>3, <2>1, <3>1, RowsHaveTypes DEF AccountsGrow, HasAccount
    <3>2. CASE new
      BY <1>1, <2>1, <3>2, PasswordWritten
    <3>3. QED
      BY <3>1, <3>2
  <2>3. OrgsGrow /\ KnownOrgs' = KnownOrgs
    BY <2>1 DEF OrgsGrow, KnownOrgs
  <2>4. req' \in [Threads -> Request] /\ RequestsAreSound'
    <3>1. GoesOn(t, "welcome", r.seen, IF new THEN r.id ELSE r.since, r.read)
      BY <1>2, <2>1, RowsHaveTypes DEF GoesOn, Request
    <3>2. PICK since \in Ids : /\ since # NoId
                               /\ GoesOn(t, "welcome", r.seen, since, r.read)
      BY <1>2, <3>1
    <3>3. QED
      BY <1>1, <1>2, <1>3, <2>1, <2>2, <2>3, <3>2, GoesOnIsSound
      DEF ContinuedSteps, PasswordSteps, OrganizationSteps, RoleSteps
  <2>5. ASSUME NEW m \in members'
        PROVE  m \in OrganizationMembership /\ m.org \in KnownOrgs
    <3>1. m \in members \/ m = [org |-> req[t].org, user |-> req[t].user,
                                role |-> req[t].role, id |-> req[t].id]
      BY <2>1
    <3>2. QED
      BY <1>2, <1>3, <3>1, TablesHaveTypes DEF OrganizationMembership
  <2>6. ASSUME NEW x \in invitations'
        PROVE  x \in OrganizationInvitation /\ x.org \in KnownOrgs /\ x.role # "owner"
    <3>1. PICK i \in invitations : x = [i EXCEPT !.accepted = @ \/ i.id = req[t].row]
      BY <2>1
    <3>2. (i.accepted \/ i.id = req[t].row) \in BOOLEAN
      OBVIOUS
    <3>3. QED
      BY <3>1, <3>2, MarkedInvitations
  <2>7. RowsAreRooted' /\ members' \subseteq OrganizationMembership
          /\ invitations' \subseteq OrganizationInvitation
    BY <2>3, <2>5, <2>6 DEF RowsAreRooted
  <2>8. AccountsStay'
    BY <2>1, <2>2, RowsHaveTypes
    DEF Grounds, AccountsStay, HasAccount, TenancyAssumption
  <2>9. TypeInvariant'
    BY <2>1, <2>2, <2>4, <2>7 DEF Grounds, TypeInvariant
  <2>10. QED
    BY <2>4, <2>7, <2>8, <2>9 DEF Grounds
<1>6. QED
  BY <1>4, <1>5

-----------------------------------------------------------------------------
(* Time, the end of a session and the restart                              *)

LEMMA GroundsOfExpirations ==
  ASSUME TenancyAssumption, Grounds,
         \/ \E s \in sessions : Logout(s) \/ ResolveExpired(s)
         \/ TimePasses
  PROVE  Grounds'
<1>0. /\ failures \in [Keys -> Attempts] /\ NoAttempt \in Attempts
      /\ events \in 0..MaxEvents /\ MaxEvents \in Nat
  BY DEF Grounds, TypeInvariant, Attempts, NoAttempt, TenancyAssumption
<1>1. /\ UNCHANGED <<password, orgs, members, req, interrupted>>
      /\ events' \in {events, events + 1} /\ events' \in 0..MaxEvents
      /\ failures' \in [Keys -> Attempts]
  <2>1. /\ UNCHANGED <<password, orgs, members, req, interrupted>>
        /\ UNCHANGED events \/ Event
        /\ UNCHANGED failures \/ failures' = [k \in Keys |-> NoAttempt]
    BY DEF Logout, ResolveExpired, TimePasses, orgVars, Event
  <2>2. QED
    BY <1>0, <2>1 DEF Event
<1>2. AccountsGrow /\ OrgsGrow /\ KnownOrgs' = KnownOrgs
  BY <1>1 DEF AccountsGrow, OrgsGrow, HasAccount, KnownOrgs
<1>3. RequestsAreSound'
  BY <1>1, <1>2, RequestsStay
<1>4. ASSUME NEW x \in sessions'
      PROVE  x \in AuthSession /\ x.user \in Users /\ HasAccount(x.user)
  <2>1. PICK s \in sessions : x = s \/ x = [s EXCEPT !.expired = TRUE]
    BY <1>4 DEF Logout, ResolveExpired, TimePasses, Expire
  <2>2. QED
    BY <2>1, RowsHaveTypes DEF AuthSession
<1>5. ASSUME NEW x \in links'
      PROVE  x \in PasswordResetToken /\ x.user \in Users /\ HasAccount(x.user)
  <2>1. PICK l \in links : x = l \/ x = [l EXCEPT !.expired = TRUE]
    BY <1>5 DEF Logout, ResolveExpired, TimePasses, Expire
  <2>2. QED
    BY <2>1, RowsHaveTypes DEF PasswordResetToken
<1>6. ASSUME NEW x \in invitations'
      PROVE  x \in OrganizationInvitation /\ x.org \in KnownOrgs /\ x.role # "owner"
  <2>1. PICK i \in invitations : x = i \/ x = [i EXCEPT !.expired = TRUE]
    BY <1>6 DEF Logout, ResolveExpired, TimePasses, Expire, orgVars
  <2>2. QED
    BY <2>1, MarkedInvitations, TablesHaveTypes
<1>7. RowsAreRooted'
  BY <1>1, <1>2, <1>6 DEF Grounds, RowsAreRooted
<1>8. AccountsStay'
  BY <1>1, <1>4, <1>5 DEF Grounds, AccountsStay, HasAccount
<1>9. TypeInvariant'
  BY <1>1, <1>4, <1>5, <1>6 DEF Grounds, TypeInvariant
<1>10. QED
  BY <1>3, <1>7, <1>8, <1>9 DEF Grounds

LEMMA GroundsOfRestart ==
  ASSUME TenancyAssumption, Grounds, Restart
  PROVE  Grounds'
<1>1. /\ events' \in 0..MaxEvents /\ events' \in Ids
  BY TablesHaveTypes DEF Restart, Event, Ids
<1>2. AccountsGrow /\ OrgsGrow /\ UNCHANGED <<password, invitations>>
  BY DEF Restart, AccountsGrow, OrgsGrow, HasAccount
<1>3. orgs' \subseteq Organization /\ KnownOrgs \subseteq KnownOrgs'
  BY <1>1, SpaceIsTyped, TablesHaveTypes DEF Restart, WithoutSpace, KnownOrgs
<1>4. ASSUME NEW m \in members'
      PROVE  m \in OrganizationMembership /\ m.org \in KnownOrgs'
  <2>1. CASE m \in members
    BY <1>3, <2>1, TablesHaveTypes
  <2>2. CASE m \notin members
    <3>1. PICK u \in WithoutSpace : m = Owner(<<events', u>>, u, events')
      BY <1>4, <2>2 DEF Restart
    <3>2. u \in Users /\ Space(events', u, TRUE, FALSE) \in orgs'
      BY <3>1 DEF Restart, WithoutSpace
    <3>3. <<events', u>> \in KnownOrgs'
      BY <1>1, <3>2, SpaceIsTyped DEF KnownOrgs
    <3>4. QED
      BY <1>1, <3>1, <3>2, <3>3, SpaceIsTyped
  <2>3. QED
    BY <2>1, <2>2
<1>5. /\ sessions' \subseteq sessions /\ links' \subseteq links
      /\ failures' \in [Keys -> Attempts]
  BY DEF Restart, PurgedSessions, PurgedLinks, Attempts, NoAttempt
<1>6. interrupted' \subseteq Users
  <2>1. \A t \in Threads : req[t].user \in Users
    BY TablesHaveTypes DEF Request
  <2>2. QED
    BY <2>1, RowsHaveTypes DEF Restart
<1>7. req' \in [Threads -> Request] /\ RequestsAreSound'
  BY IdleIsSound DEF Restart, RequestsAreSound
<1>8. AccountsStay' /\ RowsAreRooted'
  BY <1>2, <1>3, <1>4, <1>5, RowsHaveTypes, TablesHaveTypes
  DEF Grounds, AccountsStay, RowsAreRooted, HasAccount
<1>9. TypeInvariant'
  BY <1>1, <1>2, <1>3, <1>4, <1>5, <1>6, <1>7 DEF Grounds, TypeInvariant
<1>10. QED
  BY <1>7, <1>8, <1>9 DEF Grounds

LEMMA GroundsStep ==
  ASSUME TenancyAssumption, Grounds, Owned, [Next]_vars
  PROVE  Grounds'
<1>1. CASE UNCHANGED vars
  BY <1>1
  DEF vars, accountVars, orgVars, Grounds, TypeInvariant, RequestsAreSound, Sound,
      Known, AccountsStay, RowsAreRooted, HasAccount, KnownOrgs
<1>2. CASE Next
  BY <1>2, GroundsBegins, GroundsOfPasswords, GroundsOfSessions, GroundsOfLinks,
     GroundsOfSpaces, GroundsOfMembers, GroundsOfInvitations, GroundsOfJoin,
     GroundsOfExpirations, GroundsOfRestart
  DEF Next, Proceeds
<1>3. QED
  BY <1>1, <1>2

-----------------------------------------------------------------------------
(* Identifiers                                                             *)

(* A request that proceeds keeps its number or ends.                       *)
LEMMA ProceedsContinues ==
  ASSUME TenancyAssumption, Grounds, NEW t \in Threads, Proceeds(t), ~Ends(t)
  PROVE  \E step \in ContinuedSteps, seen \in SUBSET Ids,
            since \in Ids \cup {NoId}, read \in Nat :
           GoesOn(t, step, seen, since, read)
<1>0. /\ req \in [Threads -> Request] /\ req[t] \in Request
      /\ password \in [Users -> Ids \cup {NoId}] /\ 0 \in Nat
      /\ req[t].seen \subseteq Ids /\ req[t].since \in Ids \cup {NoId}
      /\ req[t].read \in Nat /\ req[t].user \in Users
  BY DEF Grounds, TypeInvariant, Request
<1> USE DEF ContinuedSteps, PasswordSteps
<1>1. CASE RightPassword(t) \/ Welcome(t) \/ DeleteSessions(t)
  <2>1. GoesOn(t, "open", req[t].seen, req[t].since, req[t].read)
    BY <1>0, <1>1
    DEF RightPassword, Welcome, DeleteSessions, Goes, GoesOn, Request
  <2>2. QED
    BY <1>0, <2>1
<1>2. CASE SetPassword(t) \/ ApplyLink(t)
  <2>1. GoesOn(t, "revokeAll", req[t].seen, req[t].id, req[t].read)
    BY <1>0, <1>2 DEF SetPassword, ApplyLink, GoesOn, Request
  <2>2. req[t].id \in Ids
    BY <1>2, RequestUnderWay DEF SetPassword, ApplyLink, At
  <2>3. QED
    BY <1>0, <2>1, <2>2
<1>3. CASE RevokeAllSessions(t)
  <2>1. GoesOn(t, "deleteAll", IdsOf(SessionsOf(req[t].user)), req[t].since,
               req[t].read)
    BY <1>0, <1>3 DEF RevokeAllSessions, GoesOn, Request
  <2>2. IdsOf(SessionsOf(req[t].user)) \subseteq Ids
    BY DEF IdsOf, SessionsOf, Grounds, TypeInvariant, AuthSession
  <2>3. QED
    BY <1>0, <2>1, <2>2
<1>4. CASE ReadMembership(t)
  <2> DEFINE seen == IdsOf({m \in MembersOf(req[t].user) : m.org = req[t].org})
  <2>1. GoesOn(t, "join", seen, req[t].since, req[t].read)
    BY <1>0, <1>4 DEF ReadMembership, GoesOn, Request
  <2>2. seen \subseteq Ids
    BY DEF IdsOf, MembersOf, Grounds, TypeInvariant, OrganizationMembership
  <2>3. QED
    BY <1>0, <2>1, <2>2
<1>5. CASE TropDeTentatives(t)
  <2>1. GoesOn(t, Checked[req[t].step], req[t].seen, password[req[t].user], 0)
    BY <1>0, <1>5 DEF TropDeTentatives, GoesOn, Request
  <2>2. Checked[req[t].step] \in ContinuedSteps
    BY <1>5 DEF TropDeTentatives, Checked, CheckSteps
  <2>3. password[req[t].user] \in Ids \cup {NoId}
    BY <1>0
  <2>4. QED
    BY <1>0, <2>1, <2>2, <2>3
<1>6. CASE CountDemand(t)
  <2>1. GoesOn(t, "sendLink", IdsOf(OpenLinks(req[t].user)), req[t].since,
               req[t].read)
    BY <1>0, <1>6 DEF CountDemand, GoesOn, Request
  <2>2. IdsOf(OpenLinks(req[t].user)) \subseteq Ids
    BY DEF IdsOf, OpenLinks, Grounds, TypeInvariant, PasswordResetToken
  <2>3. QED
    BY <1>0, <2>1, <2>2
<1>7. CASE Join(t)
  <2> DEFINE since == IF req[t].since = NoId THEN req[t].id ELSE req[t].since
  <2>1. GoesOn(t, "welcome", req[t].seen, since, req[t].read)
    BY <1>0, <1>7 DEF Join, GoesOn, Request
  <2>2. req[t].id \in Ids
    BY <1>7, RequestUnderWay DEF Join, At
  <2>3. since \in Ids \cup {NoId}
    BY <1>0, <2>2
  <2> HIDE DEF since
  <2>4. QED
    BY <1>0, <2>1, <2>3
<1>8. QED
  BY <1>1, <1>2, <1>3, <1>4, <1>5, <1>6, <1>7
  DEF Proceeds, WrongPassword, OpenSession, CreateResetToken, CreateSpace,
      InsertMember, SetRole, DeleteMember, CreateInvitation, CommitRevocation

LEMMA ProceedsMoves ==
  ASSUME TenancyAssumption, Grounds, NEW t \in Threads, Proceeds(t)
  PROVE  /\ req[t].step # "idle" /\ UNCHANGED events
         /\ \A t2 \in Threads \ {t} : req'[t2] = req[t2]
         /\ \/ req'[t].step = "idle"
            \/ /\ req'[t].step \in ContinuedSteps
               /\ req'[t].id = req[t].id /\ req'[t].user = req[t].user
               /\ req'[t].row = req[t].row
<1>1. req[t].step # "idle" /\ UNCHANGED events
  BY DEF Proceeds, At, TropDeTentatives, CheckSteps, WrongPassword,
         RightPassword, OpenSession, SetPassword, RevokeAllSessions,
         DeleteSessions, CountDemand, CreateResetToken, ApplyLink, CreateSpace,
         InsertMember, SetRole, DeleteMember, CreateInvitation,
         CommitRevocation, ReadMembership, Join, Welcome
<1>2. CASE Ends(t)
  BY <1>1, <1>2, RowsHaveTypes DEF Ends, Idle
<1>3. CASE ~Ends(t)
  <2>1. PICK step \in ContinuedSteps, seen \in SUBSET Ids,
             since \in Ids \cup {NoId}, read \in Nat :
               GoesOn(t, step, seen, since, read)
    BY <1>3, ProceedsContinues
  <2>2. QED
    BY <1>1, <2>1, Continued
<1>4. QED
  BY <1>2, <1>3

(* What may add an organisation or change a member.                        *)
LEMMA TablesChange ==
  ASSUME TenancyAssumption, Grounds, Owned, [Next]_vars
  PROVE  \/ UNCHANGED <<orgs, members>>
         \/ \E t \in Threads : \/ CreateSpace(t) \/ InsertMember(t)
                               \/ SetRole(t) \/ DeleteMember(t) \/ Join(t)
         \/ \E u \in Users : CreateOrganization(u)
         \/ Restart
<1>1. ASSUME NEW t \in Threads, Begins(t)
      PROVE  UNCHANGED <<orgs, members>>
  BY <1>1, BeginsMoves DEF Begun, orgVars
<1>2. ASSUME NEW t \in Threads, Proceeds(t)
      PROVE  \/ UNCHANGED <<orgs, members>>
             \/ \/ CreateSpace(t) \/ InsertMember(t)
                \/ SetRole(t) \/ DeleteMember(t) \/ Join(t)
  BY <1>2
  DEF Proceeds, orgVars, TropDeTentatives, WrongPassword, RightPassword, OpenSession, SetPassword,
      RevokeAllSessions, DeleteSessions, CountDemand, CreateResetToken, ApplyLink, CreateInvitation,
      CommitRevocation, ReadMembership, Welcome
<1>3. ASSUME \/ TimePasses \/ UNCHANGED vars
             \/ \E s \in sessions : Logout(s) \/ ResolveExpired(s)
      PROVE  UNCHANGED <<orgs, members>>
  BY <1>3 DEF TimePasses, vars, orgVars, Logout, ResolveExpired
<1>4. QED
  BY <1>1, <1>2, <1>3 DEF Next

LEMMA FreshInit == TenancyAssumption /\ Init => IdsAreFresh
  BY IdleIsSound DEF Init, IdsAreFresh, Space, At, Idle

(* No number of an organisation, and no pending number, is the next one.   *)
LEMMA NextIdIsFresh ==
  ASSUME TenancyAssumption, Grounds, IdsAreFresh
  PROVE  /\ \A o \in orgs : o.id[1] \in Ids /\ o.id[1] <= events
         /\ \A t \in Threads : req[t].step # "idle" => req[t].id <= events
         /\ events \in Nat
  BY TablesHaveTypes
  DEF IdsAreFresh, Organization, OrgIds, Ids, Grounds, RequestsAreSound, Sound

LEMMA FreshStep ==
  ASSUME TenancyAssumption, Grounds, Owned, IdsAreFresh, [Next]_vars
  PROVE  IdsAreFresh'
<1>0. /\ \A o \in orgs : o.id[1] \in Ids /\ o.id[1] <= events
      /\ \A t \in Threads : req[t].step # "idle" => req[t].id <= events
      /\ events \in Nat /\ req \in [Threads -> Request]
  BY NextIdIsFresh, TablesHaveTypes
<1>1. ASSUME NEW t \in Threads, Begins(t)
      PROVE  IdsAreFresh'
  <2>1. PICK r : Begun(t, r)
    BY <1>1, BeginsMoves
  <2>2. /\ req'[t].id = events + 1 /\ events' = events + 1 /\ orgs' = orgs
        /\ \A t2 \in Threads \ {t} : req'[t2] = req[t2]
    BY <1>0, <2>1 DEF Begun, orgVars
  <2>3. \A o \in orgs : o.id[1] <= events' /\ o.id[1] # events + 1
    BY <1>0, <2>2 DEF Ids
  <2>4. QED
    BY <1>0, <2>2, <2>3 DEF IdsAreFresh, At
<1>2. ASSUME NEW t \in Threads, Proceeds(t)
      PROVE  IdsAreFresh'
  <2>1. /\ req[t].step # "idle" /\ UNCHANGED events
        /\ \A t2 \in Threads \ {t} : req'[t2] = req[t2]
        /\ \/ req'[t].step = "idle"
           \/ /\ req'[t].step \notin {"idle", "createSpace"}
              /\ req'[t].id = req[t].id
    BY <1>2, ProceedsMoves DEF ContinuedSteps, PasswordSteps
  <2>2. /\ \A o \in orgs' \ orgs : At(t, "createSpace") /\ o.id[1] = req[t].id
        /\ orgs \subseteq orgs'
    BY <1>2
    DEF Proceeds, orgVars, TropDeTentatives, WrongPassword, RightPassword, OpenSession, SetPassword,
        RevokeAllSessions, DeleteSessions, CountDemand, CreateResetToken, ApplyLink, CreateInvitation,
        CommitRevocation, ReadMembership, Welcome, CreateSpace, Space,
        InsertMember, SetRole, DeleteMember, Join
  <2>3. \A o \in orgs' : o.id[1] <= events'
    BY <1>0, <2>1, <2>2
  <2>4. ASSUME NEW t2 \in Threads, At(t2, "createSpace")', NEW o \in orgs'
        PROVE  o.id[1] # req'[t2].id
    <3>1. t2 # t /\ req'[t2] = req[t2] /\ At(t2, "createSpace")
      BY <2>1, <2>4 DEF At
    <3>2. o \in orgs => o.id[1] # req[t2].id
      BY <3>1 DEF IdsAreFresh
    <3>3. o \notin orgs => o.id[1] # req[t2].id
      BY <2>1, <2>2, <3>1 DEF IdsAreFresh, At
    <3>4. QED
      BY <3>1, <3>2, <3>3
  <2>5. ASSUME NEW t1 \in Threads, NEW t2 \in Threads, req'[t1].step # "idle",
               req'[t2].step # "idle", req'[t1].id = req'[t2].id
        PROVE  t1 = t2
    BY <2>1, <2>5 DEF IdsAreFresh
  <2>6. QED
    BY <2>3, <2>4, <2>5 DEF IdsAreFresh
<1>3. ASSUME NEW u \in Users, CreateOrganization(u)
      PROVE  IdsAreFresh'
  <2>1. /\ events' = events + 1 /\ UNCHANGED req
        /\ \A o \in orgs' : o \in orgs \/ o.id[1] = events'
    BY <1>3 DEF CreateOrganization, Event, Space
  <2>2. QED
    BY <1>0, <2>1 DEF IdsAreFresh, At, Ids
<1>4. ASSUME Restart
      PROVE  IdsAreFresh'
  <2>1. /\ events' = events + 1 /\ \A t \in Threads : req'[t] = Idle
        /\ \A o \in orgs' : o \in orgs \/ o.id[1] = events'
    BY <1>4 DEF Restart, Event, Space
  <2>2. QED
    BY <1>0, <2>1, IdleIsSound DEF IdsAreFresh, At, Ids
<1>5. ASSUME \/ TimePasses \/ UNCHANGED vars
             \/ \E s \in sessions : Logout(s) \/ ResolveExpired(s)
      PROVE  IdsAreFresh'
  <2>1. events' \in {events, events + 1} /\ UNCHANGED <<req, orgs>>
    BY <1>5 DEF TimePasses, vars, orgVars, Logout, ResolveExpired, Event
  <2>2. QED
    BY <1>0, <2>1 DEF IdsAreFresh, At, Ids
<1>6. QED
  BY <1>1, <1>2, <1>3, <1>4, <1>5 DEF Next

-----------------------------------------------------------------------------
(* Members, owners and default spaces                                      *)

(* New spaces, with a number no organisation has, each with its owner.     *)
LEMMA NewSpaces ==
  ASSUME TenancyAssumption, Grounds, OneMembership, Owned, OneDefaultSpace,
         NEW id \in Ids, \A o \in orgs : o.id[1] # id,
         NEW S \in SUBSET Users, NEW default \in BOOLEAN, NEW late \in BOOLEAN,
         default /\ ~late => \A u \in S : MembersOf(u) = {},
         orgs' = orgs \cup {Space(id, u, default, late) : u \in S},
         members' = members \cup {Owner(<<id, u>>, u, id) : u \in S}
  PROVE  OneMembership' /\ Owned' /\ OneDefaultSpace'
<1>1. /\ \A m \in members : m.org[1] # id /\ \E o \in orgs : o.id = m.org
      /\ \A o \in orgs : o.id \in OrgIds
  BY TablesHaveTypes DEF KnownOrgs, Organization
<1>2. \A u \in S : /\ Owner(<<id, u>>, u, id).org = <<id, u>>
                   /\ Owner(<<id, u>>, u, id).user = u
                   /\ Owner(<<id, u>>, u, id).role = "owner"
  BY DEF Owner
<1>3. ASSUME NEW m1 \in members', NEW m2 \in members',
             m1.org = m2.org, m1.user = m2.user
      PROVE  m1 = m2
  <2>1. ASSUME NEW m \in members, NEW u \in S
        PROVE  m.org # Owner(<<id, u>>, u, id).org
    BY <1>1, <1>2
  <2>2. CASE m1 \in members /\ m2 \in members
    BY <1>3, <2>2 DEF OneMembership
  <2>3. ASSUME NEW m \in members', m \notin members
        PROVE  \E u \in S : m = Owner(<<id, u>>, u, id)
    BY <2>3
  <2>4. CASE m1 \notin members /\ m2 \notin members
    <3>1. PICK u \in S : m1 = Owner(<<id, u>>, u, id)
      BY <2>3, <2>4
    <3>2. PICK v \in S : m2 = Owner(<<id, v>>, v, id)
      BY <2>3, <2>4
    <3>3. u = v
      BY <1>2, <1>3, <3>1, <3>2
    <3>4. QED
      BY <3>1, <3>2, <3>3
  <2>5. QED
    BY <1>3, <2>1, <2>2, <2>3, <2>4
<1>4. ASSUME NEW o \in orgs'
      PROVE  /\ \E m \in members' : m.org = o.id /\ m.role = "owner"
             /\ \A m \in members' :
                  m.org = o.id => (m.role = "owner" <=> m.user = o.id[2])
  <2>1. CASE o \in orgs
    <3>1. \A u \in S : Owner(<<id, u>>, u, id).org # o.id
      BY <1>2, <2>1
    <3>2. \A m \in members' : m.org = o.id => m \in members
      BY <3>1
    <3>3. members \subseteq members'
      OBVIOUS
    <3>4. QED
      BY <2>1, <3>2, <3>3 DEF Owned
  <2>2. CASE o \notin orgs
    <3>1. PICK u \in S : o = Space(id, u, default, late)
      BY <1>4, <2>2
    <3>2. o.id = <<id, u>> /\ o.id[2] = u
      BY <3>1 DEF Space
    <3>3. \A m \in members : m.org # o.id
      BY <1>1, <3>2
    <3>4. ASSUME NEW m \in members', m.org = o.id
          PROVE  m.role = "owner" /\ m.user = o.id[2]
      <4>1. PICK v \in S : m = Owner(<<id, v>>, v, id)
        BY <3>3, <3>4
      <4>2. v = u
        BY <1>2, <3>2, <3>4, <4>1
      <4>3. QED
        BY <1>2, <3>2, <4>1, <4>2
    <3>5. Owner(<<id, u>>, u, id) \in members'
      OBVIOUS
    <3>6. QED
      BY <1>2, <3>2, <3>4, <3>5
  <2>3. QED
    BY <2>1, <2>2
<1>5. ASSUME NEW o1 \in orgs', NEW o2 \in orgs', o1.id[2] = o2.id[2],
             o1.default, o2.default, ~o1.late, ~o2.late
      PROVE  o1 = o2
  <2>1. ASSUME NEW o \in orgs, NEW u \in S, default, ~late
        PROVE  o.id[2] # u
    <3>1. PICK m \in members : m.org = o.id /\ m.role = "owner" /\ m.user = o.id[2]
      BY DEF Owned
    <3>2. MembersOf(o.id[2]) # {}
      BY <3>1 DEF MembersOf
    <3>3. QED
      BY <2>1, <3>2
  <2>2. ASSUME NEW o \in orgs', o \notin orgs
        PROVE  \E u \in S : /\ o = Space(id, u, default, late) /\ o.id[2] = u
                            /\ o.default = default /\ o.late = late
    <3>1. PICK u \in S : o = Space(id, u, default, late)
      BY <2>2
    <3>2. QED
      BY <3>1 DEF Space
  <2>3. CASE o1 \in orgs /\ o2 \in orgs
    BY <1>5, <2>3 DEF OneDefaultSpace
  <2>4. CASE o1 \notin orgs /\ o2 \notin orgs
    BY <1>5, <2>2, <2>4
  <2>5. CASE o1 \in orgs /\ o2 \notin orgs
    BY <1>5, <2>1, <2>2, <2>5
  <2>6. CASE o1 \notin orgs /\ o2 \in orgs
    BY <1>5, <2>1, <2>2, <2>6
  <2>7. QED
    BY <2>3, <2>4, <2>5, <2>6
<1>6. QED
  BY <1>3, <1>4, <1>5 DEF OneMembership, Owned, OneDefaultSpace

(* A member is admitted: he was not there, and he is no owner.             *)
LEMMA NewMember ==
  ASSUME Grounds, OneMembership, Owned, UNCHANGED orgs,
         NEW m, m.role # "owner", ~Member(m.org, m.user),
         members' = members \cup {m}
  PROVE  OneMembership' /\ Owned'
<1>1. \A x \in members : x.org # m.org \/ x.user # m.user
  BY DEF Member
<1>2. OneMembership'
  BY <1>1 DEF OneMembership
<1>3. ASSUME NEW o \in orgs, m.org = o.id
      PROVE  m.user # o.id[2]
  BY <1>1, <1>3 DEF Owned
<1>4. Owned'
  BY <1>3 DEF Owned
<1>5. QED
  BY <1>2, <1>4

(* No one but members that do not own is edited.                           *)
LEMMA EditedMember ==
  ASSUME TenancyAssumption, Grounds, Owned, NEW t \in Threads,
         req[t].step \in EditSteps, NEW m \in members, TheRow(m, req[t])
  PROVE  m.role # "owner" /\ m.user # m.org[2]
<1>1. req[t].user # req[t].org[2]
  BY RequestUnderWay DEF EditSteps, Known
<1>2. \E o \in orgs : o.id = m.org
  BY TablesHaveTypes DEF KnownOrgs
<1>3. QED
  BY <1>1, <1>2 DEF TheRow, Owned

LEMMA MembershipsOfEdits ==
  ASSUME TenancyAssumption, Grounds, OneMembership, Owned, NEW t \in Threads,
         SetRole(t) \/ DeleteMember(t)
  PROVE  OneMembership' /\ Owned'
<1>1. UNCHANGED orgs
  BY DEF SetRole, DeleteMember
<1>2. CASE DeleteMember(t)
  <2>1. \A m \in members : m.role = "owner" => ~TheRow(m, req[t])
    BY <1>2, EditedMember DEF DeleteMember, At, EditSteps
  <2>2. /\ members' \subseteq members
        /\ \A m \in members : m.role = "owner" => m \in members'
    BY <1>2, <2>1 DEF DeleteMember
  <2>3. QED
    BY <1>1, <2>2 DEF OneMembership, Owned
<1>3. CASE SetRole(t)
  <2>1. /\ req[t].role # "owner" /\ req[t].step \in EditSteps
    BY <1>3, RequestUnderWay DEF SetRole, At, Known, RoleSteps, EditSteps
  <2> DEFINE New(m) == IF TheRow(m, req[t]) THEN [m EXCEPT !.role = req[t].role]
                                            ELSE m
  <2>2. members' = {New(m) : m \in members}
    BY <1>3 DEF SetRole
  <2>3. ASSUME NEW m \in members
        PROVE  /\ New(m).org = m.org /\ New(m).user = m.user
               /\ New(m).role = "owner" <=> m.role = "owner"
               /\ m.role = "owner" => New(m) = m
    <3>1. m \in OrganizationMembership
      BY TablesHaveTypes
    <3>2. CASE TheRow(m, req[t])
      <4>1. m.role # "owner" /\ New(m) = [m EXCEPT !.role = req[t].role]
        BY <2>1, <3>2, EditedMember
      <4>2. /\ New(m).org = m.org /\ New(m).user = m.user
            /\ New(m).role = req[t].role
        BY <3>1, <4>1 DEF OrganizationMembership
      <4>3. QED
        BY <2>1, <4>1, <4>2
    <3>3. CASE ~TheRow(m, req[t])
      BY <3>3
    <3>4. QED
      BY <3>2, <3>3
  <2> HIDE DEF New
  <2>4. OneMembership'
    BY <2>2, <2>3 DEF OneMembership
  <2>5. Owned'
    <3>1. ASSUME NEW o \in orgs
          PROVE  /\ \E m \in members' : m.org = o.id /\ m.role = "owner"
                 /\ \A m \in members' :
                      m.org = o.id => (m.role = "owner" <=> m.user = o.id[2])
      <4>1. PICK m \in members : m.org = o.id /\ m.role = "owner"
        BY DEF Owned
      <4>2. m \in members'
        BY <2>2, <2>3, <4>1
      <4>3. ASSUME NEW x \in members', x.org = o.id
            PROVE  x.role = "owner" <=> x.user = o.id[2]
        <5>1. PICK y \in members : x = New(y)
          BY <2>2
        <5>2. QED
          BY <2>3, <4>3, <5>1 DEF Owned
      <4>4. QED
        BY <4>1, <4>2, <4>3
    <3>2. QED
      BY <1>1, <3>1 DEF Owned
  <2>6. QED
    BY <2>4, <2>5
<1>4. QED
  BY <1>2, <1>3

LEMMA MembershipsOfAdmissions ==
  ASSUME TenancyAssumption, Grounds, OneMembership, Owned, NEW t \in Threads,
         InsertMember(t) \/ Join(t)
  PROVE  OneMembership' /\ Owned'
<1> DEFINE m == [org |-> req[t].org, user |-> req[t].user,
                 role |-> req[t].role, id |-> req[t].id]
<1>1. m.org = req[t].org /\ m.user = req[t].user /\ m.role # "owner"
  BY RequestUnderWay DEF InsertMember, Join, At, Known, RoleSteps
<1>2. UNCHANGED orgs
  BY DEF InsertMember, Join, orgVars
<1>3. \/ UNCHANGED members
      \/ members' = members \cup {m} /\ ~Member(req[t].org, req[t].user)
  <2>1. CASE InsertMember(t)
    <3>1. members' = members \cup {x \in {m} : ~Member(req[t].org, req[t].user)}
      BY <2>1 DEF InsertMember, Conflict
    <3> HIDE DEF m
    <3>2. QED
      BY <3>1
  <2>2. CASE Join(t)
    <3> DEFINE twice == \/ req[t].since = NoId /\ HasAccount(req[t].user)
                        \/ req[t].seen = {} /\ Member(req[t].org, req[t].user)
    <3>1. \/ UNCHANGED members
          \/ /\ ~twice
             /\ members' = IF req[t].seen # {} THEN members ELSE members \cup {m}
      BY <2>2 DEF Join, Conflict, orgVars
    <3>2. QED
      BY <3>1
  <2>3. QED
    BY <2>1, <2>2
<1> HIDE DEF m
<1>4. CASE UNCHANGED members
  BY <1>2, <1>4 DEF OneMembership, Owned
<1>5. QED
  BY <1>1, <1>2, <1>3, <1>4, NewMember

LEMMA MembershipsStep ==
  ASSUME TenancyAssumption, Grounds, IdsAreFresh, OneMembership, Owned,
         OneDefaultSpace, [Next]_vars
  PROVE  OneMembership' /\ Owned' /\ OneDefaultSpace'
<1>1. CASE UNCHANGED <<orgs, members>>
  BY <1>1 DEF OneMembership, Owned, OneDefaultSpace
<1>2. ASSUME NEW t \in Threads, CreateSpace(t)
      PROVE  OneMembership' /\ Owned' /\ OneDefaultSpace'
  <2>1. /\ req[t].step = "createSpace" /\ req[t].id \in Ids
        /\ req[t].user \in Users
    BY <1>2, RequestUnderWay DEF CreateSpace, At
  <2>2. \A o \in orgs : o.id[1] # req[t].id
    BY <2>1 DEF IdsAreFresh, At
  <2>3. PICK late \in BOOLEAN :
          /\ late = (MembersOf(req[t].user) # {})
          /\ orgs' = orgs \cup {Space(req[t].id, u, TRUE, late) : u \in {req[t].user}}
          /\ members' = members \cup
               {Owner(<<req[t].id, u>>, u, req[t].id) : u \in {req[t].user}}
    BY <1>2 DEF CreateSpace, Space
  <2>4. QED
    BY <2>1, <2>2, <2>3, NewSpaces
<1>3. ASSUME NEW u \in Users, CreateOrganization(u)
      PROVE  OneMembership' /\ Owned' /\ OneDefaultSpace'
  <2>1. events' \in Ids /\ \A o \in orgs : o.id[1] # events'
    BY <1>3, NextIdIsFresh, TablesHaveTypes DEF CreateOrganization, Event, Ids
  <2>2. /\ orgs' = orgs \cup {Space(events', v, FALSE, FALSE) : v \in {u}}
        /\ members' = members \cup {Owner(<<events', v>>, v, events') : v \in {u}}
    BY <1>3 DEF CreateOrganization, Space
  <2>3. QED
    BY <2>1, <2>2, NewSpaces
<1>4. CASE Restart
  <2>1. events' \in Ids /\ \A o \in orgs : o.id[1] # events'
    BY <1>4, NextIdIsFresh, TablesHaveTypes DEF Restart, Event, Ids
  <2>2. /\ WithoutSpace \in SUBSET Users
        /\ \A u \in WithoutSpace : MembersOf(u) = {}
    BY DEF WithoutSpace
  <2>3. /\ orgs' = orgs \cup {Space(events', u, TRUE, FALSE) : u \in WithoutSpace}
        /\ members' = members \cup
             {Owner(<<events', u>>, u, events') : u \in WithoutSpace}
    BY <1>4 DEF Restart
  <2>4. QED
    BY <2>1, <2>2, <2>3, NewSpaces
<1>5. ASSUME NEW t \in Threads,
             InsertMember(t) \/ SetRole(t) \/ DeleteMember(t) \/ Join(t)
      PROVE  OneMembership' /\ Owned' /\ OneDefaultSpace'
  <2>1. UNCHANGED orgs
    BY <1>5 DEF InsertMember, SetRole, DeleteMember, Join, orgVars
  <2>2. QED
    BY <1>5, <2>1, MembershipsOfEdits, MembershipsOfAdmissions DEF OneDefaultSpace
<1>6. QED
  BY <1>1, <1>2, <1>3, <1>4, <1>5, TablesChange

-----------------------------------------------------------------------------
(* Passwords and sessions                                                  *)

(* Nothing of a password, a session or a revocation under way changes.     *)
RevokeSteps == {"revokeAll", "deleteAll"}

LEMMA SessionsLeftAlone ==
  ASSUME OldSessions, UNCHANGED <<password, interrupted>>,
         sessions' \subseteq sessions,
         \A t \in Threads : req[t].step \in RevokeSteps => req'[t] = req[t],
         \A t \in Threads : req'[t].step \in RevokeSteps => req'[t] = req[t]
  PROVE  OldSessions'
<1>1. ASSUME NEW s \in sessions', s.since # password'[s.user]
      PROVE  LeftOpen(s)' \/ Condemned(s)'
  <2>1. LeftOpen(s) \/ Condemned(s)
    BY <1>1 DEF OldSessions
  <2>2. LeftOpen(s) => LeftOpen(s)'
    BY DEF LeftOpen, Deletes, At, RevokeSteps
  <2>3. Condemned(s) => Condemned(s)'
    BY DEF Condemned, Revokes, Revoked, At, RevokeSteps
  <2>4. QED
    BY <2>1, <2>2, <2>3
<1>2. QED
  BY <1>1 DEF OldSessions

(* What the revocations of other requests do to a session stays.           *)
LEMMA OthersRevoke ==
  ASSUME NEW t \in Threads, NEW s,
         \A t2 \in Threads \ {t} : req'[t2] = req[t2],
         Condemned(s), ~Revokes(t, s.user), ~(At(t, "deleteAll") /\ Revoked(req[t], s))
  PROVE  Condemned(s)'
<1>1. CASE s.late
  BY <1>1 DEF Condemned
<1>2. CASE ~s.late
  <2>1. PICK t2 \in Threads :
          Revokes(t2, s.user) \/ (At(t2, "deleteAll") /\ Revoked(req[t2], s))
    BY <1>2 DEF Condemned
  <2>2. t2 # t /\ req'[t2] = req[t2]
    BY <2>1
  <2>3. QED
    BY <2>1, <2>2 DEF Condemned, Revokes, Revoked, At
<1>3. QED
  BY <1>1, <1>2

(* A password is written by a request that goes on to revoke the sessions. *)
LEMMA PasswordChanges ==
  ASSUME TenancyAssumption, Grounds, OldSessions,
         NEW t \in Threads, SetPassword(t) \/ ApplyLink(t)
  PROVE  OldSessions'
<1>1. /\ req[t].step \in {"setPassword", "applyLink"}
      /\ password' = [password EXCEPT ![req[t].user] = req[t].id]
      /\ UNCHANGED <<sessions, interrupted>>
  BY DEF SetPassword, ApplyLink, At
<1>2. /\ req'[t].step = "revokeAll" /\ req'[t].user = req[t].user
      /\ \A t2 \in Threads \ {t} : req'[t2] = req[t2]
  BY RowsHaveTypes DEF SetPassword, ApplyLink, Request
<1>3. \A u \in Users \ {req[t].user} : password'[u] = password[u]
  BY <1>1, PasswordWritten
<1>4. ASSUME NEW s \in sessions, s.since # password'[s.user]
      PROVE  LeftOpen(s)' \/ Condemned(s)'
  <2>1. CASE s.user = req[t].user
    BY <1>2, <2>1 DEF Condemned, Revokes, At
  <2>2. CASE s.user # req[t].user
    <3>1. LeftOpen(s) \/ Condemned(s)
      BY <1>3, <1>4, <2>2, RowsHaveTypes DEF OldSessions
    <3>2. LeftOpen(s) => LeftOpen(s)'
      BY <1>1, <1>2 DEF LeftOpen, Deletes, At
    <3>3. Condemned(s) => Condemned(s)'
      BY <1>1, <1>2, OthersRevoke DEF Revokes, At
    <3>4. QED
      BY <3>1, <3>2, <3>3
  <2>3. QED
    BY <2>1, <2>2
<1>5. QED
  BY <1>1, <1>4 DEF OldSessions

(* The revocation reads every session there is.                            *)
LEMMA SessionsRead ==
  ASSUME TenancyAssumption, Grounds, OldSessions,
         NEW t \in Threads, RevokeAllSessions(t)
  PROVE  OldSessions'
<1>1. /\ req[t].step = "revokeAll"
      /\ UNCHANGED <<password, sessions, links, interrupted>>
  BY DEF RevokeAllSessions, At, accountVars
<1>2. /\ req'[t].step = "deleteAll" /\ req'[t].user = req[t].user
      /\ req'[t].seen = IdsOf(SessionsOf(req[t].user))
      /\ \A t2 \in Threads \ {t} : req'[t2] = req[t2]
  BY RowsHaveTypes DEF RevokeAllSessions, Request
<1>3. ASSUME NEW s \in sessions, s.since # password[s.user]
      PROVE  LeftOpen(s)' \/ Condemned(s)'
  <2>1. CASE s.user = req[t].user
    <3>1. s.id \in req'[t].seen
      BY <1>2, <2>1 DEF IdsOf, SessionsOf
    <3>2. QED
      BY <1>2, <2>1, <3>1 DEF Condemned, Revoked, At
  <2>2. CASE s.user # req[t].user
    <3>1. LeftOpen(s) \/ Condemned(s)
      BY <1>3 DEF OldSessions
    <3>2. LeftOpen(s) => LeftOpen(s)'
      BY <1>1, <1>2, <2>2 DEF LeftOpen, Deletes, At
    <3>3. Condemned(s) => Condemned(s)'
      BY <1>1, <1>2, <2>2, OthersRevoke DEF Revokes, At
    <3>4. QED
      BY <3>1, <3>2, <3>3
  <2>3. QED
    BY <2>1, <2>2
<1>4. QED
  BY <1>1, <1>3 DEF OldSessions

LEMMA SessionsRevoked ==
  ASSUME TenancyAssumption, Grounds, OldSessions,
         NEW t \in Threads, DeleteSessions(t)
  PROVE  OldSessions'
<1>1. /\ req[t].step = "deleteAll" /\ UNCHANGED password
      /\ sessions' = {s \in sessions : ~Revoked(req[t], s)}
      /\ interrupted' = interrupted \ {req[t].user}
  BY DEF DeleteSessions, At
<1>2. /\ \A t2 \in Threads \ {t} : req'[t2] = req[t2]
      /\ req'[t].step \notin RevokeSteps
  BY RowsHaveTypes DEF DeleteSessions, Goes, Ends, Request, Idle, RevokeSteps
<1>3. ASSUME NEW s \in sessions', s.since # password[s.user]
      PROVE  LeftOpen(s)' \/ Condemned(s)'
  <2>1. s \in sessions /\ ~Revoked(req[t], s)
    BY <1>1
  <2>2. LeftOpen(s) \/ Condemned(s)
    BY <1>3, <2>1 DEF OldSessions
  <2>3. CASE LeftOpen(s)
    <3>1. s.user # req[t].user
      BY <1>1, <2>3 DEF LeftOpen, Deletes, At
    <3>2. QED
      BY <1>1, <1>2, <2>3, <3>1 DEF LeftOpen, Deletes, At, RevokeSteps
  <2>4. CASE Condemned(s)
    BY <1>1, <1>2, <2>1, <2>4, OthersRevoke DEF Revokes, At
  <2>5. QED
    BY <2>2, <2>3, <2>4
<1>4. QED
  BY <1>1, <1>3 DEF OldSessions

(* Where a request that proceeds goes.                                     *)
LEMMA StepsProceed ==
  ASSUME TenancyAssumption, Grounds, NEW t \in Threads, Proceeds(t),
         ~TropDeTentatives(t)
  PROVE  /\ req'[t].step \notin {"login", "accept", "forgot"}
         /\ \/ SetPassword(t) \/ ApplyLink(t) \/ RevokeAllSessions(t)
            \/ DeleteSessions(t)
            \/ req'[t].step \notin {"revokeAll", "deleteAll"}
<1>1. req \in [Threads -> Request] /\ req[t] \in Request
  BY DEF Grounds, TypeInvariant
<1>2. CASE Ends(t)
  BY <1>1, <1>2 DEF Ends, Idle
<1>3. ASSUME NEW step, Goes(t, step)
      PROVE  req'[t].step = step
  BY <1>1, <1>3 DEF Goes, Request
<1>4. CASE RightPassword(t) \/ Welcome(t) \/ DeleteSessions(t)
  <2>1. Ends(t) \/ Goes(t, "open")
    BY <1>4 DEF RightPassword, Welcome, DeleteSessions
  <2>2. QED
    BY <1>2, <1>3, <2>1
<1>5. CASE SetPassword(t) \/ ApplyLink(t) \/ RevokeAllSessions(t)
  <2>1. req'[t].step \in {"revokeAll", "deleteAll"}
    BY <1>1, <1>5 DEF SetPassword, ApplyLink, RevokeAllSessions, Request
  <2>2. QED
    BY <1>5, <2>1
<1>6. CASE CountDemand(t) \/ ReadMembership(t) \/ Join(t)
  <2>1. Ends(t) \/ req'[t].step \in {"sendLink", "join", "welcome"}
    BY <1>1, <1>6 DEF CountDemand, ReadMembership, Join, Request
  <2>2. QED
    BY <1>2, <2>1
<1>7. QED
  BY <1>2, <1>4, <1>5, <1>6
  DEF Proceeds, WrongPassword, OpenSession, CreateResetToken, CreateSpace,
      InsertMember, SetRole, DeleteMember, CreateInvitation, CommitRevocation

(* A session is opened: of the password of now, condemned, or late.        *)
LEMMA SessionOpened ==
  ASSUME TenancyAssumption, Grounds, OldSessions,
         NEW t \in Threads, OpenSession(t)
  PROVE  OldSessions'
<1>1. /\ req[t].step = "open" /\ UNCHANGED <<password, interrupted>>
  BY DEF OpenSession, At
<1>2. /\ \A t2 \in Threads \ {t} : req'[t2] = req[t2]
      /\ req'[t].step \notin RevokeSteps
  BY RowsHaveTypes DEF OpenSession, Ends, Idle, RevokeSteps
<1>3. ASSUME NEW s \in sessions', s.since # password[s.user]
      PROVE  LeftOpen(s)' \/ Condemned(s)'
  <2>1. CASE s \in sessions
    <3>1. LeftOpen(s) \/ Condemned(s)
      BY <1>3, <2>1 DEF OldSessions
    <3>2. LeftOpen(s) => LeftOpen(s)'
      BY <1>1, <1>2 DEF LeftOpen, Deletes, At, RevokeSteps
    <3>3. Condemned(s) => Condemned(s)'
      BY <1>1, <1>2, OthersRevoke DEF Revokes, At
    <3>4. QED
      BY <3>1, <3>2, <3>3
  <2>2. CASE s \notin sessions
    <3>1. /\ s.user = req[t].user
          /\ s.late = (/\ s.since # password[s.user]
                       /\ ~ \E t2 \in Threads : Revokes(t2, s.user))
      <4>1. s = [user |-> req[t].user, id |-> req[t].id, since |-> req[t].since,
                 expired |-> FALSE,
                 late |-> /\ req[t].since # password[req[t].user]
                          /\ ~ \E t2 \in Threads : Revokes(t2, req[t].user)]
        BY <2>2 DEF OpenSession
      <4>2. QED
        BY <4>1
    <3>2. CASE s.late
      BY <3>2 DEF Condemned
    <3>3. CASE ~s.late
      <4>1. PICK t2 \in Threads : Revokes(t2, s.user)
        BY <1>3, <3>1, <3>3
      <4>2. t2 # t /\ req'[t2] = req[t2]
        BY <1>1, <1>2, <4>1 DEF Revokes, At
      <4>3. QED
        BY <4>1, <4>2 DEF Condemned, Revokes, At
    <3>4. QED
      BY <3>2, <3>3
  <2>3. QED
    BY <2>1, <2>2
<1>4. QED
  BY <1>1, <1>3 DEF OldSessions

(* An account that did not exist had no session.                           *)
LEMMA AccountsOpened ==
  ASSUME TenancyAssumption, Grounds, OldSessions, NEW t \in Threads, Join(t)
  PROVE  OldSessions'
<1>1. /\ req[t].step = "join" /\ req'[t].step \notin RevokeSteps
      /\ \A t2 \in Threads \ {t} : req'[t2] = req[t2]
  BY RowsHaveTypes DEF Join, At, Ends, Idle, Request, RevokeSteps
<1>2. UNCHANGED <<sessions, interrupted>>
  BY DEF Join, accountVars
<1>3. \A s \in sessions : password'[s.user] = password[s.user]
  <2>1. \/ UNCHANGED password
        \/ /\ ~HasAccount(req[t].user)
           /\ password' = [password EXCEPT ![req[t].user] = req[t].id]
    BY DEF Join, accountVars
  <2>2. QED
    BY <1>1, <2>1, PasswordWritten, RowsHaveTypes
<1>4. ASSUME NEW s \in sessions, s.since # password[s.user]
      PROVE  LeftOpen(s)' \/ Condemned(s)'
  <2>1. LeftOpen(s) \/ Condemned(s)
    BY <1>4 DEF OldSessions
  <2>2. LeftOpen(s) => LeftOpen(s)'
    BY <1>1, <1>2 DEF LeftOpen, Deletes, At, RevokeSteps
  <2>3. Condemned(s) => Condemned(s)'
    BY <1>1, OthersRevoke DEF Revokes, At
  <2>4. QED
    BY <2>1, <2>2, <2>3
<1>5. QED
  BY <1>2, <1>3, <1>4 DEF OldSessions

LEMMA PasswordsInit == TenancyAssumption /\ Init => OldSessions
<1> SUFFICES ASSUME TenancyAssumption, Init, NEW s \in sessions
             PROVE  s.since = password[s.user]
  BY DEF OldSessions
<1>1. PICK u \in Users \ {Founder} :
        /\ s = [user |-> u, id |-> 0, since |-> 0, expired |-> FALSE,
                late |-> FALSE]
        /\ password[u] = 0
  BY DEF Init
<1>2. QED
  BY <1>1

LEMMA PasswordsStep ==
  ASSUME TenancyAssumption, Grounds, Owned, OldSessions, [Next]_vars
  PROVE  OldSessions'
<1>1. ASSUME NEW t \in Threads, Begins(t)
      PROVE  OldSessions'
  <2>1. PICK r : Begun(t, r)
    BY <1>1, BeginsMoves
  <2>2. /\ req[t].step = "idle" /\ req'[t].step \notin RevokeSteps
        /\ \A t2 \in Threads \ {t} : req'[t2] = req[t2]
    BY <2>1, RowsHaveTypes, IdleIsSound
    DEF Begun, BeginSteps, CheckSteps, RevokeSteps
  <2>3. QED
    BY <2>1, <2>2, SessionsLeftAlone DEF Begun, accountVars, RevokeSteps
<1>2. ASSUME NEW t \in Threads, Proceeds(t), ~OpenSession(t), ~SetPassword(t),
             ~ApplyLink(t), ~RevokeAllSessions(t), ~DeleteSessions(t), ~Join(t)
      PROVE  OldSessions'
  <2>1. /\ UNCHANGED <<password, sessions, interrupted>>
        /\ req[t].step \notin RevokeSteps
    BY <1>2
    DEF Proceeds, accountVars, At, TropDeTentatives, CheckSteps, WrongPassword,
        RightPassword, CountDemand, CreateResetToken, CreateSpace, InsertMember,
        SetRole, DeleteMember, CreateInvitation, CommitRevocation,
        ReadMembership, Welcome, RevokeSteps
  <2>2. req'[t].step \notin RevokeSteps
    <3>1. CASE TropDeTentatives(t)
      <4>1. Ends(t) \/ req'[t].step = Checked[req[t].step]
        BY <3>1, RowsHaveTypes DEF TropDeTentatives, Request
      <4>2. QED
        BY <3>1, <4>1, RowsHaveTypes
        DEF TropDeTentatives, CheckSteps, Checked, Ends, Idle, RevokeSteps
    <3>2. CASE ~TropDeTentatives(t)
      BY <1>2, <3>2, StepsProceed DEF RevokeSteps
    <3>3. QED
      BY <3>1, <3>2
  <2>3. \A t2 \in Threads \ {t} : req'[t2] = req[t2]
    BY <1>2, ProceedsMoves
  <2>4. QED
    BY <2>1, <2>2, <2>3, SessionsLeftAlone
<1>3. ASSUME Restart
      PROVE  OldSessions'
  <2>1. /\ UNCHANGED password /\ sessions' \subseteq sessions
        /\ interrupted \subseteq interrupted'
        /\ \A t \in Threads : /\ req[t].step \in RevokeSteps
                                  => req[t].user \in interrupted'
                              /\ req'[t] = Idle
    BY <1>3 DEF Restart, PurgedSessions, At, RevokeSteps
  <2>2. ASSUME NEW s \in sessions', s.since # password[s.user]
        PROVE  LeftOpen(s)' \/ Condemned(s)'
    <3>1. LeftOpen(s) \/ Condemned(s)
      BY <2>1, <2>2 DEF OldSessions
    <3>2. s.late \/ s.user \in interrupted'
      BY <2>1, <3>1 DEF LeftOpen, Condemned, Revokes, Revoked, At, RevokeSteps
    <3>3. s.user \in interrupted' => LeftOpen(s)'
      BY <2>1 DEF LeftOpen, Deletes, At, Idle
    <3>4. s.late => Condemned(s)'
      BY DEF Condemned
    <3>5. QED
      BY <3>2, <3>3, <3>4
  <2>3. QED
    BY <2>1, <2>2 DEF OldSessions
<1>4. ASSUME TimePasses
      PROVE  OldSessions'
  <2>1. UNCHANGED <<password, req, interrupted>>
    BY <1>4 DEF TimePasses
  <2>2. ASSUME NEW x \in sessions', x.since # password[x.user]
        PROVE  LeftOpen(x)' \/ Condemned(x)'
    <3>1. PICK s \in sessions : x = s \/ x = [s EXCEPT !.expired = TRUE]
      BY <1>4, <2>2 DEF TimePasses, Expire
    <3>2. /\ x.user = s.user /\ x.since = s.since /\ x.late = s.late
          /\ x.id = s.id
      BY <3>1, RowsHaveTypes DEF AuthSession
    <3>3. LeftOpen(s) \/ Condemned(s)
      BY <2>2, <3>2 DEF OldSessions
    <3>4. QED
      BY <2>1, <3>2, <3>3
      DEF LeftOpen, Deletes, Condemned, Revokes, Revoked, At
  <2>3. QED
    BY <2>1, <2>2 DEF OldSessions
<1>5. ASSUME \/ UNCHANGED vars \/ \E u \in Users : CreateOrganization(u)
             \/ \E s \in sessions : Logout(s) \/ ResolveExpired(s)
      PROVE  OldSessions'
  <2>1. UNCHANGED <<password, req, interrupted>> /\ sessions' \subseteq sessions
    BY <1>5 DEF vars, accountVars, CreateOrganization, Logout, ResolveExpired
  <2>2. QED
    BY <2>1, SessionsLeftAlone
<1>6. QED
  BY <1>1, <1>2, <1>3, <1>4, <1>5, PasswordChanges, SessionsRead,
     SessionsRevoked, SessionOpened, AccountsOpened DEF Next

-----------------------------------------------------------------------------
(* Links and invitations                                                   *)

OneLink ==
  \A l1, l2 \in links :
    /\ l1.user = l2.user
    /\ \A l \in {l1, l2} : ~l.used /\ ~l.late
    => l1 = l2
OneInvitation ==
  \A i1, i2 \in invitations :
    /\ i1.org = i2.org /\ i1.email = i2.email
    /\ \A i \in {i1, i2} : ~i.accepted /\ ~i.revoked /\ ~i.late
    => i1 = i2

(* The rows still alive were there already.                                *)
LEMMA LinksOnlyEnd ==
  ASSUME OneLink,
         \A x \in links' : ~x.used => x \in links
  PROVE  OneLink'
  BY DEF OneLink

LEMMA InvitationsOnlyEnd ==
  ASSUME OneInvitation,
         \A x \in invitations' : ~x.accepted /\ ~x.revoked => x \in invitations
  PROVE  OneInvitation'
  BY DEF OneInvitation

LEMMA RowsExpire ==
  ASSUME TenancyAssumption, Grounds
  PROVE  /\ OneLink /\ links' = Expire(links) => OneLink'
         /\ OneInvitation /\ invitations' = Expire(invitations) => OneInvitation'
<1>1. \A l \in links : LET x == [l EXCEPT !.expired = TRUE] IN
        x.user = l.user /\ x.used = l.used /\ x.late = l.late
  BY RowsHaveTypes DEF PasswordResetToken
<1>2. \A i \in invitations : LET x == [i EXCEPT !.expired = TRUE] IN
        /\ x.org = i.org /\ x.email = i.email /\ x.accepted = i.accepted
        /\ x.revoked = i.revoked /\ x.late = i.late
  BY TablesHaveTypes DEF OrganizationInvitation
<1>3. ASSUME OneLink, links' = Expire(links), NEW x1 \in links', NEW x2 \in links',
             x1.user = x2.user, ~x1.used, ~x1.late, ~x2.used, ~x2.late
      PROVE  x1 = x2
  <2>1. PICK l1 \in links : x1 = [l1 EXCEPT !.expired = TRUE]
    BY <1>3 DEF Expire
  <2>2. PICK l2 \in links : x2 = [l2 EXCEPT !.expired = TRUE]
    BY <1>3 DEF Expire
  <2>3. l1 = l2
    BY <1>1, <1>3, <2>1, <2>2 DEF OneLink
  <2>4. QED
    BY <2>1, <2>2, <2>3
<1>4. ASSUME OneInvitation, invitations' = Expire(invitations),
             NEW x1 \in invitations', NEW x2 \in invitations',
             x1.org = x2.org, x1.email = x2.email,
             ~x1.accepted, ~x1.revoked, ~x1.late,
             ~x2.accepted, ~x2.revoked, ~x2.late
      PROVE  x1 = x2
  <2>1. PICK i1 \in invitations : x1 = [i1 EXCEPT !.expired = TRUE]
    BY <1>4 DEF Expire
  <2>2. PICK i2 \in invitations : x2 = [i2 EXCEPT !.expired = TRUE]
    BY <1>4 DEF Expire
  <2>3. i1 = i2
    BY <1>2, <1>4, <2>1, <2>2 DEF OneInvitation
  <2>4. QED
    BY <2>1, <2>2, <2>3
<1>5. QED
  BY <1>3, <1>4 DEF OneLink, OneInvitation

(* The links of which create_reset_token marks those it has read.          *)
LEMMA LinkCreated ==
  ASSUME TenancyAssumption, Grounds, OneLink, NEW t \in Threads,
         CreateResetToken(t)
  PROVE  OneLink'
<1> DEFINE late == ~(IdsOf(OpenLinks(req[t].user)) \subseteq req[t].seen)
           fresh == [user |-> req[t].user, id |-> req[t].id, used |-> FALSE,
                     expired |-> FALSE, late |-> late]
<1>1. links' = {[l EXCEPT !.used = @ \/ l.id \in req[t].seen] : l \in links}
                 \cup {fresh}
  BY DEF CreateResetToken
<1>2. fresh.user = req[t].user /\ fresh.late = late
  OBVIOUS
<1> HIDE DEF fresh
<1>3. ASSUME NEW x \in links', ~x.used, x # fresh
      PROVE  x \in links /\ x.id \notin req[t].seen
  <2>1. PICK l \in links : x = [l EXCEPT !.used = @ \/ l.id \in req[t].seen]
    BY <1>1, <1>3
  <2>2. l \in PasswordResetToken
    BY RowsHaveTypes
  <2>3. x.id = l.id /\ ~l.used /\ l.id \notin req[t].seen
    BY <1>3, <2>1, <2>2 DEF PasswordResetToken
  <2>4. x = l
    BY <2>1, <2>2, <2>3 DEF PasswordResetToken
  <2>5. QED
    BY <2>3, <2>4
<1>4. ASSUME NEW x \in links', ~x.used, x # fresh, x.user = fresh.user
      PROVE  fresh.late
  <2>1. x \in OpenLinks(req[t].user)
    BY <1>2, <1>3, <1>4 DEF OpenLinks
  <2>2. x.id \in IdsOf(OpenLinks(req[t].user)) /\ x.id \notin req[t].seen
    BY <1>3, <1>4, <2>1 DEF IdsOf
  <2>3. QED
    BY <1>2, <2>2
<1>5. ASSUME NEW x1 \in links', NEW x2 \in links', x1.user = x2.user,
             ~x1.used, ~x1.late, ~x2.used, ~x2.late
      PROVE  x1 = x2
  BY <1>3, <1>4, <1>5 DEF OneLink
<1>6. QED
  BY <1>5 DEF OneLink

(* The same of create and the invitations.                                 *)
LEMMA InvitationCreated ==
  ASSUME TenancyAssumption, Grounds, OneInvitation, NEW t \in Threads,
         CreateInvitation(t)
  PROVE  OneInvitation'
<1> DEFINE pending == PendingInvitations(req[t].org, req[t].user)
           late == ~(IdsOf(pending) \subseteq req[t].seen)
           fresh == [org |-> req[t].org, email |-> req[t].user,
                     role |-> req[t].role, id |-> req[t].id, accepted |-> FALSE,
                     revoked |-> FALSE, expired |-> FALSE, late |-> late]
<1>1. invitations' = {[i EXCEPT !.revoked = @ \/ i.id \in req[t].seen] :
                        i \in invitations} \cup {fresh}
  BY DEF CreateInvitation
<1>2. /\ fresh.org = req[t].org /\ fresh.email = req[t].user
      /\ fresh.late = late
  OBVIOUS
<1> HIDE DEF fresh
<1>3. ASSUME NEW x \in invitations', ~x.accepted, ~x.revoked, x # fresh
      PROVE  x \in invitations /\ x.id \notin req[t].seen
  <2>1. PICK i \in invitations : x = [i EXCEPT !.revoked = @ \/ i.id \in req[t].seen]
    BY <1>1, <1>3
  <2>2. i \in OrganizationInvitation
    BY TablesHaveTypes
  <2>3. x.id = i.id /\ ~i.revoked /\ i.id \notin req[t].seen
    BY <1>3, <2>1, <2>2 DEF OrganizationInvitation
  <2>4. x = i
    BY <2>1, <2>2, <2>3 DEF OrganizationInvitation
  <2>5. QED
    BY <2>3, <2>4
<1>4. ASSUME NEW x \in invitations', ~x.accepted, ~x.revoked, x # fresh,
             x.org = fresh.org, x.email = fresh.email
      PROVE  fresh.late
  <2>1. x \in pending
    BY <1>2, <1>3, <1>4 DEF PendingInvitations
  <2>2. x.id \in IdsOf(pending) /\ x.id \notin req[t].seen
    BY <1>3, <1>4, <2>1 DEF IdsOf
  <2>3. QED
    BY <1>2, <2>2
<1>5. ASSUME NEW x1 \in invitations', NEW x2 \in invitations',
             x1.org = x2.org, x1.email = x2.email,
             ~x1.accepted, ~x1.revoked, ~x1.late,
             ~x2.accepted, ~x2.revoked, ~x2.late
      PROVE  x1 = x2
  BY <1>3, <1>4, <1>5 DEF OneInvitation
<1>6. QED
  BY <1>5 DEF OneInvitation

(* A reset, a revocation and an acceptance only end what they find.        *)
LEMMA RowsMarked ==
  ASSUME TenancyAssumption, Grounds, NEW t \in Threads
  PROVE  /\ OneLink /\ ApplyLink(t) => OneLink'
         /\ OneInvitation /\ CommitRevocation(t) => OneInvitation'
         /\ OneInvitation /\ Join(t) => OneInvitation'
<1>1. ASSUME ApplyLink(t), NEW x \in links', ~x.used
      PROVE  x \in links
  <2>1. PICK l \in links : x = [l EXCEPT !.used = @ \/ l.id = req[t].row]
    BY <1>1 DEF ApplyLink
  <2>2. l \in PasswordResetToken
    BY RowsHaveTypes
  <2>3. ~l.used /\ l.id # req[t].row
    BY <1>1, <2>1, <2>2 DEF PasswordResetToken
  <2>4. x = l
    BY <2>1, <2>2, <2>3 DEF PasswordResetToken
  <2>5. QED
    BY <2>4
<1>2. ASSUME CommitRevocation(t), NEW x \in invitations', ~x.revoked
      PROVE  x \in invitations
  <2>1. PICK i \in invitations : x = [i EXCEPT !.revoked = @ \/ i.id = req[t].row]
    BY <1>2 DEF CommitRevocation
  <2>2. i \in OrganizationInvitation
    BY TablesHaveTypes
  <2>3. ~i.revoked /\ i.id # req[t].row
    BY <1>2, <2>1, <2>2 DEF OrganizationInvitation
  <2>4. x = i
    BY <2>1, <2>2, <2>3 DEF OrganizationInvitation
  <2>5. QED
    BY <2>4
<1>3. ASSUME Join(t), NEW x \in invitations', ~x.accepted
      PROVE  x \in invitations
  <2>1. CASE UNCHANGED invitations
    BY <1>3, <2>1
  <2>2. CASE \E i \in invitations : x = [i EXCEPT !.accepted = @ \/ i.id = req[t].row]
    <3>1. PICK i \in invitations : x = [i EXCEPT !.accepted = @ \/ i.id = req[t].row]
      BY <2>2
    <3>2. i \in OrganizationInvitation
      BY TablesHaveTypes
    <3>3. ~i.accepted /\ i.id # req[t].row
      BY <1>3, <3>1, <3>2 DEF OrganizationInvitation
    <3>4. x = i
      BY <3>1, <3>2, <3>3 DEF OrganizationInvitation
    <3>5. QED
      BY <3>4
  <2>3. QED
    BY <1>3, <2>1, <2>2 DEF Join, orgVars
<1>4. QED
  BY <1>1, <1>2, <1>3, LinksOnlyEnd, InvitationsOnlyEnd

LEMMA LinksStep ==
  ASSUME TenancyAssumption, Grounds, Owned, OneLiveLink, [Next]_vars
  PROVE  OneLiveLink'
<1>0. OneLink /\ OneInvitation
  BY DEF OneLiveLink, OneLink, OneInvitation
<1>1. OneLink'
  <2>1. ASSUME NEW t \in Threads, Begins(t)
        PROVE  OneLink'
    BY <1>0, <2>1, BeginsMoves DEF Begun, accountVars, OneLink
  <2>2. ASSUME NEW t \in Threads, Proceeds(t)
        PROVE  OneLink'
    <3>1. UNCHANGED links \/ CreateResetToken(t) \/ ApplyLink(t)
      BY <2>2
      DEF Proceeds, accountVars, TropDeTentatives, WrongPassword, RightPassword, OpenSession,
          SetPassword, RevokeAllSessions, DeleteSessions, CountDemand, CreateSpace, InsertMember, SetRole,
          DeleteMember, CreateInvitation, CommitRevocation, ReadMembership,
          Join, Welcome
    <3>2. QED
      BY <1>0, <3>1, LinkCreated, RowsMarked DEF OneLink
  <2>3. CASE TimePasses
    BY <1>0, <2>3, RowsExpire DEF TimePasses
  <2>4. CASE Restart
    BY <1>0, <2>4, LinksOnlyEnd DEF Restart, PurgedLinks
  <2>5. CASE \/ UNCHANGED vars \/ \E u \in Users : CreateOrganization(u)
             \/ \E s \in sessions : Logout(s) \/ ResolveExpired(s)
    BY <1>0, <2>5
    DEF vars, accountVars, CreateOrganization, Logout, ResolveExpired, OneLink
  <2>6. QED
    BY <2>1, <2>2, <2>3, <2>4, <2>5 DEF Next
<1>2. OneInvitation'
  <2>1. ASSUME NEW t \in Threads, Begins(t)
        PROVE  OneInvitation'
    BY <1>0, <2>1, BeginsMoves DEF Begun, orgVars, OneInvitation
  <2>2. ASSUME NEW t \in Threads, Proceeds(t)
        PROVE  OneInvitation'
    <3>1. \/ UNCHANGED invitations
          \/ CreateInvitation(t) \/ CommitRevocation(t) \/ Join(t)
      BY <2>2
      DEF Proceeds, orgVars, TropDeTentatives, WrongPassword, RightPassword, OpenSession,
          SetPassword, RevokeAllSessions, DeleteSessions, CountDemand, CreateResetToken, ApplyLink,
          CreateSpace, InsertMember, SetRole, DeleteMember, ReadMembership,
          Welcome
    <3>2. QED
      BY <1>0, <3>1, InvitationCreated, RowsMarked DEF OneInvitation
  <2>3. CASE TimePasses
    BY <1>0, <2>3, RowsExpire DEF TimePasses, OneInvitation
  <2>4. CASE \/ UNCHANGED vars \/ \E u \in Users : CreateOrganization(u)
             \/ Restart
             \/ \E s \in sessions : Logout(s) \/ ResolveExpired(s)
    BY <1>0, <2>4
    DEF vars, orgVars, CreateOrganization, Logout, ResolveExpired, Restart,
        OneInvitation
  <2>5. QED
    BY <2>1, <2>2, <2>3, <2>4 DEF Next
<1>3. QED
  BY <1>1, <1>2 DEF OneLiveLink, OneLink, OneInvitation

-----------------------------------------------------------------------------
(* Failures                                                                *)

(* How many are checking: never more than the threads.                     *)
LEMMA CheckingIsBounded ==
  ASSUME TenancyAssumption, NEW S \in SUBSET Threads, NEW T \in SUBSET S
  PROVE  /\ IsFiniteSet(S) /\ Cardinality(S) \in Nat /\ Cardinality(T) \in Nat
         /\ Cardinality(T) <= Cardinality(S)
         /\ Cardinality(S) <= Cardinality(Threads) /\ Cardinality(Threads) \in Nat
  BY FS_Subset, FS_CardinalityType DEF TenancyAssumption

LEMMA ThreadLeaves ==
  ASSUME TenancyAssumption, NEW S \in SUBSET Threads, NEW t \in S,
         NEW T \in SUBSET (S \ {t})
  PROVE  Cardinality(T) + 1 <= Cardinality(S)
<1>1. IsFiniteSet(S) /\ Cardinality(S) \in Nat
  BY CheckingIsBounded
<1>2. /\ IsFiniteSet(S \ {t}) /\ Cardinality(S \ {t}) = Cardinality(S) - 1
  BY <1>1, FS_RemoveElement
<1>3. Cardinality(T) \in Nat /\ Cardinality(T) <= Cardinality(S \ {t})
  BY <1>2, FS_Subset, FS_CardinalityType
<1>4. QED
  BY <1>1, <1>2, <1>3

(* A counter that was emptied has room for everyone who still checks it.   *)
LEMMA EmptyHasRoom ==
  ASSUME TenancyAssumption, NEW k, failures'[k] = NoAttempt
  PROVE  Room(k)'
<1>1. Checking(k)' \in SUBSET Threads
  BY DEF Checking
<1>2. /\ Cardinality(Checking(k)') <= Cardinality(Threads)
      /\ Cardinality(Checking(k)') \in Nat /\ Cardinality(Threads) \in Nat
  BY <1>1, CheckingIsBounded
<1>3. failures'[k].tried = 0 /\ failures'[k].counted = 0
  BY DEF NoAttempt
<1>4. QED
  BY <1>2, <1>3 DEF TenancyAssumption, Room

(* As many tries and no more checks leave room.                            *)
LEMMA LessLeavesRoom ==
  ASSUME TenancyAssumption, Grounds, RoomForTries, NEW k \in Keys,
         failures'[k] = failures[k], Checking(k)' \subseteq Checking(k)
  PROVE  Room(k)'
<1>1. /\ Checking(k)' \in SUBSET Checking(k) /\ Checking(k) \in SUBSET Threads
      /\ failures[k].tried \in Nat
  BY DEF Checking, Grounds, TypeInvariant, Attempts
<1>2. /\ Cardinality(Checking(k)') <= Cardinality(Checking(k))
      /\ Cardinality(Checking(k)') \in Nat /\ Cardinality(Checking(k)) \in Nat
      /\ Cardinality(Threads) \in Nat
  BY <1>1, CheckingIsBounded
<1>3. QED
  BY <1>1, <1>2 DEF RoomForTries, Room, TenancyAssumption

(* A thread that proceeds leaves the checks, unless it has just passed.    *)
LEMMA ChecksEnd ==
  ASSUME TenancyAssumption, Grounds, NEW t \in Threads, Proceeds(t), NEW k,
         ~TropDeTentatives(t)
  PROVE  Checking(k)' \subseteq Checking(k) \ {t}
<1>1. \A t2 \in Threads \ {t} : req'[t2] = req[t2]
  BY ProceedsMoves
<1>2. req'[t].step \notin {"login", "accept", "forgot"}
  BY StepsProceed
<1>3. ASSUME NEW t2 \in Checking(k)'
      PROVE  t2 \in Checking(k) \ {t}
  BY <1>1, <1>2, <1>3 DEF Checking, CounterOf
<1>4. QED
  BY <1>3

(* A request passes trop_de_tentatives, or is refused.                     *)
LEMMA CheckPasses ==
  ASSUME TenancyAssumption, Grounds, RoomForTries, NEW t \in Threads,
         TropDeTentatives(t), NEW k \in Keys
  PROVE  Room(k)'
<1> DEFINE k1 == CounterOf(req[t])
           read == req[t].read
<1>1. /\ read \in Nat
      /\ \A x \in Keys : x # k1 => failures'[x] = failures[x]
      /\ k1 \in Keys =>
           /\ failures'[k1].counted = read
           /\ failures'[k1].tried = failures[k1].tried
           /\ ~failures'[k1].lost =>
                ~failures[k1].lost /\ failures[k1].counted <= read
  BY FailuresPutBack
<1>2. /\ req[t].step \in CheckSteps
      /\ \A t2 \in Threads \ {t} : req'[t2] = req[t2]
      /\ \/ TooMany(read) /\ req'[t] = Idle
         \/ /\ ~TooMany(read) /\ req'[t].step = Checked[req[t].step]
            /\ req'[t].user = req[t].user /\ req'[t].row = req[t].row
  BY RowsHaveTypes DEF TropDeTentatives, Ends, Request
<1>3. /\ TooMany(read) => t \notin Checking(k)'
      /\ t \in Checking(k)' => k = k1
  <2>1. TooMany(read) => req'[t].step = "idle"
    BY <1>2, IdleIsSound
  <2>2. ~TooMany(read) => CounterOf(req'[t]) = k1
    <3>1. CASE req[t].step = "checkLogin"
      BY <1>2, <3>1 DEF Checked, CounterOf
    <3>2. CASE req[t].step = "checkAccept"
      BY <1>2, <3>2 DEF Checked, CounterOf
    <3>3. CASE req[t].step = "checkForgot"
      BY <1>2, <3>3 DEF Checked, CounterOf
    <3>4. QED
      BY <1>2, <3>1, <3>2, <3>3 DEF CheckSteps
  <2>3. QED
    BY <2>1, <2>2 DEF Checking
<1>4. Checking(k)' \subseteq Checking(k) \cup {t}
  BY <1>2 DEF Checking, CounterOf
<1> HIDE DEF k1, read
<1>5. CASE t \notin Checking(k)'
  <2>1. Checking(k)' \subseteq Checking(k)
    BY <1>4, <1>5
  <2>2. CASE k # k1
    BY <1>1, <2>1, <2>2, LessLeavesRoom
  <2>3. CASE k = k1
    <3>1. ASSUME ~failures'[k].lost
          PROVE  /\ failures'[k].tried <= failures'[k].counted
                 /\ failures'[k].tried + Cardinality(Checking(k)')
                      <= MaxFailures + Cardinality(Threads) - 1
      <4>1. /\ failures[k].tried \in Nat /\ failures[k].counted \in Nat
            /\ MaxFailures \in Nat
        BY DEF Grounds, TypeInvariant, Attempts, TenancyAssumption
      <4>2. /\ failures[k].tried <= failures[k].counted
            /\ failures[k].tried + Cardinality(Checking(k))
                 <= MaxFailures + Cardinality(Threads) - 1
            /\ failures[k].counted <= read
            /\ failures'[k].tried = failures[k].tried /\ failures'[k].counted = read
        BY <1>1, <2>3, <3>1 DEF RoomForTries, Room
      <4>3. Checking(k)' \in SUBSET Checking(k) /\ Checking(k) \in SUBSET Threads
        BY <2>1 DEF Checking
      <4>4. /\ Cardinality(Checking(k)') <= Cardinality(Checking(k))
            /\ Cardinality(Checking(k)') \in Nat /\ Cardinality(Checking(k)) \in Nat
            /\ Cardinality(Threads) \in Nat
        BY <4>3, CheckingIsBounded
      <4>5. QED
        BY <1>1, <4>1, <4>2, <4>4
    <3>2. QED
      BY <3>1 DEF Room
  <2>4. QED
    BY <2>2, <2>3
<1>6. CASE t \in Checking(k)'
  <2>1. k = k1 /\ ~TooMany(read)
    BY <1>3, <1>6
  <2>2. ASSUME ~failures'[k].lost
        PROVE  /\ failures'[k].tried <= failures'[k].counted
               /\ failures'[k].tried + Cardinality(Checking(k)')
                    <= MaxFailures + Cardinality(Threads) - 1
    <3>1. /\ failures[k].tried \in Nat /\ failures[k].counted \in Nat
          /\ MaxFailures \in Nat
      BY DEF Grounds, TypeInvariant, Attempts, TenancyAssumption
    <3>2. /\ failures[k].tried <= failures[k].counted
          /\ failures[k].counted <= read /\ read < MaxFailures
          /\ failures'[k].tried = failures[k].tried /\ failures'[k].counted = read
      BY <1>1, <2>1, <2>2, <3>1 DEF RoomForTries, Room, TooMany
    <3>3. Checking(k)' \in SUBSET Threads
      BY DEF Checking
    <3>4. /\ Cardinality(Checking(k)') <= Cardinality(Threads)
          /\ Cardinality(Checking(k)') \in Nat /\ Cardinality(Threads) \in Nat
      BY <3>3, CheckingIsBounded
    <3>5. QED
      BY <1>1, <3>1, <3>2, <3>4
  <2>3. QED
    BY <2>2 DEF Room
<1>7. QED
  BY <1>5, <1>6

(* A wrong password or a demand is counted by a request that checked.      *)
LEMMA CountHasRoom ==
  ASSUME TenancyAssumption, Grounds, RoomForTries, NEW t \in Threads,
         WrongPassword(t) \/ CountDemand(t), NEW k \in Keys
  PROVE  Room(k)'
<1>1. /\ Proceeds(t) /\ NoterEchec(CounterOf(req[t])) /\ ~TropDeTentatives(t)
      /\ req[t].step \in {"login", "accept", "forgot"}
  BY DEF Proceeds, WrongPassword, CountDemand, TropDeTentatives, CheckSteps, At
<1>2. Checking(k)' \subseteq Checking(k) \ {t}
  BY <1>1, ChecksEnd
<1>3. CASE k # CounterOf(req[t])
  <2>1. failures'[k] = failures[k]
    BY <1>1, <1>3, FailureCounted
  <2>2. QED
    BY <1>2, <2>1, LessLeavesRoom
<1>4. CASE k = CounterOf(req[t])
  <2>1. /\ failures'[k].counted = failures[k].counted + 1
        /\ failures'[k].tried = failures[k].tried + 1
        /\ failures'[k].lost = failures[k].lost
    BY <1>1, <1>4, FailureCounted
  <2>2. t \in Checking(k)
    BY <1>1, <1>4 DEF Checking
  <2>3. Cardinality(Checking(k)') + 1 <= Cardinality(Checking(k))
    BY <1>2, <2>2, ThreadLeaves DEF Checking
  <2>4. /\ failures[k].tried \in Nat /\ failures[k].counted \in Nat
        /\ MaxFailures \in Nat
    BY DEF Grounds, TypeInvariant, Attempts, TenancyAssumption
  <2>5. /\ Checking(k) \in SUBSET Threads /\ Checking(k)' \in SUBSET Threads
    BY DEF Checking
  <2>6. /\ Cardinality(Checking(k)') \in Nat /\ Cardinality(Checking(k)) \in Nat
        /\ Cardinality(Threads) \in Nat
    BY <2>5, CheckingIsBounded
  <2>7. QED
    BY <2>1, <2>3, <2>4, <2>6 DEF RoomForTries, Room
<1>5. QED
  BY <1>3, <1>4

LEMMA RoomInit == TenancyAssumption /\ Init => RoomForTries
<1> SUFFICES ASSUME TenancyAssumption, Init, NEW k \in Keys
             PROVE  Room(k)
  BY DEF RoomForTries
<1>1. failures[k] = NoAttempt /\ Checking(k) \in SUBSET Threads
  BY DEF Init, Checking
<1>2. /\ Cardinality(Checking(k)) <= Cardinality(Threads)
      /\ Cardinality(Checking(k)) \in Nat /\ Cardinality(Threads) \in Nat
  BY <1>1, CheckingIsBounded
<1>3. failures[k].tried = 0 /\ failures[k].counted = 0
  BY <1>1 DEF NoAttempt
<1>4. QED
  BY <1>2, <1>3 DEF TenancyAssumption, Room

LEMMA RoomStep ==
  ASSUME TenancyAssumption, Grounds, Owned, RoomForTries, [Next]_vars
  PROVE  RoomForTries'
<1> SUFFICES ASSUME NEW k \in Keys
             PROVE  Room(k)'
  BY DEF RoomForTries, Keys, LoginKey, InviteKey, ForgotKey, Ids
<1>1. ASSUME NEW t \in Threads, Begins(t)
      PROVE  Room(k)'
  <2>1. PICK r : Begun(t, r)
    BY <1>1, BeginsMoves
  <2>2. /\ req'[t].step \notin {"login", "accept", "forgot"}
        /\ \A t2 \in Threads \ {t} : req'[t2] = req[t2]
        /\ failures' = failures
    BY <2>1, RowsHaveTypes DEF Begun, BeginSteps, CheckSteps
  <2>3. Checking(k)' \subseteq Checking(k)
    BY <2>2 DEF Checking, CounterOf
  <2>4. QED
    BY <2>2, <2>3, LessLeavesRoom
<1>2. ASSUME NEW t \in Threads, Proceeds(t), ~TropDeTentatives(t),
             ~WrongPassword(t), ~CountDemand(t)
      PROVE  Room(k)'
  <2>1. Checking(k)' \subseteq Checking(k)
    BY <1>2, ChecksEnd
  <2>2. UNCHANGED failures \/ \E x : ReinitialiserTentatives(x)
    BY <1>2
    DEF Proceeds, RightPassword, OpenSession, SetPassword, RevokeAllSessions,
        DeleteSessions, CreateResetToken, ApplyLink, CreateSpace, InsertMember,
        SetRole, DeleteMember, CreateInvitation, CommitRevocation,
        ReadMembership, Join, Welcome
  <2>3. failures'[k] = failures[k] \/ failures'[k] = NoAttempt
    BY <2>2, FailuresForgotten
  <2>4. QED
    BY <2>1, <2>3, LessLeavesRoom, EmptyHasRoom
<1>3. CASE TimePasses \/ Restart
  <2>1. failures'[k] = NoAttempt
    BY <1>3 DEF TimePasses, Restart
  <2>2. QED
    BY <2>1, EmptyHasRoom
<1>4. CASE \/ UNCHANGED vars \/ \E u \in Users : CreateOrganization(u)
           \/ \E s \in sessions : Logout(s) \/ ResolveExpired(s)
  <2>1. UNCHANGED <<failures, req>>
    BY <1>4 DEF vars, CreateOrganization, Logout, ResolveExpired
  <2>2. Checking(k)' = Checking(k)
    BY <2>1 DEF Checking, CounterOf
  <2>3. QED
    BY <2>1, <2>2, LessLeavesRoom
<1>5. QED
  BY <1>1, <1>2, <1>3, <1>4, CheckPasses, CountHasRoom DEF Next

-----------------------------------------------------------------------------
(* The first organisation, its owner and at most one guest.                *)
LEMMA MembershipsInit ==
  TenancyAssumption /\ Init
    => OneMembership /\ Owned /\ OneDefaultSpace /\ OneLiveLink
<1> SUFFICES ASSUME TenancyAssumption, Init
             PROVE  OneMembership /\ Owned /\ OneDefaultSpace /\ OneLiveLink
  OBVIOUS
<1>1. PICK guests \in {{}} \cup {{u} : u \in Users \ {Founder}} :
        /\ members = {Owner(<<0, Founder>>, Founder, 0)} \cup
             {[org |-> <<0, Founder>>, user |-> u, role |-> "admin", id |-> 0] :
                u \in guests}
        /\ invitations =
             {[org |-> <<0, Founder>>, email |-> u, role |-> "admin", id |-> 0,
               accepted |-> TRUE, revoked |-> FALSE, expired |-> FALSE,
               late |-> FALSE] : u \in guests}
  BY DEF Init
<1>2. orgs = {Space(0, Founder, TRUE, FALSE)} /\ links = {}
  BY DEF Init
<1>3. Founder \notin guests
  BY <1>1
<1>4. OneMembership
  BY <1>1, <1>3 DEF OneMembership, Owner
<1>5. Owned
  <2>1. ASSUME NEW o \in orgs
        PROVE  o.id = <<0, Founder>> /\ o.id[2] = Founder
    BY <1>2 DEF Space
  <2>2. Owner(<<0, Founder>>, Founder, 0) \in members
    BY <1>1
  <2>3. ASSUME NEW m \in members
        PROVE  m.role = "owner" <=> m.user = Founder
    BY <1>1, <1>3 DEF Owner
  <2>4. /\ Owner(<<0, Founder>>, Founder, 0).org = <<0, Founder>>
        /\ Owner(<<0, Founder>>, Founder, 0).role = "owner"
    BY DEF Owner
  <2>5. QED
    BY <2>1, <2>2, <2>3, <2>4 DEF Owned
<1>6. OneDefaultSpace
  BY <1>2 DEF OneDefaultSpace
<1>7. OneLiveLink
  BY <1>1, <1>2 DEF OneLiveLink
<1>8. QED
  BY <1>4, <1>5, <1>6, <1>7

-----------------------------------------------------------------------------
(* The theorems.                                                           *)

(* What every request of the accounts and of the organisations preserves,  *)
(* whatever was changed between its reads and its writes.                  *)
THEOREM TenancyInvariantHolds == Spec => []TenancyInvariant
<1>1. Init => TenancyInvariant
  BY TenancyAssumption, GroundsInit, FreshInit, MembershipsInit, PasswordsInit
  DEF TenancyInvariant
<1>2. TenancyInvariant /\ [Next]_vars => TenancyInvariant'
  BY TenancyAssumption, GroundsStep, FreshStep, MembershipsStep, PasswordsStep,
     LinksStep
  DEF TenancyInvariant
<1>3. QED
  BY <1>1, <1>2, PTL DEF Spec

(* The tables of accounts and organisations keep their types.              *)
THEOREM TenancyTypeCorrect == Spec => []TypeInvariant
<1>1. TenancyInvariant => TypeInvariant
  BY DEF TenancyInvariant, Grounds
<1>2. QED
  BY <1>1, TenancyInvariantHolds, PTL

(* However many administrators and invitations admit a user at the same    *)
(* time, he has one row, hence one role, in an organisation.               *)
THEOREM MembershipIsUnique == Spec => []OneMembership
<1>1. TenancyInvariant => OneMembership
  BY DEF TenancyInvariant
<1>2. QED
  BY <1>1, TenancyInvariantHolds, PTL

(* Whatever the administrators decide on rows they read too early, an      *)
(* organisation keeps its creator as its one owner.                        *)
THEOREM OwnerStays == Spec => []Owned
<1>1. TenancyInvariant => Owned
  BY DEF TenancyInvariant
<1>2. QED
  BY <1>1, TenancyInvariantHolds, PTL

(* A user has two default spaces only if two requests that created them    *)
(* overlapped.                                                             *)
THEOREM DefaultSpaceIsUnique == Spec => []OneDefaultSpace
<1>1. TenancyInvariant => OneDefaultSpace
  BY DEF TenancyInvariant
<1>2. QED
  BY <1>1, TenancyInvariantHolds, PTL

(* No session whose request verified an older password outlives the        *)
(* request that changed it, but those committed after the revocation had   *)
(* read what to delete, and those a crash between the two commits left.    *)
THEOREM OldSessionsEnd == Spec => []PasswordsEndSessions
<1>1. TenancyInvariant => PasswordsEndSessions
  BY DEF TenancyInvariant, OldSessions, LeftOpen, PasswordsEndSessions
<1>2. QED
  BY <1>1, TenancyInvariantHolds, PTL

(* A user has two live reset links, an address two pending invitations,    *)
(* only if the requests that made them overlapped.                         *)
THEOREM LiveLinkIsUnique == Spec => []OneLiveLink
<1>1. TenancyInvariant => OneLiveLink
  BY DEF TenancyInvariant
<1>2. QED
  BY <1>1, TenancyInvariantHolds, PTL

(* Unless a check that overlapped a failure has put back the list without  *)
(* it, the wrong passwords tried before the counter is emptied exceed      *)
(* MAX_ECHECS by fewer than the requests served at a time.                 *)
THEOREM AttemptsBounded == Spec => []AttemptsAreBounded
<1>1. Init => RoomForTries
  BY TenancyAssumption, RoomInit
<1>2. TenancyInvariant /\ RoomForTries /\ [Next]_vars => RoomForTries'
  BY TenancyAssumption, RoomStep DEF TenancyInvariant
<1>3. TenancyInvariant /\ RoomForTries => AttemptsAreBounded
  <2> SUFFICES ASSUME TenancyInvariant, RoomForTries, NEW k \in Keys,
                      ~failures[k].lost
               PROVE  failures[k].tried <= MaxFailures + Cardinality(Threads) - 1
    BY DEF AttemptsAreBounded
  <2>1. Checking(k) \in SUBSET Threads
    BY DEF Checking
  <2>2. Cardinality(Checking(k)) \in Nat /\ Cardinality(Threads) \in Nat
    BY <2>1, TenancyAssumption, CheckingIsBounded
  <2>3. failures[k].tried \in Nat /\ MaxFailures \in Nat
    BY TenancyAssumption
    DEF TenancyInvariant, Grounds, TypeInvariant, TenancyAssumption, Attempts
  <2>4. QED
    BY <2>2, <2>3 DEF RoomForTries, Room
<1>4. QED
  BY <1>1, <1>2, <1>3, TenancyInvariantHolds, PTL DEF Spec

=============================================================================
