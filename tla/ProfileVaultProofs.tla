-------------------------- MODULE ProfileVaultProofs --------------------------
(***************************************************************************)
(* Proofs about ProfileVault, for any number of profiles, logins, session  *)
(* tests, captures and failures.                                           *)
(***************************************************************************)
EXTENDS ProfileVault, TLAPS

-----------------------------------------------------------------------------
(* What the parts of the invariant need of a step.                         *)

(* Where a move of one user leaves the users. *)
LEMMA GotoMoves ==
  ASSUME VaultInvariant, NEW u \in Users, NEW step \in Steps, Goto(u, step)
  PROVE  /\ user' \in [Users -> User]
         /\ \A v \in Users \ {u} : user'[v] = user[v]
         /\ user'[u].step = step
         /\ user'[u].profile = user[u].profile
         /\ user'[u].overtaken = user[u].overtaken
  BY DEF Goto, VaultInvariant, TypeOK, User

LEMMA LeaveMoves ==
  ASSUME VaultInvariant, NEW u \in Users, user' = [user EXCEPT ![u] = NoUser]
  PROVE  /\ user' \in [Users -> User]
         /\ \A v \in Users \ {u} : user'[v] = user[v]
         /\ user'[u] = NoUser /\ user'[u].step = "idle" /\ user'[u].overtaken = {}
  BY DEF VaultInvariant, TypeOK, User, NoUser, Steps

(* Users whose seal goes on undisturbed. *)
LEMMA SealsLeftAlone ==
  ASSUME VaultInvariant, UNCHANGED <<tmp, clashed>>,
         \A u \in Users : Sealing(u)' =>
           user'[u].step = user[u].step /\ user'[u].profile = user[u].profile
  PROVE  SealsAreAlone'
  BY DEF VaultInvariant, SealsAreAlone, Sealing, At

(* A seal begins: it is alone or noted in clashed. *)
LEMMA SealBegins ==
  ASSUME VaultInvariant, NEW u \in Users, ~Sealing(u), BeginSeal(u)
  PROVE  SealsAreAlone'
<1> DEFINE p == user[u].profile
<1>1. /\ \A v \in Users \ {u} : user'[v] = user[v]
      /\ user'[u].step = "writing" /\ user'[u].profile = p
  BY DEF BeginSeal, Goto, VaultInvariant, TypeOK, User
<1>2. ASSUME NEW v \in Users, NEW w \in Users, Sealing(v)', Sealing(w)',
             user'[v].profile = user'[w].profile, v # w
      PROVE  user'[v].profile \in clashed'
  <2>1. CASE v # u /\ w # u
    <3>1. Sealing(v) /\ Sealing(w) /\ user[v].profile = user[w].profile
      BY <1>1, <1>2, <2>1 DEF Sealing
    <3>2. user[v].profile \in clashed
      BY <1>2, <3>1 DEF VaultInvariant, SealsAreAlone
    <3>3. user[v].profile = p => p \in clashed'
      BY <2>1, <3>1 DEF BeginSeal
    <3>4. QED
      BY <1>1, <2>1, <3>2, <3>3 DEF BeginSeal
  <2>2. CASE v = u \/ w = u
    <3>1. \E x \in Users \ {u} : Sealing(x) /\ user[x].profile = p
      BY <1>1, <1>2, <2>2 DEF Sealing
    <3>2. p \in clashed'
      BY <3>1 DEF BeginSeal
    <3>3. QED
      BY <1>1, <1>2, <2>2, <3>2
  <2>3. QED
    BY <2>1, <2>2
<1>3. ASSUME NEW v \in Users, At(v, "written")', user'[v].profile \notin clashed'
      PROVE  tmp'[user'[v].profile] = "whole"
  <2>1. v # u /\ At(v, "written") /\ user'[v].profile = user[v].profile
    BY <1>1, <1>3 DEF At
  <2>2. user[v].profile # p
    BY <1>3, <2>1 DEF BeginSeal, Sealing, At
  <2>3. tmp[user[v].profile] = "whole"
    BY <1>3, <2>1, <2>2 DEF BeginSeal, VaultInvariant, SealsAreAlone
  <2>4. QED
    BY <2>1, <2>2, <2>3 DEF BeginSeal, VaultInvariant, TypeOK
<1>4. QED
  BY <1>2, <1>3 DEF SealsAreAlone

(* Types, when a plain call seals. *)
LEMMA SealKeepsTypes ==
  ASSUME VaultInvariant, NEW u \in Users, BeginSeal(u), ~At(u, "idle")
  PROVE  /\ vault' \in [Profiles -> {"absent", "sealed", "partial"}]
         /\ tmp' \in [Profiles -> {"absent", "whole", "partial"}]
         /\ clashed' \subseteq Profiles
<1>1. user[u].profile \in Profiles
  BY DEF VaultInvariant, LocksMatchHolders
<1>2. QED
  BY <1>1 DEF VaultInvariant, TypeOK, BeginSeal

(* A lock that was free is taken. *)
LEMMA LockTaken ==
  ASSUME VaultInvariant, NEW u \in Users, ~At(u, "idle"), LockFree(u), SetLock(u, u),
         \A v \in Users \ {u} : user'[v] = user[v],
         user'[u].profile = user[u].profile,
         user'[u].step \in {"locked", "launching", "open"}
  PROVE  LocksMatchHolders'
<1>1. Home(u) \in Processes /\ user[u].profile \in Profiles
  BY DEF Home, Processes, VaultInvariant, LocksMatchHolders
<1>2. QED
  BY <1>1, VaultAssumption, SMTT(30)
  DEF VaultInvariant, LocksMatchHolders, Holding, HasCopy, At, TypeOK, Home, Processes,
      LockFree, SetLock

(* A lock is given back, or lost, by its holder or by who just took it. *)
LEMMA LockGivenBack ==
  ASSUME VaultInvariant, NEW u \in Users, NEW holder \in {"free", "lost", "abandoned"},
         ~At(u, "idle"), Holding(u) \/ LockFree(u), SetLock(u, holder),
         \A v \in Users \ {u} : user'[v] = user[v],
         user'[u].step = "idle"
  PROVE  LocksMatchHolders'
<1>1. Home(u) \in Processes /\ user[u].profile \in Profiles
  BY DEF Home, Processes, VaultInvariant, LocksMatchHolders
<1>2. /\ lock'[Home(u)][user[u].profile] = holder
      /\ \A q \in Processes, p \in Profiles :
           ~(q = Home(u) /\ p = user[u].profile) => lock'[q][p] = lock[q][p]
  BY <1>1 DEF SetLock, VaultInvariant, TypeOK
<1>3. \A v \in Users : Holding(v)' => v # u /\ Holding(v) /\ user'[v] = user[v]
  BY DEF Holding, HasCopy, At
<1>4. ASSUME NEW v \in Users
      PROVE  /\ ~At(v, "idle")' => user'[v].profile \in Profiles
             /\ Holding(v)' => lock'[Home(v)][user'[v].profile] = v
  <2>1. ~At(v, "idle")' => user'[v].profile \in Profiles
    BY DEF VaultInvariant, LocksMatchHolders, At
  <2>2. ASSUME Holding(v)'
        PROVE  lock'[Home(v)][user'[v].profile] = v
    <3>1. /\ v # u /\ user'[v] = user[v] /\ lock[Home(v)][user[v].profile] = v
          /\ Home(v) \in Processes /\ user[v].profile \in Profiles
      BY <1>3, <2>2
      DEF VaultInvariant, LocksMatchHolders, Home, Processes, Holding, HasCopy, At
    <3>2. ~(Home(v) = Home(u) /\ user[v].profile = user[u].profile)
      BY <3>1, VaultAssumption DEF VaultInvariant, LocksMatchHolders, LockFree, Users
    <3>3. QED
      BY <1>2, <3>1, <3>2
  <2>3. QED
    BY <2>1, <2>2
<1>5. ASSUME NEW q \in Processes, NEW p \in Profiles, lock'[q][p] \in Users
      PROVE  (Home(lock[q][p]) = q /\ Holding(lock[q][p]) /\ user[lock[q][p]].profile = p)'
  <2>1. lock'[q][p] = lock[q][p]
    BY <1>2, <1>5, VaultAssumption
  <2>2. /\ Home(lock[q][p]) = q /\ Holding(lock[q][p])
        /\ user[lock[q][p]].profile = p /\ lock[q][p] \in Users
    BY <1>5, <2>1 DEF VaultInvariant, LocksMatchHolders
  <2>3. lock[q][p] # u
    BY <1>1, <1>2, <1>5, <2>1, <2>2, VaultAssumption
  <2>4. user'[lock[q][p]] = user[lock[q][p]]
    BY <2>2, <2>3
  <2>5. QED
    BY <2>1, <2>2, <2>4 DEF Holding, HasCopy, At, Home
<1>6. QED
  BY <1>4, <1>5 DEF LocksMatchHolders, Holding, HasCopy, At, Home

(* Whoever calls it, _teardown keeps the invariant. *)
LEMMA TeardownKeepsInvariant ==
  ASSUME VaultInvariant, NEW seal \in BOOLEAN, Teardown(seal),
         UNCHANGED <<files, accounts, lock, manager, faults>>,
         finish' \in [Finishers -> Finish], deletion' \in Deletion
  PROVE  VaultInvariant'
<1>1. CASE active = "none"
  BY <1>1 DEF Teardown, VaultInvariant, TypeOK, NoSessionIsOverwritten, LocksMatchHolders,
     StepsOfUsers, OneLoginAtATime, SealsAreAlone, ExclusiveInProcess, Holding, HasCopy,
     Sealing, At, files
<1>2. CASE active # "none"
  <2> DEFINE u == active
  <2>1. u \in Logins /\ u \in Users /\ At(u, "active")
    BY <1>2 DEF VaultInvariant, TypeOK, OneLoginAtATime, Users
  <2>2. /\ user' \in [Users -> User]
        /\ \A v \in Users \ {u} : user'[v] = user[v]
        /\ user'[u].step = "closing" /\ user'[u].profile = user[u].profile
        /\ user'[u].overtaken = user[u].overtaken
    BY <1>2, <2>1 DEF Teardown, VaultInvariant, TypeOK, User, Steps
  <2>3. TypeOK'
    BY <2>2 DEF Teardown, VaultInvariant, TypeOK, files
  <2>4. NoSessionIsOverwritten'
    BY <2>2 DEF VaultInvariant, NoSessionIsOverwritten
  <2>5. \A v \in Users : /\ HasCopy(v)' <=> HasCopy(v)
                         /\ Holding(v)' <=> Holding(v)
                         /\ At(v, "idle")' <=> At(v, "idle")
                         /\ user'[v].profile = user[v].profile
    BY <2>1, <2>2 DEF HasCopy, Holding, At
  <2>6. LocksMatchHolders' /\ ExclusiveInProcess'
    BY <2>3, <2>5 DEF VaultInvariant, TypeOK, LocksMatchHolders, ExclusiveInProcess
  <2>7. StepsOfUsers' /\ OneLoginAtATime'
    BY <2>1, <2>2, VaultAssumption
    DEF Teardown, VaultInvariant, StepsOfUsers, OneLoginAtATime, At, Users
  <2>8. SealsAreAlone'
    <3>1. \A v \in Users : Sealing(v)' =>
            user'[v].step = user[v].step /\ user'[v].profile = user[v].profile
      BY <2>2 DEF Sealing
    <3>2. QED
      BY <3>1, SealsLeftAlone DEF files
  <2>9. QED
    BY <2>3, <2>4, <2>6, <2>7, <2>8 DEF VaultInvariant
<1>3. QED
  BY <1>1, <1>2

-----------------------------------------------------------------------------
(* Every step keeps the invariant. *)
LEMMA VaultStep == VaultInvariant /\ [Next]_vars => VaultInvariant'
<1> SUFFICES ASSUME VaultInvariant, [Next]_vars
             PROVE  VaultInvariant'
  OBVIOUS
<1> USE VaultAssumption
<1>1. ASSUME NEW u \in Checks, NEW p \in Profiles, StartCheck(u, p)
      PROVE  VaultInvariant'
  <2>1. u \in Users
    BY DEF Users
  <2>2. user' \in [Users -> User]
    BY <1>1 DEF StartCheck, VaultInvariant, TypeOK, User, NoUser, Steps
  <2>3. /\ \A v \in Users \ {u} : user'[v] = user[v]
        /\ user'[u].step \in {"waiting"}
        /\ user'[u].profile = p
        /\ user'[u].overtaken \subseteq user[u].overtaken
    BY <1>1, <2>1 DEF StartCheck, VaultInvariant, TypeOK, NoUser
  <2>4. TypeOK'
    BY <1>1, <2>2 DEF StartCheck, VaultInvariant, TypeOK, files, loginVars
  <2>5. NoSessionIsOverwritten'
    BY <2>3 DEF VaultInvariant, NoSessionIsOverwritten
  <2>6. LocksMatchHolders'
    BY <1>1 DEF VaultInvariant, LocksMatchHolders, Holding, HasCopy, At, StartCheck
  <2>7. StepsOfUsers'
    BY <2>3 DEF VaultInvariant, StepsOfUsers, Users
  <2>8. OneLoginAtATime'
    BY <1>1 DEF VaultInvariant, OneLoginAtATime, At, StartCheck, loginVars
  <2>9. SealsAreAlone'
    BY <1>1, SealsLeftAlone DEF StartCheck, Sealing, files
  <2>10. ExclusiveInProcess'
    BY <2>6 DEF LocksMatchHolders, ExclusiveInProcess, Holding
  <2>11. QED
    BY <2>4, <2>5, <2>6, <2>7, <2>8, <2>9, <2>10 DEF VaultInvariant
<1>2. ASSUME NEW u \in Captures, NEW p \in Profiles, StartCapture(u, p)
      PROVE  VaultInvariant'
  <2>1. u \in Users
    BY DEF Users
  <2>2. user' \in [Users -> User]
    BY <1>2 DEF StartCapture, VaultInvariant, TypeOK, User, NoUser, Steps
  <2>3. /\ \A v \in Users \ {u} : user'[v] = user[v]
        /\ user'[u].step \in {"waiting"}
        /\ user'[u].profile = p
        /\ user'[u].overtaken \subseteq user[u].overtaken
    BY <1>2, <2>1 DEF StartCapture, VaultInvariant, TypeOK, NoUser
  <2>4. TypeOK'
    BY <1>2, <2>2 DEF StartCapture, VaultInvariant, TypeOK, files, loginVars
  <2>5. NoSessionIsOverwritten'
    BY <2>3 DEF VaultInvariant, NoSessionIsOverwritten
  <2>6. LocksMatchHolders'
    BY <1>2 DEF VaultInvariant, LocksMatchHolders, Holding, HasCopy, At, StartCapture
  <2>7. StepsOfUsers'
    BY <2>3 DEF VaultInvariant, StepsOfUsers, Users
  <2>8. OneLoginAtATime'
    BY <1>2 DEF VaultInvariant, OneLoginAtATime, At, StartCapture, loginVars
  <2>9. SealsAreAlone'
    BY <1>2, SealsLeftAlone DEF StartCapture, Sealing, files
  <2>10. ExclusiveInProcess'
    BY <2>6 DEF LocksMatchHolders, ExclusiveInProcess, Holding
  <2>11. QED
    BY <2>4, <2>5, <2>6, <2>7, <2>8, <2>9, <2>10 DEF VaultInvariant
<1>3. ASSUME NEW u \in Logins, NEW p \in Profiles, StartLogin(u, p)
      PROVE  VaultInvariant'
  <2>1. u \in Users
    BY DEF Users
  <2>2. user' \in [Users -> User]
    BY <1>3 DEF StartLogin, VaultInvariant, TypeOK, User, NoUser, Steps
  <2>3. /\ \A v \in Users \ {u} : user'[v] = user[v]
        /\ user'[u].step \in {"queued"}
        /\ user'[u].profile = p
        /\ user'[u].overtaken \subseteq user[u].overtaken
    BY <1>3, <2>1 DEF StartLogin, VaultInvariant, TypeOK, NoUser
  <2>4. TypeOK'
    BY <1>3, <2>2 DEF StartLogin, VaultInvariant, TypeOK, files, loginVars
  <2>5. NoSessionIsOverwritten'
    BY <2>3 DEF VaultInvariant, NoSessionIsOverwritten
  <2>6. LocksMatchHolders'
    BY <1>3 DEF VaultInvariant, LocksMatchHolders, Holding, HasCopy, At, StartLogin
  <2>7. StepsOfUsers'
    BY <2>3 DEF VaultInvariant, StepsOfUsers, Users
  <2>8. OneLoginAtATime'
    BY <1>3 DEF VaultInvariant, OneLoginAtATime, At, StartLogin, loginVars
  <2>9. SealsAreAlone'
    BY <1>3, SealsLeftAlone DEF StartLogin, Sealing, files
  <2>10. ExclusiveInProcess'
    BY <2>6 DEF LocksMatchHolders, ExclusiveInProcess, Holding
  <2>11. QED
    BY <2>4, <2>5, <2>6, <2>7, <2>8, <2>9, <2>10 DEF VaultInvariant
<1>4. ASSUME NEW f \in Finishers, StartFinish(f)
      PROVE  VaultInvariant'
  <2>1. TypeOK'
    BY <1>4 DEF VaultInvariant, TypeOK, Finish, StartFinish, files
  <2>2. NoSessionIsOverwritten'
    BY <1>4 DEF VaultInvariant, NoSessionIsOverwritten, StartFinish
  <2>3. LocksMatchHolders'
    BY <1>4 DEF VaultInvariant, LocksMatchHolders, Holding, HasCopy, At, StartFinish
  <2>4. StepsOfUsers'
    BY <1>4 DEF VaultInvariant, StepsOfUsers, StartFinish
  <2>5. OneLoginAtATime'
    BY <1>4 DEF VaultInvariant, OneLoginAtATime, At, StartFinish
  <2>6. SealsAreAlone'
    <3>1. \A v \in Users : Sealing(v)' =>
            user'[v].step = user[v].step /\ user'[v].profile = user[v].profile
      BY <1>4 DEF StartFinish
    <3>2. QED
      BY <1>4, SealsLeftAlone DEF StartFinish, files
  <2>7. ExclusiveInProcess'
    BY <2>3 DEF LocksMatchHolders, ExclusiveInProcess, Holding
  <2>8. QED
    BY <2>1, <2>2, <2>3, <2>4, <2>5, <2>6, <2>7 DEF VaultInvariant
<1>5. ASSUME NEW p \in Profiles, DeleteAccount(p)
      PROVE  VaultInvariant'
  <2>0. user' \in [Users -> User]
    BY <1>5 DEF DeleteAccount, Unlink, VaultInvariant, TypeOK, User
  <2>1. TypeOK'
    BY <1>5, <2>0 DEF DeleteAccount, Unlink, VaultInvariant, TypeOK
  <2>2. NoSessionIsOverwritten'
    BY <1>5 DEF VaultInvariant, NoSessionIsOverwritten, Home, DeleteAccount, Unlink
  <2>3. LocksMatchHolders'
    <3>1. lock' = lock /\ \A v \in Users : /\ user'[v].step = user[v].step
                                          /\ user'[v].profile = user[v].profile
      BY <1>5, <2>0 DEF DeleteAccount, Unlink, VaultInvariant, TypeOK, User
    <3>2. QED
      BY <3>1 DEF VaultInvariant, LocksMatchHolders, Holding, HasCopy, At, Home
  <2>4. StepsOfUsers'
    BY <1>5 DEF VaultInvariant, StepsOfUsers, Users, DeleteAccount, Unlink
  <2>5. OneLoginAtATime'
    BY <1>5 DEF VaultInvariant, OneLoginAtATime, Users, At, DeleteAccount, Unlink
  <2>6. SealsAreAlone'
    <3>1. \A v \in Users : Sealing(v)' =>
            user'[v].step = user[v].step /\ user'[v].profile = user[v].profile
      BY <1>5 DEF DeleteAccount, Unlink
    <3>2. QED
      BY <1>5, SealsLeftAlone DEF DeleteAccount, Unlink
  <2>7. ExclusiveInProcess'
    BY <2>3 DEF LocksMatchHolders, ExclusiveInProcess, Holding
  <2>8. QED
    BY <2>1, <2>2, <2>3, <2>4, <2>5, <2>6, <2>7 DEF VaultInvariant
<1>6. ASSUME NEW p \in Profiles, CancelThenDelete(p)
      PROVE  VaultInvariant'
  <2>1. finish' \in [Finishers -> Finish] /\ deletion' \in Deletion
    BY <1>6 DEF CancelThenDelete, VaultInvariant, TypeOK, Deletion
  <2>2. QED
    BY <1>6, <2>1, TeardownKeepsInvariant DEF CancelThenDelete
<1>7. CASE CancelLogin
  <2>1. finish' \in [Finishers -> Finish] /\ deletion' \in Deletion
    BY <1>7 DEF CancelLogin, VaultInvariant, TypeOK
  <2>2. QED
    BY <1>7, <2>1, TeardownKeepsInvariant DEF CancelLogin
<1>8. ASSUME NEW u \in Logins, EnterStart(u)
      PROVE  VaultInvariant'
  <2>1. u \in Users
    BY DEF Users
  <2>2. user' \in [Users -> User]
    BY <1>8, <2>1, GotoMoves, LeaveMoves DEF EnterStart, Steps
  <2>3. /\ \A v \in Users \ {u} : user'[v] = user[v]
        /\ user'[u].step \in {"waiting", "idle"}
        /\ user'[u] = NoUser \/ user'[u].profile = user[u].profile
        /\ user'[u].overtaken \subseteq user[u].overtaken
    BY <1>8, <2>1, GotoMoves, LeaveMoves DEF EnterStart, Steps
  <2>4. TypeOK'
    BY <1>8, <2>2 DEF EnterStart, VaultInvariant, TypeOK, files
  <2>5. NoSessionIsOverwritten'
    BY <2>3 DEF VaultInvariant, NoSessionIsOverwritten
  <2>6. LocksMatchHolders'
    BY <1>8, <2>3
    DEF VaultInvariant, LocksMatchHolders, Holding, HasCopy, At, NoUser, EnterStart
  <2>7. StepsOfUsers'
    BY <2>3 DEF VaultInvariant, StepsOfUsers, Users
  <2>8. OneLoginAtATime'
    <3>1. CASE active = "none"
      <4>1. manager' = u /\ active' = active /\ user'[u].step = "waiting"
        BY <1>8, <2>1, <3>1, GotoMoves DEF EnterStart, Steps
      <4>2. QED
        BY <1>8, <2>3, <4>1 DEF EnterStart, VaultInvariant, OneLoginAtATime, Users, At
    <3>2. CASE active # "none"
      <4>1. manager' = manager /\ active' = active /\ user'[u].step = "idle"
        BY <1>8, <2>1, <3>2, LeaveMoves DEF EnterStart
      <4>2. QED
        BY <1>8, <2>3, <4>1 DEF EnterStart, VaultInvariant, OneLoginAtATime, Users, At
    <3>3. QED
      BY <3>1, <3>2
  <2>9. SealsAreAlone'
    BY <1>8, <2>3, SealsLeftAlone DEF EnterStart, Sealing, files
  <2>10. ExclusiveInProcess'
    BY <2>6 DEF LocksMatchHolders, ExclusiveInProcess, Holding
  <2>11. QED
    BY <2>4, <2>5, <2>6, <2>7, <2>8, <2>9, <2>10 DEF VaultInvariant
<1>9. ASSUME NEW u \in Logins, LockTimesOut(u)
      PROVE  VaultInvariant'
  <2>1. u \in Users
    BY DEF Users
  <2>2. user' \in [Users -> User]
    BY <1>9, <2>1, LeaveMoves DEF LockTimesOut
  <2>3. /\ \A v \in Users \ {u} : user'[v] = user[v]
        /\ user'[u].step \in {"idle"}
        /\ user'[u] = NoUser
        /\ user'[u].overtaken \subseteq user[u].overtaken
    BY <1>9, <2>1, LeaveMoves DEF LockTimesOut
  <2>4. TypeOK'
    BY <1>9, <2>2 DEF LockTimesOut, VaultInvariant, TypeOK, files
  <2>5. NoSessionIsOverwritten'
    BY <2>3 DEF VaultInvariant, NoSessionIsOverwritten
  <2>6. LocksMatchHolders'
    BY <1>9
    DEF VaultInvariant, LocksMatchHolders, Holding, HasCopy, At, NoUser, LockTimesOut
  <2>7. StepsOfUsers'
    BY <2>3 DEF VaultInvariant, StepsOfUsers, Users
  <2>8. OneLoginAtATime'
    BY <1>9, <2>3 DEF VaultInvariant, OneLoginAtATime, Users, At, LockTimesOut
  <2>9. SealsAreAlone'
    BY <1>9, <2>3, SealsLeftAlone DEF LockTimesOut, Sealing, files
  <2>10. ExclusiveInProcess'
    BY <2>6 DEF LocksMatchHolders, ExclusiveInProcess, Holding
  <2>11. QED
    BY <2>4, <2>5, <2>6, <2>7, <2>8, <2>9, <2>10 DEF VaultInvariant
<1>10. ASSUME NEW u \in Logins, OpenByLogin(u)
      PROVE  VaultInvariant'
  <2>1. u \in Users
    BY DEF Users
  <2>2. user' \in [Users -> User]
    BY <1>10, <2>1, GotoMoves, LeaveMoves DEF OpenByLogin, Steps
  <2>3. /\ \A v \in Users \ {u} : user'[v] = user[v]
        /\ user'[u].step \in {"launching", "idle"}
        /\ user'[u] = NoUser \/ user'[u].profile = user[u].profile
        /\ user'[u].overtaken \subseteq user[u].overtaken
    BY <1>10, <2>1, GotoMoves, LeaveMoves DEF OpenByLogin, Steps
  <2>4. TypeOK'
    BY <1>10, <2>2
    DEF OpenByLogin, OpenRaises, Fault, NoFault, SetLock, VaultInvariant, TypeOK, Users,
        files
  <2>5. NoSessionIsOverwritten'
    BY <2>3 DEF VaultInvariant, NoSessionIsOverwritten
  <2>6. LocksMatchHolders'
    <3>1. CASE SetLock(u, u) /\ Goto(u, "launching")
      <4>1. user'[u].step = "launching" /\ user'[u].profile = user[u].profile
        BY <2>1, <3>1, GotoMoves DEF Steps
      <4>2. QED
        BY <1>10, <2>1, <2>3, <3>1, <4>1, LockTaken DEF OpenByLogin, At
    <3>2. CASE SetLock(u, "lost") /\ user' = [user EXCEPT ![u] = NoUser]
      <4>1. user'[u].step = "idle"
        BY <2>1, <3>2, LeaveMoves
      <4>2. QED
        BY <1>10, <2>1, <2>3, <3>2, <4>1, LockGivenBack DEF OpenByLogin, At
    <3>3. QED
      BY <1>10, <3>1, <3>2 DEF OpenByLogin
  <2>7. StepsOfUsers'
    BY <2>3 DEF VaultInvariant, StepsOfUsers, Users
  <2>8. OneLoginAtATime'
    <3>1. CASE Goto(u, "launching") /\ UNCHANGED manager
      <4>1. user'[u].step = "launching"
        BY <2>1, <3>1, GotoMoves DEF Steps
      <4>2. QED
        BY <1>10, <2>3, <3>1, <4>1
        DEF VaultInvariant, OneLoginAtATime, Users, At, OpenByLogin
    <3>2. CASE user' = [user EXCEPT ![u] = NoUser] /\ manager' = "free"
      <4>1. user'[u].step = "idle"
        BY <2>1, <3>2, LeaveMoves
      <4>2. QED
        BY <1>10, <3>2, <4>1 DEF VaultInvariant, OneLoginAtATime, Users, At, OpenByLogin
    <3>3. QED
      BY <1>10, <3>1, <3>2 DEF OpenByLogin
  <2>9. SealsAreAlone'
    BY <1>10, <2>3, SealsLeftAlone DEF OpenByLogin, Sealing, files
  <2>10. ExclusiveInProcess'
    BY <2>6 DEF LocksMatchHolders, ExclusiveInProcess, Holding
  <2>11. QED
    BY <2>4, <2>5, <2>6, <2>7, <2>8, <2>9, <2>10 DEF VaultInvariant
<1>11. ASSUME NEW u \in Logins, LoginOpens(u)
      PROVE  VaultInvariant'
  <2>1. u \in Users
    BY DEF Users
  <2>2. user' \in [Users -> User]
    BY <1>11, <2>1, GotoMoves DEF LoginOpens, Steps
  <2>3. /\ \A v \in Users \ {u} : user'[v] = user[v]
        /\ user'[u].step \in {"active"}
        /\ user'[u].profile = user[u].profile
        /\ user'[u].overtaken \subseteq user[u].overtaken
    BY <1>11, <2>1, GotoMoves DEF LoginOpens, Steps
  <2>4. TypeOK'
    BY <1>11, <2>2 DEF LoginOpens, VaultInvariant, TypeOK, files
  <2>5. NoSessionIsOverwritten'
    BY <2>3 DEF VaultInvariant, NoSessionIsOverwritten
  <2>6. LocksMatchHolders'
    BY <1>11, <2>3
    DEF VaultInvariant, LocksMatchHolders, Holding, HasCopy, At, LoginOpens
  <2>7. StepsOfUsers'
    BY <2>3 DEF VaultInvariant, StepsOfUsers, Users
  <2>8. OneLoginAtATime'
    BY <1>11, <2>3 DEF VaultInvariant, OneLoginAtATime, Users, At, LoginOpens
  <2>9. SealsAreAlone'
    BY <1>11, <2>3, SealsLeftAlone DEF LoginOpens, Sealing, files
  <2>10. ExclusiveInProcess'
    BY <2>6 DEF LocksMatchHolders, ExclusiveInProcess, Holding
  <2>11. QED
    BY <2>4, <2>5, <2>6, <2>7, <2>8, <2>9, <2>10 DEF VaultInvariant
<1>12. ASSUME NEW u \in Logins, LoginFails(u)
      PROVE  VaultInvariant'
  <2>1. u \in Users
    BY DEF Users
  <2>2. user' \in [Users -> User]
    BY <1>12, <2>1, LeaveMoves DEF LoginFails
  <2>3. /\ \A v \in Users \ {u} : user'[v] = user[v]
        /\ user'[u].step \in {"idle"}
        /\ user'[u] = NoUser
        /\ user'[u].overtaken \subseteq user[u].overtaken
    BY <1>12, <2>1, LeaveMoves DEF LoginFails
  <2>4. TypeOK'
    <3>1. lock' \in [Processes -> [Profiles -> {"free", "lost", "abandoned"} \cup Users]]
      BY <1>12 DEF LoginFails, SetLock, VaultInvariant, TypeOK
    <3>2. faults' \in Nat
      BY <1>12 DEF LoginFails, Fault, NoFault, VaultInvariant, TypeOK
    <3>3. QED
      BY <1>12, <2>2, <3>1, <3>2 DEF LoginFails, VaultInvariant, TypeOK, files
  <2>5. NoSessionIsOverwritten'
    BY <2>3 DEF VaultInvariant, NoSessionIsOverwritten
  <2>6. LocksMatchHolders'
    BY <1>12, <2>1, <2>3, LockGivenBack DEF LoginFails, At, Holding, HasCopy
  <2>7. StepsOfUsers'
    BY <2>3 DEF VaultInvariant, StepsOfUsers, Users
  <2>8. OneLoginAtATime'
    BY <1>12, <2>3 DEF VaultInvariant, OneLoginAtATime, Users, At, LoginFails
  <2>9. SealsAreAlone'
    BY <1>12, <2>3, SealsLeftAlone DEF LoginFails, Sealing, files
  <2>10. ExclusiveInProcess'
    BY <2>6 DEF LocksMatchHolders, ExclusiveInProcess, Holding
  <2>11. QED
    BY <2>4, <2>5, <2>6, <2>7, <2>8, <2>9, <2>10 DEF VaultInvariant
<1>13. ASSUME NEW u \in Logins, BrowserClosed(u)
      PROVE  VaultInvariant'
  <2>1. u \in Users
    BY DEF Users
  <2>2. user' \in [Users -> User]
    BY <1>13, <2>1, GotoMoves DEF BrowserClosed, Steps
  <2>3. /\ \A v \in Users \ {u} : user'[v] = user[v]
        /\ user'[u].step \in {"stopping"}
        /\ user'[u].profile = user[u].profile
        /\ user'[u].overtaken \subseteq user[u].overtaken
    BY <1>13, <2>1, GotoMoves DEF BrowserClosed, Steps
  <2>4. TypeOK'
    BY <1>13, <2>2 DEF BrowserClosed, VaultInvariant, TypeOK, files, loginVars
  <2>5. NoSessionIsOverwritten'
    BY <2>3 DEF VaultInvariant, NoSessionIsOverwritten
  <2>6. LocksMatchHolders'
    BY <1>13, <2>3
    DEF VaultInvariant, LocksMatchHolders, Holding, HasCopy, At, BrowserClosed
  <2>7. StepsOfUsers'
    BY <2>3 DEF VaultInvariant, StepsOfUsers, Users
  <2>8. OneLoginAtATime'
    BY <1>13, <2>3
    DEF VaultInvariant, OneLoginAtATime, Users, At, BrowserClosed, loginVars
  <2>9. SealsAreAlone'
    BY <1>13, <2>3, SealsLeftAlone DEF BrowserClosed, Sealing, files
  <2>10. ExclusiveInProcess'
    BY <2>6 DEF LocksMatchHolders, ExclusiveInProcess, Holding
  <2>11. QED
    BY <2>4, <2>5, <2>6, <2>7, <2>8, <2>9, <2>10 DEF VaultInvariant
<1>14. ASSUME NEW u \in Logins, DriverStopped(u)
      PROVE  VaultInvariant'
  <2>1. u \in Users
    BY DEF Users
  <2>2. user' \in [Users -> User]
    BY <1>14, <2>1, GotoMoves DEF DriverStopped, BeginSeal, Steps
  <2>3. /\ \A v \in Users \ {u} : user'[v] = user[v]
        /\ user'[u].step \in {"writing", "cleanup"}
        /\ user'[u].profile = user[u].profile
        /\ user'[u].overtaken \subseteq user[u].overtaken
    BY <1>14, <2>1, GotoMoves DEF DriverStopped, BeginSeal, Steps
  <2>4. TypeOK'
    <3>1. CASE BeginSeal(u)
      BY <1>14, <2>2, <2>3, <3>1, SealKeepsTypes
      DEF DriverStopped, VaultInvariant, TypeOK, At, loginVars
    <3>2. CASE UNCHANGED files
      BY <1>14, <2>2, <3>2 DEF DriverStopped, VaultInvariant, TypeOK, files, loginVars
    <3>3. QED
      BY <1>14, <3>1, <3>2 DEF DriverStopped
  <2>5. NoSessionIsOverwritten'
    BY <2>3 DEF VaultInvariant, NoSessionIsOverwritten
  <2>6. LocksMatchHolders'
    BY <1>14, <2>3
    DEF VaultInvariant, LocksMatchHolders, Holding, HasCopy, At, DriverStopped
  <2>7. StepsOfUsers'
    BY <2>3 DEF VaultInvariant, StepsOfUsers, Users
  <2>8. OneLoginAtATime'
    BY <1>14, <2>3
    DEF VaultInvariant, OneLoginAtATime, Users, At, DriverStopped, loginVars
  <2>9. SealsAreAlone'
    <3>1. CASE BeginSeal(u)
      BY <1>14, <2>1, <3>1, SealBegins DEF DriverStopped, Sealing, At
    <3>2. CASE user'[u].step = "cleanup" /\ UNCHANGED files
      BY <2>3, <3>2, SealsLeftAlone DEF Sealing, files
    <3>3. QED
      BY <1>14, <2>1, <3>1, <3>2 DEF DriverStopped, Goto, VaultInvariant, TypeOK, User
  <2>10. ExclusiveInProcess'
    BY <2>6 DEF LocksMatchHolders, ExclusiveInProcess, Holding
  <2>11. QED
    BY <2>4, <2>5, <2>6, <2>7, <2>8, <2>9, <2>10 DEF VaultInvariant
<1>15. ASSUME NEW u \in Logins, AutoCancel(u)
      PROVE  VaultInvariant'
  <2>1. u \in Users
    BY DEF Users
  <2>2. user' \in [Users -> User]
    BY <1>15, <2>1, GotoMoves DEF AutoCancel, Steps
  <2>3. /\ \A v \in Users \ {u} : user'[v] = user[v]
        /\ user'[u].step \in {"cancelled"}
        /\ user'[u].profile = user[u].profile
        /\ user'[u].overtaken \subseteq user[u].overtaken
    BY <1>15, <2>1, GotoMoves DEF AutoCancel, Steps
  <2>4. TypeOK'
    BY <1>15, <2>2 DEF AutoCancel, VaultInvariant, TypeOK, files
  <2>5. NoSessionIsOverwritten'
    BY <2>3 DEF VaultInvariant, NoSessionIsOverwritten
  <2>6. LocksMatchHolders'
    <3>1. lock' = lock /\ user[u].step = "active" /\ user'[u].step = "cancelled"
      BY <1>15, <2>3 DEF AutoCancel, At
    <3>2. QED
      BY <2>3, <3>1 DEF VaultInvariant, LocksMatchHolders, Holding, HasCopy, At
  <2>7. StepsOfUsers'
    BY <2>3 DEF VaultInvariant, StepsOfUsers, Users
  <2>8. OneLoginAtATime'
    BY <1>15, <2>3 DEF VaultInvariant, OneLoginAtATime, Users, At, AutoCancel
  <2>9. SealsAreAlone'
    BY <1>15, <2>3, SealsLeftAlone DEF AutoCancel, Sealing, files
  <2>10. ExclusiveInProcess'
    BY <2>6 DEF LocksMatchHolders, ExclusiveInProcess, Holding
  <2>11. QED
    BY <2>4, <2>5, <2>6, <2>7, <2>8, <2>9, <2>10 DEF VaultInvariant
<1>16. ASSUME NEW u \in Logins, TimerCancelled(u)
      PROVE  VaultInvariant'
  <2>1. u \in Users
    BY DEF Users
  <2>2. user' \in [Users -> User]
    BY <1>16, <2>1, GotoMoves DEF TimerCancelled, Steps
  <2>3. /\ \A v \in Users \ {u} : user'[v] = user[v]
        /\ user'[u].step \in {"cleanup"}
        /\ user'[u].profile = user[u].profile
        /\ user'[u].overtaken \subseteq user[u].overtaken
    BY <1>16, <2>1, GotoMoves DEF TimerCancelled, Steps
  <2>4. TypeOK'
    BY <1>16, <2>2 DEF TimerCancelled, VaultInvariant, TypeOK, files, loginVars
  <2>5. NoSessionIsOverwritten'
    BY <2>3 DEF VaultInvariant, NoSessionIsOverwritten
  <2>6. LocksMatchHolders'
    BY <1>16, <2>3
    DEF VaultInvariant, LocksMatchHolders, Holding, HasCopy, At, TimerCancelled
  <2>7. StepsOfUsers'
    BY <2>3 DEF VaultInvariant, StepsOfUsers, Users
  <2>8. OneLoginAtATime'
    BY <1>16, <2>3
    DEF VaultInvariant, OneLoginAtATime, Users, At, TimerCancelled, loginVars
  <2>9. SealsAreAlone'
    BY <1>16, <2>3, SealsLeftAlone DEF TimerCancelled, Sealing, files
  <2>10. ExclusiveInProcess'
    BY <2>6 DEF LocksMatchHolders, ExclusiveInProcess, Holding
  <2>11. QED
    BY <2>4, <2>5, <2>6, <2>7, <2>8, <2>9, <2>10 DEF VaultInvariant
<1>17. ASSUME NEW u \in Checks, OpenByCheck(u)
      PROVE  VaultInvariant'
  <2>1. u \in Users
    BY DEF Users
  <2>2. user' \in [Users -> User]
    BY <1>17, <2>1, GotoMoves, LeaveMoves DEF OpenByCheck, Steps
  <2>3. /\ \A v \in Users \ {u} : user'[v] = user[v]
        /\ user'[u].step \in {"open", "idle"}
        /\ user'[u] = NoUser \/ user'[u].profile = user[u].profile
        /\ user'[u].overtaken \subseteq user[u].overtaken
    BY <1>17, <2>1, GotoMoves, LeaveMoves DEF OpenByCheck, Steps
  <2>4. TypeOK'
    BY <1>17, <2>2
    DEF OpenByCheck, OpenRaises, Fault, NoFault, SetLock, VaultInvariant, TypeOK,
        Processes, Users, files, loginVars
  <2>5. NoSessionIsOverwritten'
    BY <2>3 DEF VaultInvariant, NoSessionIsOverwritten
  <2>6. LocksMatchHolders'
    <3>1. CASE SetLock(u, u) /\ Goto(u, "open")
      <4>1. user'[u].step = "open" /\ user'[u].profile = user[u].profile
        BY <2>1, <3>1, GotoMoves DEF Steps
      <4>2. QED
        BY <1>17, <2>1, <2>3, <3>1, <4>1, LockTaken DEF OpenByCheck, At
    <3>2. CASE UNCHANGED lock /\ user' = [user EXCEPT ![u] = NoUser]
      <4>1. user'[u].step = "idle" /\ lock' = lock
        BY <2>1, <3>2, LeaveMoves
      <4>2. ~Holding(u) /\ ~Holding(u)'
        BY <1>17, <4>1 DEF OpenByCheck, Holding, HasCopy, At
      <4>3. QED
        BY <2>3, <4>1, <4>2 DEF VaultInvariant, LocksMatchHolders, Holding, HasCopy, At
    <3>3. QED
      BY <1>17, <3>1, <3>2 DEF OpenByCheck
  <2>7. StepsOfUsers'
    BY <2>3 DEF VaultInvariant, StepsOfUsers, Users
  <2>8. OneLoginAtATime'
    <3>1. u \notin Logins /\ UNCHANGED loginVars
      BY <1>17 DEF OpenByCheck
    <3>2. QED
      BY <2>3, <3>1 DEF VaultInvariant, OneLoginAtATime, Users, At, loginVars
  <2>9. SealsAreAlone'
    BY <1>17, <2>3, SealsLeftAlone DEF OpenByCheck, Sealing, files
  <2>10. ExclusiveInProcess'
    BY <2>6 DEF LocksMatchHolders, ExclusiveInProcess, Holding
  <2>11. QED
    BY <2>4, <2>5, <2>6, <2>7, <2>8, <2>9, <2>10 DEF VaultInvariant
<1>18. ASSUME NEW u \in Checks, CheckEnds(u)
      PROVE  VaultInvariant'
  <2>1. u \in Users
    BY DEF Users
  <2>2. user' \in [Users -> User]
    BY <1>18, <2>1, GotoMoves DEF CheckEnds, BeginSeal, Steps
  <2>3. /\ \A v \in Users \ {u} : user'[v] = user[v]
        /\ user'[u].step \in {"writing", "cleanup"}
        /\ user'[u].profile = user[u].profile
        /\ user'[u].overtaken \subseteq user[u].overtaken
    BY <1>18, <2>1, GotoMoves DEF CheckEnds, BeginSeal, Steps
  <2>4. TypeOK'
    <3>1. CASE BeginSeal(u)
      BY <1>18, <2>2, <2>3, <3>1, SealKeepsTypes
      DEF CheckEnds, VaultInvariant, TypeOK, At, loginVars
    <3>2. CASE UNCHANGED files
      BY <1>18, <2>2, <3>2 DEF CheckEnds, VaultInvariant, TypeOK, files, loginVars
    <3>3. QED
      BY <1>18, <3>1, <3>2 DEF CheckEnds
  <2>5. NoSessionIsOverwritten'
    BY <2>3 DEF VaultInvariant, NoSessionIsOverwritten
  <2>6. LocksMatchHolders'
    BY <1>18, <2>3
    DEF VaultInvariant, LocksMatchHolders, Holding, HasCopy, At, CheckEnds
  <2>7. StepsOfUsers'
    BY <2>3 DEF VaultInvariant, StepsOfUsers, Users
  <2>8. OneLoginAtATime'
    BY <1>18, <2>3 DEF VaultInvariant, OneLoginAtATime, Users, At, CheckEnds, loginVars
  <2>9. SealsAreAlone'
    <3>1. CASE BeginSeal(u)
      BY <1>18, <2>1, <3>1, SealBegins DEF CheckEnds, Sealing, At
    <3>2. CASE user'[u].step = "cleanup" /\ UNCHANGED files
      BY <2>3, <3>2, SealsLeftAlone DEF Sealing, files
    <3>3. QED
      BY <1>18, <2>1, <3>1, <3>2 DEF CheckEnds, Goto, VaultInvariant, TypeOK, User
  <2>10. ExclusiveInProcess'
    BY <2>6 DEF LocksMatchHolders, ExclusiveInProcess, Holding
  <2>11. QED
    BY <2>4, <2>5, <2>6, <2>7, <2>8, <2>9, <2>10 DEF VaultInvariant
<1>19. ASSUME NEW u \in Captures, AcquireByCapture(u)
      PROVE  VaultInvariant'
  <2>1. u \in Users
    BY DEF Users
  <2>2. user' \in [Users -> User]
    BY <1>19, <2>1, GotoMoves DEF AcquireByCapture, Steps
  <2>3. /\ \A v \in Users \ {u} : user'[v] = user[v]
        /\ user'[u].step \in {"locked"}
        /\ user'[u].profile = user[u].profile
        /\ user'[u].overtaken \subseteq user[u].overtaken
    BY <1>19, <2>1, GotoMoves DEF AcquireByCapture, Steps
  <2>4. TypeOK'
    BY <1>19, <2>2
    DEF AcquireByCapture, SetLock, VaultInvariant, TypeOK, Users, files, loginVars
  <2>5. NoSessionIsOverwritten'
    BY <2>3 DEF VaultInvariant, NoSessionIsOverwritten
  <2>6. LocksMatchHolders'
    BY <1>19, <2>3
    DEF VaultInvariant, LocksMatchHolders, Holding, HasCopy, At, TypeOK, Home,
        Processes, AcquireByCapture, LockFree, SetLock
  <2>7. StepsOfUsers'
    BY <2>3 DEF VaultInvariant, StepsOfUsers, Users
  <2>8. OneLoginAtATime'
    BY <1>19, <2>3
    DEF VaultInvariant, OneLoginAtATime, Users, At, AcquireByCapture, loginVars
  <2>9. SealsAreAlone'
    BY <1>19, <2>3, SealsLeftAlone DEF AcquireByCapture, Sealing, files
  <2>10. ExclusiveInProcess'
    BY <2>6 DEF LocksMatchHolders, ExclusiveInProcess, Holding
  <2>11. QED
    BY <2>4, <2>5, <2>6, <2>7, <2>8, <2>9, <2>10 DEF VaultInvariant
<1>20. ASSUME NEW u \in Captures, OpenByCapture(u)
      PROVE  VaultInvariant'
  <2>1. u \in Users
    BY DEF Users
  <2>2. user' \in [Users -> User]
    BY <1>20, <2>1, GotoMoves DEF OpenByCapture, Steps
  <2>3. /\ \A v \in Users \ {u} : user'[v] = user[v]
        /\ user'[u].step \in {"open", "cleanup"}
        /\ user'[u].profile = user[u].profile
        /\ user'[u].overtaken \subseteq user[u].overtaken
    BY <1>20, <2>1, GotoMoves DEF OpenByCapture, Steps
  <2>4. TypeOK'
    BY <1>20, <2>2
    DEF OpenByCapture, OpenRaises, Fault, NoFault, VaultInvariant, TypeOK, files,
        loginVars
  <2>5. NoSessionIsOverwritten'
    BY <2>3 DEF VaultInvariant, NoSessionIsOverwritten
  <2>6. LocksMatchHolders'
    BY <1>20, <2>3
    DEF VaultInvariant, LocksMatchHolders, Holding, HasCopy, At, OpenByCapture
  <2>7. StepsOfUsers'
    BY <2>3 DEF VaultInvariant, StepsOfUsers, Users
  <2>8. OneLoginAtATime'
    BY <1>20, <2>3
    DEF VaultInvariant, OneLoginAtATime, Users, At, OpenByCapture, loginVars
  <2>9. SealsAreAlone'
    BY <1>20, <2>3, SealsLeftAlone DEF OpenByCapture, Sealing, files
  <2>10. ExclusiveInProcess'
    BY <2>6 DEF LocksMatchHolders, ExclusiveInProcess, Holding
  <2>11. QED
    BY <2>4, <2>5, <2>6, <2>7, <2>8, <2>9, <2>10 DEF VaultInvariant
<1>21. ASSUME NEW u \in Captures, CaptureEnds(u)
      PROVE  VaultInvariant'
  <2>1. u \in Users
    BY DEF Users
  <2>2. user' \in [Users -> User]
    BY <1>21, <2>1, GotoMoves DEF CaptureEnds, BeginSeal, Steps
  <2>3. /\ \A v \in Users \ {u} : user'[v] = user[v]
        /\ user'[u].step \in {"writing", "cleanup"}
        /\ user'[u].profile = user[u].profile
        /\ user'[u].overtaken \subseteq user[u].overtaken
    BY <1>21, <2>1, GotoMoves DEF CaptureEnds, BeginSeal, Steps
  <2>4. TypeOK'
    <3>1. CASE BeginSeal(u)
      BY <1>21, <2>2, <2>3, <3>1, SealKeepsTypes
      DEF CaptureEnds, VaultInvariant, TypeOK, At, loginVars
    <3>2. CASE UNCHANGED files
      BY <1>21, <2>2, <3>2 DEF CaptureEnds, VaultInvariant, TypeOK, files, loginVars
    <3>3. QED
      BY <1>21, <3>1, <3>2 DEF CaptureEnds
  <2>5. NoSessionIsOverwritten'
    BY <2>3 DEF VaultInvariant, NoSessionIsOverwritten
  <2>6. LocksMatchHolders'
    BY <1>21, <2>3
    DEF VaultInvariant, LocksMatchHolders, Holding, HasCopy, At, CaptureEnds
  <2>7. StepsOfUsers'
    BY <2>3 DEF VaultInvariant, StepsOfUsers, Users
  <2>8. OneLoginAtATime'
    BY <1>21, <2>3
    DEF VaultInvariant, OneLoginAtATime, Users, At, CaptureEnds, loginVars
  <2>9. SealsAreAlone'
    <3>1. CASE BeginSeal(u)
      BY <1>21, <2>1, <3>1, SealBegins DEF CaptureEnds, Sealing, At
    <3>2. CASE user'[u].step = "cleanup" /\ UNCHANGED files
      BY <2>3, <3>2, SealsLeftAlone DEF Sealing, files
    <3>3. QED
      BY <1>21, <2>1, <3>1, <3>2 DEF CaptureEnds, Goto, VaultInvariant, TypeOK, User
  <2>10. ExclusiveInProcess'
    BY <2>6 DEF LocksMatchHolders, ExclusiveInProcess, Holding
  <2>11. QED
    BY <2>4, <2>5, <2>6, <2>7, <2>8, <2>9, <2>10 DEF VaultInvariant
<1>22. ASSUME NEW u \in Users, FinishWrite(u)
      PROVE  VaultInvariant'
  <2>1. u \in Users
    OBVIOUS
  <2>2. user' \in [Users -> User]
    BY <1>22, GotoMoves DEF FinishWrite, Steps
  <2>3. /\ \A v \in Users \ {u} : user'[v] = user[v]
        /\ user'[u].step \in {"written"}
        /\ user'[u].profile = user[u].profile
        /\ user'[u].overtaken \subseteq user[u].overtaken
    BY <1>22, GotoMoves DEF FinishWrite, Steps
  <2>4. TypeOK'
    BY <1>22, <2>2 DEF FinishWrite, VaultInvariant, TypeOK, loginVars
  <2>5. NoSessionIsOverwritten'
    BY <2>3 DEF VaultInvariant, NoSessionIsOverwritten
  <2>6. LocksMatchHolders'
    BY <1>22, <2>3
    DEF VaultInvariant, LocksMatchHolders, Holding, HasCopy, At, FinishWrite
  <2>7. StepsOfUsers'
    BY <2>3 DEF VaultInvariant, StepsOfUsers, Users
  <2>8. OneLoginAtATime'
    BY <1>22, <2>3
    DEF VaultInvariant, OneLoginAtATime, Users, At, FinishWrite, loginVars
  <2>9. SealsAreAlone'
    <3>1. /\ \A v \in Users : /\ Sealing(v)' <=> Sealing(v)
                             /\ user'[v].profile = user[v].profile
          /\ clashed' = clashed
      BY <1>22, <2>3 DEF FinishWrite, Sealing, At
    <3>2. \A p \in Profiles \ {user[u].profile} : tmp'[p] = tmp[p]
      BY <1>22 DEF FinishWrite, VaultInvariant, TypeOK
    <3>3. user[u].profile \notin clashed => tmp'[user[u].profile] = "whole"
      <4>1. user[u].profile \in Profiles
        BY <1>22 DEF FinishWrite, At, VaultInvariant, LocksMatchHolders
      <4>2. QED
        BY <1>22, <4>1 DEF FinishWrite, VaultInvariant, TypeOK
    <3>4. ASSUME NEW v \in Users, At(v, "written")', user'[v].profile \notin clashed'
          PROVE  tmp'[user'[v].profile] = "whole"
      <4>1. CASE user[v].profile = user[u].profile
        BY <3>1, <3>3, <3>4, <4>1
      <4>2. CASE user[v].profile # user[u].profile
        <5>1. v # u /\ At(v, "written") /\ user[v].profile \in Profiles
          BY <2>3, <3>4, <4>2 DEF At, VaultInvariant, LocksMatchHolders
        <5>2. QED
          BY <3>1, <3>2, <3>4, <4>2, <5>1 DEF VaultInvariant, SealsAreAlone
      <4>3. QED
        BY <4>1, <4>2
    <3>5. QED
      BY <3>1, <3>4 DEF VaultInvariant, SealsAreAlone
  <2>10. ExclusiveInProcess'
    BY <2>6 DEF LocksMatchHolders, ExclusiveInProcess, Holding
  <2>11. QED
    BY <2>4, <2>5, <2>6, <2>7, <2>8, <2>9, <2>10 DEF VaultInvariant
<1>23. ASSUME NEW u \in Users, Replace(u)
      PROVE  VaultInvariant'
  <2>0. u \in Users
    OBVIOUS
  <2>1. TypeOK'
    BY <1>23
    DEF VaultInvariant, TypeOK, User, Steps, Processes, Home, Replace, Overtake, Goto,
        loginVars
  <2>2. NoSessionIsOverwritten'
    BY <1>23
    DEF VaultInvariant, NoSessionIsOverwritten, ExclusiveInProcess, HasCopy, At, TypeOK,
        User, Replace, Overtake, Goto
  <2>3. LocksMatchHolders'
    BY <1>23
    DEF VaultInvariant, LocksMatchHolders, Holding, HasCopy, Home, Users, At, TypeOK,
        User, Processes, OneLoginAtATime, Replace, Overtake, Goto
  <2>4. StepsOfUsers'
    <3>1. \A v \in Users : user'[v].step = user[v].step \/ user'[v].step = "cleanup"
      BY <1>23 DEF Replace, Overtake, Goto, VaultInvariant, TypeOK, User
    <3>2. QED
      BY <3>1 DEF VaultInvariant, StepsOfUsers, Users
  <2>5. OneLoginAtATime'
    <3>1. /\ manager' = manager /\ active' = active
          /\ At(u, "written") /\ user \in [Users -> User]
      BY <1>23 DEF Replace, loginVars, VaultInvariant, TypeOK
    <3>2. \A v \in Users :
            user'[v].step = IF v = u THEN "cleanup" ELSE user[v].step
      BY <1>23, <3>1 DEF Replace, Overtake, Goto, User
    <3>3. QED
      BY <3>1, <3>2 DEF VaultInvariant, OneLoginAtATime, Users, At
  <2>6. SealsAreAlone'
    <3>1. \A v \in Users : Sealing(v)' =>
            v # u /\ user'[v].step = user[v].step /\ user'[v].profile = user[v].profile
      BY <1>23 DEF Replace, Overtake, Goto, Sealing, VaultInvariant, TypeOK, User
    <3>2. \A v \in Users : Sealing(v)' /\ user[v].profile = user[u].profile =>
            user[v].profile \in clashed
      BY <1>23, <3>1 DEF Replace, Sealing, At, VaultInvariant, SealsAreAlone
    <3>3. clashed' = clashed
          /\ \A p \in Profiles \ {user[u].profile} : tmp'[p] = tmp[p]
      BY <1>23 DEF Replace, VaultInvariant, TypeOK
    <3>4. \A v \in Users : Sealing(v) => user[v].profile \in Profiles
      BY DEF Sealing, At, VaultInvariant, LocksMatchHolders
    <3>5. QED
      BY <3>1, <3>2, <3>3, <3>4 DEF Sealing, At, VaultInvariant, SealsAreAlone
  <2>7. ExclusiveInProcess'
    BY <2>3 DEF LocksMatchHolders, ExclusiveInProcess, Holding
  <2>8. QED
    BY <2>1, <2>2, <2>3, <2>4, <2>5, <2>6, <2>7 DEF VaultInvariant
<1>24. ASSUME NEW u \in Users, Release(u)
      PROVE  VaultInvariant'
  <2>1. u \in Users
    OBVIOUS
  <2>2. user' \in [Users -> User]
    BY <1>24, LeaveMoves DEF Release
  <2>3. /\ \A v \in Users \ {u} : user'[v] = user[v]
        /\ user'[u].step \in {"idle"}
        /\ user'[u] = NoUser
        /\ user'[u].overtaken \subseteq user[u].overtaken
    BY <1>24, LeaveMoves DEF Release
  <2>4. TypeOK'
    <3>1. finish' \in [Finishers -> Finish]
      BY <1>24 DEF Release, Forget, VaultInvariant, TypeOK, Finish
    <3>2. deletion' \in Deletion
      BY <1>24 DEF Release, Forget, VaultInvariant, TypeOK, Deletion
    <3>3. lock' \in [Processes -> [Profiles -> {"free", "lost", "abandoned"} \cup Users]]
      BY <1>24 DEF Release, SetLock, VaultInvariant, TypeOK
    <3>4. QED
      BY <1>24, <2>2, <3>1, <3>2, <3>3 DEF Release, VaultInvariant, TypeOK, files
  <2>5. NoSessionIsOverwritten'
    BY <2>3 DEF VaultInvariant, NoSessionIsOverwritten
  <2>6. LocksMatchHolders'
    BY <1>24, <2>1, <2>3, LockGivenBack DEF Release, At, Holding, HasCopy
  <2>7. StepsOfUsers'
    BY <2>3 DEF VaultInvariant, StepsOfUsers, Users
  <2>8. OneLoginAtATime'
    BY <1>24, <2>3 DEF VaultInvariant, OneLoginAtATime, At, Release
  <2>9. SealsAreAlone'
    BY <1>24, <2>3, SealsLeftAlone DEF Release, Sealing, files
  <2>10. ExclusiveInProcess'
    BY <2>6 DEF LocksMatchHolders, ExclusiveInProcess, Holding
  <2>11. QED
    BY <2>4, <2>5, <2>6, <2>7, <2>8, <2>9, <2>10 DEF VaultInvariant
<1>25. ASSUME NEW f \in Finishers, CookiesRead(f)
      PROVE  VaultInvariant'
  <2>1. deletion' \in Deletion
    BY <1>25 DEF CookiesRead, VaultInvariant, TypeOK
  <2>2. finish' \in [Finishers -> Finish]
    <3>1. finish \in [Finishers -> Finish]
      BY DEF VaultInvariant, TypeOK
    <3>2. CASE finish' = [finish EXCEPT ![f].step = "state"]
      BY <3>1, <3>2 DEF Finish
    <3>3. CASE finish' = [finish EXCEPT ![f] = NoFinish]
      BY <3>1, <3>3 DEF Finish, NoFinish
    <3>4. QED
      BY <1>25, <3>2, <3>3 DEF CookiesRead
  <2>3. CASE Teardown(FALSE)
    BY <1>25, <2>1, <2>2, <2>3, TeardownKeepsInvariant DEF CookiesRead
  <2>4. CASE UNCHANGED <<user, active>>
    BY <1>25, <2>2, <2>4
    DEF CookiesRead, VaultInvariant, TypeOK, NoSessionIsOverwritten, LocksMatchHolders,
        StepsOfUsers, OneLoginAtATime, SealsAreAlone, ExclusiveInProcess, Holding,
        HasCopy, Sealing, At, files
  <2>5. QED
    BY <1>25, <2>3, <2>4 DEF CookiesRead
<1>26. ASSUME NEW f \in Finishers, StateRead(f)
      PROVE  VaultInvariant'
  <2>1. finish' \in [Finishers -> Finish] /\ deletion' \in Deletion
    BY <1>26 DEF StateRead, VaultInvariant, TypeOK, Finish, NoFinish
  <2>2. QED
    BY <1>26, <2>1, TeardownKeepsInvariant DEF StateRead
<1>27. ASSUME NEW f \in Finishers, FinishRaises(f)
      PROVE  VaultInvariant'
  <2>1. TypeOK'
    BY <1>27 DEF VaultInvariant, TypeOK, Finish, NoFinish, FinishRaises, files
  <2>2. NoSessionIsOverwritten'
    BY <1>27 DEF VaultInvariant, NoSessionIsOverwritten, FinishRaises
  <2>3. LocksMatchHolders'
    BY <1>27 DEF VaultInvariant, LocksMatchHolders, Holding, HasCopy, At, FinishRaises
  <2>4. StepsOfUsers'
    BY <1>27 DEF VaultInvariant, StepsOfUsers, FinishRaises
  <2>5. OneLoginAtATime'
    BY <1>27 DEF VaultInvariant, OneLoginAtATime, At, FinishRaises
  <2>6. SealsAreAlone'
    <3>1. \A v \in Users : Sealing(v)' =>
            user'[v].step = user[v].step /\ user'[v].profile = user[v].profile
      BY <1>27 DEF FinishRaises
    <3>2. QED
      BY <1>27, SealsLeftAlone DEF FinishRaises, files
  <2>7. ExclusiveInProcess'
    BY <2>3 DEF LocksMatchHolders, ExclusiveInProcess, Holding
  <2>8. QED
    BY <2>1, <2>2, <2>3, <2>4, <2>5, <2>6, <2>7 DEF VaultInvariant
<1>28. CASE ResumeDelete
  <2>0. user' \in [Users -> User]
    BY <1>28 DEF ResumeDelete, Unlink, VaultInvariant, TypeOK, User
  <2>1. TypeOK'
    BY <1>28, <2>0
    DEF ResumeDelete, Unlink, VaultInvariant, TypeOK, Deletion, NoDeletion
  <2>2. NoSessionIsOverwritten'
    BY <1>28 DEF VaultInvariant, NoSessionIsOverwritten, Home, ResumeDelete, Unlink
  <2>3. LocksMatchHolders'
    <3>1. lock' = lock /\ \A v \in Users : /\ user'[v].step = user[v].step
                                          /\ user'[v].profile = user[v].profile
      BY <1>28, <2>0 DEF ResumeDelete, Unlink, VaultInvariant, TypeOK, User
    <3>2. QED
      BY <3>1 DEF VaultInvariant, LocksMatchHolders, Holding, HasCopy, At, Home
  <2>4. StepsOfUsers'
    BY <1>28 DEF VaultInvariant, StepsOfUsers, Users, ResumeDelete, Unlink
  <2>5. OneLoginAtATime'
    BY <1>28 DEF VaultInvariant, OneLoginAtATime, Users, At, ResumeDelete, Unlink
  <2>6. SealsAreAlone'
    <3>1. \A v \in Users : Sealing(v)' =>
            user'[v].step = user[v].step /\ user'[v].profile = user[v].profile
      BY <1>28 DEF ResumeDelete, Unlink
    <3>2. QED
      BY <1>28, SealsLeftAlone DEF ResumeDelete, Unlink
  <2>7. ExclusiveInProcess'
    BY <2>3 DEF LocksMatchHolders, ExclusiveInProcess, Holding
  <2>8. QED
    BY <2>1, <2>2, <2>3, <2>4, <2>5, <2>6, <2>7 DEF VaultInvariant
<1>29. ASSUME NEW u \in Users, SealFails(u)
      PROVE  VaultInvariant'
  <2>1. u \in Users
    OBVIOUS
  <2>2. user' \in [Users -> User]
    BY <1>29, GotoMoves DEF SealFails, Steps
  <2>3. /\ \A v \in Users \ {u} : user'[v] = user[v]
        /\ user'[u].step \in {"cleanup"}
        /\ user'[u].profile = user[u].profile
        /\ user'[u].overtaken \subseteq user[u].overtaken
    BY <1>29, GotoMoves DEF SealFails, Steps
  <2>4. TypeOK'
    BY <1>29, <2>2 DEF SealFails, Fault, VaultInvariant, TypeOK, files, loginVars
  <2>5. NoSessionIsOverwritten'
    BY <2>3 DEF VaultInvariant, NoSessionIsOverwritten
  <2>6. LocksMatchHolders'
    BY <1>29, <2>1, <2>3
    DEF VaultInvariant, LocksMatchHolders, Holding, HasCopy, At, SealFails
  <2>7. StepsOfUsers'
    BY <2>3 DEF VaultInvariant, StepsOfUsers, Users
  <2>8. OneLoginAtATime'
    BY <1>29, <2>3 DEF VaultInvariant, OneLoginAtATime, Users, At, SealFails, loginVars
  <2>9. SealsAreAlone'
    BY <1>29, <2>3, SealsLeftAlone DEF SealFails, Sealing, files
  <2>10. ExclusiveInProcess'
    BY <2>6 DEF LocksMatchHolders, ExclusiveInProcess, Holding
  <2>11. QED
    BY <2>4, <2>5, <2>6, <2>7, <2>8, <2>9, <2>10 DEF VaultInvariant
<1>30. ASSUME NEW u \in Users, Hangs(u)
      PROVE  VaultInvariant'
  <2>1. u \in Users
    OBVIOUS
  <2>2. user' \in [Users -> User]
    BY <1>30, GotoMoves DEF Hangs, Steps
  <2>3. /\ \A v \in Users \ {u} : user'[v] = user[v]
        /\ user'[u].step \in {"hung"}
        /\ user'[u].profile = user[u].profile
        /\ user'[u].overtaken \subseteq user[u].overtaken
    BY <1>30, GotoMoves DEF Hangs, Steps
  <2>4. TypeOK'
    BY <1>30, <2>2 DEF Hangs, Fault, VaultInvariant, TypeOK, files, loginVars
  <2>5. NoSessionIsOverwritten'
    BY <2>3 DEF VaultInvariant, NoSessionIsOverwritten
  <2>6. LocksMatchHolders'
    BY <1>30, <2>3 DEF VaultInvariant, LocksMatchHolders, Holding, HasCopy, At, Hangs
  <2>7. StepsOfUsers'
    BY <2>3 DEF VaultInvariant, StepsOfUsers, Users
  <2>8. OneLoginAtATime'
    BY <1>30, <2>3
    DEF VaultInvariant, OneLoginAtATime, StepsOfUsers, Users, At, Hangs, loginVars
  <2>9. SealsAreAlone'
    BY <1>30, <2>3, SealsLeftAlone DEF Hangs, Sealing, files
  <2>10. ExclusiveInProcess'
    BY <2>6 DEF LocksMatchHolders, ExclusiveInProcess, Holding
  <2>11. QED
    BY <2>4, <2>5, <2>6, <2>7, <2>8, <2>9, <2>10 DEF VaultInvariant
<1>31. ASSUME NEW q \in Processes, Crash(q)
      PROVE  VaultInvariant'
  <2>1. TypeOK'
    BY <1>31
    DEF VaultInvariant, TypeOK, User, NoUser, Steps, Finish, NoFinish, Deletion,
        NoDeletion, Crash, Fault, files, loginVars
  <2>2. NoSessionIsOverwritten'
    BY <1>31 DEF VaultInvariant, NoSessionIsOverwritten, NoUser, Crash
  <2>3. LocksMatchHolders'
    BY <1>31
    DEF VaultInvariant, LocksMatchHolders, Holding, HasCopy, Home, At, TypeOK, NoUser,
        Crash
  <2>4. StepsOfUsers'
    BY <1>31 DEF VaultInvariant, StepsOfUsers, Users, NoUser, Crash
  <2>5. OneLoginAtATime'
    <3>1. CASE q = "api"
      BY <1>31, <3>1 DEF Crash, OneLoginAtATime, At, NoUser, Home, Users
    <3>2. CASE q = "worker"
      BY <1>31, <3>2
      DEF Crash, VaultInvariant, OneLoginAtATime, At, Home, Users, loginVars
    <3>3. QED
      BY <3>1, <3>2 DEF Processes
  <2>6. SealsAreAlone'
    <3>1. \A v \in Users : Sealing(v)' =>
            user'[v].step = user[v].step /\ user'[v].profile = user[v].profile
      BY <1>31 DEF Crash, Sealing, NoUser
    <3>2. QED
      BY <1>31, <3>1, SealsLeftAlone DEF Crash, files
  <2>7. ExclusiveInProcess'
    BY <2>3 DEF LocksMatchHolders, ExclusiveInProcess, Holding
  <2>8. QED
    BY <2>1, <2>2, <2>3, <2>4, <2>5, <2>6, <2>7 DEF VaultInvariant
<1>32. CASE UNCHANGED vars
  BY <1>32
  DEF VaultInvariant, TypeOK, NoSessionIsOverwritten, LocksMatchHolders, StepsOfUsers,
      OneLoginAtATime, SealsAreAlone, ExclusiveInProcess, Holding, HasCopy, Sealing, At,
      vars, files, loginVars
<1>33. QED
  BY <1>1, <1>2, <1>3, <1>4, <1>5, <1>6, <1>7, <1>8, <1>9, <1>10, <1>11, <1>12, <1>13,
      <1>14, <1>15, <1>16, <1>17, <1>18, <1>19, <1>20, <1>21, <1>22, <1>23, <1>24,
      <1>25, <1>26, <1>27, <1>28, <1>29, <1>30, <1>31, <1>32
  DEF Next, Requests, Failures, UserStep, LoginStep, CheckStep, CaptureStep, SealStep,
      FinishStep

LEMMA VaultInit == Init => VaultInvariant
  BY VaultAssumption
  DEF Init, VaultInvariant, TypeOK, User, NoUser, Steps, Finish, NoFinish, Deletion,
      NoDeletion, ExclusiveInProcess, NoSessionIsOverwritten, LocksMatchHolders,
      StepsOfUsers, OneLoginAtATime, SealsAreAlone, Holding, HasCopy, Sealing, At, Users,
      Processes, Home

(* The invariant of the profiles and of LoginManager, whatever fails.      *)
THEOREM VaultInvariantHolds == Spec => []VaultInvariant
  BY VaultInit, VaultStep, PTL DEF Spec

(* In a process, get_profile_lock gives a profile to one operation, so the *)
(* copy it seals is up to date with the other operations of the process.   *)
THEOREM SessionsAreNotOverwritten == Spec => [](ExclusiveInProcess /\ NoSessionIsOverwritten)
<1>1. VaultInvariant => ExclusiveInProcess /\ NoSessionIsOverwritten
  BY DEF VaultInvariant
<1>2. QED
  BY <1>1, VaultInvariantHolds, PTL

(* The last step of an atomic seal: what it publishes is whole, unless the *)
(* other process wrote the same temporary file.                            *)
THEOREM VaultIsNeverBroken == Spec => VaultSurvives
<1>1. ASSUME VaultInvariant, [Next]_vars
      PROVE  [\A p \in Profiles :
                vault[p] # "partial" /\ vault'[p] = "partial" => p \in clashed]_vars
  <2>1. SUFFICES ASSUME NEW p \in Profiles, vault[p] # "partial", vault'[p] = "partial"
                 PROVE  p \in clashed
    OBVIOUS
  <2>2. PICK u \in Users : FinishWrite(u) \/ Replace(u)
    BY <1>1, <2>1
    DEF VaultInvariant, TypeOK, vars, files, Next, Requests, Failures, UserStep, LoginStep,
        CheckStep, CaptureStep, SealStep, FinishStep, StartCheck, StartCapture, StartLogin,
        StartFinish, DeleteAccount, Unlink, CancelThenDelete, CancelLogin, EnterStart,
        LockTimesOut, OpenByLogin, LoginOpens, LoginFails, BrowserClosed, DriverStopped,
        BeginSeal, AutoCancel, TimerCancelled, OpenByCheck, CheckEnds, AcquireByCapture,
        OpenByCapture, CaptureEnds, Release, CookiesRead, StateRead, FinishRaises,
        ResumeDelete, SealFails, Hangs, Crash
  <2>3. CASE FinishWrite(u)
    BY <1>1, <2>1, <2>3 DEF FinishWrite, VaultInvariant, TypeOK
  <2>4. CASE Replace(u)
    BY <1>1, <2>1, <2>4 DEF Replace, VaultInvariant, TypeOK, SealsAreAlone
  <2>5. QED
    BY <2>2, <2>3, <2>4
<1>2. QED
  BY <1>1, VaultInvariantHolds, PTL DEF Spec, VaultSurvives
=============================================================================
