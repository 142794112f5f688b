----------------------------- MODULE ProfileVault -----------------------------
(***************************************************************************)
(* The browser profiles of the connected accounts.  A profile rests as an  *)
(* encrypted archive, its vault (services/crypto.py).  Three kinds of      *)
(* users decrypt it into a private copy and seal the copy back:            *)
(*   - manual logins, one LoginManager (services/login_browser.py);        *)
(*   - session tests (services/session_check.py), both in the API process; *)
(*   - captures (services/capture.py), in the worker process.              *)
(* get_profile_lock gives a lock per profile inside one process; nothing   *)
(* but the files is shared by the two processes.  In a process, only an    *)
(* await lets another coroutine run.                                       *)
(***************************************************************************)
EXTENDS Naturals, FiniteSets

CONSTANTS
  Profiles,     \* the accounts, one profile each
  Logins,       \* the LoginSession objects that may exist at once
  Checks,       \* concurrent coroutines in check_account
  Captures,     \* captures of the worker that use a profile
  Finishers,    \* concurrent coroutines in LoginManager.finish
  FaultKinds,   \* "crash", "open_error", "stop_error", "seal_error", "hang"
  MaxFaults     \* how many failures may happen in a behaviour

Users == Logins \cup Checks \cup Captures

ASSUME VaultAssumption ==
  /\ Logins \cap Checks = {} /\ Logins \cap Captures = {} /\ Checks \cap Captures = {}
  /\ {"free", "lost", "abandoned", "none", "gone"} \cap Users = {}
  /\ "none" \notin Profiles
  /\ MaxFaults \in Nat

VARIABLES
  vault,     \* the file <slug>.tar.enc of each profile
  tmp,       \* the file <slug>.tar.tmp of each profile
  clashed,   \* the profiles whose last seal was disturbed by the other process
  accounts,  \* the accounts that exist
  lock,      \* get_profile_lock(p) in each process: "free", its holder, or
             \* "lost" or "abandoned" when nobody is left to release it
  user,      \* what each login, test or capture is doing
  manager,   \* LoginManager._lock
  active,    \* LoginManager._active
  finish,    \* what each coroutine in LoginManager.finish awaits
  deletion,  \* the delete_account waiting for a login to close
  faults     \* failures so far

files == <<vault, tmp, clashed>>
loginVars == <<manager, active, finish, deletion>>
vars == <<files, accounts, lock, user, loginVars, faults>>

Processes == {"api", "worker"}

Home(u) == IF u \in Captures THEN "worker" ELSE "api"

Steps ==
  { "idle", "queued", "waiting", "locked", "launching", "open", "active", "closing",
    "stopping", "cancelled", "writing", "written", "cleanup", "hung" }

(* overtaken: who sealed or deleted the profile since the copy was made.   *)
User == [step : Steps, profile : Profiles \cup {"none"}, seal : BOOLEAN,
         overtaken : SUBSET (Processes \cup {"delete"})]
NoUser == [step |-> "idle", profile |-> "none", seal |-> FALSE, overtaken |-> {}]

Finish == [step : {"idle", "cookies", "state"}, login : Logins \cup {"none", "gone"}]
NoFinish == [step |-> "idle", login |-> "none"]

Deletion == [profile : Profiles \cup {"none"}, login : Logins \cup {"none", "gone"}]
NoDeletion == [profile |-> "none", login |-> "none"]

At(u, step) == user[u].step = step

Sealing(u) == user[u].step \in {"writing", "written"}

(* The users with a decrypted copy, and those with the profile's lock. *)
HasCopy(u) ==
  user[u].step \in { "launching", "open", "active", "closing", "stopping",
                     "cancelled", "writing", "written", "hung" }
Holding(u) == HasCopy(u) \/ user[u].step \in {"locked", "cleanup"}

(* seal_profile and the end of a login are plain calls: no other coroutine *)
(* of the process runs meanwhile.                                          *)
InPlainCall(u) == Sealing(u) \/ (u \in Logins /\ At(u, "cleanup"))

LoopFree(q) == \A u \in Users : Home(u) = q => ~InPlainCall(u)

Goto(u, step) == user' = [user EXCEPT ![u].step = step]

Fault(kind) ==
  /\ kind \in FaultKinds
  /\ faults < MaxFaults
  /\ faults' = faults + 1

NoFault == UNCHANGED faults

SetLock(u, holder) == lock' = [lock EXCEPT ![Home(u)][user[u].profile] = holder]

LockFree(u) == lock[Home(u)][user[u].profile] = "free"

(* Finishes and a deletion that refer to a login that is over. *)
Forget(u) ==
  /\ finish' = [f \in Finishers |->
                  IF finish[f].login = u THEN [finish[f] EXCEPT !.login = "gone"] ELSE finish[f]]
  /\ deletion' = IF deletion.login = u THEN [deletion EXCEPT !.login = "gone"] ELSE deletion

Init ==
  /\ vault = [p \in Profiles |-> "absent"]
  /\ tmp = [p \in Profiles |-> "absent"]
  /\ clashed = {}
  /\ accounts = Profiles
  /\ lock = [q \in Processes |-> [p \in Profiles |-> "free"]]
  /\ user = [u \in Users |-> NoUser]
  /\ manager = "free"
  /\ active = "none"
  /\ finish = [f \in Finishers |-> NoFinish]
  /\ deletion = NoDeletion
  /\ faults = 0

-----------------------------------------------------------------------------
(* open_profile: what it returns, or the exception it raises.              *)

Readable(u) == vault[user[u].profile] # "partial"

OpenRaises(u) ==
  \/ ~Readable(u) /\ NoFault
  \/ Readable(u) /\ Fault("open_error")

-----------------------------------------------------------------------------
(* seal_profile.                                                           *)

(* Faulty variant: the archive is written over the vault itself. *)
BeginSealInPlace(u) ==
  LET p == user[u].profile IN
  /\ Goto(u, "writing")
  /\ vault' = [vault EXCEPT ![p] = "partial"]
  /\ UNCHANGED <<tmp, clashed>>

(* write_bytes truncates the temporary file, whose name is fixed. *)
BeginSeal(u) ==
  LET p == user[u].profile IN
  /\ Goto(u, "writing")
  /\ tmp' = [tmp EXCEPT ![p] = "partial"]
  /\ clashed' = IF \E v \in Users \ {u} : Sealing(v) /\ user[v].profile = p
                THEN clashed \cup {p} ELSE clashed \ {p}
  /\ UNCHANGED vault

(* Two writers of one file, or a file renamed under its writer, leave      *)
(* either a whole archive or a broken one.                                 *)
FinishWrite(u) ==
  LET p == user[u].profile IN
  /\ At(u, "writing")
  /\ Goto(u, "written")
  /\ \/ p \notin clashed /\ tmp' = [tmp EXCEPT ![p] = "whole"] /\ UNCHANGED vault
     \/ p \in clashed /\ tmp[p] # "absent"
        /\ \E file \in {"partial", "whole"} : tmp' = [tmp EXCEPT ![p] = file]
        /\ UNCHANGED vault
     \/ p \in clashed /\ tmp[p] = "absent"
        /\ \E file \in {"partial", "sealed"} : vault' = [vault EXCEPT ![p] = file]
        /\ UNCHANGED tmp
  /\ UNCHANGED <<clashed, accounts, lock, loginVars, faults>>

(* The copies of p that u did not make are out of date. *)
Overtake(p, u, by) ==
  user' = [v \in Users |->
             IF v # u /\ HasCopy(v) /\ user[v].profile = p
             THEN [user[v] EXCEPT !.overtaken = @ \cup {by}]
             ELSE IF v = u THEN [user[u] EXCEPT !.step = "cleanup"] ELSE user[v]]

(* tmp.replace(vault), which raises if the other process has moved the     *)
(* file already.                                                           *)
Replace(u) ==
  LET p == user[u].profile IN
  /\ At(u, "written")
  /\ IF tmp[p] = "absent"
     THEN Goto(u, "cleanup") /\ UNCHANGED <<vault, tmp>>
     ELSE /\ vault' = [vault EXCEPT ![p] = IF tmp[p] = "whole" THEN "sealed" ELSE "partial"]
          /\ tmp' = [tmp EXCEPT ![p] = "absent"]
          /\ Overtake(p, u, Home(u))
  /\ UNCHANGED <<clashed, accounts, lock, loginVars, faults>>

(* Faulty variant: the lock is not given back in a finally clause. *)
SealFailsForGood(u) ==
  /\ At(u, "writing")
  /\ Fault("seal_error")
  /\ user' = [user EXCEPT ![u] = NoUser]
  /\ SetLock(u, "lost")
  /\ Forget(u)
  /\ UNCHANGED <<files, accounts, manager, active>>

(* Disk full: the vault is left as it was. *)
SealFails(u) ==
  /\ At(u, "writing")
  /\ Fault("seal_error")
  /\ Goto(u, "cleanup")
  /\ UNCHANGED <<files, accounts, lock, loginVars>>

-----------------------------------------------------------------------------
(* Session tests: test_session and check_all_sessions call check_account.  *)

(* A login of the account in progress refuses the test (accounts.py, and   *)
(* notify.py skips it); the account may have been deleted since it was     *)
(* read by check_all_sessions.                                             *)
StartCheck(u, p) ==
  /\ LoopFree("api")
  /\ At(u, "idle")
  /\ active # "none" => user[active].profile # p
  /\ user' = [user EXCEPT ![u] = [NoUser EXCEPT !.step = "waiting", !.profile = p]]
  /\ UNCHANGED <<files, accounts, lock, loginVars, faults>>

(* Faulty variant: the test does not wait for the lock. *)
OpenByCheckUnlocked(u) ==
  /\ LoopFree("api")
  /\ At(u, "waiting")
  /\ vault[user[u].profile] = "sealed"
  /\ Goto(u, "open")
  /\ UNCHANGED <<files, accounts, lock, loginVars, faults>>

(* The lock, the test of the vault and open_profile, without an await; the *)
(* async with gives the lock back when there is nothing to open.           *)
OpenByCheck(u) ==
  /\ LoopFree("api")
  /\ At(u, "waiting") /\ LockFree(u)
  /\ \/ /\ vault[user[u].profile] = "sealed"
        /\ Goto(u, "open") /\ SetLock(u, u) /\ NoFault
     \/ /\ vault[user[u].profile] = "absent"
        /\ user' = [user EXCEPT ![u] = NoUser] /\ UNCHANGED lock /\ NoFault
     \/ /\ vault[user[u].profile] # "absent"
        /\ OpenRaises(u)
        /\ user' = [user EXCEPT ![u] = NoUser] /\ UNCHANGED lock
  /\ UNCHANGED <<files, accounts, loginVars>>

(* The page was read: the copy is sealed.  Any exception skips the seal.   *)
CheckEnds(u) ==
  /\ LoopFree("api")
  /\ At(u, "open")
  /\ \/ BeginSeal(u)
     \/ Goto(u, "cleanup") /\ UNCHANGED files
  /\ UNCHANGED <<accounts, lock, loginVars, faults>>

-----------------------------------------------------------------------------
(* Captures: capture_page.                                                 *)

StartCapture(u, p) ==
  /\ LoopFree("worker")
  /\ At(u, "idle") /\ p \in accounts
  /\ user' = [user EXCEPT ![u] = [NoUser EXCEPT !.step = "waiting", !.profile = p]]
  /\ UNCHANGED <<files, accounts, lock, loginVars, faults>>

AcquireByCapture(u) ==
  /\ LoopFree("worker")
  /\ At(u, "waiting") /\ LockFree(u)
  /\ SetLock(u, u)
  /\ Goto(u, "locked")
  /\ UNCHANGED <<files, accounts, loginVars, faults>>

(* After two awaits (check_url, Playwright), any of which may raise. *)
OpenByCapture(u) ==
  /\ LoopFree("worker")
  /\ At(u, "locked")
  /\ \/ Readable(u) /\ Goto(u, "open") /\ NoFault
     \/ Goto(u, "cleanup") /\ OpenRaises(u)
     \/ Goto(u, "cleanup") /\ NoFault
  /\ UNCHANGED <<files, accounts, lock, loginVars>>

(* The finally clause seals after a failed navigation too; only a browser  *)
(* that did not start skips it.                                            *)
CaptureEnds(u) ==
  /\ LoopFree("worker")
  /\ At(u, "open")
  /\ \/ BeginSeal(u)
     \/ Goto(u, "cleanup") /\ UNCHANGED files
  /\ UNCHANGED <<accounts, lock, loginVars, faults>>

(* Nothing bounds context.close() in a test or a capture, nor the start of *)
(* Playwright and pw.stop() in LoginManager.start.                         *)
Hangs(u) ==
  /\ At(u, "open") \/ At(u, "launching")
  /\ Fault("hang")
  /\ Goto(u, "hung")
  /\ UNCHANGED <<files, accounts, lock, loginVars>>

(* discard_profile, then the lock is given back. *)
Release(u) ==
  /\ InPlainCall(u) \/ LoopFree(Home(u))
  /\ At(u, "cleanup")
  /\ SetLock(u, "free")
  /\ user' = [user EXCEPT ![u] = NoUser]
  /\ Forget(u)
  /\ UNCHANGED <<files, accounts, manager, active, faults>>

-----------------------------------------------------------------------------
(* LoginManager.start.                                                     *)

StartLogin(u, p) ==
  /\ LoopFree("api")
  /\ At(u, "idle") /\ p \in accounts
  /\ user' = [user EXCEPT ![u] = [NoUser EXCEPT !.step = "queued", !.profile = p]]
  /\ UNCHANGED <<files, accounts, lock, loginVars, faults>>

(* async with self._lock; a login in progress raises LoginBusy. *)
EnterStart(u) ==
  /\ LoopFree("api")
  /\ At(u, "queued") /\ manager = "free"
  /\ IF active = "none"
     THEN manager' = u /\ Goto(u, "waiting")
     ELSE user' = [user EXCEPT ![u] = NoUser] /\ UNCHANGED manager
  /\ UNCHANGED <<files, accounts, lock, active, finish, deletion, faults>>

(* wait_for(profile_lock.acquire(), login_lock_wait_seconds): LoginBusy.   *)
LockTimesOut(u) ==
  /\ LoopFree("api")
  /\ u \in Logins /\ At(u, "waiting") /\ ~LockFree(u)
  /\ user' = [user EXCEPT ![u] = NoUser]
  /\ manager' = "free"
  /\ UNCHANGED <<files, accounts, lock, active, finish, deletion, faults>>

(* open_profile is called after the lock is taken and before the try that  *)
(* gives it back: if it raises, nobody ever does.                          *)
OpenByLogin(u) ==
  /\ LoopFree("api")
  /\ At(u, "waiting") /\ LockFree(u)
  /\ \/ /\ Readable(u)
        /\ SetLock(u, u) /\ Goto(u, "launching") /\ NoFault /\ UNCHANGED manager
     \/ /\ OpenRaises(u)
        /\ SetLock(u, "lost") /\ user' = [user EXCEPT ![u] = NoUser] /\ manager' = "free"
  /\ UNCHANGED <<files, accounts, active, finish, deletion>>

LoginOpens(u) ==
  /\ LoopFree("api")
  /\ At(u, "launching")
  /\ active' = u
  /\ manager' = "free"
  /\ Goto(u, "active")
  /\ UNCHANGED <<files, accounts, lock, finish, deletion, faults>>

(* The browser does not start, or the page is not reached.  pw.stop() is   *)
(* awaited first: if it raises, discard_profile and the release are        *)
(* skipped, and nobody is left to release the lock.                        *)
LoginFails(u) ==
  /\ LoopFree("api")
  /\ At(u, "launching")
  /\ \/ SetLock(u, "free") /\ NoFault
     \/ SetLock(u, "abandoned") /\ Fault("stop_error")
  /\ user' = [user EXCEPT ![u] = NoUser]
  /\ manager' = "free"
  /\ UNCHANGED <<files, accounts, active, finish, deletion>>

-----------------------------------------------------------------------------
(* LoginManager._teardown and its callers.                                 *)

(* Faulty variant: _active is not cleared before the first await. *)
TeardownKeepsActive(seal) ==
  /\ active # "none" => user' = [user EXCEPT ![active].step = "closing", ![active].seal = seal]
  /\ active = "none" => UNCHANGED user
  /\ UNCHANGED active

(* Up to its first await: whatever login is active now is closed, and the  *)
(* timer of that login is cancelled.                                       *)
Teardown(seal) ==
  /\ active # "none" => user' = [user EXCEPT ![active].step = "closing", ![active].seal = seal]
  /\ active = "none" => UNCHANGED user
  /\ active' = "none"

(* context.close(), awaited login_close_timeout_seconds at most. *)
BrowserClosed(u) ==
  /\ LoopFree("api")
  /\ At(u, "closing")
  /\ Goto(u, "stopping")
  /\ UNCHANGED <<files, accounts, lock, loginVars, faults>>

(* pw.stop(), awaited as long at most; then seal_profile if asked. *)
DriverStopped(u) ==
  /\ LoopFree("api")
  /\ At(u, "stopping")
  /\ IF user[u].seal THEN BeginSeal(u) ELSE Goto(u, "cleanup") /\ UNCHANGED files
  /\ UNCHANGED <<accounts, lock, loginVars, faults>>

(* The timer of the login calls cancel, and _teardown cancels the timer:   *)
(* the task it runs in.                                                    *)
AutoCancel(u) ==
  /\ LoopFree("api")
  /\ At(u, "active") /\ active = u
  /\ active' = "none"
  /\ Goto(u, "cancelled")
  /\ UNCHANGED <<files, accounts, lock, manager, finish, deletion, faults>>

(* So CancelledError leaves the first await for the finally clause: the    *)
(* browser is killed, Playwright is not stopped.                           *)
TimerCancelled(u) ==
  /\ LoopFree("api")
  /\ At(u, "cancelled")
  /\ Goto(u, "cleanup")
  /\ UNCHANGED <<files, accounts, lock, loginVars, faults>>

CancelLogin ==
  /\ LoopFree("api")
  /\ active # "none"
  /\ Teardown(FALSE)
  /\ UNCHANGED <<files, accounts, lock, manager, finish, deletion, faults>>

(* finish(account_id): the active login's own account. *)
StartFinish(f) ==
  /\ LoopFree("api")
  /\ finish[f].step = "idle" /\ active # "none"
  /\ finish' = [finish EXCEPT ![f] = [step |-> "cookies", login |-> active]]
  /\ UNCHANGED <<files, accounts, lock, user, manager, active, deletion, faults>>

(* A browser being closed may still answer. *)
Answers(f) ==
  finish[f].login \in Logins /\ user[finish[f].login].step \in {"active", "closing", "stopping"}

(* sess.context.cookies(): without the session cookies nothing is sealed.  *)
CookiesRead(f) ==
  /\ LoopFree("api")
  /\ finish[f].step = "cookies" /\ Answers(f)
  /\ \/ /\ finish' = [finish EXCEPT ![f].step = "state"]
        /\ UNCHANGED <<user, active>>
     \/ /\ finish' = [finish EXCEPT ![f] = NoFinish]
        /\ Teardown(FALSE)
  /\ UNCHANGED <<files, accounts, lock, manager, deletion, faults>>

(* sess.context.storage_state(); then the login active by now is closed    *)
(* and sealed.                                                             *)
StateRead(f) ==
  /\ LoopFree("api")
  /\ finish[f].step = "state" /\ Answers(f)
  /\ finish' = [finish EXCEPT ![f] = NoFinish]
  /\ Teardown(TRUE)
  /\ UNCHANGED <<files, accounts, lock, manager, deletion, faults>>

FinishRaises(f) ==
  /\ LoopFree("api")
  /\ finish[f].step # "idle"
  /\ finish' = [finish EXCEPT ![f] = NoFinish]
  /\ UNCHANGED <<files, accounts, lock, user, manager, active, deletion, faults>>

-----------------------------------------------------------------------------
(* delete_account.                                                         *)

(* The vault is unlinked without the profile's lock, then the account's    *)
(* row is deleted.                                                         *)
Unlink(p) ==
  /\ vault' = [vault EXCEPT ![p] = "absent"]
  /\ accounts' = accounts \ {p}
  /\ user' = [v \in Users |->
                IF HasCopy(v) /\ user[v].profile = p
                THEN [user[v] EXCEPT !.overtaken = @ \cup {"delete"}] ELSE user[v]]
  /\ UNCHANGED <<tmp, clashed, lock, manager, finish, faults>>

DeleteAccount(p) ==
  /\ LoopFree("api")
  /\ deletion = NoDeletion /\ p \in accounts
  /\ active # "none" => user[active].profile # p
  /\ Unlink(p)
  /\ UNCHANGED <<active, deletion>>

(* A login of the account is cancelled first and awaited... *)
CancelThenDelete(p) ==
  /\ LoopFree("api")
  /\ deletion = NoDeletion /\ p \in accounts
  /\ active # "none" /\ user[active].profile = p
  /\ Teardown(FALSE)
  /\ deletion' = [profile |-> p, login |-> active]
  /\ UNCHANGED <<files, accounts, lock, manager, finish, faults>>

(* ... and the account deleted once the login is over. *)
ResumeDelete ==
  /\ LoopFree("api")
  /\ deletion.login = "gone"
  /\ Unlink(deletion.profile)
  /\ deletion' = NoDeletion
  /\ UNCHANGED active

-----------------------------------------------------------------------------
(* A process is killed: its locks and copies go with it. *)
Crash(q) ==
  /\ Fault("crash")
  /\ \E u \in Users : Home(u) = q /\ ~At(u, "idle")
  /\ user' = [u \in Users |-> IF Home(u) = q THEN NoUser ELSE user[u]]
  /\ lock' = [lock EXCEPT ![q] = [p \in Profiles |-> "free"]]
  /\ IF q = "api"
     THEN /\ manager' = "free"
          /\ active' = "none"
          /\ finish' = [f \in Finishers |-> NoFinish]
          /\ deletion' = NoDeletion
     ELSE UNCHANGED loginVars
  /\ UNCHANGED <<files, accounts>>

SealStep(u) == FinishWrite(u) \/ Replace(u)

LoginStep(u) ==
  \/ EnterStart(u)
  \/ LockTimesOut(u)
  \/ OpenByLogin(u)
  \/ LoginOpens(u)
  \/ LoginFails(u)
  \/ BrowserClosed(u)
  \/ DriverStopped(u)
  \/ AutoCancel(u)
  \/ TimerCancelled(u)

CheckStep(u) == OpenByCheck(u) \/ CheckEnds(u)

CaptureStep(u) == AcquireByCapture(u) \/ OpenByCapture(u) \/ CaptureEnds(u)

UserStep(u) ==
  \/ u \in Logins /\ LoginStep(u)
  \/ u \in Checks /\ CheckStep(u)
  \/ u \in Captures /\ CaptureStep(u)
  \/ SealStep(u)
  \/ Release(u)

FinishStep(f) == CookiesRead(f) \/ StateRead(f) \/ FinishRaises(f)

Requests ==
  \/ \E u \in Logins, p \in Profiles : StartLogin(u, p)
  \/ \E u \in Checks, p \in Profiles : StartCheck(u, p)
  \/ \E u \in Captures, p \in Profiles : StartCapture(u, p)
  \/ \E f \in Finishers : StartFinish(f)
  \/ \E p \in Profiles : DeleteAccount(p) \/ CancelThenDelete(p)
  \/ CancelLogin

Failures ==
  \/ \E u \in Users : SealFails(u) \/ Hangs(u)
  \/ \E q \in Processes : Crash(q)

Next ==
  \/ Requests
  \/ \E u \in Users : UserStep(u)
  \/ \E f \in Finishers : FinishStep(f)
  \/ ResumeDelete
  \/ Failures

(* Every coroutine that can go on does, and the timer of a login fires. *)
Fairness ==
  /\ \A u \in Users : WF_vars(UserStep(u))
  /\ WF_vars(ResumeDelete)

Spec == Init /\ [][Next]_vars
FairSpec == Spec /\ Fairness

-----------------------------------------------------------------------------
(* Properties.                                                             *)

(* Every variable keeps its type. *)
TypeOK ==
  /\ vault \in [Profiles -> {"absent", "sealed", "partial"}]
  /\ tmp \in [Profiles -> {"absent", "whole", "partial"}]
  /\ clashed \subseteq Profiles
  /\ accounts \subseteq Profiles
  /\ lock \in [Processes -> [Profiles -> {"free", "lost", "abandoned"} \cup Users]]
  /\ user \in [Users -> User]
  /\ manager \in {"free"} \cup Logins
  /\ active \in {"none"} \cup Logins
  /\ finish \in [Finishers -> Finish]
  /\ deletion \in Deletion
  /\ faults \in Nat

(* profile_lock.py, "Un coffre Chromium ne peut etre ouvert que par une    *)
(* operation a la fois. Les verrous restent locaux au processus": two      *)
(* users of one process never have a copy of the same profile.             *)
ExclusiveInProcess ==
  \A u, v \in Users :
    HasCopy(u) /\ HasCopy(v) /\ Home(u) = Home(v) /\ user[u].profile = user[v].profile => u = v

(* So a copy about to be sealed is never older than what another operation *)
(* of its process has sealed: no renewed session is overwritten by a stale *)
(* one, except from the other process or after a deletion.                 *)
NoSessionIsOverwritten ==
  \A u \in Users : Home(u) \notin user[u].overtaken

(* Why: a lock has one holder, which has the profile, and a login that     *)
(* holds a lock is at one place of LoginManager.                           *)
LocksMatchHolders ==
  /\ \A u \in Users :
       /\ ~At(u, "idle") => user[u].profile \in Profiles
       /\ Holding(u) => lock[Home(u)][user[u].profile] = u
  /\ \A q \in Processes, p \in Profiles :
       lock[q][p] \in Users =>
         Home(lock[q][p]) = q /\ Holding(lock[q][p]) /\ user[lock[q][p]].profile = p

StepsOfUsers ==
  /\ \A u \in Logins : user[u].step \notin {"locked", "open"}
  /\ \A u \in Checks \cup Captures :
       user[u].step \in
         {"idle", "waiting", "locked", "open", "writing", "written", "cleanup", "hung"}

OneLoginAtATime ==
  /\ \A u \in Logins : user[u].step \in {"waiting", "launching", "hung"} <=> manager = u
  /\ \A u \in Logins : At(u, "active") <=> active = u
  /\ manager # "free" => active = "none"

(* A seal nobody disturbs publishes a whole archive. *)
SealsAreAlone ==
  /\ \A u, v \in Users :
       Sealing(u) /\ Sealing(v) /\ user[u].profile = user[v].profile /\ u # v =>
         user[u].profile \in clashed
  /\ \A u \in Users :
       At(u, "written") /\ user[u].profile \notin clashed => tmp[user[u].profile] = "whole"

VaultInvariant ==
  /\ TypeOK
  /\ ExclusiveInProcess
  /\ NoSessionIsOverwritten
  /\ LocksMatchHolders
  /\ StepsOfUsers
  /\ OneLoginAtATime
  /\ SealsAreAlone

(* seal_profile, "ecriture atomique": whatever crashes or fails, a vault   *)
(* is never replaced by a broken one, unless the two processes seal the    *)
(* profile at the same time.                                               *)
VaultSurvives ==
  [][\A p \in Profiles :
       vault[p] # "partial" /\ vault'[p] = "partial" => p \in clashed]_vars

(* test_login_verrou.py: the lock of a profile is given back, even if the  *)
(* browser of a login never closes, its user leaves or its seal fails.     *)
(* Not so if a browser that is not bounded hangs, nor if the driver of a   *)
(* login that could not open raises as it is stopped.                      *)
ProfilesAreFreed ==
  \A u \in Users, p \in Profiles :
    lock[Home(u)][p] = u ~> lock[Home(u)][p] \in {"free", "abandoned"} \/ At(u, "hung")

(* README.md, "Un verrou propre a chaque profil empeche une capture, un    *)
(* test de session et une connexion noVNC d'ouvrir le meme coffre au meme  *)
(* moment".                                                                *)
OneOpenerPerProfile ==
  \A u, v \in Users :
    HasCopy(u) /\ HasCopy(v) /\ user[u].profile = user[v].profile => u = v

(* LoginManager, "Pilote UN navigateur de connexion visible a la fois      *)
(* (ecran :99 unique)".                                                    *)
OneVisibleBrowser ==
  \A u, v \in Logins :
    user[u].step \in {"active", "closing"} /\ user[v].step \in {"active", "closing"} => u = v
==============================================================================
