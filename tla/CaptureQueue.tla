----------------------------- MODULE CaptureQueue -----------------------------
(***************************************************************************)
(* The distributed execution of captures (QUEUE_BACKEND=redis):            *)
(*   - the API process runs trigger_target (services/runner.py) in several *)
(*     coroutines, the Callers; each await is a step boundary;             *)
(*   - Redis keeps one lock per target, the list of messages and the list  *)
(*     of messages being processed (services/run_queue.py);                *)
(*   - the database keeps the status of the runs;                          *)
(*   - one worker process (worker.py) recovers, dequeues, executes,        *)
(*     acknowledges and releases.                                          *)
(* Both processes may crash at any step; Redis and the database may refuse *)
(* a command or execute it and lose the reply.  A capture in the worker is *)
(* one step here: its attempts are not told apart.  All the runs are of    *)
(* the same local day, the day per_day deduplication compares.             *)
(***************************************************************************)
EXTENDS Naturals, FiniteSets, SequencesExt

CONSTANTS
  Targets,      \* targets of the installation
  Deletable,    \* the targets an administrator may delete
  RunIds,       \* identifiers of the runs table; bounds the runs created
  Callers,      \* concurrent coroutines of the API inside trigger_target
  FaultKinds,   \* the kinds of failure that may happen
  MaxFaults     \* how many failures may happen in a behaviour

(* The failures the lock protocol survives: at most a lock or a run is     *)
(* left behind, never two live runs on a target.                           *)
ToleratedFaults ==
  { "worker_crash",     \* the worker container is killed or loses Redis
    "api_crash",        \* the API process is killed
    "reserve_lost",     \* SET NX executed, reply lost
    "create_error",     \* the INSERT of the run fails
    "enqueue_refused",  \* MULTI not executed
    "release_refused",  \* DEL not executed
    "dequeue_lost" }    \* BRPOPLPUSH executed, reply lost

(* The failures it does not survive. *)
BreakingFaults ==
  { "enqueue_lost",     \* MULTI executed, reply lost
    "fail_lost",        \* DEL executed, but the run is never marked failed
    "escape",           \* an exception leaves execute_run
    "lock_expiry",      \* a lock outlives WORKER_LOCK_TTL_SECONDS
    "startup_race" }    \* the worker starts during a trigger

ASSUME FaultAssumption ==
  /\ FaultKinds \subseteq ToleratedFaults \cup BreakingFaults
  /\ MaxFaults \in Nat

ASSUME NameAssumption ==
  /\ Deletable \subseteq Targets
  /\ {"free", "reserved", "none"} \cap RunIds = {}
  /\ "none" \notin Targets

VARIABLES
  status,       \* database: status of each run
  owner,        \* database: target of each run
  targets,      \* database: the targets that exist
  lock,         \* Redis: lock of each target, "free", "reserved" or a run
  queue,        \* Redis: the list QUEUE_NAME, head first
  processing,   \* Redis: the list QUEUE_NAME:processing, head first
  call,         \* API: where each coroutine of trigger_target is
  worker,       \* worker: its program counter
  held,         \* worker: the message or orphan it is dealing with
  snapshot,     \* worker at startup: the run ids found in the lists
  orphans,      \* worker at startup: the runs still to be readmitted
  interrupted,  \* worker at startup: the orphans read with status running
  faults        \* failures so far

dbVars == <<status, owner, targets>>
redisVars == <<lock, queue, processing>>
workerVars == <<worker, held, snapshot, orphans, interrupted>>
vars == <<dbVars, redisVars, call, workerVars, faults>>

LiveStatus == {"pending", "running"}
SettledStatus == {"success", "failed", "skipped", "suspended"}
RunStatus == {"none", "deleted"} \cup LiveStatus \cup SettledStatus

Message == [run : RunIds, target : Targets, force : BOOLEAN]
NoMessage == [run |-> "none", target |-> "none", force |-> FALSE]

CallSteps == {"idle", "reserve", "create", "enqueue", "release", "fail"}
Call == [step : CallSteps, run : RunIds \cup {"none"},
         target : Targets \cup {"none"}, force : BOOLEAN]
NoCall == [step |-> "idle", run |-> "none", target |-> "none", force |-> FALSE]

WorkerSteps ==
  { "down", "recover", "select", "readmit", "relock", "repush",
    "idle", "check", "start", "running", "ack", "release" }

IsLive(r) == status[r] \in LiveStatus

(* The messages Redis has, waiting or being processed. *)
Messages == ToSet(queue) \cup ToSet(processing)

HasMessage(r) == \E m \in Messages : m.run = r

(* find_existing_success(session, t, today), r itself excepted. *)
OtherSuccess(t, r) ==
  \E s \in RunIds \ {r} : status[s] = "success" /\ owner[s] = t

Fault(kind) ==
  /\ kind \in FaultKinds
  /\ faults < MaxFaults
  /\ faults' = faults + 1

NoFault == UNCHANGED faults

At(c, step) == call[c].step = step

Goto(c, step) == call' = [call EXCEPT ![c].step = step]

Leave(c) == call' = [call EXCEPT ![c] = NoCall]

Init ==
  /\ status = [r \in RunIds |-> "none"]
  /\ owner = [r \in RunIds |-> "none"]
  /\ targets = Targets
  /\ lock = [t \in Targets |-> "free"]
  /\ queue = <<>>
  /\ processing = <<>>
  /\ call = [c \in Callers |-> NoCall]
  /\ worker = "down"
  /\ held = NoMessage
  /\ snapshot = {}
  /\ orphans = {}
  /\ interrupted = {}
  /\ faults = 0

-----------------------------------------------------------------------------
(* The API: trigger_target and delete_target.                              *)

(* The identifiers the bound leaves for the callers already inside. *)
RoomForARun ==
  Cardinality({c \in Callers : ~At(c, "idle")})
    < Cardinality({r \in RunIds : status[r] = "none"})

(* trigger_target up to its first await: the target exists and, unless     *)
(* forced, has no successful run today.                                    *)
Trigger(c, t, force) ==
  /\ At(c, "idle") /\ RoomForARun
  /\ t \in targets
  /\ force \/ ~OtherSuccess(t, "none")
  /\ call' = [call EXCEPT ![c] =
                [step |-> "reserve", run |-> "none", target |-> t, force |-> force]]
  /\ UNCHANGED <<dbVars, redisVars, workerVars, faults>>

(* Faulty variant: SET without NX. *)
ReserveWithoutNX(c) ==
  /\ At(c, "reserve")
  /\ Goto(c, "create") /\ lock' = [lock EXCEPT ![call[c].target] = "reserved"]
  /\ UNCHANGED <<dbVars, queue, processing, workerVars, faults>>

(* reserve_target: SET lock "reserved" NX EX. *)
Reserve(c) ==
  LET t == call[c].target IN
  /\ At(c, "reserve")
  /\ \/ lock[t] # "free" /\ Leave(c) /\ UNCHANGED lock
     \/ lock[t] = "free" /\ Goto(c, "create") /\ lock' = [lock EXCEPT ![t] = "reserved"]
  /\ UNCHANGED <<dbVars, queue, processing, workerVars, faults>>

(* The reservation is made but the reply is lost: nobody undoes it. *)
ReserveLost(c) ==
  LET t == call[c].target IN
  /\ At(c, "reserve") /\ lock[t] = "free"
  /\ Fault("reserve_lost")
  /\ lock' = [lock EXCEPT ![t] = "reserved"]
  /\ Leave(c)
  /\ UNCHANGED <<dbVars, queue, processing, workerVars>>

(* create_run commits a pending run. *)
Create(c, r) ==
  LET t == call[c].target IN
  /\ At(c, "create")
  /\ t \in targets /\ status[r] = "none"
  /\ status' = [status EXCEPT ![r] = "pending"]
  /\ owner' = [owner EXCEPT ![r] = t]
  /\ call' = [call EXCEPT ![c].step = "enqueue", ![c].run = r]
  /\ UNCHANGED <<targets, redisVars, workerVars, faults>>

(* The INSERT fails (deleted target, idempotency key of the same second,   *)
(* database error): the exception leaves trigger_target, which does not    *)
(* give the reservation back.                                              *)
CreateFails(c) ==
  /\ At(c, "create")
  /\ \/ call[c].target \notin targets /\ NoFault
     \/ call[c].target \in targets /\ Fault("create_error")
  /\ Leave(c)
  /\ UNCHANGED <<dbVars, redisVars, workerVars>>

(* enqueue: MULTI; SET lock run XX; RPUSH; EXEC.  RPUSH happens whether or *)
(* not the lock was still there.                                           *)
PushedBy(c) ==
  LET t == call[c].target
      m == [run |-> call[c].run, target |-> t, force |-> call[c].force]
  IN /\ lock' = IF lock[t] = "free" THEN lock ELSE [lock EXCEPT ![t] = m.run]
     /\ queue' = Append(queue, m)
     /\ UNCHANGED processing

(* A lock found missing raises after the push. *)
Enqueue(c) ==
  /\ At(c, "enqueue")
  /\ PushedBy(c)
  /\ IF lock[call[c].target] = "free" THEN Goto(c, "release") ELSE Leave(c)
  /\ UNCHANGED <<dbVars, workerVars, faults>>

EnqueueLost(c) ==
  /\ At(c, "enqueue")
  /\ Fault("enqueue_lost")
  /\ PushedBy(c)
  /\ Goto(c, "release")
  /\ UNCHANGED <<dbVars, workerVars>>

EnqueueRefused(c) ==
  /\ At(c, "enqueue")
  /\ Fault("enqueue_refused")
  /\ Goto(c, "release")
  /\ UNCHANGED <<dbVars, redisVars, workerVars>>

(* The except clause: release_target(target_id) deletes the lock, whoever  *)
(* it belongs to.                                                          *)
ReleaseReservation(c) ==
  /\ At(c, "release")
  /\ lock' = [lock EXCEPT ![call[c].target] = "free"]
  /\ Goto(c, "fail")
  /\ UNCHANGED <<dbVars, queue, processing, workerVars, faults>>

(* Redis is still down: the exception skips the update of the run. *)
ReleaseRefused(c) ==
  /\ At(c, "release")
  /\ Fault("release_refused")
  /\ Leave(c)
  /\ UNCHANGED <<dbVars, redisVars, workerVars>>

(* failed.status = failed, whatever the status was; a deleted run is left. *)
MarkFailed(c) ==
  LET r == call[c].run IN
  /\ At(c, "fail")
  /\ status' = IF status[r] = "deleted" THEN status ELSE [status EXCEPT ![r] = "failed"]
  /\ Leave(c)
  /\ UNCHANGED <<owner, targets, redisVars, workerVars, faults>>

(* The update itself is lost, by a database error. *)
MarkFailedLost(c) ==
  /\ At(c, "fail")
  /\ Fault("fail_lost")
  /\ Leave(c)
  /\ UNCHANGED <<dbVars, redisVars, workerVars>>

(* Every coroutine is lost; mark_interrupted_runs does nothing in redis    *)
(* mode.  A crash just before MarkFailed is counted as "fail_lost".        *)
ApiCrash ==
  /\ Fault("api_crash")
  /\ \E c \in Callers : ~At(c, "idle")
  /\ "fail_lost" \in FaultKinds \/ \A c \in Callers : ~At(c, "fail")
  /\ call' = [c \in Callers |-> NoCall]
  /\ UNCHANGED <<dbVars, redisVars, workerVars>>

(* DELETE /targets/{id}: the runs go with the target (ON DELETE CASCADE);  *)
(* neither the lock nor the messages are touched.                          *)
DeleteTarget(t) ==
  /\ t \in targets \cap Deletable
  /\ targets' = targets \ {t}
  /\ status' = [r \in RunIds |-> IF owner[r] = t THEN "deleted" ELSE status[r]]
  /\ UNCHANGED <<owner, redisVars, call, workerVars, faults>>

(* Redis drops a lock WORKER_LOCK_TTL_SECONDS after it was last set. *)
LockExpires(t) ==
  /\ lock[t] # "free"
  /\ Fault("lock_expiry")
  /\ lock' = [lock EXCEPT ![t] = "free"]
  /\ UNCHANGED <<dbVars, queue, processing, call, workerVars>>

-----------------------------------------------------------------------------
(* The worker at startup: everything main() does before its loop.          *)

WorkerStarts ==
  /\ worker = "down"
  /\ worker' = "recover"
  /\ UNCHANGED <<dbVars, redisVars, call, held, snapshot, orphans, interrupted, faults>>

(* recover_processing, one RPOPLPUSH: from the tail of processing to the   *)
(* head of the queue.                                                      *)
RecoverOne ==
  /\ worker = "recover" /\ processing # <<>>
  /\ queue' = Cons(Last(processing), queue)
  /\ processing' = Front(processing)
  /\ UNCHANGED <<dbVars, lock, call, workerVars, faults>>

(* Faulty variant: the lists are read before processing is emptied. *)
TakeSnapshotEarly ==
  /\ worker = "recover"
  /\ snapshot' = {m.run : m \in Messages}
  /\ worker' = "select"
  /\ UNCHANGED <<dbVars, redisVars, call, held, orphans, interrupted, faults>>

(* processing is empty; queued_run_ids reads both lists. *)
TakeSnapshot ==
  /\ worker = "recover" /\ processing = <<>>
  /\ snapshot' = {m.run : m \in Messages}
  /\ worker' = "select"
  /\ UNCHANGED <<dbVars, redisVars, call, held, orphans, interrupted, faults>>

(* No trigger holds a run it has committed and not yet queued. *)
NoTriggerUnderway == \A c \in Callers : call[c].step \notin {"enqueue", "release", "fail"}

(* Faulty variant: only the pending runs are taken for orphans. *)
SelectPendingOrphans ==
  /\ worker = "select"
  /\ orphans' = {r \in RunIds : status[r] = "pending"} \ snapshot
  /\ interrupted' = {}
  /\ snapshot' = {}
  /\ worker' = "readmit"
  /\ UNCHANGED <<dbVars, redisVars, call, held, faults>>

(* The SELECT of the pending and running runs; those of the snapshot are   *)
(* left alone.                                                             *)
SelectOrphans ==
  /\ worker = "select"
  /\ "startup_race" \in FaultKinds \/ NoTriggerUnderway
  /\ orphans' = {r \in RunIds : IsLive(r)} \ snapshot
  /\ interrupted' = {r \in RunIds : status[r] = "running"} \ snapshot
  /\ snapshot' = {}
  /\ worker' = "readmit"
  /\ UNCHANGED <<dbVars, redisVars, call, held, faults>>

(* enqueue_recovered reads the lists again and leaves a queued run alone.  *)
SkipQueuedOrphan(r) ==
  /\ worker = "readmit" /\ r \in orphans
  /\ HasMessage(r)
  /\ orphans' = orphans \ {r}
  /\ UNCHANGED <<dbVars, redisVars, call, worker, held, snapshot, interrupted, faults>>

ReadmitOrphan(r) ==
  /\ worker = "readmit" /\ r \in orphans
  /\ ~HasMessage(r)
  /\ held' = [run |-> r, target |-> owner[r], force |-> FALSE]
  /\ worker' = "relock"
  /\ UNCHANGED <<dbVars, redisVars, call, snapshot, orphans, interrupted, faults>>

(* Faulty variant: the lock is set to the wrong identifier. *)
RelockWithTarget ==
  /\ worker = "relock"
  /\ lock' = [lock EXCEPT ![held.target] = held.target]
  /\ worker' = "repush"
  /\ UNCHANGED <<dbVars, queue, processing, call, held, snapshot, orphans, interrupted, faults>>

(* Faulty variant: a reservation left behind is kept as it is. *)
RelockIfFree ==
  /\ worker = "relock"
  /\ lock' = IF lock[held.target] = "free"
             THEN [lock EXCEPT ![held.target] = held.run] ELSE lock
  /\ worker' = "repush"
  /\ UNCHANGED <<dbVars, queue, processing, call, held, snapshot, orphans, interrupted, faults>>

(* SET lock run EX, without NX: any other holder is overwritten. *)
RelockOrphan ==
  /\ worker = "relock"
  /\ lock' = [lock EXCEPT ![held.target] = held.run]
  /\ worker' = "repush"
  /\ UNCHANGED <<dbVars, queue, processing, call, held, snapshot, orphans, interrupted, faults>>

PushOrphan ==
  /\ worker = "repush"
  /\ queue' = Append(queue, held)
  /\ orphans' = orphans \ {held.run}
  /\ held' = NoMessage
  /\ worker' = "readmit"
  /\ UNCHANGED <<dbVars, lock, processing, call, snapshot, interrupted, faults>>

(* session_scope commits run.status = pending: an UPDATE of the rows read  *)
(* as running only.  A row deleted meanwhile makes the commit raise and    *)
(* main() exit.                                                            *)
CommitOrphans ==
  /\ worker = "readmit" /\ orphans = {}
  /\ IF \E r \in interrupted : status[r] = "deleted"
     THEN worker' = "down" /\ UNCHANGED status
     ELSE /\ worker' = "idle"
          /\ status' = [r \in RunIds |-> IF r \in interrupted THEN "pending" ELSE status[r]]
  /\ interrupted' = {}
  /\ UNCHANGED <<owner, targets, redisVars, call, held, snapshot, orphans, faults>>

-----------------------------------------------------------------------------
(* The worker's loop.                                                      *)

(* Faulty variant: BRPOP, the message leaves Redis before it is treated.   *)
PopWithoutProcessing ==
  /\ worker = "idle" /\ queue # <<>>
  /\ queue' = Front(queue)
  /\ UNCHANGED <<lock, processing>>

(* BRPOPLPUSH: from the tail of the queue, where RPUSH also puts, to the   *)
(* head of processing.                                                     *)
PopToProcessing ==
  /\ worker = "idle" /\ queue # <<>>
  /\ processing' = Cons(Last(queue), processing)
  /\ queue' = Front(queue)
  /\ UNCHANGED lock

Dequeue ==
  /\ PopToProcessing
  /\ held' = Last(queue)
  /\ worker' = "check"
  /\ UNCHANGED <<dbVars, call, snapshot, orphans, interrupted, faults>>

(* dequeue takes the lost reply for an empty queue. *)
DequeueLost ==
  /\ PopToProcessing
  /\ Fault("dequeue_lost")
  /\ UNCHANGED <<dbVars, call, workerVars>>

(* Faulty variant: every message is executed. *)
CheckNothing ==
  /\ worker = "check"
  /\ worker' = "start"
  /\ UNCHANGED <<dbVars, redisVars, call, held, snapshot, orphans, interrupted, faults>>

(* A run that is absent, or neither pending nor running, is ignored. *)
CheckStatus ==
  /\ worker = "check"
  /\ worker' = IF IsLive(held.run) THEN "start" ELSE "ack"
  /\ UNCHANGED <<dbVars, redisVars, call, held, snapshot, orphans, interrupted, faults>>

(* execute_run opens a session of its own, which may not find the run any  *)
(* more, and commits status running.                                       *)
StartRun ==
  LET r == held.run IN
  /\ worker = "start"
  /\ IF status[r] = "deleted"
     THEN worker' = "ack" /\ UNCHANGED status
     ELSE worker' = "running" /\ status' = [status EXCEPT ![r] = "running"]
  /\ UNCHANGED <<owner, targets, redisVars, call, held, snapshot, orphans, interrupted, faults>>

(* The outcomes execute_run may commit for the message m: "skipped" when   *)
(* an unforced run finds today's success, an attempt's outcome otherwise.  *)
Outcomes(m) ==
  IF ~m.force /\ OtherSuccess(m.target, m.run)
  THEN {"skipped"}
  ELSE {"success", "failed", "suspended"}

FinishRun(outcome) ==
  /\ worker = "running" /\ status[held.run] # "deleted"
  /\ outcome \in Outcomes(held)
  /\ status' = [status EXCEPT ![held.run] = outcome]
  /\ worker' = "ack"
  /\ UNCHANGED <<owner, targets, redisVars, call, held, snapshot, orphans, interrupted, faults>>

(* An exception leaves execute_run with the status still running: the row  *)
(* is gone, or the database failed inside the error handler.               *)
EscapeRun ==
  /\ worker = "running"
  /\ \/ status[held.run] = "deleted" /\ NoFault
     \/ status[held.run] # "deleted" /\ Fault("escape")
  /\ worker' = "ack"
  /\ UNCHANGED <<dbVars, redisVars, call, held, snapshot, orphans, interrupted>>

(* The finally clause: acknowledge (LREM processing 1 payload)... *)
Acknowledge ==
  /\ worker = "ack"
  /\ processing' = RemoveFirst(processing, held)
  /\ worker' = "release"
  /\ UNCHANGED <<dbVars, lock, queue, call, held, snapshot, orphans, interrupted, faults>>

(* Faulty variant: the lock is compared with the target. *)
ReleaseByTarget ==
  LET t == held.target IN
  /\ worker = "release"
  /\ lock' = IF lock[t] = t THEN [lock EXCEPT ![t] = "free"] ELSE lock
  /\ held' = NoMessage
  /\ worker' = "idle"
  /\ UNCHANGED <<dbVars, queue, processing, call, snapshot, orphans, interrupted, faults>>

(* ... then release_target(target, run): the lock goes only if it is the   *)
(* run's own.                                                              *)
ReleaseRun ==
  LET t == held.target IN
  /\ worker = "release"
  /\ lock' = IF lock[t] = held.run THEN [lock EXCEPT ![t] = "free"] ELSE lock
  /\ held' = NoMessage
  /\ worker' = "idle"
  /\ UNCHANGED <<dbVars, queue, processing, call, snapshot, orphans, interrupted, faults>>

(* Killed, stopped, or leaving main() by a Redis error: what it knew is    *)
(* lost, what the database and Redis hold is not.                          *)
WorkerCrash ==
  /\ worker # "down"
  /\ Fault("worker_crash")
  /\ worker' = "down"
  /\ held' = NoMessage
  /\ snapshot' = {}
  /\ orphans' = {}
  /\ interrupted' = {}
  /\ UNCHANGED <<dbVars, redisVars, call>>

-----------------------------------------------------------------------------
ApiStep(c) ==
  \/ Reserve(c)
  \/ \E r \in RunIds : Create(c, r)
  \/ CreateFails(c)
  \/ Enqueue(c)
  \/ ReleaseReservation(c)
  \/ MarkFailed(c)

ApiFault(c) ==
  \/ ReserveLost(c)
  \/ EnqueueLost(c)
  \/ EnqueueRefused(c)
  \/ ReleaseRefused(c)
  \/ MarkFailedLost(c)

StartupStep ==
  \/ WorkerStarts
  \/ RecoverOne
  \/ TakeSnapshot
  \/ SelectOrphans
  \/ \E r \in RunIds : SkipQueuedOrphan(r) \/ ReadmitOrphan(r)
  \/ RelockOrphan
  \/ PushOrphan
  \/ CommitOrphans

LoopStep ==
  \/ Dequeue
  \/ CheckStatus
  \/ StartRun
  \/ \E s \in SettledStatus : FinishRun(s)
  \/ EscapeRun
  \/ Acknowledge
  \/ ReleaseRun

Next ==
  \/ \E c \in Callers, t \in Targets, force \in BOOLEAN : Trigger(c, t, force)
  \/ \E c \in Callers : ApiStep(c) \/ ApiFault(c)
  \/ ApiCrash
  \/ \E t \in Targets : DeleteTarget(t) \/ LockExpires(t)
  \/ StartupStep
  \/ LoopStep
  \/ DequeueLost
  \/ WorkerCrash

(* A started trigger goes on and the worker container is restarted unless  *)
(* stopped; nobody has to trigger a capture or delete a target.            *)
Fairness ==
  /\ \A c \in Callers : WF_vars(ApiStep(c))
  /\ WF_vars(StartupStep)
  /\ WF_vars(LoopStep)

Spec == Init /\ [][Next]_vars
FairSpec == Spec /\ Fairness
-----------------------------------------------------------------------------
(* Properties.                                                             *)

(* Every variable keeps its type. *)
TypeOK ==
  /\ status \in [RunIds -> RunStatus]
  /\ owner \in [RunIds -> Targets \cup {"none"}]
  /\ targets \subseteq Targets
  /\ lock \in [Targets -> {"free", "reserved"} \cup RunIds]
  /\ queue \in Seq(Message)
  /\ processing \in Seq(Message)
  /\ call \in [Callers -> Call]
  /\ worker \in WorkerSteps
  /\ held \in Message \cup {NoMessage}
  /\ snapshot \subseteq RunIds
  /\ orphans \subseteq RunIds
  /\ interrupted \subseteq RunIds
  /\ faults \in Nat

(* A run that is somewhere, in the table, in a message, in a coroutine or  *)
(* in the worker, is a row with a target.                                  *)
Known(r) == owner[r] \in Targets

RunsHaveTargets ==
  /\ \A r \in RunIds : status[r] # "none" => Known(r)
  /\ \A m \in Messages : Known(m.run)
  /\ \A r \in orphans \cup interrupted : Known(r)
  /\ \A c \in Callers : ~At(c, "idle") => call[c].target \in Targets
  /\ \A c \in Callers : call[c].step \in {"enqueue", "release", "fail"} =>
       call[c].run \in RunIds /\ Known(call[c].run)
  /\ worker \notin {"down", "recover", "select", "readmit", "idle"} =>
       held \in Message /\ Known(held.run)

(* The starting worker loses sight of no running run: each has a message   *)
(* or is still to be readmitted.                                           *)
RunningRunsAreFound ==
  /\ worker = "select" => \A r \in snapshot : HasMessage(r)
  /\ worker \in {"readmit", "relock", "repush"} =>
       \A r \in RunIds : status[r] = "running" => r \in orphans \/ HasMessage(r)

(* What holds whatever fails: the inductive invariant of the properties of *)
(* this section.                                                           *)
FaultInvariant == TypeOK /\ RunsHaveTargets /\ RunningRunsAreFound

(* README.md, "Liste processing separee": whatever fails, a message leaves *)
(* Redis only when the worker that holds it acknowledges it.               *)
MessagesSurvive ==
  [][\A r \in RunIds :
       HasMessage(r) /\ ~HasMessage(r)' => worker = "ack" /\ held.run = r]_vars

(* When main() enters its loop, whatever failed before and whatever the    *)
(* API does meanwhile, every run in state running has its message again:   *)
(* no capture stays "running" for ever after a restart of the worker.      *)
RecoveryIsComplete ==
  [][worker = "readmit" /\ worker' = "idle" =>
       \A r \in RunIds : status[r] = "running" => HasMessage(r)]_vars

-----------------------------------------------------------------------------
(* What holds as long as only ToleratedFaults happen.                      *)

(* The runs whose coroutine is about to mark them failed: the lock is      *)
(* already given back, the outcome is decided and only not written yet.    *)
Failing == {call[c].run : c \in {d \in Callers : At(d, "fail")}}

ActiveRuns == {r \in RunIds : IsLive(r)} \ Failing

(* "Une execution est deja en cours ou en attente pour cette cible":       *)
(* trigger_target never lets a second live run exist on a target.          *)
OneActiveRunPerTarget ==
  \A r1, r2 \in ActiveRuns : owner[r1] = owner[r2] => r1 = r2

(* The table of runs as RunLedger sees it. *)
ledgerStatus ==
  [r \in RunIds |-> IF IsLive(r) /\ r \in Failing THEN "failed" ELSE status[r]]

Ledger == INSTANCE RunLedger WITH status <- ledgerStatus

(* The queue implements the ledger: a trigger is accepted only for a       *)
(* target without a live run, whatever the interleaving of the API, the    *)
(* worker and their restarts, and no outcome is ever taken back.           *)
ImplementsLedger == Ledger!LedgerSpec

(* Why: the lock of a target is never free while a run of it is active.    *)
(* It names the run once the run has a message, and is only "reserved"     *)
(* while the coroutine that took it, or nobody, can queue the run.         *)

Engaged == {"create", "enqueue", "release"}

ActiveRunsHoldTheLock ==
  \A r \in ActiveRuns :
    /\ owner[r] \in targets
    /\ lock[owner[r]] \in {"reserved", r}
    /\ HasMessage(r) => lock[owner[r]] = r

ReservationsAreExclusive ==
  /\ \A c \in Callers : call[c].step \in Engaged /\ call[c].target \in targets =>
       lock[call[c].target] = "reserved"
  /\ \A c \in Callers : At(c, "create") /\ call[c].target \in targets =>
       \A r \in ActiveRuns : owner[r] # call[c].target
  /\ \A c, d \in Callers :
       /\ call[c].step \in Engaged /\ call[d].step \in Engaged
       /\ call[c].target = call[d].target /\ call[c].target \in targets
       => c = d

DeletedRunsHaveNoTarget ==
  \A r \in RunIds : status[r] = "deleted" => owner[r] \notin targets

(* A coroutine past create_run is alone with its run: until it queues it,  *)
(* the run is pending and neither Redis nor the worker knows it.           *)
CallsOwnTheirRuns ==
  /\ \A c \in Callers : call[c].step \in {"enqueue", "release", "fail"} =>
       LET r == call[c].run IN
       /\ r \in RunIds /\ owner[r] = call[c].target
       /\ r \notin orphans \cup interrupted
       /\ status[r] \in {"pending", "deleted"}
       /\ status[r] = "pending" => ~HasMessage(r) /\ held.run # r
  /\ \A c \in Callers : call[c].step \in {"idle", "reserve", "create"} =>
       call[c].run = "none"
  /\ \A c, d \in Callers : call[c].run = call[d].run /\ call[c].run # "none" => c = d

MessagesMatchRuns ==
  \A m \in Messages : owner[m.run] = m.target /\ status[m.run] # "none"

(* What the worker holds, at each of its steps. *)
WorkerKnowsItsRun ==
  /\ worker \in {"down", "recover", "select", "readmit", "idle"} => held = NoMessage
  /\ worker \in {"check", "start", "running", "ack"} => held \in ToSet(processing)
  /\ worker = "start" => status[held.run] \in LiveStatus \cup {"deleted"}
  /\ worker = "running" => status[held.run] \in {"running", "deleted"}
  /\ worker \in {"ack", "release"} =>
       held # NoMessage /\ status[held.run] \in SettledStatus \cup {"deleted"}
  /\ worker \in {"relock", "repush"} =>
       held.run \in orphans /\ held.target = owner[held.run]
  /\ worker = "repush" /\ held.target \in targets => lock[held.target] = held.run

(* A run the starting worker took for an orphan is one. *)
OrphansAreAbandoned ==
  /\ \A r \in orphans : status[r] \in LiveStatus \cup {"deleted"}
  /\ \A r \in interrupted : status[r] \in {"running", "deleted"}
  /\ worker \notin {"readmit", "relock", "repush"} => orphans = {} /\ interrupted = {}

QueueInvariant ==
  /\ TypeOK
  /\ OneActiveRunPerTarget
  /\ ActiveRunsHoldTheLock
  /\ ReservationsAreExclusive
  /\ DeletedRunsHaveNoTarget
  /\ CallsOwnTheirRuns
  /\ MessagesMatchRuns
  /\ WorkerKnowsItsRun
  /\ OrphansAreAbandoned

-----------------------------------------------------------------------------
(* What eventually happens.                                                *)

(* A queued run ends, even if the worker is restarted while it executes:   *)
(* README.md, "Apres un arret du worker, les messages interrompus sont     *)
(* remis en file".                                                         *)
QueuedRunsSettle ==
  \A r \in RunIds : HasMessage(r) /\ IsLive(r) ~> ~IsLive(r)

(* After a failure, the lock names a run that is over and that the worker  *)
(* does not hold.                                                          *)
LeftLocked(t) ==
  /\ faults > 0
  /\ lock[t] \in RunIds /\ ~IsLive(lock[t])
  /\ held.run # lock[t]

(* An existing target does not stay locked for ever, unless the worker was *)
(* killed between acknowledge and release_target (then the lock waits for  *)
(* its expiry).                                                            *)
TargetsAreFreed ==
  \A t \in Targets :
    lock[t] # "free" ~> lock[t] = "free" \/ t \notin targets \/ LeftLocked(t)

-----------------------------------------------------------------------------
(* What a comment of the code says and the code does not do.               *)

(* enqueue_recovered: "Reinsere un run DB orphelin sans creer de doublon   *)
(* de file".  A run has at most one message in the two lists.              *)
NoDuplicateMessage ==
  \A r \in RunIds :
    Cardinality({i \in DOMAIN queue : queue[i].run = r})
      + Cardinality({i \in DOMAIN processing : processing[i].run = r}) <= 1

==============================================================================
