---------------------------- MODULE CapturePlanning ----------------------------
(***************************************************************************)
(* Who decides that a capture is made, and when.  The API process runs     *)
(* together, in one event loop, the jobs of the targets, the catch-up of   *)
(* the missed deadlines and the manual triggers (scheduler.py, catchup.py, *)
(* trigger_target of runner.py), and in threads the requests that create,  *)
(* change, copy and delete targets (api/targets.py).  The jobs live in the *)
(* memory of the API, the targets in the database; the quotas of the       *)
(* organisation (quotas.py) are counts followed by an INSERT under the row *)
(* lock of the organisation, which a coroutine keeps across an await.      *)
(*                                                                         *)
(* Time is counted in hours; a day has DayHours of them.  A schedule is a  *)
(* set of hours of the day, as run_time and cron_expression give; targets  *)
(* with interval_minutes and several time zones are left out.  The queue   *)
(* and the worker are those of CaptureQueue: here a run is unsettled, then *)
(* settled.                                                                *)
(***************************************************************************)
EXTENDS Integers, FiniteSets, FiniteSetsExt, SequencesExt

CONSTANTS
  LastTarget,    \* the targets that may be created are 1..LastTarget
  Requests,      \* the requests the API serves at a time
  CatchupTask,   \* the coroutine of _catchup_job
  Worker,        \* the worker, when it holds the row of the organisation
  Nobody,        \* no one of the above
  DayHours,      \* hours of a day
  LastHour,      \* bounds the time
  Schedules,     \* the schedules explored, the empty one means none
  Window,        \* settings.catchup_max_hours
  DedupePerDay,  \* settings.dedupe_mode is per_day or both
  TargetQuota,   \* Organization.quota_targets, 0 for none
  DailyQuota,    \* Organization.quota_daily_captures, 0 for none
  MaxEvents      \* bounds the requests and the restarts

ASSUME PlanningAssumption ==
  /\ {LastTarget, DayHours, LastHour, Window} \subseteq Nat \ {0}
  /\ {TargetQuota, DailyQuota, MaxEvents} \subseteq Nat
  /\ Schedules \subseteq SUBSET (0..(DayHours - 1))
  /\ DedupePerDay \in BOOLEAN
  /\ Window < DayHours
  /\ {} \in Schedules
  /\ Nobody \notin 1..LastTarget \cup {CatchupTask, Worker} \cup Requests
  /\ Worker \notin 1..LastTarget \cup {CatchupTask} \cup Requests

Targets == 1..LastTarget
Hours == 0..LastHour
Never == LastHour + DayHours + 1
NoHour == -1
Day(h) == h \div DayHours
Days == 0..Day(LastHour)

(* The coroutine of the job of a target bears the name of the target.      *)
(* max_instances=1: there is one at most.                                  *)
Coroutines == Targets \cup {CatchupTask} \cup Requests
Callers == Coroutines \cup {Worker}

VARIABLES
  now,         \* the hour
  api,         \* the API process: down, starting (catch-up to come) or up
  row,         \* database: the targets
  job,         \* API: the job of each target
  task,        \* API: where each coroutine and request is
  missed,      \* API: the targets _catchup_job has still to trigger
  loop,        \* API: the coroutine that blocks the event loop, if any
  orgLock,     \* database: who has the row of the organisation FOR UPDATE
  started,     \* database: how many runs of a target were started each day
  dated,       \* database: the capture_dates of the runs of a target
  captured,    \* database: those of its successful runs
  unsettled,   \* Redis and worker: the runs in progress, target and date
  events,      \* the requests and restarts so far
  owed,        \* observation: the last deadline that nothing answered yet
  caughtUpAt,  \* observation: when the last catch-up looked at the deadlines
  skipped,     \* observation: targets whose last deadline max_instances skipped
  overlapped   \* observation: targets changed by two requests at a time

apiVars == <<api, job, task, missed, loop>>
runVars == <<started, dated, captured, unsettled>>
dbVars == <<row, orgLock, runVars>>
ghosts == <<owed, caughtUpAt, skipped, overlapped>>
vars == <<now, apiVars, dbVars, events, ghosts>>

Row == [state : {"unused", "live", "deleted"}, enabled : BOOLEAN,
        schedule : Schedules]
NoRow == [state |-> "unused", enabled |-> FALSE, schedule |-> {}]

Job == [schedule : Schedules, next : 0..Never]
NoJob == [schedule |-> {}, next |-> Never]

Fields == {"none", "enabled", "schedule"}
Steps == {"idle", "trigger", "blocked", "reserve",
          "insert", "reprogram", "commit", "delete"}
Task == [step : Steps, target : 0..LastTarget, day : Days, field : Fields,
         enabled : BOOLEAN, schedule : Schedules]
Idle == [step |-> "idle", target |-> 0, day |-> 0, field |-> "none",
         enabled |-> FALSE, schedule |-> {}]

(* get_next_fire_time: the first deadline at this hour or later.  A        *)
(* deadline is the beginning of its hour; everything else happens inside.  *)
Deadlines(schedule) == {h \in 0..(Never - 1) : h % DayHours \in schedule}
NextFire(schedule, from) ==
  Min({h \in Deadlines(schedule) : h >= from} \cup {Never})

Live(t) == row[t].state = "live"
LiveTargets == {t \in Targets : Live(t)}
HasJob(t) == job[t] # NoJob

Event == events < MaxEvents /\ events' = events + 1

(* A session closed, or a commit, gives the row of the organisation back.  *)
GiveBack(c) == IF orgLock = c THEN Nobody ELSE orgLock

TypeInvariant ==
  /\ now \in Hours
  /\ api \in {"down", "starting", "up"}
  /\ row \in [Targets -> Row]
  /\ job \in [Targets -> Job]
  /\ task \in [Coroutines -> Task]
  /\ missed \in Seq(Targets) /\ IsInjective(missed)
  /\ loop \in Coroutines \cup {Nobody}
  /\ orgLock \in Callers \cup {Nobody}
  /\ started \in [Targets -> [Days -> Nat]]
  /\ dated \in [Targets -> SUBSET Days]
  /\ captured \in [Targets -> SUBSET Days]
  /\ unsettled \subseteq Targets \X Days
  /\ events \in 0..MaxEvents
  /\ owed \in [Targets -> Hours \cup {NoHour}]
  /\ caughtUpAt \in Hours \cup {NoHour}
  /\ skipped \subseteq Targets /\ overlapped \subseteq Targets

(* The database as some earlier life of the API left it; the API is about  *)
(* to start.                                                               *)
Init ==
  /\ now = 0
  /\ api = "down"
  /\ \E first \in Schedules :
       row = [t \in Targets |-> IF t = 1 /\ first # {}
                THEN [state |-> "live", enabled |-> TRUE, schedule |-> first]
                ELSE NoRow]
  /\ job = [t \in Targets |-> NoJob]
  /\ task = [c \in Coroutines |-> Idle]
  /\ missed = <<>>
  /\ loop = Nobody /\ orgLock = Nobody
  /\ started = [t \in Targets |-> [d \in Days |-> 0]]
  /\ dated = [t \in Targets |-> {}]
  /\ captured = [t \in Targets |-> {}]
  /\ unsettled = {}
  /\ events = 0
  /\ owed = [t \in Targets |-> NoHour]
  /\ caughtUpAt = NoHour
  /\ skipped = {} /\ overlapped = {}
-----------------------------------------------------------------------------
(* Time, and the life of the API process *)

Due(t) == api # "down" /\ job[t].next <= now

Changing(t) ==
  {q \in Requests : /\ task[q].step \in {"reprogram", "commit", "delete"}
                    /\ task[q].target = t}

(* A deadline is owed to an enabled target with one capture a day that no  *)
(* request is changing.                                                    *)
Owes(t, hour) ==
  /\ Live(t) /\ row[t].enabled
  /\ Cardinality(row[t].schedule) = 1
  /\ hour % DayHours \in row[t].schedule
  /\ t \notin overlapped /\ Changing(t) = {}

(* The scheduler fires what is due, the loop resumes what is ready and the *)
(* lock waits end within seconds.  The answer of Redis, and the catch-up,  *)
(* take seconds as well: of the hours they may straddle, the one that      *)
(* matters is midnight.                                                    *)
Settled ==
  /\ loop = Nobody
  /\ \A t \in Targets : ~Due(t)
  /\ \A c \in Coroutines : task[c].step # "trigger"
  /\ \/ api # "starting" /\ (\A c \in Coroutines : task[c].step # "reserve")
     \/ now % DayHours = DayHours - 1

Tick ==
  /\ now < LastHour
  /\ Settled
  /\ now' = now + 1
  /\ owed' = [t \in Targets |-> IF Owes(t, now + 1) THEN now + 1 ELSE owed[t]]
  /\ skipped' = {t \in skipped : ~Owes(t, now + 1)}
  /\ UNCHANGED <<apiVars, dbVars, events, caughtUpAt, overlapped>>

Planned(r) == r.state = "live" /\ r.enabled /\ r.schedule # {}

(* add_job: the first deadline to come. *)
JobFor(r) == IF Planned(r)
             THEN [schedule |-> r.schedule, next |-> NextFire(r.schedule, now + 1)]
             ELSE NoJob

(* start_scheduler and load_all_targets; the catch-up is due a little      *)
(* later (catchup_delay_seconds).                                          *)
Start ==
  /\ api = "down"
  /\ api' = "starting"
  /\ job' = [t \in Targets |-> JobFor(row[t])]
  /\ UNCHANGED <<now, task, missed, loop, dbVars, events, ghosts>>

(* The process ends; the database rolls its transactions back.  With       *)
(* queue_backend=redis, mark_interrupted_runs changes nothing at restart.  *)
Crash ==
  /\ api # "down"
  /\ Event
  /\ api' = "down"
  /\ job' = [t \in Targets |-> NoJob]
  /\ task' = [c \in Coroutines |-> Idle]
  /\ missed' = <<>>
  /\ loop' = Nobody
  /\ orgLock' = IF orgLock = Worker THEN Worker ELSE Nobody
  /\ overlapped' = {}
  /\ UNCHANGED <<now, row, runVars, owed, caughtUpAt, skipped>>

-----------------------------------------------------------------------------
(* The event loop: scheduled jobs, catch-up, manual triggers *)

LoopRuns == api # "down" /\ loop = Nobody

End(c) == task' = [task EXCEPT ![c] = Idle]

(* _run_scheduled starts; APScheduler computes the next deadline, and      *)
(* skips this one when the previous instance still runs.                   *)
Fire(t) ==
  /\ LoopRuns
  /\ Due(t)
  /\ job' = [job EXCEPT ![t].next = NextFire(job[t].schedule, now + 1)]
  /\ IF task[t] = Idle
     THEN /\ task' = [task EXCEPT ![t] = [Idle EXCEPT !.step = "trigger",
                                                      !.target = t]]
          /\ owed' = [owed EXCEPT ![t] = NoHour]
          /\ UNCHANGED skipped
     ELSE skipped' = skipped \cup {t} /\ UNCHANGED <<task, owed>>
  /\ UNCHANGED <<now, api, missed, loop, dbVars, events, caughtUpAt, overlapped>>

(* Mutant: the day of the catch-up is looked at, not that of the deadline. *)
WasMissedToday(t) ==
  LET deadline == NextFire(row[t].schedule, Max({0, now + 1 - Window})) IN
  /\ Planned(row[t])
  /\ deadline <= now
  /\ Day(deadline) = Day(now)
  /\ Day(now) \notin dated[t]

(* cibles_a_rattraper: the first deadline of the window, if it is past and *)
(* no run bears its date.                                                  *)
WasMissed(t) ==
  LET deadline == NextFire(row[t].schedule, Max({0, now + 1 - Window})) IN
  /\ Planned(row[t])
  /\ deadline <= now
  /\ Day(deadline) \notin dated[t]

(* Mutant: one entry for each deadline of the window. *)
CatchUpEach ==
  /\ LoopRuns
  /\ api = "starting"
  /\ api' = "up"
  /\ \E found \in SetToSeqs({t \in Targets : WasMissed(t)}) :
       missed' = IF Len(found) = 1 THEN found \o found ELSE found
  /\ caughtUpAt' = now
  /\ UNCHANGED <<now, job, task, loop, dbVars, events, owed, skipped, overlapped>>

(* _catchup_job, catchup_delay_seconds after the start: each missed target *)
(* once, in the order of the SELECT, which is no order in particular.      *)
CatchUp ==
  /\ LoopRuns
  /\ api = "starting"
  /\ api' = "up"
  /\ missed' \in SetToSeqs({t \in Targets : WasMissed(t)})
  /\ caughtUpAt' = now
  /\ UNCHANGED <<now, job, task, loop, dbVars, events, owed, skipped, overlapped>>

(* _catchup_job triggers the targets one after the other, whatever has     *)
(* become of them since.                                                   *)
CatchUpNext ==
  /\ LoopRuns
  /\ missed # <<>> /\ task[CatchupTask] = Idle
  /\ missed' = Tail(missed)
  /\ task' = [task EXCEPT ![CatchupTask] =
                [Idle EXCEPT !.step = "trigger", !.target = Head(missed)]]
  /\ owed' = [owed EXCEPT ![Head(missed)] = NoHour]
  /\ UNCHANGED <<now, api, job, loop, dbVars, events, caughtUpAt, skipped,
                 overlapped>>

(* run_now. *)
Manual(q, t) ==
  /\ LoopRuns
  /\ task[q] = Idle
  /\ Live(t)
  /\ Event
  /\ task' = [task EXCEPT ![q] = [Idle EXCEPT !.step = "trigger", !.target = t]]
  /\ owed' = [owed EXCEPT ![t] = NoHour]
  /\ UNCHANGED <<now, api, job, missed, loop, dbVars, caughtUpAt, skipped,
                 overlapped>>

StartedOn(d) == SumFunction([t \in Targets |-> started[t][d]])

(* Mutant: the lock is given back before Redis is awaited. *)
CountUnlocked(c) ==
  IF DailyQuota > 0 /\ StartedOn(Day(now)) >= DailyQuota
  THEN End(c) /\ UNCHANGED orgLock
  ELSE /\ task' = [task EXCEPT ![c].step = "reserve", ![c].day = Day(now)]
       /\ UNCHANGED orgLock

(* enforce_capture_creation, once the row of the organisation is locked:   *)
(* the coroutine keeps it while it awaits Redis.                           *)
Count(c) ==
  IF DailyQuota > 0 /\ StartedOn(Day(now)) >= DailyQuota
  THEN End(c) /\ UNCHANGED orgLock
  ELSE /\ task' = [task EXCEPT ![c].step = "reserve", ![c].day = Day(now)]
       /\ orgLock' = c

(* trigger_target, up to the lock: the target may be gone (LookupError) or *)
(* captured today.  SELECT ... FOR UPDATE is not awaited: if the row is    *)
(* taken it is the event loop that waits.                                  *)
Trigger(c) ==
  /\ LoopRuns
  /\ task[c].step = "trigger"
  /\ LET t == task[c].target IN
     CASE ~Live(t) \/ (DedupePerDay /\ Day(now) \in captured[t]) ->
            End(c) /\ UNCHANGED <<loop, orgLock>>
       [] OTHER ->
            IF orgLock = Nobody
            THEN Count(c) /\ UNCHANGED loop
            ELSE /\ task' = [task EXCEPT ![c].step = "blocked"]
                 /\ loop' = c
                 /\ UNCHANGED orgLock
  /\ UNCHANGED <<now, api, job, missed, row, runVars, events, ghosts>>

LockGranted(c) ==
  /\ loop = c
  /\ orgLock = Nobody
  /\ loop' = Nobody
  /\ Count(c)
  /\ UNCHANGED <<now, api, job, missed, row, runVars, events, ghosts>>

(* Mutant: no db_lock_timeout_ms. *)
LockTimeoutNever(c) == FALSE /\ c \in Coroutines

(* db_lock_timeout_ms: the SELECT raises and the trigger fails. *)
LockTimeout(c) ==
  /\ loop = c
  /\ loop' = Nobody
  /\ End(c)
  /\ UNCHANGED <<now, api, job, missed, dbVars, events, ghosts>>

(* Redis has answered: the run is created and enqueued, unless the target  *)
(* is reserved already or its row is gone (foreign key).                   *)
Reserve(c) ==
  /\ LoopRuns
  /\ task[c].step = "reserve"
  /\ LET t == task[c].target
         free == Live(t) /\ \A u \in unsettled : u[1] # t IN
     IF free
     THEN /\ started' = [started EXCEPT ![t][Day(now)] = @ + 1]
          /\ dated' = [dated EXCEPT ![t] = @ \cup {task[c].day}]
          /\ unsettled' = unsettled \cup {<<t, task[c].day>>}
     ELSE UNCHANGED <<started, dated, unsettled>>
  /\ End(c)
  /\ orgLock' = GiveBack(c)
  /\ UNCHANGED <<now, api, job, missed, loop, row, captured, events, ghosts>>

-----------------------------------------------------------------------------
(* The worker *)

(* enforce_capture_size locks the organisation until the image is          *)
(* recorded, the thumbnail included.                                       *)
WorkerStores ==
  /\ unsettled # {}
  /\ orgLock = Nobody
  /\ orgLock' = Worker
  /\ UNCHANGED <<now, apiVars, row, runVars, events, ghosts>>

(* The run succeeds or fails; a deleted target takes it along. *)
Settle(u, success) ==
  /\ u \in unsettled
  /\ success => orgLock = Worker
  /\ unsettled' = unsettled \ {u}
  /\ captured' = IF success /\ Live(u[1])
                 THEN [captured EXCEPT ![u[1]] = @ \cup {u[2]}]
                 ELSE captured
  /\ orgLock' = GiveBack(Worker)
  /\ UNCHANGED <<now, apiVars, row, started, dated, events, ghosts>>

-----------------------------------------------------------------------------
(* The requests of api/targets.py, in threads *)

Serves(q) == api # "down" /\ task[q] = Idle /\ Event

Unused == {t \in Targets : row[t].state = "unused"}

(* Mutant: the targets are counted without the lock. *)
MayCreateUnlocked(q) ==
  /\ Unused # {}
  /\ TargetQuota > 0 => Cardinality(LiveTargets) < TargetQuota
  /\ UNCHANGED orgLock

(* enforce_target_creation: the count under the row lock.  The model has   *)
(* LastTarget rows to give.                                                *)
MayCreate(q) ==
  /\ Unused # {}
  /\ orgLock = Nobody
  /\ TargetQuota > 0 => Cardinality(LiveTargets) < TargetQuota
  /\ orgLock' = q

(* create_target and duplicate_target, up to the INSERT.  An enabled       *)
(* target has a schedule.  A copy is a disabled target with the schedule   *)
(* of another; it has no job, and nothing to program.                      *)
BeginCreate(q, enabled, schedule) ==
  /\ Serves(q)
  /\ MayCreate(q)
  /\ enabled => schedule # {}
  /\ task' = [task EXCEPT ![q] = [Idle EXCEPT !.step = "insert",
                                    !.enabled = enabled, !.schedule = schedule]]
  /\ UNCHANGED <<now, api, job, missed, loop, row, runVars, ghosts>>

(* The INSERT, under the lock. *)
Insert(q) ==
  /\ task[q].step = "insert"
  /\ Unused # {}
  /\ LET t == Min(Unused) IN
     /\ row' = [row EXCEPT ![t] = [state |-> "live", enabled |-> task[q].enabled,
                                   schedule |-> task[q].schedule]]
     /\ task' = [task EXCEPT ![q].step = "reprogram", ![q].target = t]
  /\ orgLock' = GiveBack(q)
  /\ UNCHANGED <<now, api, job, missed, loop, runVars, events, ghosts>>

NoteOverlap(t) ==
  overlapped' = IF Changing(t) # {} THEN overlapped \cup {t} ELSE overlapped

(* update_target: the row is read, the change applied to what was read,    *)
(* and the result must have a schedule if it is enabled.                   *)
BeginUpdate(q, t, field, enabled, schedule) ==
  /\ Serves(q)
  /\ Live(t)
  /\ field = "enabled" => schedule = row[t].schedule
  /\ field = "schedule" => enabled = row[t].enabled
  /\ enabled => schedule # {}
  /\ task' = [task EXCEPT ![q] = [Idle EXCEPT !.step = "commit", !.target = t,
                 !.field = field, !.enabled = enabled, !.schedule = schedule]]
  /\ NoteOverlap(t)
  /\ UNCHANGED <<now, api, job, missed, loop, dbVars, owed, caughtUpAt, skipped>>

(* The changed column is written, then the row is read again; it may have  *)
(* been deleted.                                                           *)
CommitUpdate(q) ==
  /\ task[q].step = "commit"
  /\ LET t == task[q].target
         new == IF task[q].field = "enabled"
                THEN [row[t] EXCEPT !.enabled = task[q].enabled]
                ELSE [row[t] EXCEPT !.schedule = task[q].schedule]
     IN IF Live(t)
        THEN /\ row' = [row EXCEPT ![t] = new]
             /\ task' = [task EXCEPT ![q].step = "reprogram",
                           ![q].enabled = new.enabled,
                           ![q].schedule = new.schedule]
             /\ owed' = [owed EXCEPT ![t] = NoHour]
        ELSE End(q) /\ UNCHANGED <<row, owed>>
  /\ UNCHANGED <<now, api, job, missed, loop, orgLock, runVars, events,
                 caughtUpAt, skipped, overlapped>>

(* Mutant: a target that has no schedule any more keeps its job. *)
ReprogramPlanned(q) ==
  /\ task[q].step = "reprogram"
  /\ LET r == [state |-> "live", enabled |-> task[q].enabled,
               schedule |-> task[q].schedule]
     IN job' = IF Planned(r) THEN [job EXCEPT ![task[q].target] = JobFor(r)]
                             ELSE job
  /\ End(q)
  /\ UNCHANGED <<now, api, missed, loop, dbVars, events, ghosts>>

(* schedule_target, with the row as this request has it. *)
Reprogram(q) ==
  /\ task[q].step = "reprogram"
  /\ job' = [job EXCEPT ![task[q].target] =
               JobFor([state |-> "live", enabled |-> task[q].enabled,
                       schedule |-> task[q].schedule])]
  /\ End(q)
  /\ UNCHANGED <<now, api, missed, loop, dbVars, events, ghosts>>

(* delete_target: the job first, then the row with its runs. *)
BeginDelete(q, t) ==
  /\ Serves(q)
  /\ Live(t)
  /\ job' = [job EXCEPT ![t] = NoJob]
  /\ task' = [task EXCEPT ![q] = [Idle EXCEPT !.step = "delete", !.target = t]]
  /\ NoteOverlap(t)
  /\ UNCHANGED <<now, api, missed, loop, dbVars, owed, caughtUpAt, skipped>>

CommitDelete(q) ==
  /\ task[q].step = "delete"
  /\ LET t == task[q].target IN
     /\ row' = [row EXCEPT ![t] = [NoRow EXCEPT !.state = "deleted"]]
     /\ started' = [started EXCEPT ![t] = [d \in Days |-> 0]]
     /\ dated' = [dated EXCEPT ![t] = {}]
     /\ captured' = [captured EXCEPT ![t] = {}]
     /\ owed' = [owed EXCEPT ![t] = NoHour]
  /\ End(q)
  /\ UNCHANGED <<now, api, job, missed, loop, orgLock, unsettled, events,
                 caughtUpAt, skipped, overlapped>>

-----------------------------------------------------------------------------
CoroutineStep(c) == Trigger(c) \/ LockGranted(c) \/ LockTimeout(c) \/ Reserve(c)

LoopStep == \E c \in Coroutines : CoroutineStep(c)

RequestStep(q) ==
  \/ Insert(q) \/ CommitUpdate(q) \/ Reprogram(q) \/ CommitDelete(q)

Request(q) ==
  \/ \E t \in Targets : Manual(q, t) \/ BeginDelete(q, t)
  \/ \E e \in BOOLEAN, s \in Schedules : BeginCreate(q, e, s)
  \/ \E t \in Targets, f \in Fields \ {"none"}, e \in BOOLEAN, s \in Schedules :
       BeginUpdate(q, t, f, e, s)

WorkerStep ==
  \/ WorkerStores
  \/ \E u \in unsettled, success \in BOOLEAN : Settle(u, success)

Next ==
  \/ Tick \/ Start \/ Crash \/ CatchUp \/ CatchUpNext \/ WorkerStep
  \/ \E t \in Targets : Fire(t)
  \/ LoopStep
  \/ \E q \in Requests : Request(q) \/ RequestStep(q)

(* The event loop resumes a coroutine that can go on, or PostgreSQL ends a *)
(* lock wait: nothing else has to happen.                                  *)
Fairness == WF_vars(LoopStep)

Spec == Init /\ [][Next]_vars /\ Fairness

-----------------------------------------------------------------------------
(* Properties *)

(* Concurrent creations and copies never take an organisation above its    *)
(* number of targets.                                                      *)
TargetsWithinQuota ==
  TargetQuota > 0 => Cardinality(LiveTargets) <= TargetQuota

(* Nor scheduled, caught-up and manual captures, whose count and INSERT    *)
(* have an await between them, above its captures of a day; a day that     *)
(* begins during the await included.                                       *)
DailyWithinQuota ==
  DailyQuota > 0 => \A d \in Days : StartedOn(d) <= DailyQuota

(* The scheduler has a job for exactly the live, enabled targets, with     *)
(* their schedule, once the requests have ended: through any sequence of   *)
(* changes and restarts, unless two requests changed one target at a time. *)
JobsFollowRows ==
  api # "down" => \A t \in Targets :
    Changing(t) = {} /\ t \notin overlapped =>
      /\ HasJob(t) <=> Planned(row[t])
      /\ HasJob(t) => job[t].schedule = row[t].schedule

(* A target captured once a day loses no deadline: it is answered by the   *)
(* job or, when the API was down, by the catch-up, unless a run already    *)
(* bears that date, the API came back after the window, or the previous    *)
(* trigger of the target, started before midnight under a schedule that    *)
(* has been changed since, still runs (max_instances).                     *)
DeadlinesAreServed ==
  (api = "up" /\ missed = <<>>) => \A t \in Targets :
    \/ owed[t] = NoHour \/ Due(t) \/ Changing(t) # {} \/ t \in skipped
    \/ Day(owed[t]) \in dated[t]
    \/ owed[t] <= caughtUpAt - Window

(* A coroutine that waits for the row lock stops the whole event loop; the *)
(* loop always runs again, even when the lock belongs to a coroutine that  *)
(* only the loop can resume: db_lock_timeout_ms is the remedy DEFAUTS.md:  *)
(* 117 gives for the loop that was stuck for 1 h 29.                       *)
LoopRunsAgain == (loop # Nobody) ~> (loop = Nobody)
=============================================================================
