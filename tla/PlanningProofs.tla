---------------------------- MODULE PlanningProofs ----------------------------
(***************************************************************************)
(* Proofs about CapturePlanning, for any number of targets, of requests    *)
(* and of hours, and for any schedules and quotas.                         *)
(***************************************************************************)
EXTENDS CapturePlanning, Sums

-----------------------------------------------------------------------------
(* The inductive invariant.                                                *)

TargetSteps == {"trigger", "blocked", "reserve", "reprogram", "commit", "delete"}

(* What a coroutine counts under the row lock, it writes under it; a dead  *)
(* process has no coroutine.                                               *)
TasksAreSound ==
  /\ \A c \in Coroutines :
       /\ task[c].step \in TargetSteps => task[c].target \in Targets
       /\ task[c].step \in {"reserve", "insert"} => orgLock = c
  /\ loop # Nobody => task[loop].step = "blocked"
  /\ api = "down" => overlapped = {} /\ \A c \in Coroutines : task[c] = Idle

(* A request that is alone in changing a target knows what its row is.     *)
ChangesAreKnown(t) ==
  \A q \in Changing(t) :
    /\ row[t].state # "unused"
    /\ task[q].step = "reprogram" => owed[t] = NoHour
    /\ t \notin overlapped =>
         /\ Live(t)
         /\ \A q2 \in Changing(t) : q2 = q
         /\ task[q].step = "reprogram" =>
              row[t].enabled = task[q].enabled /\ row[t].schedule = task[q].schedule
         /\ task[q].step = "delete" => job[t] = NoJob

JobFollows(t) ==
  (api # "down" /\ Changing(t) = {} /\ t \notin overlapped) =>
    /\ HasJob(t) <=> Planned(row[t])
    /\ HasJob(t) => job[t].schedule = row[t].schedule

(* A job fires at its next deadline, at the latest.                        *)
JobIsReal(t) ==
  /\ job[t].schedule = {} => job[t] = NoJob
  /\ \A h \in Deadlines(job[t].schedule) : h > now => job[t].next <= h

(* A deadline is owed by a target as it is now.                            *)
DebtIsReal(t) ==
  owed[t] # NoHour =>
    /\ owed[t] <= now
    /\ Live(t) /\ row[t].enabled
    /\ Cardinality(row[t].schedule) = 1
    /\ owed[t] % DayHours \in row[t].schedule
    /\ t \in overlapped => Changing(t) # {}

(* DeadlinesAreServed while the catch-up is under way.                     *)
DebtIsServed(t) ==
  api = "up" =>
    \/ owed[t] = NoHour \/ Due(t) \/ Changing(t) # {} \/ t \in skipped
    \/ Day(owed[t]) \in dated[t]
    \/ owed[t] <= caughtUpAt - Window
    \/ \E i \in DOMAIN missed : missed[i] = t

TargetIsSound(t) ==
  /\ ChangesAreKnown(t) /\ JobFollows(t) /\ JobIsReal(t)
  /\ DebtIsReal(t) /\ DebtIsServed(t)

PlanningInvariant ==
  TypeInvariant /\ TasksAreSound /\ \A t \in Targets : TargetIsSound(t)

(* Whoever has counted the targets may insert one.                         *)
RoomForTargets ==
  TargetQuota > 0 =>
    /\ Cardinality(LiveTargets) <= TargetQuota
    /\ \A c \in Coroutines :
         task[c].step = "insert" => Cardinality(LiveTargets) < TargetQuota

(* Whoever has counted the captures of the day may start one, and so may   *)
(* he the next day, which has none yet.                                    *)
RoomForCaptures ==
  /\ \A t \in Targets : \A d \in Days : d > Day(now) => started[t][d] = 0
  /\ DailyQuota > 0 =>
       /\ \A d \in Days : StartedOn(d) <= DailyQuota
       /\ \A c \in Coroutines :
            task[c].step = "reserve" => StartedOn(Day(now)) < DailyQuota
-----------------------------------------------------------------------------
(* Hours, days and deadlines.                                              *)

LEMMA Constants ==
  /\ LastTarget \in Nat /\ DayHours \in Nat \ {0} /\ LastHour \in Nat
  /\ Window \in Nat /\ Window < DayHours /\ Never \in Nat /\ LastHour < Never
  /\ TargetQuota \in Nat /\ DailyQuota \in Nat /\ MaxEvents \in Nat
  /\ {} \in Schedules /\ IsFiniteSet(Targets) /\ 0 \notin Targets
  /\ Nobody \notin Callers /\ Worker \notin Coroutines
<1>1. /\ LastTarget \in Nat /\ DayHours \in Nat \ {0} /\ LastHour \in Nat
      /\ Window \in Nat /\ Window < DayHours
      /\ TargetQuota \in Nat /\ DailyQuota \in Nat /\ MaxEvents \in Nat
  <2>1. /\ {LastTarget, DayHours, LastHour, Window} \subseteq Nat \ {0}
        /\ {TargetQuota, DailyQuota, MaxEvents} \subseteq Nat
        /\ Window < DayHours
    BY PlanningAssumption, Zenon DEF PlanningAssumption
  <2>2. QED
    BY <2>1
<1>2. IsFiniteSet(1..LastTarget)
  BY <1>1, FS_Interval
<1>3. Never \in Nat /\ LastHour < Never
  BY <1>1 DEF Never
<1>4. Nobody \notin Callers /\ Worker \notin Coroutines
  BY PlanningAssumption DEF PlanningAssumption, Targets, Callers, Coroutines
<1>5. QED
  BY <1>1, <1>2, <1>3, <1>4, PlanningAssumption DEF PlanningAssumption, Targets

LEMMA Division ==
  ASSUME NEW d \in Nat \ {0}, NEW a \in Nat
  PROVE  /\ a \div d \in Nat /\ a % d \in 0..(d - 1)
         /\ a - (a % d) = d * (a \div d)
<1>1. a - (a % d) = d * (a \div d)
  BY SMTT(30)
<1>2. QED
  BY <1>1

LEMMA DivisionGrows ==
  ASSUME NEW d \in Nat \ {0}, NEW a \in Nat, NEW b \in Nat, a <= b
  PROVE  a \div d <= b \div d
OBVIOUS

(* Two deadlines at the same hour of the day are at least a day apart.     *)
LEMMA SameHour ==
  ASSUME NEW d \in Nat \ {0}, NEW a \in Nat, NEW b \in Nat, a <= b,
         b - a < d, a % d = b % d
  PROVE  a = b
<1> DEFINE p == a \div d
           q == b \div d
           m == a % d
<1>1. /\ p \in Nat /\ q \in Nat /\ m \in Nat
      /\ a - m = d * p /\ b - m = d * q
  <2>1. p \in Nat /\ m \in 0..(d - 1) /\ a - m = d * p
    BY Division
  <2>2. q \in Nat /\ b - (b % d) = d * q
    BY Division
  <2>3. QED
    BY <2>1, <2>2
<1> HIDE DEF p, q, m
<1>2. CASE p < q
  <2>1. p + 1 <= q
    BY <1>1, <1>2
  <2>2. d * (p + 1) <= d * q
    BY <1>1, <2>1
  <2>3. d * (p + 1) = d * p + d
    BY <1>1
  <2>4. QED
    BY <1>1, <2>2, <2>3
<1>3. CASE q < p
  <2>1. q + 1 <= p
    BY <1>1, <1>3
  <2>2. d * (q + 1) <= d * p
    BY <1>1, <2>1
  <2>3. d * (q + 1) = d * q + d
    BY <1>1
  <2>4. QED
    BY <1>1, <2>2, <2>3
<1>4. CASE p = q
  BY <1>1, <1>4
<1>5. QED
  BY <1>1, <1>2, <1>3, <1>4

LEMMA DaysOfHours ==
  /\ \A h \in Nat : Day(h) \in Nat
  /\ \A h \in Hours : Day(h) \in Days
  /\ \A a, b \in Nat : a <= b => Day(a) <= Day(b)
<1>1. \A a, b \in Nat : a <= b => Day(a) \in Nat /\ Day(a) <= Day(b)
  BY Constants, Division, DivisionGrows DEF Day
<1>2. QED
  BY <1>1, Constants DEF Hours, Days

(* get_next_fire_time.                                                     *)
LEMMA NextFireIs ==
  ASSUME NEW schedule, NEW from \in 0..Never
  PROVE  /\ NextFire(schedule, from) \in 0..Never
         /\ NextFire(schedule, from) \in Deadlines(schedule) \cup {Never}
         /\ from <= NextFire(schedule, from)
         /\ \A h \in Deadlines(schedule) :
              from <= h => NextFire(schedule, from) <= h
<1> DEFINE N == {h \in Deadlines(schedule) : h >= from} \cup {Never}
<1>1. N \in SUBSET Nat /\ N # {} /\ \A n \in N : from <= n /\ n <= Never
  BY Constants DEF Deadlines
<1>2. \E n \in N : \A m \in N : n <= m
  <2> HIDE DEF N
  <2> QED
    BY <1>1, LeastNatural
<1>3. Min(N) \in N /\ \A m \in N : Min(N) <= m
  <2> HIDE DEF N
  <2> QED
    BY <1>2 DEF Min
<1>4. NextFire(schedule, from) = Min(N)
  BY DEF NextFire
<1>5. QED
  BY <1>1, <1>3, <1>4

(* add_job.                                                                *)
LEMMA JobForIs ==
  ASSUME NEW r \in Row, now \in Hours
  PROVE  /\ JobFor(r) \in Job
         /\ JobFor(r) # NoJob <=> Planned(r)
         /\ JobFor(r) # NoJob => JobFor(r).schedule = r.schedule
         /\ JobFor(r).schedule = {} => JobFor(r) = NoJob
         /\ \A h \in Deadlines(JobFor(r).schedule) : h > now => JobFor(r).next <= h
<1>1. now \in Nat /\ now + 1 \in 0..Never
  BY Constants DEF Hours
<1>2. /\ NextFire(r.schedule, now + 1) \in 0..Never
      /\ \A h \in Deadlines(r.schedule) :
           now + 1 <= h => NextFire(r.schedule, now + 1) <= h
  BY <1>1, NextFireIs
<1>3. r.schedule \in Schedules
  BY DEF Row
<1>4. Deadlines({}) = {}
  BY DEF Deadlines
<1>5. CASE Planned(r)
  <2>1. JobFor(r) = [schedule |-> r.schedule, next |-> NextFire(r.schedule, now + 1)]
    BY <1>5 DEF JobFor
  <2>2. r.schedule # {}
    BY <1>5 DEF Planned
  <2>3. ASSUME NEW h \in Deadlines(r.schedule), h > now
        PROVE  now + 1 <= h
    BY <1>1, <2>3 DEF Deadlines
  <2>4. QED
    BY <1>2, <1>3, <1>5, <2>1, <2>2, <2>3 DEF Job, NoJob
<1>6. CASE ~Planned(r)
  BY <1>4, <1>6, Constants DEF JobFor, NoJob, Job
<1>7. QED
  BY <1>5, <1>6

(* The missed targets, each of them once.                                  *)
LEMMA MissedOnce ==
  ASSUME NEW S \in SUBSET Targets, NEW s \in SetToSeqs(S)
  PROVE  /\ s \in Seq(Targets) /\ IsInjective(s)
         /\ \A t \in S : \E i \in DOMAIN s : s[i] = t
<1>1. IsFiniteSet(S) /\ Cardinality(S) \in Nat
  BY Constants, FS_Subset, FS_CardinalityType
<1> DEFINE n == Cardinality(S)
<1>2. s \in [1..n -> S] /\ \A i, j \in 1..n : i # j => s[i] # s[j]
  BY DEF SetToSeqs
<1>3. s \in Seq(Targets) /\ IsInjective(s)
  BY <1>1, <1>2 DEF IsInjective
<1>4. s \in Injection(1..n, S)
  BY <1>2, <1>3 DEF Injection
<1>5. Cardinality(1..n) = n
  BY <1>1, FS_Interval
<1>6. s \in Surjection(1..n, S)
  BY <1>1, <1>4, <1>5, FS_Injection
<1>7. QED
  BY <1>2, <1>3, <1>6 DEF Surjection

-----------------------------------------------------------------------------
(* Types.                                                                  *)

LEMMA IdleIsTask ==
  /\ Idle \in Task /\ NoRow \in Row /\ NoJob \in Job /\ 0 \in Hours
  /\ ~Planned(NoRow)
<1>1. 0 \in Hours /\ 0 \in Days /\ 0 \in 0..LastTarget
  BY Constants, DaysOfHours DEF Hours, Days
<1>2. QED
  BY <1>1, Constants
  DEF Idle, Task, Steps, Fields, NoRow, Row, NoJob, Job, Planned

(* A coroutine moves.                                                      *)
LEMMA TaskMoves ==
  ASSUME task \in [Coroutines -> Task], NEW c \in Coroutines,
         NEW r \in Task, task' = [task EXCEPT ![c] = r]
  PROVE  /\ task' \in [Coroutines -> Task]
         /\ task'[c] = r /\ \A c2 \in Coroutines \ {c} : task'[c2] = task[c2]
OBVIOUS

LEMMA EndMoves ==
  ASSUME task \in [Coroutines -> Task], NEW c \in Coroutines, End(c)
  PROVE  /\ task' \in [Coroutines -> Task]
         /\ task'[c] = Idle /\ \A c2 \in Coroutines \ {c} : task'[c2] = task[c2]
BY TaskMoves, IdleIsTask DEF End

(* Only the step of a coroutine changes, its day or its target.            *)
LEMMA TaskGoesOn ==
  ASSUME task \in [Coroutines -> Task], NEW c \in Coroutines, NEW s \in Steps
  PROVE  /\ [task[c] EXCEPT !.step = s] \in Task
         /\ \A d \in Days : [task[c] EXCEPT !.step = s, !.day = d] \in Task
         /\ \A t \in Targets : [task[c] EXCEPT !.step = s, !.target = t] \in Task
         /\ \A e \in BOOLEAN, h \in Schedules :
              [task[c] EXCEPT !.step = s, !.enabled = e, !.schedule = h] \in Task
<1>1. PICK r \in Task : r = task[c]
  OBVIOUS
<1>2. [r EXCEPT !.step = s] \in Task
  BY DEF Task
<1>3. ASSUME NEW d \in Days
      PROVE  [r EXCEPT !.step = s, !.day = d] \in Task
  BY DEF Task
<1>4. ASSUME NEW t \in Targets
      PROVE  [r EXCEPT !.step = s, !.target = t] \in Task
  <2>1. t \in 0..LastTarget
    BY Constants DEF Targets
  <2>2. QED
    BY <2>1 DEF Task
<1>5. ASSUME NEW e \in BOOLEAN, NEW h \in Schedules
      PROVE  [r EXCEPT !.step = s, !.enabled = e, !.schedule = h] \in Task
  BY DEF Task
<1>6. QED
  BY <1>1, <1>2, <1>3, <1>4, <1>5

LEMMA CountMoves ==
  ASSUME TypeInvariant, NEW c \in Coroutines, Count(c)
  PROVE  /\ task' \in [Coroutines -> Task]
         /\ \A c2 \in Coroutines \ {c} : task'[c2] = task[c2]
         /\ \/ task'[c] = Idle /\ UNCHANGED orgLock
            \/ /\ task'[c] = [task[c] EXCEPT !.step = "reserve", !.day = Day(now)]
               /\ orgLock' = c
               /\ DailyQuota > 0 => ~(StartedOn(Day(now)) >= DailyQuota)
<1>1. Day(now) \in Days /\ "reserve" \in Steps
  BY DaysOfHours DEF TypeInvariant, Steps
<1>2. task \in [Coroutines -> Task]
  BY DEF TypeInvariant
<1>3. CASE DailyQuota > 0 /\ StartedOn(Day(now)) >= DailyQuota
  BY <1>2, <1>3, EndMoves DEF Count
<1>4. CASE ~(DailyQuota > 0 /\ StartedOn(Day(now)) >= DailyQuota)
  <2>1. /\ task' = [task EXCEPT ![c] = [task[c] EXCEPT !.step = "reserve",
                                                       !.day = Day(now)]]
        /\ orgLock' = c
    BY <1>2, <1>4 DEF Count
  <2>2. [task[c] EXCEPT !.step = "reserve", !.day = Day(now)] \in Task
    BY <1>1, <1>2, TaskGoesOn
  <2>3. QED
    BY <1>2, <1>4, <2>1, <2>2, TaskMoves
<1>5. QED
  BY <1>3, <1>4

LEMMA InitTypes == Init => TypeInvariant
<1> SUFFICES ASSUME Init
             PROVE  TypeInvariant
  OBVIOUS
<1>1. PICK first \in Schedules :
        row = [t \in Targets |-> IF t = 1 /\ first # {}
                 THEN [state |-> "live", enabled |-> TRUE, schedule |-> first]
                 ELSE NoRow]
  BY DEF Init
<1>2. row \in [Targets -> Row]
  <2>1. [state |-> "live", enabled |-> TRUE, schedule |-> first] \in Row
    BY DEF Row
  <2>2. QED
    BY <1>1, <2>1, IdleIsTask
<1>3. now \in Hours /\ job \in [Targets -> Job] /\ task \in [Coroutines -> Task]
  BY IdleIsTask DEF Init
<1>4. missed \in Seq(Targets) /\ IsInjective(missed)
  BY DEF Init, IsInjective
<1>5. started \in [Targets -> [Days -> Nat]]
  BY DEF Init
<1>6. events \in 0..MaxEvents
  BY Constants DEF Init
<1>7. QED
  BY <1>2, <1>3, <1>4, <1>5, <1>6 DEF Init, TypeInvariant

LEMMA EventCounts ==
  ASSUME TypeInvariant, Event
  PROVE  events' \in 0..MaxEvents
BY Constants DEF TypeInvariant, Event

LEMMA TypeTime ==
  ASSUME TypeInvariant, Tick \/ Start \/ Crash
  PROVE  TypeInvariant'
<1>1. CASE Tick
  <2>1. now + 1 \in Hours
    BY <1>1, Constants DEF Tick, TypeInvariant, Hours
  <2>2. owed' \in [Targets -> Hours \cup {NoHour}]
    BY <1>1, <2>1 DEF Tick, TypeInvariant
  <2>3. skipped' \subseteq Targets
    BY <1>1 DEF Tick, TypeInvariant
  <2>4. QED
    BY <1>1, <2>1, <2>2, <2>3
    DEF Tick, TypeInvariant, apiVars, dbVars, runVars
<1>2. CASE Start
  <2>1. job' \in [Targets -> Job]
    BY <1>2, JobForIs DEF Start, TypeInvariant
  <2>2. QED
    BY <1>2, <2>1 DEF Start, TypeInvariant, dbVars, runVars, ghosts
<1>3. CASE Crash
  <2>1. job' \in [Targets -> Job] /\ task' \in [Coroutines -> Task]
    BY <1>3, IdleIsTask DEF Crash
  <2>2. missed' \in Seq(Targets) /\ IsInjective(missed')
    BY <1>3 DEF Crash, IsInjective
  <2>3. events' \in 0..MaxEvents
    BY <1>3, EventCounts DEF Crash
  <2>4. orgLock' \in Callers \cup {Nobody}
    BY <1>3 DEF Crash, Callers
  <2>5. QED
    BY <1>3, <2>1, <2>2, <2>3, <2>4 DEF Crash, TypeInvariant, runVars
<1>4. QED
  BY <1>1, <1>2, <1>3

(* Fire: the deadline after the one that is due.                           *)
LEMMA FireMoves ==
  ASSUME TypeInvariant, NEW t \in Targets, Fire(t)
  PROVE  /\ job' \in [Targets -> Job] /\ job[t] # NoJob
         /\ job'[t] = [job[t] EXCEPT !.next = NextFire(job[t].schedule, now + 1)]
         /\ \A t2 \in Targets \ {t} : job'[t2] = job[t2]
         /\ task' \in [Coroutines -> Task]
         /\ \/ /\ task[t] = Idle /\ skipped' = skipped
               /\ task'[t] = [Idle EXCEPT !.step = "trigger", !.target = t]
               /\ \A c \in Coroutines \ {t} : task'[c] = task[c]
               /\ owed' = [owed EXCEPT ![t] = NoHour]
            \/ /\ UNCHANGED <<task, owed>> /\ skipped' = skipped \cup {t}
<1>1. now \in Nat /\ now + 1 \in 0..Never /\ now < Never
  BY Constants DEF TypeInvariant, Hours, Never
<1>2. NextFire(job[t].schedule, now + 1) \in 0..Never
  BY <1>1, NextFireIs
<1>3. /\ job' \in [Targets -> Job]
      /\ job'[t] = [job[t] EXCEPT !.next = NextFire(job[t].schedule, now + 1)]
      /\ \A t2 \in Targets \ {t} : job'[t2] = job[t2]
  BY <1>2 DEF Fire, TypeInvariant, Job
<1>4. job[t] # NoJob
  <2>1. job[t].next <= now
    BY DEF Fire, Due
  <2>2. NoJob.next = Never /\ Never \in Nat
    BY Constants DEF NoJob
  <2>3. QED
    BY <1>1, <2>1, <2>2
<1>5. t \in Coroutines
  BY DEF Coroutines
<1>6. [Idle EXCEPT !.step = "trigger", !.target = t] \in Task
  <2>1. Idle \in Task /\ t \in 0..LastTarget /\ "trigger" \in Steps
    BY IdleIsTask, Constants DEF Targets, Steps
  <2>2. QED
    BY <2>1 DEF Task
<1>7. CASE task[t] = Idle
  <2>1. /\ task' = [task EXCEPT ![t] = [Idle EXCEPT !.step = "trigger",
                                                    !.target = t]]
        /\ owed' = [owed EXCEPT ![t] = NoHour] /\ skipped' = skipped
    BY <1>7 DEF Fire
  <2>2. /\ task' \in [Coroutines -> Task]
        /\ task'[t] = [Idle EXCEPT !.step = "trigger", !.target = t]
        /\ \A c \in Coroutines \ {t} : task'[c] = task[c]
    BY <1>5, <1>6, <2>1, TaskMoves DEF TypeInvariant
  <2>3. QED
    BY <1>3, <1>4, <1>7, <2>1, <2>2
<1>8. CASE task[t] # Idle
  BY <1>3, <1>4, <1>8 DEF Fire, TypeInvariant
<1>9. QED
  BY <1>7, <1>8

(* CatchUpNext and Manual: a trigger is about to start.                    *)
LEMMA TriggerTask ==
  ASSUME TypeInvariant, NEW c \in Coroutines, NEW t \in Targets,
         task' = [task EXCEPT ![c] = [Idle EXCEPT !.step = "trigger", !.target = t]]
  PROVE  /\ task' \in [Coroutines -> Task]
         /\ task'[c] = [Idle EXCEPT !.step = "trigger", !.target = t]
         /\ \A c2 \in Coroutines \ {c} : task'[c2] = task[c2]
<1>1. [Idle EXCEPT !.step = "trigger", !.target = t] \in Task
  <2>1. Idle \in Task /\ t \in 0..LastTarget /\ "trigger" \in Steps
    BY IdleIsTask, Constants DEF Targets, Steps
  <2>2. QED
    BY <2>1 DEF Task
<1>2. QED
  BY <1>1, TaskMoves DEF TypeInvariant

LEMMA CatchUpNextMoves ==
  ASSUME TypeInvariant, CatchUpNext
  PROVE  /\ Head(missed) \in Targets /\ CatchupTask \in Coroutines
         /\ missed' \in Seq(Targets) /\ IsInjective(missed')
         /\ \A i \in DOMAIN missed : missed[i] # Head(missed) =>
              \E j \in DOMAIN missed' : missed'[j] = missed[i]
         /\ owed' = [owed EXCEPT ![Head(missed)] = NoHour]
         /\ task' = [task EXCEPT ![CatchupTask] =
                       [Idle EXCEPT !.step = "trigger", !.target = Head(missed)]]
         /\ task[CatchupTask] = Idle
<1>1. missed \in Seq(Targets) /\ missed # <<>> /\ IsInjective(missed)
  BY DEF TypeInvariant, CatchUpNext
<1>2. /\ missed' = Tail(missed) /\ missed' \in Seq(Targets)
      /\ Head(missed) \in Targets /\ Head(missed) = missed[1]
      /\ Len(missed') = Len(missed) - 1
      /\ \A j \in 1..(Len(missed) - 1) : missed'[j] = missed[j + 1]
  BY <1>1 DEF CatchUpNext
<1>3. /\ DOMAIN missed = 1..Len(missed) /\ DOMAIN missed' = 1..(Len(missed) - 1)
      /\ Len(missed) \in Nat
  BY <1>1, <1>2
<1>4. IsInjective(missed')
  BY <1>1, <1>2, <1>3 DEF IsInjective
<1>5. ASSUME NEW i \in DOMAIN missed, missed[i] # Head(missed)
      PROVE  \E j \in DOMAIN missed' : missed'[j] = missed[i]
  <2>1. i - 1 \in 1..(Len(missed) - 1) /\ (i - 1) + 1 = i
    BY <1>2, <1>3, <1>5
  <2>2. QED
    BY <1>2, <1>3, <2>1
<1>6. QED
  BY <1>2, <1>4, <1>5 DEF CatchUpNext, Coroutines

LEMMA TypeLoop ==
  ASSUME TypeInvariant, TasksAreSound,
         \/ CatchUp \/ CatchUpNext \/ \E t \in Targets : Fire(t)
         \/ \E q \in Requests, t \in Targets : Manual(q, t)
  PROVE  TypeInvariant'
<1>1. CASE CatchUp
  <2>1. missed' \in Seq(Targets) /\ IsInjective(missed')
    BY <1>1, MissedOnce DEF CatchUp
  <2>2. QED
    BY <1>1, <2>1 DEF CatchUp, TypeInvariant, dbVars, runVars
<1>2. CASE CatchUpNext
  <2>1. task' \in [Coroutines -> Task]
    BY <1>2, CatchUpNextMoves, TriggerTask
  <2>2. owed' \in [Targets -> Hours \cup {NoHour}]
    BY <1>2, CatchUpNextMoves DEF TypeInvariant
  <2>3. missed' \in Seq(Targets) /\ IsInjective(missed')
    BY <1>2, CatchUpNextMoves
  <2>4. QED
    BY <1>2, <2>1, <2>2, <2>3 DEF CatchUpNext, TypeInvariant, dbVars, runVars
<1>3. ASSUME NEW t \in Targets, Fire(t)
      PROVE  TypeInvariant'
  <2>1. /\ job' \in [Targets -> Job] /\ task' \in [Coroutines -> Task]
        /\ owed' \in [Targets -> Hours \cup {NoHour}] /\ skipped' \subseteq Targets
    BY <1>3, FireMoves DEF TypeInvariant
  <2>2. QED
    BY <1>3, <2>1 DEF Fire, TypeInvariant, dbVars, runVars
<1>4. ASSUME NEW q \in Requests, NEW t \in Targets, Manual(q, t)
      PROVE  TypeInvariant'
  <2>1. task' \in [Coroutines -> Task]
    BY <1>4, TriggerTask DEF Manual, Coroutines
  <2>2. owed' \in [Targets -> Hours \cup {NoHour}]
    BY <1>4 DEF Manual, TypeInvariant
  <2>3. events' \in 0..MaxEvents
    BY <1>4, EventCounts DEF Manual
  <2>4. QED
    BY <1>4, <2>1, <2>2, <2>3 DEF Manual, TypeInvariant, dbVars, runVars
<1>5. QED
  BY <1>1, <1>2, <1>3, <1>4

(* What a coroutine of the event loop does before it has its answer.       *)
LEMMA LockMoves ==
  ASSUME TypeInvariant, NEW c \in Coroutines,
         Trigger(c) \/ LockGranted(c) \/ LockTimeout(c)
  PROVE  /\ task' \in [Coroutines -> Task]
         /\ \A c2 \in Coroutines \ {c} : task'[c2] = task[c2]
         /\ UNCHANGED <<now, api, job, missed, row, runVars, events, ghosts>>
         /\ loop' \in {loop, c, Nobody}
         /\ \/ task'[c] = Idle /\ UNCHANGED orgLock /\ loop' # c
            \/ /\ task'[c] = [task[c] EXCEPT !.step = "blocked"]
               /\ loop' = c /\ UNCHANGED orgLock /\ task[c].step = "trigger"
            \/ /\ task'[c] = [task[c] EXCEPT !.step = "reserve", !.day = Day(now)]
               /\ orgLock = Nobody /\ orgLock' = c /\ loop' # c
               /\ task[c].step = "trigger" \/ loop = c
               /\ DailyQuota > 0 => ~(StartedOn(Day(now)) >= DailyQuota)
         /\ (task[c].step = "trigger" /\ loop = Nobody) \/ loop = c
<1>0. task \in [Coroutines -> Task] /\ c # Nobody
  BY Constants DEF TypeInvariant, Callers
<1>1. CASE Trigger(c)
  <2>1. /\ UNCHANGED <<now, api, job, missed, row, runVars, events, ghosts>>
        /\ loop = Nobody /\ task[c].step = "trigger"
    BY <1>1 DEF Trigger, LoopRuns
  <2>2. \/ End(c) /\ UNCHANGED <<loop, orgLock>>
        \/ orgLock = Nobody /\ Count(c) /\ UNCHANGED loop
        \/ /\ task' = [task EXCEPT ![c] = [task[c] EXCEPT !.step = "blocked"]]
           /\ loop' = c /\ UNCHANGED orgLock
    BY <1>0, <1>1 DEF Trigger
  <2>3. CASE End(c) /\ UNCHANGED <<loop, orgLock>>
    BY <1>0, <2>1, <2>3, EndMoves
  <2>4. CASE orgLock = Nobody /\ Count(c) /\ UNCHANGED loop
    BY <1>0, <2>1, <2>4, CountMoves
  <2>5. CASE /\ task' = [task EXCEPT ![c] = [task[c] EXCEPT !.step = "blocked"]]
             /\ loop' = c /\ UNCHANGED orgLock
    <3>1. [task[c] EXCEPT !.step = "blocked"] \in Task
      BY <1>0, TaskGoesOn DEF Steps
    <3>2. QED
      BY <1>0, <2>1, <2>5, <3>1, TaskMoves
  <2>6. QED
    BY <2>2, <2>3, <2>4, <2>5
<1>2. CASE LockGranted(c)
  BY <1>0, <1>2, CountMoves DEF LockGranted
<1>3. CASE LockTimeout(c)
  BY <1>0, <1>3, EndMoves DEF LockTimeout, dbVars
<1>4. QED
  BY <1>1, <1>2, <1>3

(* Reserve: the run is created, or not; the lock is given back.            *)
LEMMA ReserveMoves ==
  ASSUME TypeInvariant, TasksAreSound, NEW c \in Coroutines, Reserve(c)
  PROVE  /\ task' \in [Coroutines -> Task] /\ task[c].step = "reserve"
         /\ task'[c] = Idle /\ \A c2 \in Coroutines \ {c} : task'[c2] = task[c2]
         /\ orgLock = c /\ orgLock' = Nobody
         /\ UNCHANGED <<now, api, job, missed, loop, row, captured, events, ghosts>>
         /\ \A t \in Targets : dated[t] \subseteq dated'[t]
         /\ \/ UNCHANGED started
            \/ started' = [started EXCEPT ![task[c].target][Day(now)] = @ + 1]
         /\ started' \in [Targets -> [Days -> Nat]]
         /\ dated' \in [Targets -> SUBSET Days]
         /\ unsettled' \subseteq Targets \X Days
<1>1. /\ task[c].step = "reserve" /\ End(c) /\ orgLock' = GiveBack(c)
      /\ UNCHANGED <<now, api, job, missed, loop, row, captured, events, ghosts>>
  BY DEF Reserve
<1>2. /\ task \in [Coroutines -> Task] /\ task[c].day \in Days /\ Day(now) \in Days
      /\ task[c].target \in Targets /\ orgLock = c
  BY <1>1, DaysOfHours DEF TypeInvariant, TasksAreSound, Task, TargetSteps
<1>3. \/ UNCHANGED <<started, dated, unsettled>>
      \/ /\ started' = [started EXCEPT ![task[c].target][Day(now)] = @ + 1]
         /\ dated' = [dated EXCEPT ![task[c].target] = @ \cup {task[c].day}]
         /\ unsettled' = unsettled \cup {<<task[c].target, task[c].day>>}
  BY DEF Reserve
<1>4. /\ \A t \in Targets : dated[t] \subseteq dated'[t]
      /\ started' \in [Targets -> [Days -> Nat]]
      /\ dated' \in [Targets -> SUBSET Days]
      /\ unsettled' \subseteq Targets \X Days
  <2>1. /\ started \in [Targets -> [Days -> Nat]]
        /\ dated \in [Targets -> SUBSET Days]
        /\ unsettled \subseteq Targets \X Days
    BY DEF TypeInvariant
  <2>2. started' \in [Targets -> [Days -> Nat]]
    <3>1. CASE started' = [started EXCEPT ![task[c].target][Day(now)] = @ + 1]
      BY <1>2, <2>1, <3>1
    <3>2. QED
      BY <1>3, <2>1, <3>1
  <2>3. (\A t \in Targets : dated[t] \subseteq dated'[t])
          /\ dated' \in [Targets -> SUBSET Days]
    <3>1. CASE dated' = [dated EXCEPT ![task[c].target] = @ \cup {task[c].day}]
      BY <1>2, <2>1, <3>1
    <3>2. QED
      BY <1>3, <2>1, <3>1
  <2>4. unsettled' \subseteq Targets \X Days
    BY <1>2, <1>3, <2>1
  <2>5. QED
    BY <2>2, <2>3, <2>4
<1>5. QED
  BY <1>1, <1>2, <1>3, <1>4, EndMoves DEF GiveBack

LEMMA TypeCoroutine ==
  ASSUME TypeInvariant, TasksAreSound, NEW c \in Coroutines, CoroutineStep(c)
  PROVE  TypeInvariant'
<1>1. CASE Trigger(c) \/ LockGranted(c) \/ LockTimeout(c)
  <2>1. /\ task' \in [Coroutines -> Task] /\ loop' \in {loop, c, Nobody}
        /\ orgLock' \in {orgLock, c}
        /\ UNCHANGED <<now, api, job, missed, row, runVars, events, ghosts>>
    BY <1>1, LockMoves
  <2>2. QED
    BY <2>1 DEF TypeInvariant, runVars, ghosts, Callers
<1>2. CASE Reserve(c)
  BY <1>2, ReserveMoves DEF TypeInvariant, ghosts, Callers
<1>3. QED
  BY <1>1, <1>2 DEF CoroutineStep

LEMMA TypeWorker ==
  ASSUME TypeInvariant, WorkerStep
  PROVE  TypeInvariant'
<1>1. CASE WorkerStores
  BY <1>1 DEF WorkerStores, TypeInvariant, apiVars, runVars, ghosts, Callers
<1>2. ASSUME NEW u \in unsettled, NEW success \in BOOLEAN, Settle(u, success)
      PROVE  TypeInvariant'
  <2>1. u[1] \in Targets /\ u[2] \in Days
    BY DEF TypeInvariant
  <2>2. captured' \in [Targets -> SUBSET Days]
    BY <1>2, <2>1 DEF Settle, TypeInvariant
  <2>3. /\ unsettled' \subseteq Targets \X Days
        /\ orgLock' \in Callers \cup {Nobody}
    BY <1>2 DEF Settle, TypeInvariant, GiveBack
  <2>4. QED
    BY <1>2, <2>2, <2>3 DEF Settle, TypeInvariant, apiVars, ghosts
<1>3. QED
  BY <1>1, <1>2 DEF WorkerStep

(* The requests, one lemma for each of their steps.                        *)
LEMMA CreateMoves ==
  ASSUME TypeInvariant, NEW q \in Requests, NEW e \in BOOLEAN, NEW s \in Schedules,
         BeginCreate(q, e, s)
  PROVE  /\ q \in Coroutines /\ task[q] = Idle
         /\ task' \in [Coroutines -> Task] /\ task'[q].step = "insert"
         /\ \A c \in Coroutines \ {q} : task'[c] = task[c]
         /\ orgLock = Nobody /\ orgLock' = q /\ api # "down"
         /\ TargetQuota > 0 => Cardinality(LiveTargets) < TargetQuota
         /\ events' \in 0..MaxEvents
         /\ UNCHANGED <<now, api, job, missed, loop, row, runVars, ghosts>>
<1>1. q \in Coroutines
  BY DEF Coroutines
<1> DEFINE r == [Idle EXCEPT !.step = "insert", !.enabled = e, !.schedule = s]
<1>2. r \in Task /\ r.step = "insert"
  BY IdleIsTask DEF Task, Steps
<1>3. task' = [task EXCEPT ![q] = r]
  BY DEF BeginCreate
<1>4. /\ task' \in [Coroutines -> Task] /\ task'[q].step = "insert"
      /\ \A c \in Coroutines \ {q} : task'[c] = task[c]
  <2> HIDE DEF r
  <2> QED
    BY <1>1, <1>2, <1>3, TaskMoves DEF TypeInvariant
<1>5. QED
  BY <1>1, <1>4, EventCounts DEF BeginCreate, Serves, MayCreate

LEMMA InsertMoves ==
  ASSUME TypeInvariant, TasksAreSound, NEW q \in Requests, Insert(q)
  PROVE  \E t \in Targets :
         /\ q \in Coroutines /\ task[q].step = "insert" /\ row[t].state = "unused"
         /\ task' \in [Coroutines -> Task] /\ row' \in [Targets -> Row]
         /\ task'[q].step = "reprogram" /\ task'[q].target = t
         /\ row'[t].state = "live"
         /\ row'[t].enabled = task'[q].enabled
         /\ row'[t].schedule = task'[q].schedule
         /\ \A c \in Coroutines \ {q} : task'[c] = task[c]
         /\ \A t2 \in Targets \ {t} : row'[t2] = row[t2]
         /\ orgLock = q /\ orgLock' = Nobody
         /\ UNCHANGED <<now, api, job, missed, loop, runVars, events, ghosts>>
<1>1. q \in Coroutines /\ task[q].step = "insert" /\ orgLock = q
  BY DEF Coroutines, Insert, TasksAreSound
<1> DEFINE t == Min(Unused)
<1>2. t \in Unused /\ t \in Targets /\ row[t].state = "unused"
  <2>1. Unused \in SUBSET Nat /\ Unused # {}
    BY DEF Unused, Targets, Insert
  <2>2. \E n \in Unused : \A m \in Unused : n <= m
    BY <2>1, LeastNatural
  <2>3. t \in Unused
    BY <2>2 DEF Min
  <2>4. QED
    BY <2>3 DEF Unused
<1> DEFINE r == [task[q] EXCEPT !.step = "reprogram", !.target = t]
           new == [state |-> "live", enabled |-> task[q].enabled,
                   schedule |-> task[q].schedule]
<1>3. /\ task' = [task EXCEPT ![q] = r] /\ row' = [row EXCEPT ![t] = new]
      /\ orgLock' = GiveBack(q)
      /\ UNCHANGED <<now, api, job, missed, loop, runVars, events, ghosts>>
  BY <1>1 DEF Insert, TypeInvariant
<1>4. task[q] \in Task /\ task \in [Coroutines -> Task] /\ row \in [Targets -> Row]
  BY <1>1 DEF TypeInvariant
<1>5. r \in Task
  BY <1>1, <1>2, <1>4, TaskGoesOn DEF Steps
<1>6. /\ r.step = "reprogram" /\ r.target = t
      /\ r.enabled = task[q].enabled /\ r.schedule = task[q].schedule
  BY <1>4 DEF Task
<1>7. new \in Row /\ new.state = "live" /\ new.enabled = task[q].enabled
        /\ new.schedule = task[q].schedule
  BY <1>4 DEF Task, Row
<1> HIDE DEF t, r, new
<1>8. /\ task' \in [Coroutines -> Task] /\ task'[q] = r
      /\ \A c \in Coroutines \ {q} : task'[c] = task[c]
  BY <1>1, <1>3, <1>4, <1>5, TaskMoves
<1>9. /\ row' \in [Targets -> Row] /\ row'[t] = new
      /\ \A t2 \in Targets \ {t} : row'[t2] = row[t2]
  BY <1>2, <1>3, <1>4, <1>7
<1>10. QED
  BY <1>1, <1>2, <1>3, <1>6, <1>7, <1>8, <1>9 DEF GiveBack

LEMMA OverlapNoted ==
  ASSUME TypeInvariant, NEW t \in Targets, NoteOverlap(t)
  PROVE  /\ overlapped' \subseteq Targets
         /\ \A t2 \in Targets \ {t} : t2 \in overlapped' <=> t2 \in overlapped
         /\ t \in overlapped => t \in overlapped'
         /\ Changing(t) # {} => t \in overlapped'
         /\ t \in overlapped' => t \in overlapped \/ Changing(t) # {}
BY DEF NoteOverlap, TypeInvariant

LEMMA UpdateMoves ==
  ASSUME TypeInvariant, NEW q \in Requests, NEW t \in Targets,
         NEW f \in Fields \ {"none"}, NEW e \in BOOLEAN, NEW s \in Schedules,
         BeginUpdate(q, t, f, e, s)
  PROVE  /\ q \in Coroutines /\ task[q] = Idle /\ Live(t) /\ api # "down"
         /\ task' \in [Coroutines -> Task]
         /\ task'[q].step = "commit" /\ task'[q].target = t
         /\ \A c \in Coroutines \ {q} : task'[c] = task[c]
         /\ NoteOverlap(t)
         /\ events' \in 0..MaxEvents
         /\ UNCHANGED <<now, api, job, missed, loop, dbVars, owed, caughtUpAt, skipped>>
<1>1. q \in Coroutines /\ t \in 0..LastTarget
  BY Constants DEF Coroutines, Targets
<1> DEFINE r == [Idle EXCEPT !.step = "commit", !.target = t,
                   !.field = f, !.enabled = e, !.schedule = s]
<1>2. r \in Task /\ r.step = "commit" /\ r.target = t
  BY <1>1, IdleIsTask DEF Task, Steps
<1>3. task' = [task EXCEPT ![q] = r]
  BY DEF BeginUpdate
<1>4. /\ task' \in [Coroutines -> Task] /\ task'[q] = r
      /\ \A c \in Coroutines \ {q} : task'[c] = task[c]
  <2> HIDE DEF r
  <2> QED
    BY <1>1, <1>2, <1>3, TaskMoves DEF TypeInvariant
<1>5. QED
  BY <1>1, <1>2, <1>4, EventCounts DEF BeginUpdate, Serves

LEMMA DeleteMoves ==
  ASSUME TypeInvariant, NEW q \in Requests, NEW t \in Targets, BeginDelete(q, t)
  PROVE  /\ q \in Coroutines /\ task[q] = Idle /\ Live(t) /\ api # "down"
         /\ task' \in [Coroutines -> Task]
         /\ task'[q].step = "delete" /\ task'[q].target = t
         /\ \A c \in Coroutines \ {q} : task'[c] = task[c]
         /\ job' \in [Targets -> Job] /\ job'[t] = NoJob
         /\ \A t2 \in Targets \ {t} : job'[t2] = job[t2]
         /\ NoteOverlap(t)
         /\ events' \in 0..MaxEvents
         /\ UNCHANGED <<now, api, missed, loop, dbVars, owed, caughtUpAt, skipped>>
<1>1. q \in Coroutines /\ t \in 0..LastTarget
  BY Constants DEF Coroutines, Targets
<1> DEFINE r == [Idle EXCEPT !.step = "delete", !.target = t]
<1>2. r \in Task /\ r.step = "delete" /\ r.target = t
  BY <1>1, IdleIsTask DEF Task, Steps
<1>3. task' = [task EXCEPT ![q] = r]
  BY DEF BeginDelete
<1>4. /\ task' \in [Coroutines -> Task] /\ task'[q] = r
      /\ \A c \in Coroutines \ {q} : task'[c] = task[c]
  <2> HIDE DEF r
  <2> QED
    BY <1>1, <1>2, <1>3, TaskMoves DEF TypeInvariant
<1>5. /\ job' \in [Targets -> Job] /\ job'[t] = NoJob
      /\ \A t2 \in Targets \ {t} : job'[t2] = job[t2]
  BY IdleIsTask DEF BeginDelete, TypeInvariant
<1>6. QED
  BY <1>1, <1>2, <1>4, <1>5, EventCounts DEF BeginDelete, Serves

LEMMA CommitMoves ==
  ASSUME TypeInvariant, TasksAreSound, NEW q \in Requests, CommitUpdate(q)
  PROVE  /\ q \in Coroutines /\ task[q].step = "commit" /\ task[q].target \in Targets
         /\ task' \in [Coroutines -> Task] /\ row' \in [Targets -> Row]
         /\ \A c \in Coroutines \ {q} : task'[c] = task[c]
         /\ \A t \in Targets \ {task[q].target} : row'[t] = row[t]
         /\ \A t \in Targets : row'[t].state = row[t].state
         /\ \/ /\ Live(task[q].target)
               /\ task'[q].step = "reprogram" /\ task'[q].target = task[q].target
               /\ row'[task[q].target].enabled = task'[q].enabled
               /\ row'[task[q].target].schedule = task'[q].schedule
               /\ owed' = [owed EXCEPT ![task[q].target] = NoHour]
            \/ /\ ~Live(task[q].target) /\ task'[q] = Idle /\ UNCHANGED <<row, owed>>
         /\ UNCHANGED <<now, api, job, missed, loop, orgLock, runVars, events,
                        caughtUpAt, skipped, overlapped>>
<1>1. /\ q \in Coroutines /\ task[q].step = "commit" /\ task[q].target \in Targets
      /\ task[q] \in Task /\ task \in [Coroutines -> Task]
      /\ row \in [Targets -> Row]
  BY DEF Coroutines, CommitUpdate, TasksAreSound, TargetSteps, TypeInvariant
<1> DEFINE t == task[q].target
           new == IF task[q].field = "enabled"
                  THEN [row[t] EXCEPT !.enabled = task[q].enabled]
                  ELSE [row[t] EXCEPT !.schedule = task[q].schedule]
           r == [task[q] EXCEPT !.step = "reprogram", !.enabled = new.enabled,
                                !.schedule = new.schedule]
<1>2. new \in Row /\ new.state = row[t].state
        /\ new.enabled \in BOOLEAN /\ new.schedule \in Schedules
  BY <1>1 DEF Row, Task
<1>3. /\ UNCHANGED <<now, api, job, missed, loop, orgLock, runVars, events,
                     caughtUpAt, skipped, overlapped>>
      /\ \/ /\ Live(t) /\ row' = [row EXCEPT ![t] = new]
            /\ task' = [task EXCEPT ![q] = r]
            /\ owed' = [owed EXCEPT ![t] = NoHour]
         \/ ~Live(t) /\ End(q) /\ UNCHANGED <<row, owed>>
  BY <1>1 DEF CommitUpdate
<1> HIDE DEF new
<1>4. r \in Task
  BY <1>1, <1>2, TaskGoesOn DEF Steps
<1>5. /\ r.step = "reprogram" /\ r.target = t
      /\ r.enabled = new.enabled /\ r.schedule = new.schedule
  BY <1>1 DEF Task
<1> HIDE DEF r
<1>6. CASE Live(t) /\ row' = [row EXCEPT ![t] = new] /\ task' = [task EXCEPT ![q] = r]
             /\ owed' = [owed EXCEPT ![t] = NoHour]
  <2>1. /\ task' \in [Coroutines -> Task] /\ task'[q] = r
        /\ \A c \in Coroutines \ {q} : task'[c] = task[c]
    BY <1>1, <1>4, <1>6, TaskMoves
  <2>2. /\ row' \in [Targets -> Row] /\ row'[t] = new
        /\ \A t2 \in Targets \ {t} : row'[t2] = row[t2]
    BY <1>1, <1>2, <1>6
  <2>3. \A t2 \in Targets : row'[t2].state = row[t2].state
    BY <1>2, <2>2
  <2>4. QED
    BY <1>1, <1>3, <1>5, <1>6, <2>1, <2>2, <2>3
<1>7. CASE ~Live(t) /\ End(q) /\ UNCHANGED <<row, owed>>
  BY <1>1, <1>3, <1>7, EndMoves
<1>8. QED
  BY <1>3, <1>6, <1>7

LEMMA ReprogramMoves ==
  ASSUME TypeInvariant, TasksAreSound, NEW q \in Requests, Reprogram(q)
  PROVE  \E r \in Row :
         /\ q \in Coroutines /\ task[q].step = "reprogram"
         /\ task[q].target \in Targets
         /\ task' \in [Coroutines -> Task] /\ task'[q] = Idle
         /\ \A c \in Coroutines \ {q} : task'[c] = task[c]
         /\ r = [state |-> "live", enabled |-> task[q].enabled,
                 schedule |-> task[q].schedule]
         /\ job' \in [Targets -> Job] /\ job'[task[q].target] = JobFor(r)
         /\ \A t \in Targets \ {task[q].target} : job'[t] = job[t]
         /\ UNCHANGED <<now, api, missed, loop, dbVars, events, ghosts>>
<1>1. /\ q \in Coroutines /\ task[q].step = "reprogram" /\ task[q].target \in Targets
      /\ task[q] \in Task /\ task \in [Coroutines -> Task]
      /\ job \in [Targets -> Job]
  BY DEF Coroutines, Reprogram, TasksAreSound, TargetSteps, TypeInvariant
<1> DEFINE r == [state |-> "live", enabled |-> task[q].enabled,
                 schedule |-> task[q].schedule]
<1>2. r \in Row
  BY <1>1 DEF Row, Task
<1>3. /\ job' = [job EXCEPT ![task[q].target] = JobFor(r)] /\ End(q)
      /\ UNCHANGED <<now, api, missed, loop, dbVars, events, ghosts>>
  BY DEF Reprogram
<1>4. JobFor(r) \in Job
  BY <1>2, JobForIs DEF TypeInvariant
<1>5. /\ job' \in [Targets -> Job] /\ job'[task[q].target] = JobFor(r)
      /\ \A t \in Targets \ {task[q].target} : job'[t] = job[t]
  <2> HIDE DEF r
  <2> QED
    BY <1>1, <1>3, <1>4
<1>6. QED
  BY <1>1, <1>2, <1>3, <1>5, EndMoves

LEMMA CommitDeleteMoves ==
  ASSUME TypeInvariant, TasksAreSound, NEW q \in Requests, CommitDelete(q)
  PROVE  /\ q \in Coroutines /\ task[q].step = "delete" /\ task[q].target \in Targets
         /\ task' \in [Coroutines -> Task] /\ task'[q] = Idle
         /\ \A c \in Coroutines \ {q} : task'[c] = task[c]
         /\ row' \in [Targets -> Row]
         /\ row'[task[q].target] = [NoRow EXCEPT !.state = "deleted"]
         /\ owed'[task[q].target] = NoHour
         /\ \A t \in Targets \ {task[q].target} :
              row'[t] = row[t] /\ dated'[t] = dated[t] /\ owed'[t] = owed[t]
         /\ started' = [started EXCEPT ![task[q].target] = [d \in Days |-> 0]]
         /\ TypeInvariant'
         /\ UNCHANGED <<now, api, job, missed, loop, orgLock, unsettled, events,
                        caughtUpAt, skipped, overlapped>>
<1>1. /\ q \in Coroutines /\ task[q].step = "delete" /\ task[q].target \in Targets
      /\ task \in [Coroutines -> Task]
  BY DEF Coroutines, CommitDelete, TasksAreSound, TargetSteps, TypeInvariant
<1> DEFINE t == task[q].target
           none == [NoRow EXCEPT !.state = "deleted"]
<1>2. none \in Row
  BY IdleIsTask DEF Row, NoRow
<1>3. /\ row' = [row EXCEPT ![t] = none]
      /\ started' = [started EXCEPT ![t] = [d \in Days |-> 0]]
      /\ dated' = [dated EXCEPT ![t] = {}]
      /\ captured' = [captured EXCEPT ![t] = {}]
      /\ owed' = [owed EXCEPT ![t] = NoHour]
      /\ End(q)
      /\ UNCHANGED <<now, api, job, missed, loop, orgLock, unsettled, events,
                     caughtUpAt, skipped, overlapped>>
  BY DEF CommitDelete
<1>4. /\ task' \in [Coroutines -> Task] /\ task'[q] = Idle
      /\ \A c \in Coroutines \ {q} : task'[c] = task[c]
  BY <1>1, <1>3, EndMoves
<1> HIDE DEF t, none
<1>5. /\ row' \in [Targets -> Row] /\ started' \in [Targets -> [Days -> Nat]]
      /\ dated' \in [Targets -> SUBSET Days] /\ captured' \in [Targets -> SUBSET Days]
      /\ owed' \in [Targets -> Hours \cup {NoHour}]
  BY <1>2, <1>3 DEF TypeInvariant
<1>6. TypeInvariant'
  BY <1>3, <1>4, <1>5 DEF TypeInvariant
<1>7. /\ row'[t] = none /\ owed'[t] = NoHour
      /\ \A t2 \in Targets \ {t} :
           row'[t2] = row[t2] /\ dated'[t2] = dated[t2] /\ owed'[t2] = owed[t2]
  BY <1>1, <1>3 DEF TypeInvariant, t
<1>8. QED
  BY <1>1, <1>3, <1>4, <1>5, <1>6, <1>7 DEF t, none

LEMMA TypeStep ==
  ASSUME TypeInvariant, TasksAreSound, [Next]_vars
  PROVE  TypeInvariant'
<1>1. CASE UNCHANGED vars
  BY <1>1 DEF TypeInvariant, vars, apiVars, dbVars, runVars, ghosts
<1>2. CASE Tick \/ Start \/ Crash
  BY <1>2, TypeTime
<1>3. CASE CatchUp \/ CatchUpNext \/ \E t \in Targets : Fire(t)
  BY <1>3, TypeLoop
<1>4. CASE WorkerStep
  BY <1>4, TypeWorker
<1>5. CASE LoopStep
  BY <1>5, TypeCoroutine DEF LoopStep
<1>6. ASSUME NEW q \in Requests, Request(q)
      PROVE  TypeInvariant'
  <2>1. CASE \E t \in Targets : Manual(q, t)
    BY <2>1, TypeLoop
  <2>2. ASSUME NEW t \in Targets, BeginDelete(q, t)
        PROVE  TypeInvariant'
    <3>1. overlapped' \subseteq Targets
      BY <2>2, DeleteMoves, OverlapNoted
    <3>2. QED
      BY <2>2, <3>1, DeleteMoves DEF TypeInvariant, dbVars, runVars
  <2>3. ASSUME NEW e \in BOOLEAN, NEW s \in Schedules, BeginCreate(q, e, s)
        PROVE  TypeInvariant'
    BY <2>3, CreateMoves DEF TypeInvariant, runVars, ghosts, Callers
  <2>4. ASSUME NEW t \in Targets, NEW f \in Fields \ {"none"}, NEW e \in BOOLEAN,
               NEW s \in Schedules, BeginUpdate(q, t, f, e, s)
        PROVE  TypeInvariant'
    <3>1. overlapped' \subseteq Targets
      BY <2>4, UpdateMoves, OverlapNoted
    <3>2. QED
      BY <2>4, <3>1, UpdateMoves DEF TypeInvariant, dbVars, runVars
  <2>5. QED
    BY <1>6, <2>1, <2>2, <2>3, <2>4 DEF Request
<1>7. ASSUME NEW q \in Requests, RequestStep(q)
      PROVE  TypeInvariant'
  <2>1. CASE Insert(q)
    BY <2>1, InsertMoves DEF TypeInvariant, runVars, ghosts
  <2>2. CASE CommitUpdate(q)
    <3>1. owed' \in [Targets -> Hours \cup {NoHour}]
      BY <2>2, CommitMoves DEF TypeInvariant
    <3>2. QED
      BY <2>2, <3>1, CommitMoves DEF TypeInvariant, runVars
  <2>3. CASE Reprogram(q)
    BY <2>3, ReprogramMoves DEF TypeInvariant, dbVars, runVars, ghosts
  <2>4. CASE CommitDelete(q)
    BY <2>4, CommitDeleteMoves
  <2>5. QED
    BY <1>7, <2>1, <2>2, <2>3, <2>4 DEF RequestStep
<1>8. QED
  BY <1>1, <1>2, <1>3, <1>4, <1>5, <1>6, <1>7 DEF Next

-----------------------------------------------------------------------------
(* TasksAreSound.                                                          *)

LEMMA TaskMoved ==
  ASSUME TypeInvariant, TasksAreSound, NEW c \in Coroutines,
         \A c2 \in Coroutines \ {c} : task'[c2] = task[c2],
         api # "down", api' = api,
         task'[c].step \in TargetSteps => task'[c].target \in Targets,
         task'[c].step \in {"reserve", "insert"} => orgLock' = c,
         \A c2 \in Coroutines \ {c} : orgLock = c2 => orgLock' = c2,
         \/ loop' = Nobody
         \/ loop' = c /\ task'[c].step = "blocked"
         \/ loop' = loop /\ loop # c
  PROVE  TasksAreSound'
<1>1. ASSUME NEW c2 \in Coroutines
      PROVE  /\ task'[c2].step \in TargetSteps => task'[c2].target \in Targets
             /\ task'[c2].step \in {"reserve", "insert"} => orgLock' = c2
  BY DEF TasksAreSound
<1>2. loop' # Nobody => task'[loop'].step = "blocked"
  BY DEF TasksAreSound, TypeInvariant
<1>3. QED
  BY <1>1, <1>2 DEF TasksAreSound

(* Nobody moves.                                                           *)
LEMMA TasksKept ==
  ASSUME TasksAreSound, UNCHANGED <<task, loop>>,
         \A c \in Coroutines : orgLock = c => orgLock' = c,
         api' = "down" => api = "down" /\ UNCHANGED overlapped
  PROVE  TasksAreSound'
BY DEF TasksAreSound

LEMMA TasksInit == Init => TasksAreSound
BY DEF Init, TasksAreSound, Idle, TargetSteps

LEMMA IdleSteps ==
  /\ Idle.step = "idle"
  /\ \A t \in Targets :
       /\ [Idle EXCEPT !.step = "trigger", !.target = t].step = "trigger"
       /\ [Idle EXCEPT !.step = "trigger", !.target = t].target = t
  /\ {"idle", "insert"} \cap TargetSteps = {}
BY DEF Idle, TargetSteps

LEMMA NobodyLocks ==
  /\ \A c \in Coroutines : c # Nobody /\ c # Worker
  /\ \A t \in Targets : t \in Coroutines
  /\ \A q \in Requests : q \in Coroutines
  /\ CatchupTask \in Coroutines
BY Constants DEF Callers, Coroutines

LEMMA TasksCoroutine ==
  ASSUME TypeInvariant, TasksAreSound, NEW c \in Coroutines, CoroutineStep(c)
  PROVE  TasksAreSound'
<1>0. task[c] \in Task /\ task \in [Coroutines -> Task]
  BY DEF TypeInvariant
<1>1. CASE Trigger(c) \/ LockGranted(c) \/ LockTimeout(c)
  <2>1. task[c].step \in {"trigger", "blocked"} /\ task[c].target \in Targets
    BY <1>1, LockMoves, NobodyLocks DEF TasksAreSound, TargetSteps
  <2>2. api # "down" /\ api' = api
    BY <1>1, <2>1, LockMoves, IdleSteps DEF TasksAreSound
  <2>3. \A c2 \in Coroutines \ {c} : task'[c2] = task[c2]
    BY <1>1, LockMoves
  <2>4. \/ loop' = Nobody
        \/ loop' = c /\ task'[c].step = "blocked"
        \/ loop' = loop /\ loop # c
    BY <1>0, <1>1, LockMoves DEF Task
  <2>5. /\ task'[c].step \in TargetSteps => task'[c].target \in Targets
        /\ task'[c].step \in {"reserve", "insert"} => orgLock' = c
    <3>1. CASE task'[c] = Idle
      BY <3>1, IdleSteps
    <3>2. CASE task'[c] = [task[c] EXCEPT !.step = "blocked"]
      BY <1>0, <2>1, <3>2 DEF Task
    <3>3. CASE /\ task'[c] = [task[c] EXCEPT !.step = "reserve", !.day = Day(now)]
               /\ orgLock' = c
      BY <1>0, <2>1, <3>3 DEF Task
    <3>4. QED
      BY <1>1, <3>1, <3>2, <3>3, LockMoves
  <2>6. \A c2 \in Coroutines \ {c} : orgLock = c2 => orgLock' = c2
    BY <1>1, LockMoves, NobodyLocks
  <2>7. QED
    BY <2>2, <2>3, <2>4, <2>5, <2>6, TaskMoved
<1>2. CASE Reserve(c)
  <2>1. /\ task[c].step = "reserve" /\ task'[c] = Idle
        /\ \A c2 \in Coroutines \ {c} : task'[c2] = task[c2]
        /\ orgLock = c /\ api' = api /\ loop' = loop
    BY <1>2, ReserveMoves
  <2>2. api # "down" /\ (loop # Nobody => loop # c)
    BY <2>1, IdleSteps DEF TasksAreSound
  <2>3. task'[c].step = "idle"
    BY <2>1, IdleSteps
  <2>4. QED
    BY <2>1, <2>2, <2>3, IdleSteps, TaskMoved
<1>3. QED
  BY <1>1, <1>2 DEF CoroutineStep

LEMMA TasksLoop ==
  ASSUME TypeInvariant, TasksAreSound,
         \/ CatchUpNext \/ \E t \in Targets : Fire(t)
         \/ \E q \in Requests, t \in Targets : Manual(q, t)
  PROVE  TasksAreSound'
<1>0. /\ api # "down" /\ api' = api /\ loop = Nobody /\ loop' = loop
      /\ orgLock' = orgLock /\ overlapped' = overlapped
  BY DEF CatchUpNext, Fire, Manual, LoopRuns, dbVars
<1>1. ASSUME NEW c \in Coroutines, NEW t \in Targets,
             task'[c] = [Idle EXCEPT !.step = "trigger", !.target = t],
             \A c2 \in Coroutines \ {c} : task'[c2] = task[c2]
      PROVE  TasksAreSound'
  <2>1. task'[c].step = "trigger" /\ task'[c].target = t
    BY <1>1, IdleSteps
  <2>2. QED
    BY <1>0, <1>1, <2>1, TaskMoved
<1>2. CASE CatchUpNext
  <2>1. /\ Head(missed) \in Targets
        /\ task' = [task EXCEPT ![CatchupTask] =
                      [Idle EXCEPT !.step = "trigger", !.target = Head(missed)]]
    BY <1>2, CatchUpNextMoves
  <2>2. PICK t \in Targets : t = Head(missed)
    BY <2>1
  <2>3. /\ task'[CatchupTask] = [Idle EXCEPT !.step = "trigger", !.target = t]
        /\ \A c2 \in Coroutines \ {CatchupTask} : task'[c2] = task[c2]
    BY <2>1, <2>2, NobodyLocks, TriggerTask
  <2>4. QED
    BY <1>1, <2>3, NobodyLocks
<1>3. ASSUME NEW t \in Targets, Fire(t)
      PROVE  TasksAreSound'
  <2>1. CASE UNCHANGED task
    BY <1>0, <2>1, TasksKept
  <2>2. CASE ~UNCHANGED task
    BY <1>1, <1>3, <2>2, FireMoves, NobodyLocks
  <2>3. QED
    BY <2>1, <2>2
<1>4. ASSUME NEW q \in Requests, NEW t \in Targets, Manual(q, t)
      PROVE  TasksAreSound'
  <2>1. task' = [task EXCEPT ![q] = [Idle EXCEPT !.step = "trigger", !.target = t]]
    BY <1>4 DEF Manual
  <2>2. QED
    BY <1>1, <2>1, NobodyLocks, TriggerTask
<1>5. QED
  BY <1>2, <1>3, <1>4

(* The requests other than run_now.                                        *)
LEMMA TasksRequest ==
  ASSUME TypeInvariant, TasksAreSound, NEW q \in Requests,
         Request(q) \/ RequestStep(q),
         \A t \in Targets : ~Manual(q, t)
  PROVE  TasksAreSound'
<1>0. q \in Coroutines
  BY NobodyLocks
<1>1. ASSUME task[q].step # "blocked", api # "down", UNCHANGED <<api, loop>>,
             \A c \in Coroutines \ {q} : task'[c] = task[c],
             task'[q].step \in TargetSteps => task'[q].target \in Targets,
             task'[q].step \in {"reserve", "insert"} => orgLock' = q,
             \A c \in Coroutines \ {q} : orgLock = c => orgLock' = c
      PROVE  TasksAreSound'
  <2>1. loop' = loop /\ (loop # q \/ loop' = Nobody)
    BY <1>1 DEF TasksAreSound
  <2>2. QED
    BY <1>0, <1>1, <2>1, TaskMoved
<1>2. ASSUME task[q].step \notin {"idle"}
      PROVE  api # "down"
  BY <1>0, <1>2, IdleSteps DEF TasksAreSound
<1>3. task[q] = Idle => task[q].step # "blocked"
  BY IdleSteps
<1>4. {"commit", "delete", "reprogram", "idle", "insert"} \cap {"reserve"} = {}
      /\ Idle.step \notin TargetSteps \cup {"insert", "reserve"}
      /\ Nobody \notin Coroutines
  BY IdleSteps, NobodyLocks DEF TargetSteps
<1>5. ASSUME NEW e \in BOOLEAN, NEW s \in Schedules, BeginCreate(q, e, s)
      PROVE  TasksAreSound'
  <2>1. task'[q].step \notin TargetSteps
    BY <1>5, CreateMoves, IdleSteps
  <2>2. QED
    BY <1>1, <1>3, <1>4, <1>5, <2>1, CreateMoves
<1>6. ASSUME NEW t \in Targets, NEW f \in Fields \ {"none"}, NEW e \in BOOLEAN,
             NEW s \in Schedules, BeginUpdate(q, t, f, e, s)
      PROVE  TasksAreSound'
  BY <1>1, <1>3, <1>6, UpdateMoves DEF dbVars
<1>7. ASSUME NEW t \in Targets, BeginDelete(q, t)
      PROVE  TasksAreSound'
  BY <1>1, <1>3, <1>7, DeleteMoves DEF dbVars
<1>8. CASE Insert(q)
  <2>1. PICK t \in Targets :
          /\ task[q].step = "insert" /\ UNCHANGED <<api, loop>>
          /\ task'[q].step = "reprogram" /\ task'[q].target = t
          /\ \A c \in Coroutines \ {q} : task'[c] = task[c]
          /\ orgLock = q
    BY <1>8, InsertMoves
  <2>2. QED
    BY <1>1, <1>2, <2>1
<1>9. CASE CommitUpdate(q)
  <2>1. /\ task[q].step = "commit" /\ task[q].target \in Targets
        /\ \A c \in Coroutines \ {q} : task'[c] = task[c]
        /\ UNCHANGED <<api, loop, orgLock>>
    BY <1>9, CommitMoves
  <2>2. \/ task'[q].step = "reprogram" /\ task'[q].target = task[q].target
        \/ task'[q].step \notin TargetSteps \cup {"insert", "reserve"}
    BY <1>4, <1>9, CommitMoves
  <2>3. QED
    BY <1>1, <1>2, <2>1, <2>2
<1>10. CASE Reprogram(q)
  <2>1. /\ task[q].step = "reprogram" /\ task'[q] = Idle
        /\ \A c \in Coroutines \ {q} : task'[c] = task[c]
        /\ UNCHANGED <<api, loop, orgLock>>
    BY <1>10, ReprogramMoves DEF dbVars
  <2>2. QED
    BY <1>1, <1>2, <1>4, <2>1
<1>11. CASE CommitDelete(q)
  <2>1. /\ task[q].step = "delete" /\ task'[q] = Idle
        /\ \A c \in Coroutines \ {q} : task'[c] = task[c]
        /\ UNCHANGED <<api, loop, orgLock>>
    BY <1>11, CommitDeleteMoves
  <2>2. QED
    BY <1>1, <1>2, <1>4, <2>1
<1>12. QED
  BY <1>5, <1>6, <1>7, <1>8, <1>9, <1>10, <1>11 DEF Request, RequestStep

LEMMA TasksStep ==
  ASSUME TypeInvariant, TasksAreSound, [Next]_vars
  PROVE  TasksAreSound'
<1>1. CASE UNCHANGED vars
  BY <1>1, TasksKept DEF vars, apiVars, dbVars, ghosts
<1>2. CASE Tick \/ Start \/ CatchUp
  BY <1>2, TasksKept DEF Tick, Start, CatchUp, apiVars, dbVars, ghosts
<1>3. CASE Crash
  <2>1. /\ \A c \in Coroutines : task'[c] = Idle
        /\ loop' = Nobody /\ overlapped' = {}
    BY <1>3 DEF Crash
  <2>2. QED
    BY <2>1, IdleSteps DEF TasksAreSound
<1>4. CASE WorkerStep
  <2>1. /\ UNCHANGED <<task, loop, api, overlapped>>
        /\ orgLock' = orgLock \/ orgLock \in {Nobody, Worker}
    BY <1>4 DEF WorkerStep, WorkerStores, Settle, GiveBack, apiVars, ghosts
  <2>2. QED
    BY <2>1, NobodyLocks, TasksKept
<1>5. CASE LoopStep
  BY <1>5, TasksCoroutine DEF LoopStep
<1>6. CASE CatchUpNext \/ (\E t \in Targets : Fire(t))
  BY <1>6, TasksLoop
<1>7. ASSUME NEW q \in Requests, Request(q) \/ RequestStep(q)
      PROVE  TasksAreSound'
  BY <1>7, TasksLoop, TasksRequest
<1>8. QED
  BY <1>1, <1>2, <1>3, <1>4, <1>5, <1>6, <1>7 DEF Next

-----------------------------------------------------------------------------
(* One target at a time.                                                   *)

ChangeSteps == {"reprogram", "commit", "delete"}

LEMMA ChangingMoves ==
  ASSUME NEW t \in Targets, NEW q \in Requests,
         \A c \in Coroutines \ {q} : task'[c] = task[c]
  PROVE  /\ Changing(t) \subseteq Requests /\ Changing(t)' \subseteq Requests
         /\ Changing(t)' \ {q} = Changing(t) \ {q}
         /\ \A q2 \in Changing(t) \ {q} : task'[q2] = task[q2]
         /\ q \in Changing(t) <=> task[q].step \in ChangeSteps /\ task[q].target = t
         /\ q \in Changing(t)' <=> task'[q].step \in ChangeSteps /\ task'[q].target = t
<1>1. \A q2 \in Requests \ {q} : task'[q2] = task[q2]
  BY NobodyLocks
<1>2. QED
  BY <1>1 DEF Changing, ChangeSteps

LEMMA ChangingKept ==
  ASSUME NEW t \in Targets, NEW c \in Coroutines,
         \A c2 \in Coroutines \ {c} : task'[c2] = task[c2],
         task[c].step \notin ChangeSteps \/ task[c].target # t,
         task'[c].step \notin ChangeSteps \/ task'[c].target # t
  PROVE  Changing(t)' = Changing(t) /\ \A q \in Changing(t) : task'[q] = task[q]
<1>1. \A q \in Requests \ {c} : task'[q] = task[q]
  BY NobodyLocks
<1>2. QED
  BY <1>1 DEF Changing, ChangeSteps

(* A step that does not touch the row of a target, nor a change of it under *)
(* way, and takes no answer to its deadlines away.                         *)
LEMMA LeftAlone ==
  ASSUME TypeInvariant, NEW t \in Targets, TargetIsSound(t),
         UNCHANGED <<now, api, caughtUpAt>>, row'[t] = row[t],
         t \in overlapped' <=> t \in overlapped,
         Changing(t)' = Changing(t), \A q \in Changing(t) : task'[q] = task[q],
         owed'[t] = owed[t] \/ owed'[t] = NoHour,
         skipped \subseteq skipped', dated[t] \subseteq dated'[t],
         \/ job'[t] = job[t]
         \/ /\ job[t] # NoJob
            /\ job'[t] = [job[t] EXCEPT !.next = NextFire(job[t].schedule, now + 1)]
            /\ owed'[t] = NoHour \/ t \in skipped',
         \/ owed'[t] = NoHour
         \/ \A i \in DOMAIN missed :
              missed[i] = t => \E j \in DOMAIN missed' : missed'[j] = t
  PROVE  TargetIsSound(t)'
<1>1. /\ job[t] \in Job /\ now \in Nat /\ now + 1 \in 0..Never
  BY Constants DEF TypeInvariant, Hours
<1>2. /\ job'[t].schedule = job[t].schedule
      /\ job'[t] = NoJob <=> job[t] = NoJob
  <2>1. CASE job'[t] = job[t]
    BY <2>1
  <2>2. CASE /\ job[t] # NoJob
             /\ job'[t] = [job[t] EXCEPT !.next = NextFire(job[t].schedule, now + 1)]
    <3>1. job'[t].schedule = job[t].schedule
      BY <1>1, <2>2 DEF Job
    <3>2. job[t].schedule # {} /\ NoJob.schedule = {}
      BY <2>2 DEF TargetIsSound, JobIsReal, NoJob
    <3>3. QED
      BY <2>2, <3>1, <3>2
  <2>3. QED
    BY <2>1, <2>2
<1>3. ChangesAreKnown(t)'
  BY <1>2 DEF TargetIsSound, ChangesAreKnown, Live
<1>4. JobFollows(t)'
  BY <1>2 DEF TargetIsSound, JobFollows, HasJob
<1>5. JobIsReal(t)'
  <2>1. CASE job'[t] = job[t]
    BY <2>1 DEF TargetIsSound, JobIsReal
  <2>2. CASE job'[t] = [job[t] EXCEPT !.next = NextFire(job[t].schedule, now + 1)]
    <3>1. job'[t].next = NextFire(job[t].schedule, now + 1)
      BY <1>1, <2>2 DEF Job
    <3>2. \A h \in Deadlines(job[t].schedule) :
            now + 1 <= h => NextFire(job[t].schedule, now + 1) <= h
      BY <1>1, NextFireIs
    <3>3. ASSUME NEW h \in Deadlines(job'[t].schedule), h > now'
          PROVE  job'[t].next <= h
      <4>1. h \in Deadlines(job[t].schedule) /\ h \in Nat
        BY <1>2, <3>3 DEF Deadlines
      <4>2. now + 1 <= h
        BY <1>1, <3>3, <4>1
      <4>3. QED
        BY <3>1, <3>2, <4>1, <4>2
    <3>4. QED
      BY <1>2, <3>3 DEF TargetIsSound, JobIsReal
  <2>3. QED
    BY <2>1, <2>2
<1>6. DebtIsReal(t)'
  BY DEF TargetIsSound, DebtIsReal, Live
<1>7. DebtIsServed(t)'
  <2>1. CASE owed'[t] = NoHour \/ t \in skipped'
    BY <2>1 DEF DebtIsServed
  <2>2. CASE owed'[t] = owed[t] /\ t \notin skipped' /\ owed'[t] # NoHour
    <3>1. job'[t] = job[t]
      BY <2>2
    <3>2. QED
      BY <2>2, <3>1 DEF TargetIsSound, DebtIsServed, Due
  <2>3. QED
    BY <2>1, <2>2
<1>8. QED
  BY <1>3, <1>4, <1>5, <1>6, <1>7 DEF TargetIsSound

-----------------------------------------------------------------------------
(* Each step, for one target.                                              *)

LEMMA SoundInit ==
  ASSUME Init, NEW t \in Targets
  PROVE  TargetIsSound(t)
<1>1. /\ Changing(t) = {} /\ job[t] = NoJob /\ owed[t] = NoHour /\ api = "down"
  BY NobodyLocks DEF Init, Changing, Idle
<1>2. JobIsReal(t)
  BY <1>1 DEF JobIsReal, Deadlines, NoJob
<1>3. QED
  BY <1>1, <1>2 DEF TargetIsSound, ChangesAreKnown, JobFollows, DebtIsReal,
                    DebtIsServed

(* The hour turns: what becomes owed is due.                               *)
LEMMA SoundTick ==
  ASSUME TypeInvariant, NEW t \in Targets, TargetIsSound(t), Tick
  PROVE  TargetIsSound(t)'
<1>1. /\ now \in Nat /\ now + 1 \in Hours /\ now' = now + 1 /\ ~Due(t)
      /\ UNCHANGED <<api, job, task, missed, row, dated, caughtUpAt, overlapped>>
      /\ owed'[t] = (IF Owes(t, now + 1) THEN now + 1 ELSE owed[t])
      /\ t \in skipped /\ ~Owes(t, now + 1) => t \in skipped'
  <2>1. now \in Nat /\ now + 1 \in Hours
    BY Constants DEF Tick, TypeInvariant, Hours
  <2>2. QED
    BY <2>1 DEF Tick, Settled, apiVars, dbVars, runVars
<1>2. Changing(t)' = Changing(t)
  BY <1>1 DEF Changing
<1>3. Owes(t, now + 1) => Changing(t) = {} /\ t \notin overlapped
  BY DEF Owes
<1>4. ChangesAreKnown(t)'
  BY <1>1, <1>2, <1>3 DEF TargetIsSound, ChangesAreKnown, Live
<1>5. JobFollows(t)'
  BY <1>1, <1>2 DEF TargetIsSound, JobFollows, HasJob
<1>6. JobIsReal(t)'
  <2>1. ASSUME NEW h \in Deadlines(job[t].schedule), h > now + 1
        PROVE  job[t].next <= h
    <3>1. h \in Nat /\ h > now
      BY <1>1, <2>1 DEF Deadlines
    <3>2. QED
      BY <3>1 DEF TargetIsSound, JobIsReal
  <2>2. QED
    BY <1>1, <2>1 DEF TargetIsSound, JobIsReal
<1>7. CASE Owes(t, now + 1)
  <2>1. /\ owed'[t] = now + 1 /\ Live(t) /\ row[t].enabled
        /\ Cardinality(row[t].schedule) = 1
        /\ (now + 1) % DayHours \in row[t].schedule
        /\ t \notin overlapped /\ Changing(t) = {}
    BY <1>1, <1>7 DEF Owes
  <2>2. DebtIsReal(t)'
    BY <1>1, <2>1 DEF DebtIsReal, Live
  <2>3. ASSUME api = "up"
        PROVE  Due(t)'
    <3>1. Planned(row[t])
      BY <2>1 DEF Planned, Live
    <3>2. job[t].schedule = row[t].schedule
      BY <2>1, <2>3, <3>1 DEF TargetIsSound, JobFollows
    <3>3. now + 1 \in Deadlines(job[t].schedule) /\ now + 1 > now
      BY <1>1, <2>1, <3>2, Constants DEF Deadlines, Hours
    <3>4. job[t].next <= now + 1
      BY <3>3 DEF TargetIsSound, JobIsReal
    <3>5. QED
      BY <1>1, <2>3, <3>4 DEF Due
  <2>4. DebtIsServed(t)'
    BY <1>1, <2>3 DEF DebtIsServed
  <2>5. QED
    BY <1>4, <1>5, <1>6, <2>2, <2>4 DEF TargetIsSound
<1>8. CASE ~Owes(t, now + 1)
  <2>1. owed'[t] = owed[t] /\ (t \in skipped => t \in skipped')
    BY <1>1, <1>8
  <2>2. owed[t] \in Nat \/ owed[t] = NoHour
    BY DEF TypeInvariant, Hours
  <2>3. DebtIsReal(t)'
    <3>1. owed[t] # NoHour => owed[t] <= now + 1
      BY <1>1, <2>2 DEF TargetIsSound, DebtIsReal
    <3>2. QED
      BY <1>1, <1>2, <2>1, <3>1 DEF TargetIsSound, DebtIsReal, Live
  <2>4. DebtIsServed(t)'
    BY <1>1, <1>2, <2>1 DEF TargetIsSound, DebtIsServed
  <2>5. QED
    BY <1>4, <1>5, <1>6, <2>3, <2>4 DEF TargetIsSound
<1>9. QED
  BY <1>7, <1>8

LEMMA SoundStart ==
  ASSUME TypeInvariant, TasksAreSound, NEW t \in Targets, TargetIsSound(t), Start
  PROVE  TargetIsSound(t)'
<1>1. /\ api = "down" /\ api' = "starting" /\ job'[t] = JobFor(row[t])
      /\ row[t] \in Row /\ now \in Hours
      /\ UNCHANGED <<now, row, task, owed, overlapped>>
  BY DEF Start, TypeInvariant, dbVars, ghosts
<1>2. Changing(t) = {} /\ Changing(t)' = {}
  <2>1. \A q \in Requests : task[q].step = "idle" /\ task'[q].step = "idle"
    BY <1>1, NobodyLocks, IdleSteps DEF TasksAreSound
  <2>2. QED
    BY <2>1 DEF Changing
<1>3. /\ job'[t] # NoJob <=> Planned(row[t])
      /\ job'[t] # NoJob => job'[t].schedule = row[t].schedule
      /\ job'[t].schedule = {} => job'[t] = NoJob
      /\ \A h \in Deadlines(job'[t].schedule) : h > now => job'[t].next <= h
  BY <1>1, JobForIs
<1>4. ChangesAreKnown(t)'
  BY <1>2 DEF ChangesAreKnown
<1>5. JobFollows(t)'
  BY <1>1, <1>3 DEF JobFollows, HasJob
<1>6. JobIsReal(t)'
  BY <1>1, <1>3 DEF JobIsReal
<1>7. DebtIsReal(t)'
  BY <1>1, <1>2 DEF TargetIsSound, DebtIsReal, Live
<1>8. DebtIsServed(t)'
  BY <1>1 DEF DebtIsServed
<1>9. QED
  BY <1>4, <1>5, <1>6, <1>7, <1>8 DEF TargetIsSound

LEMMA SoundCrash ==
  ASSUME TypeInvariant, NEW t \in Targets, TargetIsSound(t), Crash
  PROVE  TargetIsSound(t)'
<1>1. /\ api' = "down" /\ job'[t] = NoJob /\ overlapped' = {}
      /\ UNCHANGED <<now, row, owed>>
  BY DEF Crash
<1>2. Changing(t)' = {}
  <2>1. \A q \in Requests : task'[q].step = "idle"
    BY NobodyLocks, IdleSteps DEF Crash
  <2>2. QED
    BY <2>1 DEF Changing
<1>3. JobIsReal(t)'
  BY <1>1 DEF JobIsReal, NoJob, Deadlines
<1>4. DebtIsReal(t)'
  BY <1>1 DEF TargetIsSound, DebtIsReal, Live
<1>5. QED
  BY <1>1, <1>2, <1>3, <1>4
  DEF TargetIsSound, ChangesAreKnown, JobFollows, DebtIsServed

(* The catch-up looks at the first deadline of the window: of a target     *)
(* captured once a day, it is the one that is owed.                        *)
LEMMA OwedIsMissed ==
  ASSUME TypeInvariant, NEW t \in Targets, DebtIsReal(t), owed[t] # NoHour,
         ~(owed[t] <= now - Window), Day(owed[t]) \notin dated[t]
  PROVE  WasMissed(t)
<1> DEFINE from == Max({0, now + 1 - Window})
           deadline == NextFire(row[t].schedule, from)
<1>1. /\ now \in Nat /\ owed[t] \in Nat /\ owed[t] <= now /\ owed[t] < Never
      /\ Window \in Nat /\ DayHours \in Nat \ {0} /\ Window < DayHours
      /\ now < Never /\ Never \in Nat
  BY Constants DEF TypeInvariant, Hours, DebtIsReal
<1>2. /\ Live(t) /\ row[t].enabled /\ Cardinality(row[t].schedule) = 1
      /\ owed[t] % DayHours \in row[t].schedule
  BY DEF DebtIsReal
<1>3. from \in Nat /\ from <= owed[t] /\ now + 1 - Window <= from
  <2>1. \E x \in {0, now + 1 - Window} : \A y \in {0, now + 1 - Window} : y <= x
    BY <1>1
  <2>2. /\ from \in {0, now + 1 - Window}
        /\ \A y \in {0, now + 1 - Window} : y <= from
    BY <2>1 DEF Max
  <2>3. from >= 0
    BY <2>2
  <2> HIDE DEF from
  <2>4. QED
    BY <1>1, <2>2, <2>3
<1> HIDE DEF from
<1>4. owed[t] \in Deadlines(row[t].schedule)
  BY <1>1, <1>2 DEF Deadlines
<1>5. /\ deadline \in 0..Never /\ from <= deadline /\ deadline <= owed[t]
      /\ deadline \in Deadlines(row[t].schedule) \cup {Never}
  <2>1. from \in 0..Never
    BY <1>1, <1>3
  <2>2. QED
    BY <1>3, <1>4, <2>1, NextFireIs
<1> HIDE DEF deadline
<1>6. deadline \in Nat /\ deadline % DayHours \in row[t].schedule
  BY <1>1, <1>5 DEF Deadlines
<1>7. deadline % DayHours = owed[t] % DayHours
  <2>1. IsFiniteSet(row[t].schedule)
    <3>0. DayHours - 1 \in Int /\ 0 \in Int
      BY <1>1
    <3>1. row[t].schedule \subseteq 0..(DayHours - 1)
      <4>1. row[t].schedule \in Schedules
        BY DEF TypeInvariant, Row
      <4>2. Schedules \subseteq SUBSET (0..(DayHours - 1))
        BY PlanningAssumption, Zenon DEF PlanningAssumption
      <4>3. row[t].schedule \in SUBSET (0..(DayHours - 1))
        BY <4>1, <4>2, Zenon
      <4>4. QED
        BY <4>3
    <3>2. IsFiniteSet(0..(DayHours - 1))
      BY <3>0, FS_Interval
    <3>3. QED
      BY <3>1, <3>2, FS_Subset
  <2>2. PICK x : row[t].schedule = {x}
    BY <1>2, <2>1, FS_Singleton
  <2>3. deadline % DayHours = x /\ owed[t] % DayHours = x
    BY <1>2, <1>6, <2>2
  <2>4. QED
    BY <2>3
<1>8. deadline = owed[t]
  <2>1. owed[t] - deadline < DayHours
    BY <1>1, <1>3, <1>5, <1>6
  <2>2. PICK o \in Nat : o = owed[t]
    BY <1>1
  <2>3. PICK d \in Nat : d = deadline
    BY <1>6
  <2>4. d <= o /\ o - d < DayHours /\ d % DayHours = o % DayHours
    BY <1>5, <1>7, <2>1, <2>2, <2>3
  <2>5. d = o
    BY <1>1, <2>4, SameHour
  <2>6. QED
    BY <2>2, <2>3, <2>5
<1>9. Planned(row[t])
  BY <1>2 DEF Planned, Live
<1>10. deadline = NextFire(row[t].schedule, Max({0, now + 1 - Window}))
  BY DEF deadline, from
<1>11. QED
  BY <1>1, <1>8, <1>9, <1>10 DEF WasMissed

LEMMA SoundCatchUp ==
  ASSUME TypeInvariant, NEW t \in Targets, TargetIsSound(t), CatchUp
  PROVE  TargetIsSound(t)'
<1>1. /\ api = "starting" /\ api' = "up" /\ caughtUpAt' = now
      /\ missed' \in SetToSeqs({t2 \in Targets : WasMissed(t2)})
      /\ UNCHANGED <<now, job, task, row, dated, owed, skipped, overlapped>>
  BY DEF CatchUp, LoopRuns, dbVars, runVars
<1>2. Changing(t)' = Changing(t)
  BY <1>1 DEF Changing
<1>3. DebtIsServed(t)'
  <2>1. ASSUME owed[t] # NoHour, ~(owed[t] <= now - Window),
               Day(owed[t]) \notin dated[t]
        PROVE  \E i \in DOMAIN missed' : missed'[i] = t
    <3>1. WasMissed(t)
      BY <2>1, OwedIsMissed DEF TargetIsSound
    <3>2. PICK S \in SUBSET Targets : S = {t2 \in Targets : WasMissed(t2)}
      OBVIOUS
    <3>3. missed' \in SetToSeqs(S) /\ t \in S
      BY <1>1, <3>1, <3>2
    <3>4. QED
      BY <3>3, MissedOnce
  <2>2. QED
    BY <1>1, <2>1 DEF DebtIsServed
<1>4. ChangesAreKnown(t)'
  BY <1>1, <1>2 DEF TargetIsSound, ChangesAreKnown, Live
<1>5. JobFollows(t)'
  BY <1>1, <1>2 DEF TargetIsSound, JobFollows, HasJob
<1>6. JobIsReal(t)' /\ DebtIsReal(t)'
  BY <1>1, <1>2 DEF TargetIsSound, JobIsReal, DebtIsReal, Live
<1>7. QED
  BY <1>3, <1>4, <1>5, <1>6 DEF TargetIsSound

LEMMA OtherSteps ==
  /\ {"idle", "trigger", "blocked", "reserve", "insert"} \cap ChangeSteps = {}
  /\ {"reprogram", "commit", "delete"} = ChangeSteps
BY DEF ChangeSteps

LEMMA SoundStill ==
  ASSUME TypeInvariant, NEW t \in Targets, TargetIsSound(t),
         UNCHANGED vars \/ WorkerStep
  PROVE  TargetIsSound(t)'
<1>1. UNCHANGED <<now, api, caughtUpAt, row, overlapped, task, owed, skipped,
                  dated, job, missed>>
  BY DEF vars, WorkerStep, WorkerStores, Settle, apiVars, dbVars, runVars, ghosts
<1>2. Changing(t)' = Changing(t) /\ \A q \in Changing(t) : task'[q] = task[q]
  BY <1>1 DEF Changing
<1>3. QED
  BY <1>1, <1>2, LeftAlone, Zenon

LEMMA SoundLoop ==
  ASSUME TypeInvariant, NEW t \in Targets, TargetIsSound(t),
         \/ CatchUpNext \/ \E t2 \in Targets : Fire(t2)
         \/ \E q \in Requests, t2 \in Targets : Manual(q, t2)
  PROVE  TargetIsSound(t)'
<1>0. /\ UNCHANGED <<now, api, caughtUpAt, row, overlapped, dated>>
      /\ skipped \subseteq skipped'
  BY DEF CatchUpNext, Fire, Manual, dbVars, runVars
<1>1. ASSUME NEW c \in Coroutines, NEW t2 \in Targets, task[c] = Idle,
             task'[c] = [Idle EXCEPT !.step = "trigger", !.target = t2],
             \A c2 \in Coroutines \ {c} : task'[c2] = task[c2]
      PROVE  Changing(t)' = Changing(t) /\ \A q \in Changing(t) : task'[q] = task[q]
  <2>1. task[c].step \notin ChangeSteps /\ task'[c].step \notin ChangeSteps
    BY <1>1, IdleSteps, OtherSteps
  <2>2. QED
    BY <1>1, <2>1, ChangingKept
<1>2. CASE CatchUpNext
  <2>1. PICK h \in Targets : h = Head(missed)
    BY <1>2, CatchUpNextMoves
  <2>2. /\ task[CatchupTask] = Idle /\ CatchupTask \in Coroutines
        /\ task'[CatchupTask] = [Idle EXCEPT !.step = "trigger", !.target = h]
        /\ \A c2 \in Coroutines \ {CatchupTask} : task'[c2] = task[c2]
    BY <1>2, <2>1, CatchUpNextMoves, TriggerTask
  <2>3. Changing(t)' = Changing(t) /\ \A q \in Changing(t) : task'[q] = task[q]
    BY <1>1, <2>2
  <2>4. owed' = [owed EXCEPT ![h] = NoHour] /\ job' = job
    BY <1>2, <2>1, CatchUpNextMoves DEF CatchUpNext
  <2>5. owed'[t] = NoHour \/ (owed'[t] = owed[t] /\ t # h)
    BY <2>4 DEF TypeInvariant
  <2>6. t # h => \A i \in DOMAIN missed :
          missed[i] = t => \E j \in DOMAIN missed' : missed'[j] = t
    BY <1>2, <2>1, CatchUpNextMoves
  <2>7. QED
    BY <1>0, <2>3, <2>4, <2>5, <2>6, LeftAlone
<1>3. ASSUME NEW t2 \in Targets, Fire(t2)
      PROVE  TargetIsSound(t)'
  <2>1. missed' = missed
    BY <1>3 DEF Fire
  <2>2. Changing(t)' = Changing(t) /\ \A q \in Changing(t) : task'[q] = task[q]
    <3>1. CASE UNCHANGED task
      BY <3>1 DEF Changing
    <3>2. CASE ~UNCHANGED task
      BY <1>1, <1>3, <3>2, FireMoves, NobodyLocks
    <3>3. QED
      BY <3>1, <3>2
  <2>3. /\ owed'[t] = owed[t] \/ owed'[t] = NoHour
        /\ t = t2 => owed'[t] = NoHour \/ t \in skipped'
    BY <1>3, FireMoves DEF TypeInvariant
  <2>4. \/ job'[t] = job[t]
        \/ /\ job[t] # NoJob
           /\ job'[t] = [job[t] EXCEPT !.next = NextFire(job[t].schedule, now + 1)]
           /\ t = t2
    BY <1>3, FireMoves
  <2>5. QED
    BY <1>0, <2>1, <2>2, <2>3, <2>4, LeftAlone
<1>4. ASSUME NEW q \in Requests, NEW t2 \in Targets, Manual(q, t2)
      PROVE  TargetIsSound(t)'
  <2>1. /\ task[q] = Idle /\ q \in Coroutines /\ UNCHANGED <<job, missed>>
        /\ task' = [task EXCEPT ![q] = [Idle EXCEPT !.step = "trigger", !.target = t2]]
        /\ owed' = [owed EXCEPT ![t2] = NoHour]
    BY <1>4, NobodyLocks DEF Manual
  <2>2. Changing(t)' = Changing(t) /\ \A q2 \in Changing(t) : task'[q2] = task[q2]
    BY <1>1, <2>1, TriggerTask
  <2>3. owed'[t] = owed[t] \/ owed'[t] = NoHour
    BY <2>1 DEF TypeInvariant
  <2>4. QED
    BY <1>0, <2>1, <2>2, <2>3, LeftAlone
<1>5. QED
  BY <1>2, <1>3, <1>4

LEMMA SoundCoroutine ==
  ASSUME TypeInvariant, TasksAreSound, NEW t \in Targets, TargetIsSound(t),
         NEW c \in Coroutines, CoroutineStep(c)
  PROVE  TargetIsSound(t)'
<1>0. task[c] \in Task
  BY DEF TypeInvariant
<1>1. /\ UNCHANGED <<now, api, job, missed, row, owed, caughtUpAt, skipped, overlapped>>
      /\ dated[t] \subseteq dated'[t]
      /\ \A c2 \in Coroutines \ {c} : task'[c2] = task[c2]
      /\ task[c].step \in {"trigger", "blocked", "reserve"}
      /\ task'[c].step \in {"idle", "blocked", "reserve"}
  <2>1. CASE Trigger(c) \/ LockGranted(c) \/ LockTimeout(c)
    <3>1. task[c].step \in {"trigger", "blocked"}
      BY <2>1, LockMoves, NobodyLocks DEF TasksAreSound
    <3>2. task'[c].step \in {"idle", "blocked", "reserve"}
      <4>1. \/ task'[c] = Idle
            \/ task'[c] = [task[c] EXCEPT !.step = "blocked"]
            \/ task'[c] = [task[c] EXCEPT !.step = "reserve", !.day = Day(now)]
        BY <2>1, LockMoves
      <4>2. QED
        BY <1>0, <4>1, IdleSteps DEF Task
    <3>3. UNCHANGED <<now, api, job, missed, row, runVars, events, ghosts>>
      BY <2>1, LockMoves
    <3>4. QED
      BY <2>1, <3>1, <3>2, <3>3, LockMoves DEF runVars, ghosts
  <2>2. CASE Reserve(c)
    BY <2>2, ReserveMoves, IdleSteps DEF ghosts
  <2>3. QED
    BY <2>1, <2>2 DEF CoroutineStep
<1>2. task[c].step \notin ChangeSteps /\ task'[c].step \notin ChangeSteps
  BY <1>1, OtherSteps
<1>3. Changing(t)' = Changing(t) /\ \A q \in Changing(t) : task'[q] = task[q]
  BY <1>1, <1>2, ChangingKept
<1>4. QED
  BY <1>1, <1>3, LeftAlone

(* The target of a change, and the others.                                 *)
LEMMA SoundOther ==
  ASSUME TypeInvariant, NEW t \in Targets, TargetIsSound(t), NEW q \in Requests,
         \A c \in Coroutines \ {q} : task'[c] = task[c],
         task[q].step \notin ChangeSteps \/ task[q].target # t,
         task'[q].step \notin ChangeSteps \/ task'[q].target # t,
         UNCHANGED <<now, api, missed, caughtUpAt, skipped>>,
         row'[t] = row[t], job'[t] = job[t], owed'[t] = owed[t],
         dated'[t] = dated[t], t \in overlapped' <=> t \in overlapped
  PROVE  TargetIsSound(t)'
<1>1. Changing(t)' = Changing(t) /\ \A q2 \in Changing(t) : task'[q2] = task[q2]
  BY NobodyLocks, ChangingKept
<1>2. QED
  BY <1>1, LeftAlone

LEMMA SoundCreate ==
  ASSUME TypeInvariant, NEW t \in Targets, TargetIsSound(t), NEW q \in Requests,
         NEW e \in BOOLEAN, NEW s \in Schedules, BeginCreate(q, e, s)
  PROVE  TargetIsSound(t)'
<1>1. task[q].step \notin ChangeSteps /\ task'[q].step \notin ChangeSteps
  BY CreateMoves, IdleSteps, OtherSteps
<1>2. /\ \A c \in Coroutines \ {q} : task'[c] = task[c]
      /\ UNCHANGED <<now, api, job, missed, row, runVars, ghosts>>
  BY CreateMoves
<1>3. QED
  BY <1>1, <1>2, SoundOther DEF runVars, ghosts

LEMMA SoundInsert ==
  ASSUME TypeInvariant, TasksAreSound, NEW t \in Targets, TargetIsSound(t),
         NEW q \in Requests, Insert(q)
  PROVE  TargetIsSound(t)'
<1>1. PICK t0 \in Targets :
         /\ task[q].step = "insert" /\ row[t0].state = "unused"
         /\ task'[q].step = "reprogram" /\ task'[q].target = t0
         /\ row'[t0].state = "live"
         /\ row'[t0].enabled = task'[q].enabled
         /\ row'[t0].schedule = task'[q].schedule
         /\ \A c \in Coroutines \ {q} : task'[c] = task[c]
         /\ \A t2 \in Targets \ {t0} : row'[t2] = row[t2]
         /\ UNCHANGED <<now, api, job, missed, runVars, ghosts>>
  BY InsertMoves
<1>2. task[q].step \notin ChangeSteps
  BY <1>1, OtherSteps
<1>3. CASE t # t0
  BY <1>1, <1>2, <1>3, SoundOther DEF runVars, ghosts
<1>4. CASE t = t0
  <2>1. Changing(t) = {} /\ owed[t] = NoHour
    BY <1>1, <1>4 DEF TargetIsSound, ChangesAreKnown, DebtIsReal, Live
  <2>2. Changing(t)' = {q}
    BY <1>1, <1>4, <2>1, ChangingMoves, OtherSteps
  <2>3. owed'[t] = NoHour
    BY <1>1, <2>1 DEF ghosts
  <2>4. ChangesAreKnown(t)'
    <3>1. \A q2 \in Changing(t)' : q2 = q
      BY <2>2
    <3>2. /\ row'[t].state # "unused" /\ Live(t)'
          /\ task'[q].step # "delete"
          /\ row'[t].enabled = task'[q].enabled /\ row'[t].schedule = task'[q].schedule
      BY <1>1, <1>4 DEF Live
    <3>3. QED
      BY <2>3, <3>1, <3>2 DEF ChangesAreKnown
  <2>5. JobFollows(t)' /\ DebtIsReal(t)' /\ DebtIsServed(t)'
    BY <2>2, <2>3 DEF JobFollows, DebtIsReal, DebtIsServed
  <2>6. JobIsReal(t)'
    BY <1>1 DEF TargetIsSound, JobIsReal
  <2>7. QED
    BY <2>4, <2>5, <2>6 DEF TargetIsSound
<1>5. QED
  BY <1>3, <1>4

(* A request begins: update_target, or delete_target, which takes the job. *)
LEMMA SoundBegin ==
  ASSUME TypeInvariant, NEW t \in Targets, TargetIsSound(t), NEW t0 \in Targets,
         NEW q \in Requests, task[q] = Idle, Live(t0), NoteOverlap(t0),
         \A c \in Coroutines \ {q} : task'[c] = task[c],
         task'[q].target = t0,
         \/ task'[q].step = "commit" /\ job'[t0] = job[t0]
         \/ task'[q].step = "delete" /\ job'[t0] = NoJob,
         \A t2 \in Targets \ {t0} : job'[t2] = job[t2],
         UNCHANGED <<now, api, missed, row, dated, owed, caughtUpAt, skipped>>
  PROVE  TargetIsSound(t)'
<1>1. task[q].step \notin ChangeSteps
  BY IdleSteps, OtherSteps
<1>2. CASE t # t0
  <2>1. t \in overlapped' <=> t \in overlapped
    BY <1>2, OverlapNoted
  <2>2. job'[t] = job[t]
    BY <1>2
  <2>3. QED
    BY <1>1, <1>2, <2>1, <2>2, SoundOther
<1>3. CASE t = t0
  <2>1. /\ t \in overlapped => t \in overlapped'
        /\ Changing(t) # {} => t \in overlapped'
    BY <1>3, OverlapNoted
  <2>2. /\ q \notin Changing(t) /\ Changing(t)' = Changing(t) \cup {q}
        /\ \A q2 \in Changing(t) : task'[q2] = task[q2]
    BY <1>1, <1>3, ChangingMoves, OtherSteps
  <2>3. task'[q].step # "reprogram" /\ row[t].state = "live" /\ row'[t] = row[t]
    BY <1>3 DEF Live
  <2>4. ChangesAreKnown(t)'
    <3>1. ASSUME NEW q2 \in Changing(t)'
          PROVE  /\ row'[t].state # "unused"
                 /\ task'[q2].step = "reprogram" => owed'[t] = NoHour
      BY <2>2, <2>3 DEF TargetIsSound, ChangesAreKnown
    <3>2. t \notin overlapped' =>
            /\ Changing(t)' = {q} /\ Live(t)'
            /\ task'[q].step = "delete" => job'[t] = NoJob
      BY <1>3, <2>1, <2>2, <2>3 DEF Live
    <3>3. QED
      BY <2>3, <3>1, <3>2 DEF ChangesAreKnown
  <2>5. JobFollows(t)' /\ DebtIsServed(t)'
    BY <2>2 DEF JobFollows, DebtIsServed
  <2>6. JobIsReal(t)'
    <3>1. CASE job'[t] = NoJob
      BY <3>1 DEF JobIsReal, NoJob, Deadlines
    <3>2. CASE job'[t] = job[t]
      BY <3>2 DEF TargetIsSound, JobIsReal
    <3>3. QED
      BY <1>3, <3>1, <3>2
  <2>7. DebtIsReal(t)'
    BY <2>2, <2>3 DEF TargetIsSound, DebtIsReal, Live
  <2>8. QED
    BY <2>4, <2>5, <2>6, <2>7 DEF TargetIsSound
<1>4. QED
  BY <1>2, <1>3

LEMMA SoundCommit ==
  ASSUME TypeInvariant, TasksAreSound, NEW t \in Targets, TargetIsSound(t),
         NEW q \in Requests, CommitUpdate(q)
  PROVE  TargetIsSound(t)'
<1>1. PICK t0 \in Targets :
         /\ t0 = task[q].target /\ task[q].step = "commit"
         /\ \A c \in Coroutines \ {q} : task'[c] = task[c]
         /\ \A t2 \in Targets \ {t0} : row'[t2] = row[t2]
         /\ \A t2 \in Targets : row'[t2].state = row[t2].state
         /\ \/ /\ Live(t0)
               /\ task'[q].step = "reprogram" /\ task'[q].target = t0
               /\ row'[t0].enabled = task'[q].enabled
               /\ row'[t0].schedule = task'[q].schedule
               /\ owed' = [owed EXCEPT ![t0] = NoHour]
            \/ /\ ~Live(t0) /\ task'[q] = Idle /\ UNCHANGED <<row, owed>>
         /\ UNCHANGED <<now, api, job, missed, runVars, caughtUpAt, skipped, overlapped>>
  BY CommitMoves
<1>2. Idle.step \notin ChangeSteps /\ dated' = dated
  BY <1>1, IdleSteps, OtherSteps DEF runVars
<1>3. CASE t # t0
  <2>1. task'[q].step \notin ChangeSteps \/ task'[q].target # t
    BY <1>1, <1>2, <1>3
  <2>2. owed'[t] = owed[t]
    BY <1>1, <1>3 DEF TypeInvariant
  <2>3. QED
    BY <1>1, <1>2, <1>3, <2>1, <2>2, SoundOther
<1>4. CASE t = t0
  <2>1. q \in Changing(t) /\ \A q2 \in Changing(t) \ {q} : task'[q2] = task[q2]
    BY <1>1, <1>4, ChangingMoves, OtherSteps
  <2>2. JobIsReal(t)'
    BY <1>1 DEF TargetIsSound, JobIsReal
  <2>3. CASE Live(t0)
    <3>1. /\ task'[q].step = "reprogram" /\ task'[q].target = t0
          /\ row'[t0].enabled = task'[q].enabled
          /\ row'[t0].schedule = task'[q].schedule
          /\ owed'[t] = NoHour
      BY <1>1, <1>4, <2>3 DEF TypeInvariant
    <3>2. Changing(t)' = Changing(t)
      <4>1. task'[q].step \in ChangeSteps /\ task'[q].target = t
        BY <1>4, <3>1, OtherSteps
      <4>2. q \in Changing(t)' /\ Changing(t)' \ {q} = Changing(t) \ {q}
        BY <1>1, <4>1, ChangingMoves
      <4>3. QED
        BY <2>1, <4>2
    <3>3. row'[t].state # "unused" /\ Live(t)'
      BY <1>1, <1>4, <2>3 DEF Live
    <3>4. ChangesAreKnown(t)'
      <4>1. t \notin overlapped' => \A q2 \in Changing(t)' : q2 = q
        BY <1>1, <2>1, <3>2 DEF TargetIsSound, ChangesAreKnown
      <4>2. QED
        BY <1>4, <3>1, <3>3, <4>1 DEF ChangesAreKnown
    <3>5. QED
      BY <2>1, <2>2, <3>1, <3>2, <3>4
      DEF TargetIsSound, JobFollows, DebtIsReal, DebtIsServed
  <2>4. CASE ~Live(t0)
    <3>1. t \in overlapped /\ owed[t] = NoHour
      BY <1>4, <2>1, <2>4 DEF TargetIsSound, ChangesAreKnown, DebtIsReal
    <3>2. t \in overlapped' /\ owed'[t] = NoHour /\ row'[t] = row[t]
      BY <1>1, <2>4, <3>1
    <3>3. Changing(t)' \subseteq Changing(t)
      BY <1>1, <2>1, ChangingMoves
    <3>4. ChangesAreKnown(t)'
      BY <3>2, <3>3 DEF TargetIsSound, ChangesAreKnown
    <3>5. QED
      BY <2>2, <3>2, <3>4
      DEF TargetIsSound, JobFollows, DebtIsReal, DebtIsServed
  <2>5. QED
    BY <2>3, <2>4
<1>5. QED
  BY <1>3, <1>4

LEMMA SoundReprogram ==
  ASSUME TypeInvariant, TasksAreSound, NEW t \in Targets, TargetIsSound(t),
         NEW q \in Requests, Reprogram(q)
  PROVE  TargetIsSound(t)'
<1>1. PICK t0 \in Targets, r \in Row :
         /\ t0 = task[q].target /\ task[q].step = "reprogram" /\ task'[q] = Idle
         /\ \A c \in Coroutines \ {q} : task'[c] = task[c]
         /\ r = [state |-> "live", enabled |-> task[q].enabled,
                 schedule |-> task[q].schedule]
         /\ job'[t0] = JobFor(r)
         /\ \A t2 \in Targets \ {t0} : job'[t2] = job[t2]
         /\ UNCHANGED <<now, api, missed, loop, dbVars, events, ghosts>>
  BY ReprogramMoves
<1>2. /\ Idle.step \notin ChangeSteps
      /\ UNCHANGED <<row, dated, owed, caughtUpAt, skipped, overlapped>>
  BY <1>1, IdleSteps, OtherSteps DEF dbVars, runVars, ghosts
<1>3. CASE t # t0
  BY <1>1, <1>2, <1>3, SoundOther
<1>4. CASE t = t0
  <2>1. q \in Changing(t) /\ \A q2 \in Changing(t) \ {q} : task'[q2] = task[q2]
    BY <1>1, <1>4, ChangingMoves, OtherSteps
  <2>2. Changing(t)' \subseteq Changing(t) \ {q}
    BY <1>1, <1>2, ChangingMoves
  <2>3. owed[t] = NoHour
    BY <1>1, <2>1 DEF TargetIsSound, ChangesAreKnown
  <2>4. t \notin overlapped =>
          /\ Changing(t)' = {} /\ Live(t)
          /\ row[t].enabled = r.enabled /\ row[t].schedule = r.schedule
    BY <1>1, <2>1, <2>2 DEF TargetIsSound, ChangesAreKnown
  <2>5. /\ job'[t] # NoJob <=> Planned(r)
        /\ job'[t] # NoJob => job'[t].schedule = r.schedule
        /\ job'[t].schedule = {} => job'[t] = NoJob
        /\ \A h \in Deadlines(job'[t].schedule) : h > now => job'[t].next <= h
    BY <1>1, <1>4, JobForIs DEF TypeInvariant
  <2>6. t \notin overlapped => (Planned(row[t]) <=> Planned(r))
    BY <1>1, <2>4 DEF Planned, Live
  <2>7. JobFollows(t)'
    BY <1>2, <2>4, <2>5, <2>6 DEF JobFollows, HasJob
  <2>8. JobIsReal(t)'
    BY <1>1, <2>5 DEF JobIsReal
  <2>9. ChangesAreKnown(t)'
    BY <1>2, <2>1, <2>2, <2>4 DEF TargetIsSound, ChangesAreKnown, Live
  <2>10. DebtIsReal(t)' /\ DebtIsServed(t)'
    BY <1>2, <2>3 DEF DebtIsReal, DebtIsServed
  <2>11. QED
    BY <2>7, <2>8, <2>9, <2>10 DEF TargetIsSound
<1>5. QED
  BY <1>3, <1>4

LEMMA SoundCommitDelete ==
  ASSUME TypeInvariant, TasksAreSound, NEW t \in Targets, TargetIsSound(t),
         NEW q \in Requests, CommitDelete(q)
  PROVE  TargetIsSound(t)'
<1>1. PICK t0 \in Targets :
         /\ t0 = task[q].target /\ task[q].step = "delete" /\ task'[q] = Idle
         /\ \A c \in Coroutines \ {q} : task'[c] = task[c]
         /\ row'[t0] = [NoRow EXCEPT !.state = "deleted"]
         /\ owed'[t0] = NoHour
         /\ \A t2 \in Targets \ {t0} :
              row'[t2] = row[t2] /\ dated'[t2] = dated[t2] /\ owed'[t2] = owed[t2]
         /\ UNCHANGED <<now, api, job, missed, caughtUpAt, skipped, overlapped>>
  BY CommitDeleteMoves
<1>2. Idle.step \notin ChangeSteps
  BY IdleSteps, OtherSteps
<1>3. CASE t # t0
  BY <1>1, <1>2, <1>3, SoundOther
<1>4. CASE t = t0
  <2>1. q \in Changing(t) /\ \A q2 \in Changing(t) \ {q} : task'[q2] = task[q2]
    BY <1>1, <1>4, ChangingMoves, OtherSteps
  <2>2. Changing(t)' \subseteq Changing(t) \ {q}
    BY <1>1, <1>2, ChangingMoves
  <2>3. t \notin overlapped => Changing(t)' = {} /\ job[t] = NoJob
    BY <1>1, <2>1, <2>2 DEF TargetIsSound, ChangesAreKnown
  <2>4. row'[t].state = "deleted" /\ ~Planned(row[t])'
    BY <1>1, <1>4 DEF NoRow, Planned
  <2>5. JobFollows(t)'
    BY <1>1, <2>3, <2>4 DEF JobFollows, HasJob
  <2>6. JobIsReal(t)'
    BY <1>1 DEF TargetIsSound, JobIsReal
  <2>7. ChangesAreKnown(t)'
    BY <1>1, <1>4, <2>2, <2>3, <2>4 DEF ChangesAreKnown
  <2>8. DebtIsReal(t)' /\ DebtIsServed(t)'
    BY <1>1, <1>4 DEF DebtIsReal, DebtIsServed
  <2>9. QED
    BY <2>5, <2>6, <2>7, <2>8 DEF TargetIsSound
<1>5. QED
  BY <1>3, <1>4

LEMMA SoundStep ==
  ASSUME TypeInvariant, TasksAreSound, NEW t \in Targets, TargetIsSound(t),
         [Next]_vars
  PROVE  TargetIsSound(t)'
<1>1. CASE UNCHANGED vars \/ WorkerStep
  BY <1>1, SoundStill
<1>2. CASE Tick
  BY <1>2, SoundTick
<1>3. CASE Start
  BY <1>3, SoundStart
<1>4. CASE Crash
  BY <1>4, SoundCrash
<1>5. CASE CatchUp
  BY <1>5, SoundCatchUp
<1>6. CASE \/ CatchUpNext \/ \E t2 \in Targets : Fire(t2)
           \/ \E q \in Requests, t2 \in Targets : Manual(q, t2)
  BY <1>6, SoundLoop
<1>7. CASE LoopStep
  BY <1>7, SoundCoroutine DEF LoopStep
<1>8. ASSUME NEW q \in Requests, NEW e \in BOOLEAN, NEW s \in Schedules,
             BeginCreate(q, e, s)
      PROVE  TargetIsSound(t)'
  BY <1>8, SoundCreate
<1>9. ASSUME NEW q \in Requests, NEW t0 \in Targets, NEW f \in Fields \ {"none"},
             NEW e \in BOOLEAN, NEW s \in Schedules, BeginUpdate(q, t0, f, e, s)
      PROVE  TargetIsSound(t)'
  <2>1. /\ task[q] = Idle /\ Live(t0) /\ NoteOverlap(t0)
        /\ \A c \in Coroutines \ {q} : task'[c] = task[c]
        /\ task'[q].step = "commit" /\ task'[q].target = t0
        /\ UNCHANGED <<now, api, job, missed, dbVars, owed, caughtUpAt, skipped>>
    BY <1>9, UpdateMoves
  <2>2. QED
    BY <2>1, SoundBegin DEF dbVars, runVars
<1>10. ASSUME NEW q \in Requests, NEW t0 \in Targets, BeginDelete(q, t0)
       PROVE  TargetIsSound(t)'
  <2>1. /\ task[q] = Idle /\ Live(t0) /\ NoteOverlap(t0)
        /\ \A c \in Coroutines \ {q} : task'[c] = task[c]
        /\ task'[q].step = "delete" /\ task'[q].target = t0
        /\ job'[t0] = NoJob
        /\ \A t2 \in Targets \ {t0} : job'[t2] = job[t2]
        /\ UNCHANGED <<now, api, missed, dbVars, owed, caughtUpAt, skipped>>
    BY <1>10, DeleteMoves
  <2>2. QED
    BY <2>1, SoundBegin DEF dbVars, runVars
<1>11. ASSUME NEW q \in Requests, RequestStep(q)
       PROVE  TargetIsSound(t)'
  BY <1>11, SoundInsert, SoundCommit, SoundReprogram, SoundCommitDelete
  DEF RequestStep
<1>12. QED
  BY <1>1, <1>2, <1>3, <1>4, <1>5, <1>6, <1>7, <1>8, <1>9, <1>10, <1>11
  DEF Next, Request

(* The API's jobs, its coroutines and its requests agree with the database *)
(* in every reachable state.                                               *)
THEOREM PlanningInvariantHolds == Spec => []PlanningInvariant
<1>1. Init => PlanningInvariant
  BY InitTypes, TasksInit, SoundInit DEF PlanningInvariant
<1>2. PlanningInvariant /\ [Next]_vars => PlanningInvariant'
  BY TypeStep, TasksStep, SoundStep DEF PlanningInvariant
<1>3. QED
  BY <1>1, <1>2, PTL DEF Spec

(* Every variable of the planning keeps its type; events stay within their *)
(* bound and a target is caught up once at most.                           *)
THEOREM PlanningTypeCorrect == Spec => []TypeInvariant
<1>1. PlanningInvariant => TypeInvariant
  BY DEF PlanningInvariant
<1>2. QED
  BY <1>1, PlanningInvariantHolds, PTL

(* Once the requests about a target have ended, it has a job if and only   *)
(* if it is live, enabled and scheduled, and the job has its schedule.     *)
THEOREM JobsAreThoseOfRows == Spec => []JobsFollowRows
<1>1. PlanningInvariant => JobsFollowRows
  BY DEF PlanningInvariant, TargetIsSound, JobFollows, JobsFollowRows
<1>2. QED
  BY <1>1, PlanningInvariantHolds, PTL

(* No deadline of a target captured once a day is lost: the job answers it, *)
(* or the catch-up, but for the exceptions DeadlinesAreServed names.       *)
THEOREM NoDeadlineIsLost == Spec => []DeadlinesAreServed
<1>1. ASSUME PlanningInvariant
      PROVE  DeadlinesAreServed
  <2>1. missed = <<>> => DOMAIN missed = {}
    OBVIOUS
  <2>2. QED
    BY <1>1, <2>1
    DEF PlanningInvariant, TargetIsSound, DebtIsServed, DeadlinesAreServed
<1>2. QED
  BY <1>1, PlanningInvariantHolds, PTL

-----------------------------------------------------------------------------
(* The quotas.                                                             *)

MayInsert == TargetQuota > 0 => Cardinality(LiveTargets) < TargetQuota
MayStart == DailyQuota > 0 => ~(StartedOn(Day(now)) >= DailyQuota)

(* Who counts goes on with the row lock, and under the quota.              *)
LEMMA WhoCounts ==
  ASSUME TypeInvariant, TasksAreSound, [Next]_vars, NEW c \in Coroutines
  PROVE  /\ task'[c].step = "insert" =>
              \/ task[c].step = "insert"
              \/ MayInsert /\ UNCHANGED row
         /\ task'[c].step = "reserve" =>
              \/ task[c].step = "reserve"
              \/ MayStart /\ UNCHANGED <<now, started>>
<1> DEFINE Goal == /\ task'[c].step = "insert" =>
                        \/ task[c].step = "insert"
                        \/ MayInsert /\ UNCHANGED row
                   /\ task'[c].step = "reserve" =>
                        \/ task[c].step = "reserve"
                        \/ MayStart /\ UNCHANGED <<now, started>>
<1>0. task[c] \in Task
  BY DEF TypeInvariant
<1>1. CASE UNCHANGED task
  BY <1>1
<1>2. CASE Crash
  BY <1>2, IdleSteps DEF Crash
<1>3. ASSUME NEW c2 \in Coroutines, NEW t \in Targets,
             task'[c2] = [Idle EXCEPT !.step = "trigger", !.target = t],
             \A c3 \in Coroutines \ {c2} : task'[c3] = task[c3]
      PROVE  Goal
  <2>1. task'[c2].step = "trigger"
    BY <1>3, IdleSteps
  <2>2. QED
    BY <1>3, <2>1
<1>4. CASE CatchUpNext
  <2>1. PICK t \in Targets : t = Head(missed)
    BY <1>4, CatchUpNextMoves
  <2>2. /\ CatchupTask \in Coroutines
        /\ task'[CatchupTask] = [Idle EXCEPT !.step = "trigger", !.target = t]
        /\ \A c2 \in Coroutines \ {CatchupTask} : task'[c2] = task[c2]
    BY <1>4, <2>1, CatchUpNextMoves, TriggerTask
  <2>3. QED
    BY <1>3, <2>2
<1>5. ASSUME NEW t \in Targets, Fire(t)
      PROVE  Goal
  <2>1. CASE ~UNCHANGED task
    BY <1>3, <1>5, <2>1, FireMoves, NobodyLocks
  <2>2. QED
    BY <1>1, <2>1
<1>6. ASSUME NEW q \in Requests, NEW t \in Targets, Manual(q, t)
      PROVE  Goal
  <2>1. /\ task' = [task EXCEPT ![q] = [Idle EXCEPT !.step = "trigger", !.target = t]]
        /\ q \in Coroutines
    BY <1>6, NobodyLocks DEF Manual
  <2>2. QED
    BY <1>3, <2>1, TriggerTask
<1>7. ASSUME NEW c2 \in Coroutines, Trigger(c2) \/ LockGranted(c2) \/ LockTimeout(c2)
      PROVE  Goal
  <2>1. CASE c # c2
    BY <1>7, <2>1, LockMoves
  <2>2. CASE c = c2
    <3>1. \/ task'[c] = Idle
          \/ task'[c] = [task[c] EXCEPT !.step = "blocked"]
          \/ task'[c] = [task[c] EXCEPT !.step = "reserve", !.day = Day(now)] /\ MayStart
      BY <1>7, <2>2, LockMoves DEF MayStart
    <3>2. UNCHANGED <<now, started>>
      BY <1>7, LockMoves DEF runVars
    <3>3. \/ task'[c].step \in {"idle", "blocked"}
          \/ task'[c].step = "reserve" /\ MayStart
      BY <1>0, <3>1, IdleSteps DEF Task
    <3>4. QED
      BY <3>2, <3>3
  <2>3. QED
    BY <2>1, <2>2
<1>8. ASSUME NEW c2 \in Coroutines, Reserve(c2)
      PROVE  Goal
  <2>1. task'[c2].step = "idle" /\ \A c3 \in Coroutines \ {c2} : task'[c3] = task[c3]
    BY <1>8, ReserveMoves, IdleSteps
  <2>2. QED
    BY <2>1
<1>9. ASSUME NEW q \in Requests, NEW e \in BOOLEAN, NEW s \in Schedules,
             BeginCreate(q, e, s)
      PROVE  Goal
  <2>1. /\ task'[q].step = "insert" /\ MayInsert /\ UNCHANGED row
        /\ \A c2 \in Coroutines \ {q} : task'[c2] = task[c2]
    BY <1>9, CreateMoves DEF MayInsert
  <2>2. QED
    BY <2>1
<1>10. ASSUME NEW q \in Requests, NEW t \in Targets,
              \/ BeginDelete(q, t)
              \/ \E f \in Fields \ {"none"}, e \in BOOLEAN, s \in Schedules :
                   BeginUpdate(q, t, f, e, s)
       PROVE  Goal
  <2>1. /\ task'[q].step \in {"commit", "delete"}
        /\ \A c2 \in Coroutines \ {q} : task'[c2] = task[c2]
    BY <1>10, UpdateMoves, DeleteMoves
  <2>2. QED
    BY <2>1
<1>11. ASSUME NEW q \in Requests, RequestStep(q)
       PROVE  Goal
  <2>1. /\ task'[q].step \in {"idle", "reprogram"}
        /\ \A c2 \in Coroutines \ {q} : task'[c2] = task[c2]
    <3>1. CASE Insert(q)
      BY <3>1, InsertMoves
    <3>2. CASE CommitUpdate(q)
      BY <3>2, CommitMoves, IdleSteps
    <3>3. CASE Reprogram(q)
      BY <3>3, ReprogramMoves, IdleSteps
    <3>4. CASE CommitDelete(q)
      BY <3>4, CommitDeleteMoves, IdleSteps
    <3>5. QED
      BY <1>11, <3>1, <3>2, <3>3, <3>4 DEF RequestStep
  <2>2. QED
    BY <2>1
<1>12. CASE Tick \/ Start \/ CatchUp \/ WorkerStep \/ UNCHANGED vars
  BY <1>1, <1>12 DEF Tick, Start, CatchUp, WorkerStep, WorkerStores, Settle,
                     vars, apiVars
<1>13. QED
  BY <1>2, <1>4, <1>5, <1>6, <1>7, <1>8, <1>9, <1>10, <1>11, <1>12
  DEF Next, LoopStep, CoroutineStep, Request

LEMMA WhatIsCounted ==
  ASSUME TypeInvariant, TasksAreSound, [Next]_vars
  PROVE  /\ \/ UNCHANGED row
            \/ \E q \in Requests : Insert(q) \/ CommitUpdate(q) \/ CommitDelete(q)
         /\ \/ UNCHANGED started /\ (now' = now \/ now' = now + 1)
            \/ \E c \in Coroutines : Reserve(c)
            \/ \E q \in Requests : CommitDelete(q)
<1>1. CASE UNCHANGED vars \/ Tick \/ Start \/ Crash \/ CatchUp \/ WorkerStep
  BY <1>1 DEF vars, Tick, Start, Crash, CatchUp, WorkerStep, WorkerStores, Settle,
              dbVars, runVars
<1>2. CASE CatchUpNext \/ (\E t \in Targets : Fire(t))
  BY <1>2 DEF CatchUpNext, Fire, dbVars, runVars
<1>3. CASE LoopStep
  BY <1>3 DEF LoopStep, CoroutineStep, Trigger, LockGranted, LockTimeout, Reserve,
              dbVars, runVars
<1>4. ASSUME NEW q \in Requests, Request(q)
      PROVE  UNCHANGED <<row, started, now>>
  BY <1>4 DEF Request, Manual, BeginDelete, BeginCreate, BeginUpdate, dbVars, runVars
<1>5. ASSUME NEW q \in Requests, RequestStep(q)
      PROVE  \/ Insert(q) /\ UNCHANGED <<now, started>>
             \/ CommitUpdate(q) /\ UNCHANGED <<now, started>>
             \/ CommitDelete(q)
             \/ UNCHANGED <<row, started, now>>
  BY <1>5 DEF RequestStep, Insert, CommitUpdate, Reprogram, dbVars, runVars
<1>6. QED
  BY <1>1, <1>2, <1>3, <1>4, <1>5 DEF Next

LEMMA LiveTargetsCount ==
  /\ IsFiniteSet(LiveTargets) /\ Cardinality(LiveTargets) \in Nat
  /\ IsFiniteSet(LiveTargets') /\ Cardinality(LiveTargets') \in Nat
<1>1. LiveTargets \subseteq Targets /\ LiveTargets' \subseteq Targets
  BY DEF LiveTargets
<1>2. QED
  BY <1>1, Constants, FS_Subset, FS_CardinalityType

LEMMA RoomInit == Init => RoomForTargets /\ RoomForCaptures
<1> SUFFICES ASSUME Init
             PROVE  RoomForTargets /\ RoomForCaptures
  OBVIOUS
<1>1. RoomForTargets
  <2>1. \A t \in LiveTargets : t \in {1}
    BY DEF Init, LiveTargets, Live, NoRow
  <2>2. LiveTargets \subseteq {1} /\ IsFiniteSet({1}) /\ Cardinality({1}) = 1
    BY <2>1, FS_Singleton
  <2>3. Cardinality(LiveTargets) <= 1
    BY <2>2, FS_Subset
  <2>4. \A c \in Coroutines : task[c].step # "insert"
    BY IdleSteps DEF Init
  <2>5. QED
    BY <2>3, <2>4, Constants, LiveTargetsCount DEF RoomForTargets
<1>2. ASSUME NEW d \in Days
      PROVE  StartedOn(d) = 0
  <2> DEFINE f == [t \in Targets |-> started[t][d]]
  <2>1. f \in [Targets -> Nat] /\ \A t \in Targets : f[t] = 0
    BY DEF Init
  <2> HIDE DEF f
  <2>2. SumFunction(f) = 0
    BY <2>1, Constants, SumOfZeros
  <2>3. QED
    BY <2>2 DEF StartedOn, f
<1>3. \A c \in Coroutines : task[c].step # "reserve"
  BY IdleSteps DEF Init
<1>4. RoomForCaptures
  BY <1>2, <1>3, Constants DEF RoomForCaptures, Init
<1>5. QED
  BY <1>1, <1>4

LEMMA RoomForTargetsStep ==
  ASSUME TypeInvariant, TasksAreSound, RoomForTargets, [Next]_vars
  PROVE  RoomForTargets'
<1>1. ASSUME LiveTargets' \subseteq LiveTargets
      PROVE  RoomForTargets'
  <2>1. Cardinality(LiveTargets') <= Cardinality(LiveTargets)
    BY <1>1, LiveTargetsCount, FS_Subset
  <2>2. ASSUME NEW c \in Coroutines, task'[c].step = "insert", TargetQuota > 0
        PROVE  Cardinality(LiveTargets) < TargetQuota
    BY <2>2, WhoCounts DEF RoomForTargets, MayInsert
  <2>3. TargetQuota > 0 => Cardinality(LiveTargets') <= TargetQuota
    BY <2>1, Constants, LiveTargetsCount DEF RoomForTargets
  <2>4. ASSUME NEW c \in Coroutines, task'[c].step = "insert", TargetQuota > 0
        PROVE  Cardinality(LiveTargets') < TargetQuota
    BY <2>1, <2>2, <2>4, Constants, LiveTargetsCount
  <2>5. QED
    BY <2>3, <2>4 DEF RoomForTargets
<1>2. CASE UNCHANGED row
  BY <1>1, <1>2 DEF LiveTargets, Live
<1>3. ASSUME NEW q \in Requests, CommitUpdate(q)
      PROVE  RoomForTargets'
  BY <1>1, <1>3, CommitMoves DEF LiveTargets, Live
<1>4. ASSUME NEW q \in Requests, CommitDelete(q)
      PROVE  RoomForTargets'
  <2>1. PICK t \in Targets : t = task[q].target
    BY <1>4, CommitDeleteMoves
  <2>2. /\ row'[t] = [NoRow EXCEPT !.state = "deleted"]
        /\ \A t2 \in Targets \ {t} : row'[t2] = row[t2]
    BY <1>4, <2>1, CommitDeleteMoves
  <2>3. row'[t].state = "deleted"
    BY <2>2 DEF NoRow
  <2>4. QED
    BY <1>1, <2>2, <2>3 DEF LiveTargets, Live
<1>5. ASSUME NEW q \in Requests, Insert(q)
      PROVE  RoomForTargets'
  <2>1. PICK t \in Targets :
          /\ q \in Coroutines /\ task[q].step = "insert" /\ row[t].state = "unused"
          /\ task'[q].step = "reprogram" /\ row'[t].state = "live"
          /\ \A c \in Coroutines \ {q} : task'[c] = task[c]
          /\ \A t2 \in Targets \ {t} : row'[t2] = row[t2]
          /\ orgLock = q
    BY <1>5, InsertMoves
  <2>2. LiveTargets' = LiveTargets \cup {t} /\ t \notin LiveTargets
    BY <2>1 DEF LiveTargets, Live
  <2>3. Cardinality(LiveTargets') = Cardinality(LiveTargets) + 1
    BY <2>2, LiveTargetsCount, FS_AddElement
  <2>4. TargetQuota > 0 => Cardinality(LiveTargets') <= TargetQuota
    BY <2>1, <2>3, Constants, LiveTargetsCount DEF RoomForTargets
  <2>5. \A c \in Coroutines : task'[c].step # "insert"
    BY <2>1 DEF TasksAreSound
  <2>6. QED
    BY <2>4, <2>5 DEF RoomForTargets
<1>6. QED
  BY <1>2, <1>3, <1>4, <1>5, WhatIsCounted

(* The captures of a day: none yet, one more, or none of one target.       *)
LEMMA StartedIsCounted ==
  ASSUME TypeInvariant, TypeInvariant', NEW d \in Days
  PROVE  /\ StartedOn(d) \in Nat /\ StartedOn(d)' \in Nat
         /\ (\A t \in Targets : started[t][d] = 0) => StartedOn(d) = 0
         /\ \A t \in Targets :
              (\A t2 \in Targets \ {t} : started'[t2][d] = started[t2][d]) =>
                StartedOn(d)' = StartedOn(d) + (started'[t][d] - started[t][d])
<1> DEFINE f == [t \in Targets |-> started[t][d]]
           g == [t \in Targets |-> started'[t][d]]
<1>1. f \in [Targets -> Nat] /\ g \in [Targets -> Nat]
  BY DEF TypeInvariant
<1>2. StartedOn(d) = SumFunction(f) /\ StartedOn(d)' = SumFunction(g)
  BY DEF StartedOn
<1>3. \A t \in Targets : f[t] = started[t][d] /\ g[t] = started'[t][d]
  OBVIOUS
<1> HIDE DEF f, g
<1>4. StartedOn(d) \in Nat /\ StartedOn(d)' \in Nat
  BY <1>1, <1>2, Constants, SumType
<1>5. ASSUME \A t \in Targets : started[t][d] = 0
      PROVE  StartedOn(d) = 0
  BY <1>1, <1>2, <1>3, <1>5, Constants, SumOfZeros
<1>6. ASSUME NEW t \in Targets,
             \A t2 \in Targets \ {t} : started'[t2][d] = started[t2][d]
      PROVE  StartedOn(d)' = StartedOn(d) + (started'[t][d] - started[t][d])
  <2>1. \A t2 \in Targets \ {t} : g[t2] = f[t2]
    BY <1>3, <1>6
  <2>2. SumFunction(g) = SumFunction(f) + (g[t] - f[t])
    BY <1>1, <2>1, Constants, SumChanges
  <2>3. QED
    BY <1>2, <1>3, <2>2
<1>7. QED
  BY <1>4, <1>5, <1>6

LEMMA RoomForCapturesStep ==
  ASSUME TypeInvariant, TypeInvariant', TasksAreSound, RoomForCaptures, [Next]_vars
  PROVE  RoomForCaptures'
<1>0. /\ now \in Nat /\ Day(now) \in Days /\ Day(now)' \in Days /\ Days \subseteq Nat
      /\ DailyQuota \in Nat
  <2>1. now \in Hours /\ now' \in Hours
    BY DEF TypeInvariant
  <2>2. Day(now) \in Days /\ Day(now') \in Days
    BY <2>1, DaysOfHours
  <2>3. QED
    BY <2>1, <2>2, Constants DEF Hours, Days
<1>1. \A t \in Targets : \A d \in Days : started[t][d] \in Nat /\ started'[t][d] \in Nat
  BY DEF TypeInvariant
<1>2. ASSUME UNCHANGED started, now' = now \/ now' = now + 1
      PROVE  RoomForCaptures'
  <2>0. PICK d0 \in Days, d1 \in Days : d0 = Day(now) /\ d1 = Day(now)'
    BY <1>0
  <2>1. d0 <= d1 /\ d0 \in Nat /\ d1 \in Nat
    <3>1. now' \in Nat /\ now <= now'
      BY <1>0, <1>2
    <3>2. Day(now) <= Day(now')
      BY <1>0, <3>1, DaysOfHours
    <3>3. QED
      BY <1>0, <2>0, <3>2
  <2>2. \A d \in Days : StartedOn(d)' = StartedOn(d)
    BY <1>2 DEF StartedOn
  <2>3. \A t \in Targets : \A d \in Days : d > d1 => started'[t][d] = 0
    <3>1. \A d \in Days : d > d1 => d > d0
      BY <1>0, <2>1
    <3>2. QED
      BY <1>2, <2>0, <3>1 DEF RoomForCaptures
  <2>4. ASSUME NEW c \in Coroutines, task'[c].step = "reserve", DailyQuota > 0
        PROVE  StartedOn(d1) < DailyQuota
    <3>1. CASE d1 = d0
      <4>1. task[c].step = "reserve" \/ ~(StartedOn(d0) >= DailyQuota)
        BY <2>0, <2>4, WhoCounts DEF MayStart
      <4>2. StartedOn(d0) \in Nat
        BY StartedIsCounted
      <4>3. StartedOn(d0) < DailyQuota
        BY <1>0, <2>0, <2>4, <4>1, <4>2 DEF RoomForCaptures
      <4>4. QED
        BY <3>1, <4>3
    <3>2. CASE d1 # d0
      <4>1. \A t \in Targets : started[t][d1] = 0
        BY <2>0, <2>1, <3>2 DEF RoomForCaptures
      <4>2. StartedOn(d1) = 0
        BY <4>1, StartedIsCounted
      <4>3. QED
        BY <1>0, <2>4, <4>2
    <3>3. QED
      BY <3>1, <3>2
  <2>5. \A c \in Coroutines :
          task'[c].step = "reserve" /\ DailyQuota > 0 => StartedOn(d1)' < DailyQuota
    BY <2>2, <2>4
  <2>6. StartedOn(Day(now))' = StartedOn(d1)'
    BY <2>0 DEF StartedOn
  <2>7. QED
    BY <2>0, <2>2, <2>3, <2>5, <2>6 DEF RoomForCaptures
<1>3. ASSUME NEW c \in Coroutines, Reserve(c)
      PROVE  RoomForCaptures'
  <2>1. /\ task[c].step = "reserve" /\ task'[c].step = "idle" /\ orgLock = c
        /\ \A c2 \in Coroutines \ {c} : task'[c2] = task[c2]
        /\ now' = now
    BY <1>3, ReserveMoves, IdleSteps
  <2>2. PICK t \in Targets : t = task[c].target
    BY <2>1 DEF TasksAreSound, TargetSteps
  <2>3. PICK today \in Days : today = Day(now) /\ today = Day(now)'
    BY <1>0, <2>1 DEF Day
  <2>4. \/ UNCHANGED started
        \/ started' = [started EXCEPT ![t][today] = @ + 1]
    BY <1>3, <2>2, <2>3, ReserveMoves
  <2>5. \A c2 \in Coroutines : task'[c2].step # "reserve"
    BY <2>1 DEF TasksAreSound
  <2>6. ASSUME NEW t2 \in Targets, NEW d \in Days, t2 # t \/ d # today
        PROVE  started'[t2][d] = started[t2][d]
    BY <2>4, <2>6 DEF TypeInvariant
  <2>7. started'[t][today] \in {started[t][today], started[t][today] + 1}
    BY <2>4 DEF TypeInvariant
  <2>8. \A t2 \in Targets : \A d \in Days : d > Day(now)' => started'[t2][d] = 0
    BY <1>0, <2>3, <2>6 DEF RoomForCaptures
  <2>9. ASSUME DailyQuota > 0, NEW d \in Days
        PROVE  StartedOn(d)' <= DailyQuota
    <3>1. StartedOn(d)' = StartedOn(d) + (started'[t][d] - started[t][d])
      BY <2>6, StartedIsCounted
    <3>2. StartedOn(d) \in Nat /\ StartedOn(d)' \in Nat /\ StartedOn(d) <= DailyQuota
      BY <2>9, StartedIsCounted DEF RoomForCaptures
    <3>3. CASE d # today
      BY <1>1, <2>6, <3>1, <3>2, <3>3
    <3>4. CASE d = today
      <4>1. StartedOn(d) < DailyQuota
        BY <2>1, <2>3, <2>9, <3>4 DEF RoomForCaptures
      <4>2. StartedOn(d)' <= StartedOn(d) + 1
        BY <1>1, <2>7, <3>1, <3>2, <3>4
      <4>3. QED
        BY <1>0, <3>2, <4>1, <4>2
    <3>5. QED
      BY <3>3, <3>4
  <2>10. QED
    BY <2>5, <2>8, <2>9 DEF RoomForCaptures
<1>4. ASSUME NEW q \in Requests, CommitDelete(q)
      PROVE  RoomForCaptures'
  <2>1. PICK t \in Targets : t = task[q].target
    BY <1>4, CommitDeleteMoves
  <2>2. /\ task'[q].step = "idle" /\ now' = now
        /\ \A c \in Coroutines \ {q} : task'[c] = task[c]
        /\ started' = [started EXCEPT ![t] = [d \in Days |-> 0]]
    BY <1>4, <2>1, CommitDeleteMoves, IdleSteps
  <2>3. /\ \A d \in Days : started'[t][d] = 0
        /\ \A t2 \in Targets \ {t} : started'[t2] = started[t2]
    BY <2>2 DEF TypeInvariant
  <2>4. ASSUME NEW d \in Days
        PROVE  StartedOn(d)' <= StartedOn(d) /\ StartedOn(d) \in Nat /\ StartedOn(d)' \in Nat
    <3>1. StartedOn(d)' = StartedOn(d) + (started'[t][d] - started[t][d])
      BY <2>3, StartedIsCounted
    <3>2. QED
      BY <1>1, <2>3, <3>1, StartedIsCounted
  <2>5. PICK today \in Days : today = Day(now) /\ today = Day(now)'
    BY <1>0, <2>2 DEF Day
  <2>6. \A t2 \in Targets : \A d \in Days : d > Day(now)' => started'[t2][d] = 0
    BY <2>2, <2>3, <2>5 DEF RoomForCaptures
  <2>7. ASSUME DailyQuota > 0, NEW d \in Days
        PROVE  StartedOn(d)' <= DailyQuota
    BY <1>0, <2>4, <2>7 DEF RoomForCaptures
  <2>8. ASSUME DailyQuota > 0, NEW c \in Coroutines, task'[c].step = "reserve"
        PROVE  StartedOn(today)' < DailyQuota
    <3>1. task[c].step = "reserve"
      BY <2>2, <2>8
    <3>2. StartedOn(today) < DailyQuota
      BY <2>5, <2>8, <3>1 DEF RoomForCaptures
    <3>3. QED
      BY <1>0, <2>4, <3>2
  <2>9. StartedOn(Day(now))' = StartedOn(today)'
    BY <2>5 DEF StartedOn
  <2>10. QED
    BY <2>6, <2>7, <2>8, <2>9 DEF RoomForCaptures
<1>5. QED
  BY <1>2, <1>3, <1>4, WhatIsCounted

(* Concurrent creations, copies and deletions of targets never take an     *)
(* organisation above its number of targets: the count and the INSERT are  *)
(* under the same row lock.                                                *)
THEOREM TargetQuotaHolds == Spec => []TargetsWithinQuota
<1>1. Init => RoomForTargets
  BY RoomInit
<1>2. PlanningInvariant /\ RoomForTargets /\ [Next]_vars => RoomForTargets'
  BY RoomForTargetsStep DEF PlanningInvariant
<1>3. RoomForTargets => TargetsWithinQuota
  BY DEF RoomForTargets, TargetsWithinQuota
<1>4. QED
  BY <1>1, <1>2, <1>3, PlanningInvariantHolds, PTL DEF Spec

(* Nor do scheduled, caught-up and manual captures exceed those of a day,  *)
(* even when midnight passes between the count and the INSERT.             *)
THEOREM DailyQuotaHolds == Spec => []DailyWithinQuota
<1>1. Init => RoomForCaptures
  BY RoomInit
<1>2. /\ PlanningInvariant /\ RoomForCaptures /\ [Next]_vars /\ PlanningInvariant'
      => RoomForCaptures'
  BY RoomForCapturesStep DEF PlanningInvariant
<1>3. RoomForCaptures => DailyWithinQuota
  BY DEF RoomForCaptures, DailyWithinQuota
<1>4. QED
  BY <1>1, <1>2, <1>3, PlanningInvariantHolds, PTL DEF Spec

=============================================================================
