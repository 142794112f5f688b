------------------------------ MODULE RunLedger ------------------------------
(***************************************************************************)
(* What the capture queue promises to the rest of FaithBook, seen from the *)
(* table of runs alone: a target has at most one live run at a time, and a *)
(* settled run never comes back to life.  Where the run waits, who holds   *)
(* the Redis lock and which process crashes are all hidden; CaptureQueue   *)
(* is shown to implement this module.                                      *)
(***************************************************************************)

CONSTANTS
  RunIds,     \* the identifiers the runs table may hand out
  Targets     \* the targets of the installation

VARIABLES
  status,     \* status[r]: the column runs.status, "none" before the INSERT
  owner       \* owner[r]: the target of run r, "none" before the INSERT

ledgerVars == <<status, owner>>

(* The statuses from which a run still has to be captured. *)
LiveStatus == {"pending", "running"}

(* The statuses execute_run and trigger_target settle a run with. *)
SettledStatus == {"success", "failed", "skipped", "suspended"}

(* "deleted" stands for the row that ON DELETE CASCADE removed. *)
RunStatus == {"none", "deleted"} \cup LiveStatus \cup SettledStatus

IsLive(r) == status[r] \in LiveStatus

LiveOn(t) == {r \in RunIds : IsLive(r) /\ owner[r] = t}

LedgerInit ==
  /\ status = [r \in RunIds |-> "none"]
  /\ owner = [r \in RunIds |-> "none"]

(* A trigger is accepted only for a target without a live run. *)
Submit(r, t) ==
  /\ status[r] = "none"
  /\ LiveOn(t) = {}
  /\ status' = [status EXCEPT ![r] = "pending"]
  /\ owner' = [owner EXCEPT ![r] = t]

(* The worker begins a live run, for the first time or again. *)
Begin(r) ==
  /\ IsLive(r)
  /\ status' = [status EXCEPT ![r] = "running"]
  /\ UNCHANGED owner

Settle(r, s) ==
  /\ IsLive(r)
  /\ status' = [status EXCEPT ![r] = s]
  /\ UNCHANGED owner

(* A restarted worker puts interrupted runs back to "pending". *)
Requeue(R) ==
  /\ \A r \in R : IsLive(r)
  /\ status' = [r \in RunIds |-> IF r \in R THEN "pending" ELSE status[r]]
  /\ UNCHANGED owner

(* Deleting a target deletes its runs. *)
Forget(t) ==
  /\ status' = [r \in RunIds |-> IF owner[r] = t THEN "deleted" ELSE status[r]]
  /\ UNCHANGED owner

LedgerNext ==
  \/ \E r \in RunIds, t \in Targets : Submit(r, t)
  \/ \E r \in RunIds : Begin(r)
  \/ \E r \in RunIds, s \in SettledStatus : Settle(r, s)
  \/ \E R \in SUBSET RunIds : Requeue(R)
  \/ \E t \in Targets : Forget(t)

LedgerSpec == LedgerInit /\ [][LedgerNext]_ledgerVars

(* A target never has two live runs: the meaning of "une execution est     *)
(* deja en cours ou en attente pour cette cible" (runner.py).              *)
OneLiveRun ==
  \A r1, r2 \in RunIds :
    IsLive(r1) /\ IsLive(r2) /\ owner[r1] = owner[r2] => r1 = r2

(* A settled run keeps its outcome until its target is deleted. *)
OutcomesAreFinal ==
  [][\A r \in RunIds :
       status[r] \in SettledStatus => status'[r] \in {status[r], "deleted"}]_ledgerVars
==============================================================================
