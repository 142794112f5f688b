--------------------------- MODULE RunLedgerProofs ---------------------------
(* What RunLedger promises, for every set of runs and targets.             *)
EXTENDS RunLedger, TLAPS

LedgerTypeOK ==
  /\ status \in [RunIds -> RunStatus]
  /\ owner \in [RunIds -> Targets \cup {"none"}]

LedgerInvariant == LedgerTypeOK /\ OneLiveRun

LEMMA LedgerInvariantInit == LedgerInit => LedgerInvariant
BY DEF LedgerInit, LedgerInvariant, LedgerTypeOK, OneLiveRun, IsLive, RunStatus, LiveStatus

LEMMA LedgerInvariantStep ==
  LedgerInvariant /\ [LedgerNext]_ledgerVars => LedgerInvariant'
<1> SUFFICES ASSUME LedgerInvariant, [LedgerNext]_ledgerVars PROVE LedgerInvariant'
  OBVIOUS
<1> USE DEF LedgerInvariant, LedgerTypeOK, OneLiveRun, IsLive, RunStatus, LiveStatus
<1>1. ASSUME NEW r \in RunIds, NEW t \in Targets, Submit(r, t) PROVE LedgerInvariant'
  <2>1. LedgerTypeOK'
    BY <1>1 DEF Submit
  <2>2. \A s \in RunIds : IsLive(s) => owner[s] # t
    BY <1>1 DEF Submit, LiveOn
  <2>3. QED
    BY <1>1, <2>1, <2>2 DEF Submit
<1>2. ASSUME NEW r \in RunIds, Begin(r) PROVE LedgerInvariant'
  BY <1>2 DEF Begin
<1>3. ASSUME NEW r \in RunIds, NEW s \in SettledStatus, Settle(r, s) PROVE LedgerInvariant'
  BY <1>3 DEF Settle, SettledStatus
<1>4. ASSUME NEW R \in SUBSET RunIds, Requeue(R) PROVE LedgerInvariant'
  BY <1>4 DEF Requeue
<1>5. ASSUME NEW t \in Targets, Forget(t) PROVE LedgerInvariant'
  BY <1>5 DEF Forget
<1>6. CASE UNCHANGED ledgerVars
  BY <1>6 DEF ledgerVars
<1>7. QED
  BY <1>1, <1>2, <1>3, <1>4, <1>5, <1>6 DEF LedgerNext

(* A target never has two live runs.                                       *)
THEOREM LedgerHasOneLiveRun == LedgerSpec => []OneLiveRun
<1>1. LedgerInvariant => OneLiveRun
  BY DEF LedgerInvariant
<1>2. QED
  BY <1>1, LedgerInvariantInit, LedgerInvariantStep, PTL DEF LedgerSpec

(* A settled run never comes back to life.                                 *)
THEOREM LedgerOutcomesAreFinal == LedgerSpec => OutcomesAreFinal
<1>1. ASSUME LedgerInvariant, [LedgerNext]_ledgerVars
      PROVE  [\A r \in RunIds : status[r] \in SettledStatus =>
                status'[r] \in {status[r], "deleted"}]_ledgerVars
  <2>1. SUFFICES ASSUME LedgerNext, NEW r \in RunIds, status[r] \in SettledStatus
                 PROVE  status'[r] \in {status[r], "deleted"}
    BY <1>1
  <2>2. ~IsLive(r) /\ status[r] # "none"
    BY <2>1 DEF IsLive, LiveStatus, SettledStatus
  <2>3. QED
    BY <1>1, <2>1, <2>2
    DEF LedgerNext, Submit, Begin, Settle, Requeue, Forget, LedgerInvariant, LedgerTypeOK
<1>2. QED
  BY <1>1, LedgerInvariantInit, LedgerInvariantStep, PTL DEF LedgerSpec, OutcomesAreFinal
==============================================================================
