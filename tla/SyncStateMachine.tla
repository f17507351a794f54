-------------------------- MODULE SyncStateMachine -------------------------
(***************************************************************************)
(* The decisions of evaluateSyncState                                      *)
(* (internal/controller/sync_state_machine.go) as operators on the status  *)
(* of a TaoNode.  A status keeps the fields the state machine reads and    *)
(* writes, and the AI report that shares the status object:                *)
(*   phase          "" before the first status write                       *)
(*   restartCount   recoveries charged to the node                         *)
(*   lastReconcile  age of LastReconcileTime, Never while it is nil        *)
(*   advisory       whether an AI incident report is present               *)
(***************************************************************************)
EXTENDS Integers

CONSTANTS
  MaxRestartAttempts, \* spec.syncPolicy.maxRestartAttempts
  SyncTimeout         \* spec.syncPolicy.syncTimeoutMinutes, in ticks

ASSUME SyncPolicyAssumption ==
  /\ MaxRestartAttempts \in Nat
  /\ SyncTimeout \in Nat

Phases == {"", "Pending", "Syncing", "Synced", "Degraded", "Recovering", "Failed"}

Never == -1

Status == [phase : Phases,
           restartCount : 0 .. MaxRestartAttempts,
           lastReconcile : Never .. SyncTimeout + 1,
           advisory : BOOLEAN]

NoStatus == [phase |-> "", restartCount |-> 0,
             lastReconcile |-> Never, advisory |-> FALSE]

(* What a reconcile learns of its node: isSynced, from the chain probe (lag
   within maxBlockLag and state "in-sync"), and hasCriticalAnomaly, from the
   anomaly detector (some score >= 0.7). *)
Verdict == [synced : BOOLEAN, critical : BOOLEAN]

----------------------------------------------------------------------------
(* The cases of the switch, made disjoint in the order the code tries them. *)

IsPending(st) == st.phase = "Pending"

HappyPath(st, v) == ~IsPending(st) /\ v.synced /\ ~v.critical

(* Mutant: a node that is already Degraded is not recovered. *)
NeedsRecoveryOnce(st, v) ==
  /\ ~IsPending(st)
  /\ ~HappyPath(st, v)
  /\ st.phase = "Synced" \/ v.critical

(* Synced and out of sync falls through from the Degraded transition. *)
NeedsRecovery(st, v) ==
  /\ ~IsPending(st)
  /\ ~HappyPath(st, v)
  /\ st.phase \in {"Synced", "Degraded"} \/ v.critical

StillRecovering(st, v) ==
  /\ st.phase = "Recovering"
  /\ ~HappyPath(st, v)
  /\ ~NeedsRecovery(st, v)

ReportsProgress(st, v) ==
  /\ st.phase \notin {"Pending", "Recovering"}
  /\ ~HappyPath(st, v)
  /\ ~NeedsRecovery(st, v)

(* Mutant: one restart too many. *)
BudgetSpentOffByOne(st) == st.restartCount > MaxRestartAttempts

BudgetSpent(st) == st.restartCount >= MaxRestartAttempts

(* What each case leaves in the status. *)

Settle(st, phase) == [st EXCEPT !.phase = phase]

(* Synced -> Degraded, kept when the recovery that follows is throttled. *)
Degrade(st, v) ==
  IF ~v.synced /\ st.phase = "Synced" THEN Settle(st, "Degraded") ELSE st

(* Mutant: the restart is not counted. *)
ChargeNothing(st) == [st EXCEPT !.phase = "Recovering"]

(* executeRecovery charges the restart before it acts. *)
Charge(st) ==
  [st EXCEPT !.phase = "Recovering", !.restartCount = @ + 1]

(* The recovery timeout is measured from the last successful reconcile. *)
CheckTimeout(st) ==
  IF st.lastReconcile # Never /\ st.lastReconcile > SyncTimeout
  THEN Settle(st, "Failed")
  ELSE st

(* Step 10 of Reconcile stamps LastReconcileTime. *)
Stamp(st) == [st EXCEPT !.lastReconcile = 0]

(* A tick of the clock, seen by every copy of a status. *)
Aged(st) ==
  [st EXCEPT !.lastReconcile =
     IF @ = Never \/ @ > SyncTimeout THEN @ ELSE @ + 1]
============================================================================
