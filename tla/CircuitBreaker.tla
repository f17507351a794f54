--------------------------- MODULE CircuitBreaker --------------------------
(***************************************************************************)
(* The ClickHouse circuit breaker (internal/analytics/circuit_breaker.go)  *)
(* under its only caller, reconcileWithAnalytics                           *)
(* (internal/controller/taonode_controller.go), which reconcile workers    *)
(* run in parallel.                                                        *)
(*                                                                         *)
(* The breaker is lock-minimised: every atomic load, store and             *)
(* compare-and-swap and every critical section of mu is a step of its own, *)
(* so all interleavings of the workers inside Allow, RecordSuccess and     *)
(* RecordFailure are explored.                                             *)
(***************************************************************************)
EXTENDS Integers, FiniteSets

CONSTANTS
  Workers,         \* reconcile workers: MaxConcurrentReconciles
  Detecting,       \* workers whose TaoNode has anomaly detection enabled
  MaxFailures,     \* maxFailures: 5 in cmd/main.go
  ResetTimeout,    \* resetTimeout in ticks: 30 s in cmd/main.go
  HalfOpenProbes,  \* halfOpenProbes: 3 in cmd/main.go
  CallTimeout,     \* longest analytics section of a reconcile: 10 s query timeout
  ErrorsReported,  \* whether the detector returns errors; FALSE for this EvaluateNode
  MaxOutages       \* bound on the outages of ClickHouse

ASSUME BreakerAssumption ==
  /\ Detecting \subseteq Workers
  /\ MaxFailures \in Nat \ {0}
  /\ HalfOpenProbes \in Nat \ {0}
  /\ CallTimeout \in Nat
  /\ ResetTimeout \in Nat /\ CallTimeout < ResetTimeout
  /\ ErrorsReported \in BOOLEAN
  /\ MaxOutages \in Nat

VARIABLES
  state,           \* the atomic cbState
  halfOpenPermit,  \* the atomic flag a worker takes before it tries HalfOpen
  failures,        \* failure streak, capped at MaxFailures
  successes,       \* probe successes, capped at HalfOpenProbes
  lastFailure,     \* age of lastFailureAt, capped at ResetTimeout
  pc,              \* [Workers -> Step]: where each worker is
  running,         \* [Workers -> age]: age of the worker's analytics section
  up,              \* whether ClickHouse answers
  outages          \* outages so far

breakerVars == <<state, halfOpenPermit, failures, successes, lastFailure>>
vars == <<breakerVars, pc, running, up, outages>>

Steps == {"idle",
          "elapsed", "permit", "swap", "reset", "unpermit",        \* Allow
          "call",                                                  \* EvaluateNode
          "succeeded", "count", "close", "closePermit", "reload", "clear",
          "failed", "open", "openPermit"}

TypeOK ==
  /\ state \in {"closed", "open", "half-open"}
  /\ halfOpenPermit \in BOOLEAN
  /\ failures \in 0 .. MaxFailures
  /\ successes \in 0 .. HalfOpenProbes
  /\ lastFailure \in 0 .. ResetTimeout
  /\ pc \in [Workers -> Steps]
  /\ running \in [Workers -> 0 .. CallTimeout]
  /\ up \in BOOLEAN
  /\ outages \in 0 .. MaxOutages

(* NewCircuitBreaker.  The zero lastFailureAt is long past. *)
Init ==
  /\ state = "closed"
  /\ halfOpenPermit = FALSE
  /\ failures = 0
  /\ successes = 0
  /\ lastFailure = ResetTimeout
  /\ pc = [w \in Workers |-> "idle"]
  /\ running = [w \in Workers |-> 0]
  /\ up = TRUE
  /\ outages = 0

(* Worker w goes from one step to the next; between them its clock runs. *)
Goto(w, from, to) ==
  /\ pc[w] = from
  /\ pc' = [pc EXCEPT ![w] = to]
  /\ UNCHANGED <<running, up, outages>>

(* Worker w leaves the analytics section. *)
Return(w, from) ==
  /\ pc[w] = from
  /\ pc' = [pc EXCEPT ![w] = "idle"]
  /\ running' = [running EXCEPT ![w] = 0]
  /\ UNCHANGED <<up, outages>>

Counters == <<failures, successes, lastFailure>>

----------------------------------------------------------------------------
(* Allow *)

AllowClosed(w) ==
  /\ state = "closed"
  /\ Goto(w, "idle", "call")
  /\ UNCHANGED breakerVars

AllowHalfOpen(w) ==
  /\ state = "half-open"
  /\ Return(w, "idle")
  /\ UNCHANGED breakerVars

AllowOpen(w) ==
  /\ state = "open"
  /\ Goto(w, "idle", "elapsed")
  /\ UNCHANGED breakerVars

(* Mutant: a refused call counts as a failure and renews the blackout. *)
RefusalRenewsBlackout(w) ==
  /\ lastFailure < ResetTimeout
  /\ Return(w, "elapsed")
  /\ lastFailure' = 0
  /\ UNCHANGED <<state, halfOpenPermit, failures, successes>>

(* Under RLock: time.Since(lastFailureAt) < resetTimeout *)
StillBlackedOut(w) ==
  /\ lastFailure < ResetTimeout
  /\ Return(w, "elapsed")
  /\ UNCHANGED breakerVars

BlackoutOver(w) ==
  /\ lastFailure >= ResetTimeout
  /\ Goto(w, "elapsed", "permit")
  /\ UNCHANGED breakerVars

TakePermit(w) ==
  /\ ~halfOpenPermit
  /\ Goto(w, "permit", "swap")
  /\ halfOpenPermit' = TRUE
  /\ UNCHANGED <<state, Counters>>

PermitTaken(w) ==
  /\ halfOpenPermit
  /\ Return(w, "permit")
  /\ UNCHANGED breakerVars

SwapToHalfOpen(w) ==
  /\ state = "open"
  /\ Goto(w, "swap", "reset")
  /\ state' = "half-open"
  /\ UNCHANGED <<halfOpenPermit, Counters>>

(* Mutant: the worker that lost the race keeps the permit. *)
SwapFailsKeepingPermit(w) ==
  /\ state # "open"
  /\ Return(w, "swap")
  /\ UNCHANGED breakerVars

SwapFails(w) ==
  /\ state # "open"
  /\ Goto(w, "swap", "unpermit")
  /\ UNCHANGED breakerVars

ResetSuccesses(w) ==
  /\ Goto(w, "reset", "call")
  /\ successes' = 0
  /\ UNCHANGED <<state, halfOpenPermit, failures, lastFailure>>

GiveBackPermit(w) ==
  /\ Return(w, "unpermit")
  /\ halfOpenPermit' = FALSE
  /\ UNCHANGED <<state, Counters>>

----------------------------------------------------------------------------
(* The call that Allow let through.  Rows are pushed without looking at
   ClickHouse; without anomaly detection nothing is recorded. *)

CallNotRecorded(w) ==
  /\ w \notin Detecting
  /\ Return(w, "call")
  /\ UNCHANGED breakerVars

(* The two branches of the caller on the error of the detector.  The EvaluateNode
   of this commit skips a query that fails and returns nil on all paths: it is
   ErrorsReported = FALSE, RecordFailure is not reached and the circuit stays
   closed.  ErrorsReported = TRUE drives the breaker as the branch that calls
   RecordFailure is written to, by a detector that returns the error. *)
CallFails(w) ==
  /\ w \in Detecting
  /\ ErrorsReported
  /\ ~up
  /\ Goto(w, "call", "failed")
  /\ UNCHANGED breakerVars

CallSucceeds(w) ==
  /\ w \in Detecting
  /\ up \/ ~ErrorsReported
  /\ Goto(w, "call", "succeeded")
  /\ UNCHANGED breakerVars

----------------------------------------------------------------------------
(* RecordSuccess *)

SuccessSeesHalfOpen(w) ==
  /\ state = "half-open"
  /\ Goto(w, "succeeded", "count")
  /\ UNCHANGED breakerVars

SuccessSeesOther(w) ==
  /\ state # "half-open"
  /\ Goto(w, "succeeded", "reload")
  /\ UNCHANGED breakerVars

EnoughProbes == successes + 1 >= HalfOpenProbes

CountAndClose(w) ==
  /\ EnoughProbes
  /\ Goto(w, "count", "close")
  /\ failures' = 0
  /\ successes' = 0
  /\ UNCHANGED <<state, halfOpenPermit, lastFailure>>

CountProbe(w) ==
  /\ ~EnoughProbes
  /\ Return(w, "count")
  /\ successes' = successes + 1
  /\ UNCHANGED <<state, halfOpenPermit, failures, lastFailure>>

StoreClosed(w) ==
  /\ Goto(w, "close", "closePermit")
  /\ state' = "closed"
  /\ UNCHANGED <<halfOpenPermit, Counters>>

ClosePermit(w) ==
  /\ Return(w, "closePermit")
  /\ halfOpenPermit' = FALSE
  /\ UNCHANGED <<state, Counters>>

ReloadClosed(w) ==
  /\ state = "closed"
  /\ Goto(w, "reload", "clear")
  /\ UNCHANGED breakerVars

ReloadOther(w) ==
  /\ state # "closed"
  /\ Return(w, "reload")
  /\ UNCHANGED breakerVars

(* Mutant: a success takes one failure back instead of ending the streak. *)
ForgiveOneFailure(w) ==
  /\ Return(w, "clear")
  /\ failures' = failures - 1
  /\ UNCHANGED <<state, halfOpenPermit, successes, lastFailure>>

ClearStreak(w) ==
  /\ Return(w, "clear")
  /\ failures' = 0
  /\ UNCHANGED <<state, halfOpenPermit, successes, lastFailure>>

----------------------------------------------------------------------------
(* RecordFailure: the critical section, then the two stores after it *)

Tripped == failures + 1 >= MaxFailures \/ state = "half-open"

CountFailure ==
  /\ failures' = IF failures < MaxFailures THEN failures + 1 ELSE failures
  /\ lastFailure' = 0
  /\ UNCHANGED <<state, halfOpenPermit, successes>>

CountAndOpen(w) ==
  /\ Tripped
  /\ Goto(w, "failed", "open")
  /\ CountFailure

CountOnly(w) ==
  /\ ~Tripped
  /\ Return(w, "failed")
  /\ CountFailure

StoreOpen(w) ==
  /\ Goto(w, "open", "openPermit")
  /\ state' = "open"
  /\ UNCHANGED <<halfOpenPermit, Counters>>

OpenPermit(w) ==
  /\ Return(w, "openPermit")
  /\ halfOpenPermit' = FALSE
  /\ UNCHANGED <<state, Counters>>

----------------------------------------------------------------------------
(* ClickHouse and the clock *)

GoDown ==
  /\ up
  /\ outages < MaxOutages
  /\ up' = FALSE
  /\ outages' = outages + 1
  /\ UNCHANGED <<breakerVars, pc, running>>

ComeUp ==
  /\ ~up
  /\ up' = TRUE
  /\ UNCHANGED <<breakerVars, pc, running, outages>>

(* No analytics section outlives its context. *)
Tick ==
  /\ \A w \in Workers : pc[w] # "idle" => running[w] < CallTimeout
  /\ running' = [w \in Workers |-> IF pc[w] = "idle" THEN 0 ELSE running[w] + 1]
  /\ lastFailure' = IF lastFailure < ResetTimeout THEN lastFailure + 1 ELSE lastFailure
  /\ UNCHANGED <<state, halfOpenPermit, failures, successes, pc, up, outages>>

Allow(w) ==
  \/ AllowClosed(w) \/ AllowHalfOpen(w) \/ AllowOpen(w)
  \/ StillBlackedOut(w) \/ BlackoutOver(w) \/ TakePermit(w) \/ PermitTaken(w)
  \/ SwapToHalfOpen(w) \/ SwapFails(w) \/ ResetSuccesses(w) \/ GiveBackPermit(w)

EvaluateNode(w) == CallNotRecorded(w) \/ CallFails(w) \/ CallSucceeds(w)

RecordSuccess(w) ==
  \/ SuccessSeesHalfOpen(w) \/ SuccessSeesOther(w) \/ CountAndClose(w)
  \/ CountProbe(w) \/ StoreClosed(w) \/ ClosePermit(w) \/ ReloadClosed(w)
  \/ ReloadOther(w) \/ ClearStreak(w)

RecordFailure(w) ==
  CountAndOpen(w) \/ CountOnly(w) \/ StoreOpen(w) \/ OpenPermit(w)

Work(w) == Allow(w) \/ EvaluateNode(w) \/ RecordSuccess(w) \/ RecordFailure(w)

Next ==
  \/ \E w \in Workers : Work(w)
  \/ GoDown
  \/ ComeUp
  \/ Tick

Spec == Init /\ [][Next]_vars

(* Workers keep reconciling (every TaoNode is requeued) and time passes. *)
Fairness == WF_vars(Tick) /\ \A w \in Workers : WF_vars(Work(w))

FairSpec == Spec /\ Fairness

----------------------------------------------------------------------------
(***************************************************************************)
(* Properties                                                              *)
(***************************************************************************)

(* Steps at which a worker is about to clear halfOpenPermit, or to turn the
   permit it took into a half-open state. *)
Releasing == {"swap", "unpermit", "closePermit", "openPermit"}

(* The half-open permit is never leaked: outside HalfOpen it is set only while
   some worker is about to clear it or to use it.  A leaked permit would make
   Allow refuse every call for the rest of the process. *)
PermitNotLeaked ==
  halfOpenPermit /\ state # "half-open" => \E w \in Workers : pc[w] \in Releasing

(* An open circuit is not for ever: as long as workers keep asking, a half-open
   probe is let through after the reset timeout, whoever holds the permit and
   whatever failures are still being recorded. *)
OpenIsLeft == state = "open" ~> state # "open"
============================================================================
