------------------------ MODULE RecoveryRateLimiter ------------------------
(***************************************************************************)
(* The fleet-wide recovery limiter of the operator                         *)
(* (internal/controller/rate_limiter.go).                                  *)
(*                                                                         *)
(* The two Go maps from node key to time.Time are kept as partial          *)
(* functions from nodes to AGES, the values time.Since() would return.     *)
(* An age stops growing once it is past every threshold it is compared     *)
(* with, which loses nothing: TryAcquire only asks whether an age is past  *)
(* the threshold.  Every method holds mu for its whole body, so a method   *)
(* is one step.                                                            *)
(***************************************************************************)
EXTENDS Integers, FiniteSets

CONSTANTS
  Nodes,           \* keys "namespace/name" of the fleet's TaoNodes
  MaxConcurrent,   \* maxConcurrent: 5 in cmd/main.go
  Cooldown,        \* cooldownPerNode in ticks: 2 minutes in cmd/main.go
  StaleAfter       \* the 5 minutes hard-wired in TryAcquire, in ticks

ASSUME LimiterAssumption ==
  /\ IsFiniteSet(Nodes)
  /\ MaxConcurrent \in Nat \ {0}
  /\ Cooldown \in Nat \ {0}
  /\ StaleAfter \in Nat

VARIABLES
  activeRecoveries,     \* node |-> age of the recovery that holds a slot
  lastRecoveryByNode,   \* node |-> age of the last granted recovery
  activeRecoveriesGauge \* the Prometheus gauge taonode_recovery_active

limiterVars == <<activeRecoveries, lastRecoveryByNode, activeRecoveriesGauge>>

ActiveAge == 0 .. StaleAfter + 1
LastAge   == 0 .. Cooldown

LimiterTypeOK ==
  /\ DOMAIN activeRecoveries \subseteq Nodes
  /\ activeRecoveries \in [DOMAIN activeRecoveries -> ActiveAge]
  /\ DOMAIN lastRecoveryByNode \subseteq Nodes
  /\ lastRecoveryByNode \in [DOMAIN lastRecoveryByNode -> LastAge]
  /\ activeRecoveriesGauge \in Nat

----------------------------------------------------------------------------
(* Go map operations on partial functions. *)

Put(f, n, v) == [m \in DOMAIN f \cup {n} |-> IF m = n THEN v ELSE f[m]]
Without(f, S) == [m \in DOMAIN f \ S |-> f[m]]

(* NewRecoveryRateLimiter: both maps empty.  The gauge is a package-level
   collector that starts at 0 with the process. *)
NewRecoveryRateLimiter ==
  /\ activeRecoveries = [n \in {} |-> 0]
  /\ lastRecoveryByNode = [n \in {} |-> 0]
  /\ activeRecoveriesGauge = 0

(* What a new process starts from: nothing of the limiter is persisted. *)
ResetLimiter ==
  /\ activeRecoveries' = [n \in {} |-> 0]
  /\ lastRecoveryByNode' = [n \in {} |-> 0]
  /\ activeRecoveriesGauge' = 0

(* Mutants: no eviction; eviction one tick early. *)
NothingStale == {}
StaleTooEarly == {n \in DOMAIN activeRecoveries : activeRecoveries[n] >= StaleAfter}

(* The recoveries TryAcquire assumes complete: time.Since(started) > 5m. *)
Stale == {n \in DOMAIN activeRecoveries : activeRecoveries[n] > StaleAfter}

Evicted == Without(activeRecoveries, Stale)

(* Mutant: one slot too many. *)
AtCapacityOffByOne == Cardinality(DOMAIN Evicted) > MaxConcurrent

AtCapacity == Cardinality(DOMAIN Evicted) >= MaxConcurrent

CoolingDown(n) ==
  /\ n \in DOMAIN lastRecoveryByNode
  /\ lastRecoveryByNode[n] < Cooldown

(* TryAcquire(n) = true *)
Acquire(n) ==
  /\ ~AtCapacity
  /\ ~CoolingDown(n)
  /\ activeRecoveries' = Put(Evicted, n, 0)
  /\ lastRecoveryByNode' = Put(lastRecoveryByNode, n, 0)
  /\ activeRecoveriesGauge' = Cardinality(DOMAIN activeRecoveries')

(* TryAcquire(n) = false.  The eviction is kept, the gauge is not touched. *)
Throttle(n) ==
  /\ AtCapacity \/ CoolingDown(n)
  /\ activeRecoveries' = Evicted
  /\ UNCHANGED <<lastRecoveryByNode, activeRecoveriesGauge>>

(* Mutant: the gauge is decremented whether or not the slot was still held. *)
ReleaseDecrements(n) ==
  /\ activeRecoveries' = Without(activeRecoveries, {n})
  /\ activeRecoveriesGauge' = activeRecoveriesGauge - 1
  /\ UNCHANGED lastRecoveryByNode

(* Release(n) gives the slot back; the cooldown of n keeps running. *)
Release(n) ==
  /\ activeRecoveries' = Without(activeRecoveries, {n})
  /\ activeRecoveriesGauge' = Cardinality(DOMAIN activeRecoveries')
  /\ UNCHANGED lastRecoveryByNode

(* One tick of the clock, for every time stamp in the limiter. *)
Older(age, horizon) == IF age < horizon THEN age + 1 ELSE age

AgeLimiter ==
  /\ activeRecoveries' = [n \in DOMAIN activeRecoveries |->
                            Older(activeRecoveries[n], StaleAfter + 1)]
  /\ lastRecoveryByNode' = [n \in DOMAIN lastRecoveryByNode |->
                              Older(lastRecoveryByNode[n], Cooldown)]
  /\ UNCHANGED activeRecoveriesGauge
============================================================================
