------------------------ MODULE RecoveryCallerProofs -----------------------
(***************************************************************************)
(* What RecoveryCaller guarantees for every fleet, cap, cooldown and       *)
(* eviction age.                                                           *)
(***************************************************************************)
EXTENDS RecoveryCaller, FiniteSetTheorems, TLAPS

----------------------------------------------------------------------------
(* Lemmas on the partial functions that stand for Go maps. *)

(* Writing one key of a Go map (m[n] = v): the keys grow by n and the values
   stay in their range. *)
LEMMA PutType ==
  ASSUME NEW f, NEW n \in Nodes, NEW T, NEW v \in T,
         DOMAIN f \subseteq Nodes, f \in [DOMAIN f -> T]
  PROVE  /\ DOMAIN Put(f, n, v) = DOMAIN f \cup {n}
         /\ DOMAIN Put(f, n, v) \subseteq Nodes
         /\ Put(f, n, v) \in [DOMAIN Put(f, n, v) -> T]
  BY DEF Put

(* Deleting keys of a Go map (delete(m, k)): the other entries stay. *)
LEMMA WithoutType ==
  ASSUME NEW f, NEW S, NEW T,
         DOMAIN f \subseteq Nodes, f \in [DOMAIN f -> T]
  PROVE  /\ DOMAIN Without(f, S) = DOMAIN f \ S
         /\ DOMAIN Without(f, S) \subseteq Nodes
         /\ Without(f, S) \in [DOMAIN Without(f, S) -> T]
  BY DEF Without

(* The keys of a map over the fleet are finitely many, and removing keys from
   it cannot make it larger. *)
LEMMA FleetSubsetFinite ==
  ASSUME NEW S \in SUBSET Nodes
  PROVE  IsFiniteSet(S) /\ Cardinality(S) \in Nat
  BY LimiterAssumption, FS_Subset, FS_CardinalityType

(* Adding a key to a map adds at most one to its size. *)
LEMMA OneMoreKey ==
  ASSUME NEW S \in SUBSET Nodes, NEW n
  PROVE  Cardinality(S \cup {n}) <= Cardinality(S) + 1
<1>1. IsFiniteSet(S) /\ Cardinality(S) \in Nat
  BY FleetSubsetFinite
<1>2. Cardinality(S \cup {n})
        = IF n \in S THEN Cardinality(S) ELSE Cardinality(S) + 1
  BY <1>1, FS_AddElement, Zenon
<1>3. QED
  BY <1>1, <1>2

(* A tick keeps an age within its horizon. *)
LEMMA OlderType ==
  ASSUME NEW h \in Nat, NEW a \in 0 .. h
  PROVE  /\ Older(a, h) \in 0 .. h
         /\ Older(a, h) >= a
         /\ Older(a, h) <= a + 1
         /\ a < h => Older(a, h) = a + 1
  BY DEF Older

----------------------------------------------------------------------------
(* Type correctness: the maps of rate_limiter.go and the state of its caller
   keep their types through every operation. *)
THEOREM TypeCorrect == Spec => []TypeOK
<1> USE LimiterAssumption, CallerAssumption
<1>1. Init => TypeOK
  BY DEF Init, TypeOK, LimiterTypeOK, NewRecoveryRateLimiter
<1>2. TypeOK /\ [Next]_vars => TypeOK'
  <2> SUFFICES ASSUME TypeOK, [Next]_vars
               PROVE  TypeOK'
    OBVIOUS
  <2> USE DEF TypeOK, LimiterTypeOK
  <2>0. /\ 0 \in ActiveAge /\ 0 \in LastAge /\ 0 \in 0 .. Horizon
        /\ StaleAfter + 1 \in Nat /\ Cooldown \in Nat /\ Horizon \in Nat
    BY DEF ActiveAge, LastAge, Horizon
  <2>1. /\ DOMAIN Evicted \subseteq Nodes
        /\ Evicted \in [DOMAIN Evicted -> ActiveAge]
    BY WithoutType DEF Evicted
  <2>2. ASSUME NEW n \in Nodes, Grant(n)
        PROVE  TypeOK'
    <3>1. activeRecoveries' = Put(Evicted, n, 0)
      BY <2>2 DEF Grant, Acquire
    <3>2. /\ DOMAIN activeRecoveries' \subseteq Nodes
          /\ activeRecoveries' \in [DOMAIN activeRecoveries' -> ActiveAge]
      BY <3>1, <2>0, <2>1, PutType
    <3>3. /\ DOMAIN lastRecoveryByNode' \subseteq Nodes
          /\ lastRecoveryByNode' \in [DOMAIN lastRecoveryByNode' -> LastAge]
      BY <2>2, <2>0, PutType DEF Grant, Acquire
    <3>4. activeRecoveriesGauge' \in Nat
      BY <2>2, <3>2, FleetSubsetFinite DEF Grant, Acquire
    <3>5. /\ DOMAIN acting' \subseteq Nodes
          /\ acting' \in [DOMAIN acting' -> 0 .. Horizon]
      BY <2>2, <2>0, PutType DEF Grant
    <3>6. QED
      BY <2>2, <3>2, <3>3, <3>4, <3>5 DEF Grant
  <2>3. ASSUME NEW n \in Nodes, Refuse(n)
        PROVE  TypeOK'
    BY <2>1, <2>3 DEF Refuse, Throttle, callerVars
  <2>4. ASSUME NEW n \in Nodes, n \in DOMAIN acting, acting' = Without(acting, {n})
        PROVE  /\ DOMAIN acting' \subseteq Nodes
               /\ acting' \in [DOMAIN acting' -> 0 .. Horizon]
    BY <2>4, WithoutType
  <2>5. ASSUME NEW n \in Nodes, Release(n)
        PROVE  LimiterTypeOK'
    <3>1. /\ DOMAIN activeRecoveries' \subseteq Nodes
          /\ activeRecoveries' \in [DOMAIN activeRecoveries' -> ActiveAge]
      BY <2>5, WithoutType DEF Release
    <3>2. QED
      BY <2>5, <3>1, FleetSubsetFinite DEF Release
  <2>6. ASSUME NEW n \in Nodes, ActionDone(n)
        PROVE  TypeOK'
    <3>1. acting[n] \in 0 .. Horizon
      BY <2>6 DEF ActionDone
    <3>2. /\ DOMAIN recoveryAge' \subseteq Nodes
          /\ recoveryAge' \in [DOMAIN recoveryAge' -> 0 .. Horizon]
      BY <2>6, <3>1, PutType DEF ActionDone
    <3>3. QED
      BY <2>4, <2>6, <3>2 DEF ActionDone, limiterVars
  <2>7. ASSUME NEW n \in Nodes, PodMissing(n)
        PROVE  TypeOK'
    BY <2>4, <2>7 DEF PodMissing, limiterVars
  <2>8. ASSUME NEW n \in Nodes, ActionFailed(n) \/ Cordoned(n)
        PROVE  TypeOK'
    BY <2>4, <2>5, <2>8 DEF ActionFailed, Cordoned
  <2>9. CASE OperatorRestart
    BY <2>9 DEF OperatorRestart, ResetLimiter
  <2>10. CASE Tick
    <3>1. LimiterTypeOK'
      BY <2>0, <2>10, OlderType DEF Tick, AgeLimiter, ActiveAge, LastAge
    <3>2. /\ DOMAIN acting' \subseteq Nodes
          /\ acting' \in [DOMAIN acting' -> 0 .. Horizon]
          /\ DOMAIN recoveryAge' \subseteq Nodes
          /\ recoveryAge' \in [DOMAIN recoveryAge' -> 0 .. Horizon]
      BY <2>0, <2>10, OlderType DEF Tick
    <3>3. QED
      BY <2>10, <3>1, <3>2 DEF Tick
  <2>11. CASE UNCHANGED vars
    BY <2>11 DEF vars, limiterVars, callerVars
  <2>12. QED
    BY <2>2, <2>3, <2>6, <2>7, <2>8, <2>9, <2>10, <2>11 DEF Next
<1>3. QED
  BY <1>1, <1>2, PTL DEF Spec

----------------------------------------------------------------------------
(* The cap on slots and the gauge: TryAcquire adds a key only below the cap,
   and every other operation of the limiter only removes keys. *)

(* Removing keys never raises the number of slots. *)
LEMMA FewerSlots ==
  ASSUME TypeOK, NEW S
  PROVE  /\ Cardinality(DOMAIN Without(activeRecoveries, S)) \in Nat
         /\ Cardinality(DOMAIN Without(activeRecoveries, S))
              <= Cardinality(DOMAIN activeRecoveries)
<1>1. DOMAIN Without(activeRecoveries, S) \subseteq DOMAIN activeRecoveries
  BY DEF Without
<1>2. IsFiniteSet(DOMAIN activeRecoveries)
  BY FleetSubsetFinite DEF TypeOK, LimiterTypeOK
<1>3. QED
  BY <1>1, <1>2, FS_Subset, FS_CardinalityType

(* SlotsCapped for every fleet, and that the gauge never under-reports, under
   failing actions and any number of process restarts. *)
THEOREM SlotsCappedAlways == Spec => [](SlotsCapped /\ GaugeNeverUnderReports)
<1> USE LimiterAssumption, CallerAssumption
<1>1. Init => SlotsCapped /\ GaugeNeverUnderReports
  <2>1. DOMAIN [n \in {} |-> 0] = {}
    OBVIOUS
  <2>2. QED
    BY <2>1, FS_EmptySet
       DEF Init, NewRecoveryRateLimiter, SlotsCapped, GaugeNeverUnderReports
<1>2. TypeOK /\ SlotsCapped /\ GaugeNeverUnderReports /\ TypeOK' /\ [Next]_vars
        => SlotsCapped' /\ GaugeNeverUnderReports'
  <2> SUFFICES ASSUME TypeOK, TypeOK', SlotsCapped, GaugeNeverUnderReports,
                      [Next]_vars
               PROVE  SlotsCapped' /\ GaugeNeverUnderReports'
    OBVIOUS
  <2> USE DEF SlotsCapped, GaugeNeverUnderReports
  <2>0. /\ Cardinality(DOMAIN activeRecoveries) \in Nat
        /\ Cardinality(DOMAIN activeRecoveries') \in Nat
        /\ activeRecoveriesGauge \in Nat
    BY FleetSubsetFinite DEF TypeOK, LimiterTypeOK
  <2>1. ASSUME NEW n \in Nodes, Grant(n)
        PROVE  SlotsCapped' /\ GaugeNeverUnderReports'
    <3>1. DOMAIN activeRecoveries' = DOMAIN Evicted \cup {n}
      BY <2>1 DEF Grant, Acquire, Put
    <3>2. DOMAIN Evicted \subseteq Nodes /\ Cardinality(DOMAIN Evicted) \in Nat
      <4>1. DOMAIN Evicted \subseteq Nodes
        BY DEF Evicted, Without, TypeOK, LimiterTypeOK
      <4>2. QED
        BY <4>1, FleetSubsetFinite
    <3>3. Cardinality(DOMAIN Evicted) < MaxConcurrent
      BY <2>1, <3>2 DEF Grant, Acquire, AtCapacity
    <3>4. Cardinality(DOMAIN activeRecoveries') <= Cardinality(DOMAIN Evicted) + 1
      BY <3>1, <3>2, OneMoreKey, Zenon
    <3>5. activeRecoveriesGauge' = Cardinality(DOMAIN activeRecoveries')
      BY <2>1 DEF Grant, Acquire
    <3>6. QED
      BY <2>0, <3>2, <3>3, <3>4, <3>5
  <2>2. ASSUME NEW n \in Nodes, Refuse(n)
        PROVE  SlotsCapped' /\ GaugeNeverUnderReports'
    BY <2>0, <2>2, FewerSlots DEF Refuse, Throttle, Evicted
  <2>3. ASSUME NEW n \in Nodes, Release(n)
        PROVE  SlotsCapped' /\ GaugeNeverUnderReports'
    BY <2>0, <2>3, FewerSlots DEF Release
  <2>4. CASE OperatorRestart
    <3>1. DOMAIN activeRecoveries' = {} /\ activeRecoveriesGauge' = 0
      BY <2>4 DEF OperatorRestart, ResetLimiter
    <3>2. QED
      BY <3>1, FS_EmptySet
  <2>5. CASE Tick
    BY <2>0, <2>5 DEF Tick, AgeLimiter
  <2>6. CASE UNCHANGED limiterVars
    BY <2>0, <2>6 DEF limiterVars
  <2>7. QED
    BY <2>1, <2>2, <2>3, <2>4, <2>5, <2>6
       DEF Next, ActionDone, PodMissing, ActionFailed, Cordoned, vars
<1>3. QED
  BY <1>1, <1>2, TypeCorrect, PTL DEF Spec

----------------------------------------------------------------------------
(***************************************************************************)
(* The purpose of the limiter.  RecoveriesCapped speaks of restarts really *)
(* performed, so it needs an invariant that ties the history to the maps:  *)
(* a recovery younger than the eviction age still has its slot, and the    *)
(* cooldown clock of a node is never older than its last restart.          *)
(* It holds when releasing a slot cannot drop an earlier restart of the    *)
(* same node: either no action fails, or the cooldown is longer than the   *)
(* eviction age.  The run limiter_release_leak shows that this condition   *)
(* cannot be left out.                                                     *)
(***************************************************************************)
SafeSettings == ~ActionsMayFail \/ StaleAfter < Cooldown

(* A recovery under way or performed, not yet older than the eviction age,
   holds a slot that is at least as young. *)
HoldsSlot(n, age) ==
  age <= StaleAfter => /\ n \in DOMAIN activeRecoveries
                       /\ activeRecoveries[n] <= age

(* The cooldown of a node started no earlier than its recovery. *)
CooldownCovers(n, age) ==
  /\ n \in DOMAIN lastRecoveryByNode
  /\ lastRecoveryByNode[n] <= age

ActingInv ==
  \A n \in DOMAIN acting :
    HoldsSlot(n, acting[n]) /\ CooldownCovers(n, acting[n])

RestartInv ==
  \A n \in DOMAIN recoveryAge :
    /\ n \notin CordonNodes
    /\ HoldsSlot(n, recoveryAge[n])
    /\ CooldownCovers(n, recoveryAge[n])

(* While n acts under a cooldown longer than the eviction age, its previous
   restart is already complete. *)
SpacingInv ==
  StaleAfter < Cooldown =>
    \A n \in DOMAIN acting \cap DOMAIN recoveryAge :
      recoveryAge[n] >= Cooldown

HistoryInv == ActingInv /\ RestartInv /\ SpacingInv

(* The eviction of TryAcquire keeps every recovery that is not complete. *)
LEMMA EvictionKeepsYoung ==
  ASSUME TypeOK, NEW n, NEW age \in Int, age <= StaleAfter, HoldsSlot(n, age)
  PROVE  /\ n \in DOMAIN Evicted
         /\ Evicted[n] = activeRecoveries[n]
         /\ Evicted[n] <= age
  BY LimiterAssumption
     DEF TypeOK, LimiterTypeOK, ActiveAge, HoldsSlot, Evicted, Stale, Without

(* Every step keeps the history invariant, for settings that are safe. *)
LEMMA HistoryStep ==
  ASSUME SafeSettings, TypeOK, TypeOK', HistoryInv, [Next]_vars
  PROVE  HistoryInv'
<1> USE LimiterAssumption, CallerAssumption
<1> USE DEF HistoryInv
<1>0. /\ \A n \in DOMAIN acting : acting[n] \in Int /\ acting[n] >= 0
      /\ \A n \in DOMAIN recoveryAge : recoveryAge[n] \in Int /\ recoveryAge[n] >= 0
      /\ \A n \in DOMAIN activeRecoveries : activeRecoveries[n] \in 0 .. StaleAfter + 1
      /\ \A n \in DOMAIN lastRecoveryByNode : lastRecoveryByNode[n] \in 0 .. Cooldown
      /\ Horizon \in Nat /\ Horizon > StaleAfter /\ Horizon >= Cooldown
  BY DEF TypeOK, LimiterTypeOK, ActiveAge, LastAge, Horizon
<1>1. ASSUME NEW n \in Nodes, Grant(n)
      PROVE  HistoryInv'
  <2>1. /\ activeRecoveries' = Put(Evicted, n, 0)
        /\ lastRecoveryByNode' = Put(lastRecoveryByNode, n, 0)
        /\ acting' = Put(acting, n, 0)
        /\ recoveryAge' = recoveryAge
        /\ ~CoolingDown(n)
    BY <1>1 DEF Grant, Acquire
  <2>2. ASSUME NEW m, NEW age \in Int, age >= 0,
               HoldsSlot(m, age), CooldownCovers(m, age)
        PROVE  HoldsSlot(m, age)' /\ CooldownCovers(m, age)'
    <3>1. CooldownCovers(m, age)'
      BY <2>1, <2>2 DEF CooldownCovers, Put
    <3>2. HoldsSlot(m, age)'
      <4>1. CASE age <= StaleAfter
        BY <2>1, <2>2, <4>1, EvictionKeepsYoung DEF HoldsSlot, Put
      <4>2. CASE ~(age <= StaleAfter)
        BY <4>2 DEF HoldsSlot
      <4>3. QED
        BY <4>1, <4>2
    <3>3. QED
      BY <3>1, <3>2
  <2>3. ActingInv'
    <3>1. HoldsSlot(n, 0)' /\ CooldownCovers(n, 0)'
      BY <2>1 DEF HoldsSlot, CooldownCovers, Put
    <3>2. ASSUME NEW m \in DOMAIN acting'
          PROVE  HoldsSlot(m, acting[m])' /\ CooldownCovers(m, acting[m])'
      <4>1. CASE m = n
        BY <2>1, <3>1, <4>1 DEF Put, HoldsSlot, CooldownCovers
      <4>2. CASE m # n
        <5>1. m \in DOMAIN acting /\ acting'[m] = acting[m]
          BY <2>1, <3>2, <4>2 DEF Put
        <5>2. QED
          BY <1>0, <2>2, <5>1 DEF ActingInv, HoldsSlot, CooldownCovers
      <4>3. QED
        BY <4>1, <4>2
    <3>3. QED
      BY <3>2 DEF ActingInv
  <2>4. RestartInv'
    BY <1>0, <2>1, <2>2 DEF RestartInv, HoldsSlot, CooldownCovers
  <2>5. SpacingInv'
    <3>1. ASSUME n \in DOMAIN recoveryAge
          PROVE  recoveryAge[n] >= Cooldown
      BY <1>0, <2>1, <3>1 DEF RestartInv, CooldownCovers, CoolingDown
    <3>2. QED
      BY <2>1, <3>1 DEF SpacingInv, Put
  <2>6. QED
    BY <2>3, <2>4, <2>5
<1>2. ASSUME NEW n \in Nodes, Refuse(n)
      PROVE  HistoryInv'
  <2>1. /\ activeRecoveries' = Evicted
        /\ UNCHANGED <<lastRecoveryByNode, acting, recoveryAge>>
    BY <1>2 DEF Refuse, Throttle, callerVars
  <2>2. ASSUME NEW m, NEW age \in Int, HoldsSlot(m, age)
        PROVE  HoldsSlot(m, age)'
    BY <2>1, <2>2, EvictionKeepsYoung DEF HoldsSlot
  <2>3. QED
    BY <1>0, <2>1, <2>2
       DEF ActingInv, RestartInv, SpacingInv, HoldsSlot, CooldownCovers
<1>3. ASSUME NEW n \in Nodes, ActionDone(n)
      PROVE  HistoryInv'
  BY <1>0, <1>3
     DEF ActionDone, limiterVars, Put, Without, ActingInv, RestartInv,
         SpacingInv, HoldsSlot, CooldownCovers
<1>4. ASSUME NEW n \in Nodes, PodMissing(n)
      PROVE  HistoryInv'
  BY <1>4 DEF PodMissing, limiterVars, Without, ActingInv, RestartInv,
              SpacingInv, HoldsSlot, CooldownCovers
<1>5. ASSUME NEW n \in Nodes, ActionFailed(n) \/ Cordoned(n)
      PROVE  HistoryInv'
  <2>1. /\ n \in DOMAIN acting
        /\ acting' = Without(acting, {n})
        /\ activeRecoveries' = Without(activeRecoveries, {n})
        /\ UNCHANGED <<lastRecoveryByNode, recoveryAge>>
    BY <1>5 DEF ActionFailed, Cordoned, Release
  <2>2. n \in DOMAIN recoveryAge => recoveryAge[n] > StaleAfter
    BY <1>0, <1>5 DEF ActionFailed, Cordoned, SafeSettings, RestartInv, SpacingInv
  <2>3. QED
    BY <1>0, <2>1, <2>2
       DEF Without, ActingInv, RestartInv, SpacingInv, HoldsSlot, CooldownCovers
<1>6. CASE OperatorRestart
  BY <1>6 DEF OperatorRestart, ActingInv, RestartInv, SpacingInv
<1>7. CASE Tick
  <2>1. /\ activeRecoveries' = [n \in DOMAIN activeRecoveries |->
                                 Older(activeRecoveries[n], StaleAfter + 1)]
        /\ lastRecoveryByNode' = [n \in DOMAIN lastRecoveryByNode |->
                                   Older(lastRecoveryByNode[n], Cooldown)]
        /\ acting' = [n \in DOMAIN acting |-> Older(acting[n], Horizon)]
        /\ recoveryAge' = [n \in DOMAIN recoveryAge |-> Older(recoveryAge[n], Horizon)]
    BY <1>7 DEF Tick, AgeLimiter
  <2>2. ASSUME NEW m, NEW age \in 0 .. Horizon,
               HoldsSlot(m, age), CooldownCovers(m, age)
        PROVE  HoldsSlot(m, Older(age, Horizon))'
               /\ CooldownCovers(m, Older(age, Horizon))'
    BY <1>0, <2>1, <2>2 DEF HoldsSlot, CooldownCovers, Older
  <2>3. /\ \A m \in DOMAIN acting : acting[m] \in 0 .. Horizon
        /\ \A m \in DOMAIN recoveryAge : recoveryAge[m] \in 0 .. Horizon
    BY DEF TypeOK
  <2>4. ActingInv'
    BY <2>1, <2>2, <2>3 DEF ActingInv, HoldsSlot, CooldownCovers
  <2>5. RestartInv'
    BY <2>1, <2>2, <2>3 DEF RestartInv, HoldsSlot, CooldownCovers
  <2>6. SpacingInv'
    BY <1>0, <2>1, <2>3, OlderType DEF SpacingInv
  <2>7. QED
    BY <2>4, <2>5, <2>6
<1>8. CASE UNCHANGED vars
  BY <1>8 DEF vars, limiterVars, callerVars, ActingInv, RestartInv, SpacingInv,
              HoldsSlot, CooldownCovers
<1>9. QED
  BY <1>1, <1>2, <1>3, <1>4, <1>5, <1>6, <1>7, <1>8 DEF Next

(* The history invariant holds throughout, for settings that are safe. *)
LEMMA HistoryAlways ==
  ASSUME SafeSettings
  PROVE  Spec => []HistoryInv
<1>1. Init => HistoryInv
  BY DEF Init, NewRecoveryRateLimiter, HistoryInv, ActingInv, RestartInv, SpacingInv
<1>2. TypeOK /\ TypeOK' /\ HistoryInv /\ [Next]_vars => HistoryInv'
  BY HistoryStep
<1>3. QED
  BY <1>1, <1>2, TypeCorrect, PTL DEF Spec

(* At most maxConcurrent nodes of any fleet have a restart in progress: a
   recovery that TryAcquire does not assume complete always holds a slot, and
   there are at most maxConcurrent slots. *)
THEOREM RecoveriesCappedAlways ==
  ASSUME SafeSettings
  PROVE  Spec => []RecoveriesCapped
<1>1. TypeOK /\ HistoryInv /\ SlotsCapped => RecoveriesCapped
  <2> SUFFICES ASSUME TypeOK, HistoryInv, SlotsCapped
               PROVE  RecoveriesCapped
    OBVIOUS
  <2>1. Recovering \subseteq DOMAIN activeRecoveries
    BY DEF Recovering, HistoryInv, RestartInv, HoldsSlot
  <2>2. DOMAIN activeRecoveries \subseteq Nodes
    BY DEF TypeOK, LimiterTypeOK
  <2>3. /\ Cardinality(Recovering) \in Nat
        /\ Cardinality(DOMAIN activeRecoveries) \in Nat
        /\ Cardinality(Recovering) <= Cardinality(DOMAIN activeRecoveries)
    BY <2>1, <2>2, FleetSubsetFinite, FS_Subset
  <2>4. QED
    BY <2>3, LimiterAssumption DEF SlotsCapped, RecoveriesCapped
<1>2. QED
  BY <1>1, TypeCorrect, HistoryAlways, SlotsCappedAlways, PTL
============================================================================
