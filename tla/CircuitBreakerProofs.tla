------------------------ MODULE CircuitBreakerProofs -----------------------
(***************************************************************************)
(* Proofs about CircuitBreaker, for every number of workers, every         *)
(* threshold and every interleaving of the atomic steps.                   *)
(***************************************************************************)
EXTENDS CircuitBreaker, TLAPS

(* The steps of a worker keep the types; each step touches one or two fields
   of the breaker. *)
LEMMA WorkerTypes ==
  ASSUME TypeOK, NEW w \in Workers, Work(w)
  PROVE  TypeOK'
<1> USE BreakerAssumption
<1>1. CASE Allow(w)
  <2>1. CASE AllowClosed(w) \/ AllowHalfOpen(w) \/ AllowOpen(w)
    BY <2>1 DEF AllowClosed, AllowHalfOpen, AllowOpen, Goto, Return, TypeOK,
                Steps, breakerVars
  <2>2. CASE StillBlackedOut(w) \/ BlackoutOver(w)
    BY <2>2 DEF StillBlackedOut, BlackoutOver, Goto, Return, TypeOK, Steps,
                breakerVars
  <2>3. CASE TakePermit(w) \/ PermitTaken(w)
    <3>1. halfOpenPermit' \in BOOLEAN
      BY <2>3, Zenon DEF TakePermit, PermitTaken, TypeOK, breakerVars
    <3> QED BY <2>3, <3>1 DEF TakePermit, PermitTaken, Goto, Return, TypeOK,
               Steps, breakerVars, Counters
  <2>4. CASE SwapToHalfOpen(w) \/ SwapFails(w)
    BY <2>4 DEF SwapToHalfOpen, SwapFails, Goto, TypeOK, Steps, breakerVars,
                Counters
  <2>5. CASE ResetSuccesses(w) \/ GiveBackPermit(w)
    <3>1. halfOpenPermit' \in BOOLEAN
      BY <2>5, Zenon DEF ResetSuccesses, GiveBackPermit, TypeOK
    <3> QED BY <2>5, <3>1 DEF ResetSuccesses, GiveBackPermit, Goto, Return,
               TypeOK, Steps, Counters
  <2> QED BY <1>1, <2>1, <2>2, <2>3, <2>4, <2>5 DEF Allow
<1>2. CASE EvaluateNode(w)
  BY <1>2 DEF EvaluateNode, CallNotRecorded, CallFails, CallSucceeds, Goto,
              Return, TypeOK, Steps, breakerVars
<1>3. CASE RecordSuccess(w)
  <2>1. CASE SuccessSeesHalfOpen(w) \/ SuccessSeesOther(w)
    BY <2>1 DEF SuccessSeesHalfOpen, SuccessSeesOther, Goto, TypeOK, Steps,
                breakerVars
  <2>2. CASE CountAndClose(w)
    BY <2>2 DEF CountAndClose, Goto, TypeOK, Steps
  <2>3. CASE CountProbe(w)
    <3>1. successes + 1 \in 0 .. HalfOpenProbes
      BY <2>3 DEF CountProbe, EnoughProbes, TypeOK
    <3> QED BY <2>3, <3>1 DEF CountProbe, Return, TypeOK, Steps
  <2>4. CASE StoreClosed(w) \/ ClosePermit(w)
    <3>1. halfOpenPermit' \in BOOLEAN
      BY <2>4, Zenon DEF StoreClosed, ClosePermit, TypeOK
    <3> QED BY <2>4, <3>1 DEF StoreClosed, ClosePermit, Goto, Return, TypeOK,
               Steps, Counters
  <2>5. CASE ReloadClosed(w) \/ ReloadOther(w)
    BY <2>5 DEF ReloadClosed, ReloadOther, Goto, Return, TypeOK, Steps,
                breakerVars
  <2>6. CASE ClearStreak(w)
    BY <2>6 DEF ClearStreak, Return, TypeOK, Steps
  <2> QED BY <1>3, <2>1, <2>2, <2>3, <2>4, <2>5, <2>6 DEF RecordSuccess
<1>4. CASE RecordFailure(w)
  <2>1. ASSUME CountFailure
        PROVE  failures' \in 0 .. MaxFailures /\ lastFailure' \in 0 .. ResetTimeout
    BY <2>1 DEF CountFailure, TypeOK
  <2>2. CASE CountAndOpen(w)
    BY <2>1, <2>2 DEF CountAndOpen, CountFailure, Goto, TypeOK, Steps
  <2>3. CASE CountOnly(w)
    BY <2>1, <2>3 DEF CountOnly, CountFailure, Return, TypeOK, Steps
  <2>4. CASE StoreOpen(w) \/ OpenPermit(w)
    <3>1. halfOpenPermit' \in BOOLEAN
      BY <2>4, Zenon DEF StoreOpen, OpenPermit, TypeOK
    <3> QED BY <2>4, <3>1 DEF StoreOpen, OpenPermit, Goto, Return, TypeOK,
               Steps, Counters
  <2> QED BY <1>4, <2>2, <2>3, <2>4 DEF RecordFailure
<1> QED BY <1>1, <1>2, <1>3, <1>4 DEF Work

(* Every counter, clock and flag of the breaker stays in its range, whatever
   the interleaving of Allow, RecordSuccess and RecordFailure. *)
THEOREM TypeCorrect == Spec => []TypeOK
<1>1. Init => TypeOK
  <2> SUFFICES ASSUME Init PROVE TypeOK
    OBVIOUS
  <2>1. halfOpenPermit \in BOOLEAN /\ up \in BOOLEAN
    BY Zenon DEF Init
  <2> QED BY <2>1, BreakerAssumption DEF Init, TypeOK, Steps
<1>2. TypeOK /\ [Next]_vars => TypeOK'
  <2> SUFFICES ASSUME TypeOK, [Next]_vars PROVE TypeOK'
    OBVIOUS
  <2>1. CASE \E w \in Workers : Work(w)
    BY <2>1, WorkerTypes
  <2>2. CASE GoDown \/ ComeUp
    <3>1. up' \in BOOLEAN
      BY <2>2, Zenon DEF GoDown, ComeUp
    <3> QED BY <2>2, <3>1, BreakerAssumption DEF GoDown, ComeUp, TypeOK, breakerVars
  <2>3. CASE Tick
    <3>1. running' \in [Workers -> 0 .. CallTimeout]
      BY <2>3, BreakerAssumption DEF Tick, TypeOK
    <3>2. lastFailure' \in 0 .. ResetTimeout
      BY <2>3, BreakerAssumption DEF Tick, TypeOK
    <3> QED BY <2>3, <3>1, <3>2 DEF Tick, TypeOK
  <2>4. CASE UNCHANGED vars
    BY <2>4 DEF vars, breakerVars, TypeOK
  <2> QED BY <2>1, <2>2, <2>3, <2>4 DEF Next
<1> QED BY <1>1, <1>2, PTL DEF Spec

(* A step that leaves state and permit alone and moves one worker between
   steps that do not hold the permit cannot leak it. *)
LEMMA UntouchedPermit ==
  ASSUME TypeOK, PermitNotLeaked, NEW w \in Workers,
         UNCHANGED <<state, halfOpenPermit>>,
         pc[w] \notin Releasing, NEW s, pc' = [pc EXCEPT ![w] = s]
  PROVE  PermitNotLeaked'
BY DEF PermitNotLeaked, TypeOK

(* No interleaving of Allow, RecordSuccess and RecordFailure leaks the
   half-open permit: the stores that follow the critical sections always come,
   and the compare-and-swap that lost the race gives the permit back. *)
THEOREM PermitNotLeakedAlways == Spec => []PermitNotLeaked
<1>1. Init => PermitNotLeaked
  BY DEF Init, PermitNotLeaked
<1>2. TypeOK /\ PermitNotLeaked /\ [Next]_vars => PermitNotLeaked'
  <2> SUFFICES ASSUME TypeOK, PermitNotLeaked, [Next]_vars PROVE PermitNotLeaked'
    OBVIOUS
  <2>1. ASSUME NEW w \in Workers, Allow(w) PROVE PermitNotLeaked'
    <3>1. CASE TakePermit(w)
      BY <3>1 DEF TakePermit, Goto, PermitNotLeaked, Releasing, TypeOK
    <3>2. CASE SwapToHalfOpen(w)
      BY <3>2 DEF SwapToHalfOpen, PermitNotLeaked
    <3>3. CASE SwapFails(w)
      BY <3>3 DEF SwapFails, Goto, PermitNotLeaked, Releasing, TypeOK, breakerVars
    <3>4. CASE GiveBackPermit(w)
      BY <3>4 DEF GiveBackPermit, PermitNotLeaked
    <3>5. CASE AllowClosed(w) \/ AllowHalfOpen(w) \/ AllowOpen(w)
      BY <3>5, UntouchedPermit DEF AllowClosed, AllowHalfOpen, AllowOpen, Goto,
         Return, Releasing, breakerVars
    <3>6. CASE StillBlackedOut(w) \/ BlackoutOver(w) \/ PermitTaken(w) \/ ResetSuccesses(w)
      BY <3>6, UntouchedPermit DEF StillBlackedOut, BlackoutOver, PermitTaken,
         ResetSuccesses, Goto, Return, Releasing, breakerVars
    <3> QED BY <2>1, <3>1, <3>2, <3>3, <3>4, <3>5, <3>6 DEF Allow
  <2>2. ASSUME NEW w \in Workers, EvaluateNode(w) PROVE PermitNotLeaked'
    BY <2>2, UntouchedPermit DEF EvaluateNode, CallNotRecorded, CallFails,
       CallSucceeds, Goto, Return, Releasing, breakerVars
  <2>3. ASSUME NEW w \in Workers, RecordSuccess(w) PROVE PermitNotLeaked'
    <3>1. CASE StoreClosed(w)
      BY <3>1 DEF StoreClosed, Goto, PermitNotLeaked, Releasing, TypeOK
    <3>2. CASE ClosePermit(w)
      BY <3>2 DEF ClosePermit, PermitNotLeaked
    <3>3. CASE SuccessSeesHalfOpen(w) \/ SuccessSeesOther(w) \/ CountAndClose(w)
      BY <3>3, UntouchedPermit DEF SuccessSeesHalfOpen, SuccessSeesOther,
         CountAndClose, Goto, Releasing, breakerVars
    <3>4. CASE CountProbe(w) \/ ReloadClosed(w) \/ ReloadOther(w) \/ ClearStreak(w)
      BY <3>4, UntouchedPermit DEF CountProbe, ReloadClosed, ReloadOther,
         ClearStreak, Goto, Return, Releasing, breakerVars
    <3> QED BY <2>3, <3>1, <3>2, <3>3, <3>4 DEF RecordSuccess
  <2>4. ASSUME NEW w \in Workers, RecordFailure(w) PROVE PermitNotLeaked'
    <3>1. CASE StoreOpen(w)
      BY <3>1 DEF StoreOpen, Goto, PermitNotLeaked, Releasing, TypeOK
    <3>2. CASE OpenPermit(w)
      BY <3>2 DEF OpenPermit, PermitNotLeaked
    <3>3. CASE CountAndOpen(w) \/ CountOnly(w)
      BY <3>3, UntouchedPermit DEF CountAndOpen, CountOnly, CountFailure, Goto,
         Return, Releasing
    <3> QED BY <2>4, <3>1, <3>2, <3>3 DEF RecordFailure
  <2>5. CASE GoDown \/ ComeUp \/ Tick \/ UNCHANGED vars
    BY <2>5 DEF GoDown, ComeUp, Tick, vars, breakerVars, PermitNotLeaked
  <2> QED BY <2>1, <2>2, <2>3, <2>4, <2>5 DEF Next, Work
<1> QED BY <1>1, <1>2, TypeCorrect, PTL DEF Spec
============================================================================
