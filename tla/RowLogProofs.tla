---------------------------- MODULE RowLogProofs ---------------------------
(***************************************************************************)
(* What a reader of the table may rely on, from the row log alone: rows    *)
(* appear at most once, in push order, and a row given up stays given up.  *)
(***************************************************************************)
EXTENDS RowLog, SequenceTheorems, TLAPS

Increasing(s) == \A i, j \in 1 .. Len(s) : i < j => s[i] < s[j]

(* No row is in the table twice, and the table is in push order. *)
StoredOnceInOrder == Increasing(stored)

Rows(s) == {s[i] : i \in 1 .. Len(s)}

(* A row that was pushed and is neither stored nor pending never comes back. *)
GivenUpForGood ==
  [][\A r \in 1 .. pushed : r \notin Rows(stored) \cup Rows(pending)
       => r \notin Rows(stored') \cup Rows(pending')]_vars

(* Table s and pending rows q together are in push order, the table first, and
   none of them is ahead of the n pushes. *)
InOrder(s, q, n) ==
  /\ n \in Nat
  /\ s \in Seq(Nat) /\ q \in Seq(Nat)
  /\ Increasing(s)
  /\ Increasing(q)
  /\ \A i \in 1 .. Len(s), j \in 1 .. Len(q) : s[i] < q[j]
  /\ \A i \in 1 .. Len(s) : s[i] <= n
  /\ \A j \in 1 .. Len(q) : q[j] <= n

(* The inductive invariant. *)
LogInv == InOrder(stored, pending, pushed)

(* The k oldest elements of a sequence, and the others. *)
LEMMA Cut ==
  ASSUME NEW S, NEW s \in Seq(S), NEW k \in 1 .. Len(s)
  PROVE  /\ SubSeq(s, 1, k) \in Seq(S) /\ Len(SubSeq(s, 1, k)) = k
         /\ \A i \in 1 .. k : SubSeq(s, 1, k)[i] = s[i]
         /\ SubSeq(s, k + 1, Len(s)) \in Seq(S)
         /\ Len(SubSeq(s, k + 1, Len(s))) = Len(s) - k
         /\ \A i \in 1 .. Len(s) - k : SubSeq(s, k + 1, Len(s))[i] = s[k + i]
  OBVIOUS

(* The rows of an extended table. *)
LEMMA Extended ==
  ASSUME NEW s \in Seq(Nat), NEW q \in Seq(Nat), NEW k \in 1 .. Len(q)
  PROVE  /\ s \o SubSeq(q, 1, k) \in Seq(Nat)
         /\ Len(s \o SubSeq(q, 1, k)) = Len(s) + k
         /\ \A i \in 1 .. Len(s) : (s \o SubSeq(q, 1, k))[i] = s[i]
         /\ \A i \in Len(s) + 1 .. Len(s) + k :
              (s \o SubSeq(q, 1, k))[i] = q[i - Len(s)]
<1> DEFINE t == SubSeq(q, 1, k)
           u == s \o t
<1>1. t \in Seq(Nat) /\ Len(t) = k /\ \A i \in 1 .. k : t[i] = q[i]
  BY Cut
<1> HIDE DEF t
<1>2. /\ u \in Seq(Nat) /\ Len(u) = Len(s) + k
      /\ \A i \in 1 .. Len(s) : u[i] = s[i]
      /\ \A i \in Len(s) + 1 .. Len(s) + k : u[i] = t[i - Len(s)]
  <2>1. /\ s \o t \in Seq(Nat) /\ Len(s \o t) = Len(s) + Len(t)
        /\ \A i \in 1 .. Len(s) + Len(t) :
             (s \o t)[i] = IF i <= Len(s) THEN s[i] ELSE t[i - Len(s)]
    BY <1>1, ConcatProperties
  <2>2. Len(s) \in Nat /\ k \in Nat
    OBVIOUS
  <2>3. Len(u) = Len(s) + k /\ \A i \in 1 .. Len(s) + k :
          u[i] = IF i <= Len(s) THEN s[i] ELSE t[i - Len(s)]
    BY <1>1, <2>1
  <2> HIDE DEF u
  <2>4. ASSUME NEW i \in 1 .. Len(s) PROVE u[i] = s[i]
    BY <2>2, <2>3
  <2>5. ASSUME NEW i \in Len(s) + 1 .. Len(s) + k PROVE u[i] = t[i - Len(s)]
    BY <2>2, <2>3
  <2> QED BY <2>1, <2>3, <2>4, <2>5 DEF u
<1> HIDE DEF u
<1>3. ASSUME NEW i \in Len(s) + 1 .. Len(s) + k PROVE u[i] = q[i - Len(s)]
  <2>1. i - Len(s) \in 1 .. k
    OBVIOUS
  <2> QED BY <1>1, <1>2, <2>1
<1> QED BY <1>2, <1>3 DEF u, t

(* A new row goes to the end. *)
LEMMA AcceptKeepsOrder ==
  ASSUME NEW s, NEW q, NEW n, InOrder(s, q, n)
  PROVE  InOrder(s, Append(q, n + 1), n + 1)
<1> DEFINE r == Append(q, n + 1)
<1>1. n \in Nat /\ s \in Seq(Nat) /\ q \in Seq(Nat) /\ Len(s) \in Nat /\ Len(q) \in Nat
      /\ n + 1 \in Nat
  BY DEF InOrder
<1>2. /\ r \in Seq(Nat) /\ Len(r) = Len(q) + 1
      /\ \A i \in 1 .. Len(q) : r[i] = q[i] /\ q[i] <= n /\ q[i] \in Nat
      /\ r[Len(q) + 1] = n + 1
  BY <1>1, AppendProperties, ElementOfSeq DEF InOrder
<1> HIDE DEF r
<1>a. Len(r) = Len(q) + 1 /\ Len(q) \in Nat
  BY <1>1, <1>2
<1>b. \A i \in 1 .. Len(q) : r[i] = q[i] /\ r[i] <= n /\ r[i] < n + 1 /\ r[i] <= n + 1
  BY <1>1, <1>2
<1>3. \A i \in 1 .. Len(s) : s[i] \in Nat /\ s[i] <= n
  BY <1>1 DEF InOrder
<1>4. Increasing(r)
  <2> SUFFICES ASSUME NEW i \in 1 .. Len(r), NEW j \in 1 .. Len(r), i < j
               PROVE  r[i] < r[j]
    BY DEF Increasing
  <2>1. i \in 1 .. Len(q) /\ (j \in 1 .. Len(q) \/ j = Len(q) + 1)
    BY <1>a
  <2>2. CASE j \in 1 .. Len(q)
    <3>1. q[i] < q[j]
      BY <2>1, <2>2 DEF InOrder, Increasing
    <3> QED BY <1>2, <2>1, <2>2, <3>1
  <2>3. CASE j = Len(q) + 1
    BY <1>b, <1>2, <2>1, <2>3
  <2> QED BY <2>1, <2>2, <2>3
<1>5. ASSUME NEW i \in 1 .. Len(s), NEW j \in 1 .. Len(r) PROVE s[i] < r[j]
  <2>1. CASE j \in 1 .. Len(q)
    BY <1>2, <2>1 DEF InOrder
  <2>2. CASE j = Len(q) + 1
    BY <1>1, <1>2, <1>3, <2>2
  <2> QED BY <1>1, <1>2, <2>1, <2>2
<1>6. ASSUME NEW j \in 1 .. Len(r) PROVE r[j] <= n + 1
  <2>1. CASE j \in 1 .. Len(q)
    BY <1>b, <2>1
  <2>2. CASE j = Len(q) + 1
    BY <1>1, <1>2, <2>2
  <2> QED BY <1>1, <1>2, <2>1, <2>2
<1>7. \A i \in 1 .. Len(s) : s[i] <= n + 1
  BY <1>1, <1>3
<1>8. Increasing(s)
  BY DEF InOrder
<1>9. InOrder(s, r, n + 1)
  BY <1>1, <1>2, <1>4, <1>5, <1>6, <1>7, <1>8 DEF InOrder
<1> QED BY <1>9 DEF r

(* The oldest rows go. *)
LEMMA GiveUpKeepsOrder ==
  ASSUME NEW s, NEW q, NEW n, InOrder(s, q, n), NEW k \in 1 .. Len(q)
  PROVE  InOrder(s, SubSeq(q, k + 1, Len(q)), n)
<1> DEFINE r == SubSeq(q, k + 1, Len(q))
<1>1. n \in Nat /\ s \in Seq(Nat) /\ q \in Seq(Nat) /\ Len(s) \in Nat /\ Len(q) \in Nat
  BY DEF InOrder
<1>2. r \in Seq(Nat) /\ Len(r) = Len(q) - k /\ \A i \in 1 .. Len(q) - k : r[i] = q[k + i]
  BY <1>1, Cut
<1> HIDE DEF r
<1>3. ASSUME NEW i \in 1 .. Len(r) PROVE k + i \in 1 .. Len(q) /\ r[i] = q[k + i]
  BY <1>1, <1>2
<1>4. Increasing(r)
  <2> SUFFICES ASSUME NEW i \in 1 .. Len(r), NEW j \in 1 .. Len(r), i < j
               PROVE  r[i] < r[j]
    BY DEF Increasing
  <2>1. k + i < k + j
    BY <1>1, <1>2
  <2> QED BY <1>3, <2>1 DEF InOrder, Increasing
<1>5. /\ \A i \in 1 .. Len(s), j \in 1 .. Len(r) : s[i] < r[j]
      /\ \A j \in 1 .. Len(r) : r[j] <= n
  BY <1>3 DEF InOrder
<1>6. InOrder(s, r, n)
  BY <1>1, <1>2, <1>4, <1>5 DEF InOrder
<1> QED BY <1>6 DEF r

(* The oldest rows are stored. *)
LEMMA StoreKeepsOrder ==
  ASSUME NEW s, NEW q, NEW n, InOrder(s, q, n), NEW k \in 1 .. Len(q)
  PROVE  InOrder(s \o SubSeq(q, 1, k), SubSeq(q, k + 1, Len(q)), n)
<1> DEFINE u == s \o SubSeq(q, 1, k)
           r == SubSeq(q, k + 1, Len(q))
<1>1. n \in Nat /\ s \in Seq(Nat) /\ q \in Seq(Nat) /\ Len(s) \in Nat /\ Len(q) \in Nat
  BY DEF InOrder
<1>2. r \in Seq(Nat) /\ Len(r) = Len(q) - k /\ \A i \in 1 .. Len(q) - k : r[i] = q[k + i]
  BY <1>1, Cut
<1>3. /\ u \in Seq(Nat) /\ Len(u) = Len(s) + k
      /\ \A i \in 1 .. Len(s) : u[i] = s[i]
      /\ \A i \in Len(s) + 1 .. Len(s) + k : u[i] = q[i - Len(s)]
  BY <1>1, Extended
<1>4. InOrder(s, r, n)
  BY GiveUpKeepsOrder
<1> HIDE DEF u, r
<1>a. Len(u) = Len(s) + k /\ Len(s) \in Nat /\ Len(q) \in Nat /\ k \in Nat /\ k <= Len(q)
  BY <1>1, <1>3
<1>5. ASSUME NEW i \in 1 .. Len(u)
      PROVE  \/ i \in 1 .. Len(s) /\ u[i] = s[i]
             \/ /\ i > Len(s) /\ i - Len(s) \in 1 .. k /\ i - Len(s) \in 1 .. Len(q)
                /\ u[i] = q[i - Len(s)]
  <2>1. \/ i \in 1 .. Len(s)
        \/ /\ i \in Len(s) + 1 .. Len(s) + k
           /\ i > Len(s) /\ i - Len(s) \in 1 .. k /\ i - Len(s) \in 1 .. Len(q)
    BY <1>a
  <2> QED BY <1>3, <2>1
<1>6. ASSUME NEW j \in 1 .. Len(r) PROVE k + j \in k + 1 .. Len(q) /\ r[j] = q[k + j]
  BY <1>1, <1>2
<1>7. k \in Nat /\ \A a, b \in 1 .. Len(q) : a < b => q[a] < q[b]
  BY <1>1 DEF InOrder, Increasing
<1>8. Increasing(u)
  <2> SUFFICES ASSUME NEW i \in 1 .. Len(u), NEW j \in 1 .. Len(u), i < j
               PROVE  u[i] < u[j]
    BY DEF Increasing
  <2>1. CASE j <= Len(s)
    <3>1. u[i] = s[i] /\ u[j] = s[j] /\ i \in 1 .. Len(s) /\ j \in 1 .. Len(s)
      BY <1>a, <1>5, <2>1
    <3> QED BY <3>1 DEF InOrder, Increasing
  <2>2. CASE j > Len(s) /\ i <= Len(s)
    <3>1. u[i] = s[i] /\ u[j] = q[j - Len(s)] /\ i \in 1 .. Len(s) /\ j - Len(s) \in 1 .. Len(q)
      BY <1>a, <1>5, <2>2
    <3> QED BY <3>1 DEF InOrder
  <2>3. CASE i > Len(s)
    <3>1. /\ u[i] = q[i - Len(s)] /\ u[j] = q[j - Len(s)]
          /\ i - Len(s) \in 1 .. Len(q) /\ j - Len(s) \in 1 .. Len(q)
          /\ i - Len(s) < j - Len(s)
      <4>1. j > Len(s) /\ i - Len(s) < j - Len(s)
        BY <1>a, <2>3
      <4> QED BY <1>5, <2>3, <4>1
    <3> QED BY <1>7, <3>1
  <2> QED BY <1>a, <2>1, <2>2, <2>3
<1>9. ASSUME NEW i \in 1 .. Len(u), NEW j \in 1 .. Len(r) PROVE u[i] < r[j]
  <2>1. CASE i \in 1 .. Len(s) /\ u[i] = s[i]
    BY <1>4, <2>1 DEF InOrder
  <2>2. CASE i > Len(s) /\ i - Len(s) \in 1 .. k /\ u[i] = q[i - Len(s)]
    <3>1. i - Len(s) \in 1 .. Len(q) /\ k + j \in 1 .. Len(q) /\ i - Len(s) < k + j
      <4>1. k + j \in k + 1 .. Len(q)
        BY <1>6
      <4> QED BY <1>a, <2>2, <4>1
    <3> QED BY <1>6, <1>7, <2>2, <3>1
  <2> QED BY <1>5, <2>1, <2>2
<1>10. ASSUME NEW i \in 1 .. Len(u) PROVE u[i] <= n
  <2>1. CASE i \in 1 .. Len(s) /\ u[i] = s[i]
    BY <2>1 DEF InOrder
  <2>2. CASE i > Len(s) /\ i - Len(s) \in 1 .. k /\ u[i] = q[i - Len(s)]
    <3>1. i - Len(s) \in 1 .. Len(q)
      BY <1>1, <2>2
    <3> QED BY <2>2, <3>1 DEF InOrder
  <2> QED BY <1>5, <2>1, <2>2
<1>11. InOrder(u, r, n)
  BY <1>3, <1>4, <1>8, <1>9, <1>10 DEF InOrder
<1> QED BY <1>11 DEF u, r

(* A step of the log keeps the order. *)
LEMMA LogInvStep ==
  ASSUME LogInv, [Next]_vars
  PROVE  LogInv'
<1>1. CASE Accept
  BY <1>1, AcceptKeepsOrder DEF Accept, LogInv
<1>2. CASE Refuse
  BY <1>2 DEF Refuse, LogInv, InOrder
<1>3. CASE Store
  BY <1>3, StoreKeepsOrder DEF Store, LogInv
<1>4. CASE GiveUp
  BY <1>4, GiveUpKeepsOrder DEF GiveUp, LogInv
<1>5. CASE UNCHANGED vars
  BY <1>5 DEF vars, LogInv
<1> QED BY <1>1, <1>2, <1>3, <1>4, <1>5 DEF Next

(* The log's invariant holds. *)
LEMMA LogInvAlways == Spec => []LogInv
<1>1. Init => LogInv
  BY DEF Init, LogInv, InOrder, Increasing
<1> QED BY <1>1, LogInvStep, PTL DEF Spec

(* Rows reach the table at most once and in push order. *)
THEOREM StoredOnceInOrderAlways == Spec => []StoredOnceInOrder
<1>1. LogInv => StoredOnceInOrder
  BY DEF LogInv, InOrder, StoredOnceInOrder
<1> QED BY <1>1, LogInvAlways, PTL

(* A row given up is never stored later: nothing is retried. *)
THEOREM GivenUpForGoodAlways == Spec => GivenUpForGood
<1> DEFINE Step == \A r \in 1 .. pushed : r \notin Rows(stored) \cup Rows(pending)
                     => r \notin Rows(stored') \cup Rows(pending')
<1>1. LogInv /\ [Next]_vars => [Step]_vars
  <2> SUFFICES ASSUME LogInv, Next, NEW r \in 1 .. pushed,
                      r \in Rows(stored') \cup Rows(pending')
               PROVE  r \in Rows(stored) \cup Rows(pending)
    OBVIOUS
  <2> USE DEF LogInv, InOrder, Rows
  <2>1. CASE Accept
    <3>1. /\ Len(pending') = Len(pending) + 1
          /\ \A i \in 1 .. Len(pending) : pending'[i] = pending[i]
          /\ pending'[Len(pending) + 1] = pushed + 1
          /\ stored' = stored
      BY <2>1, AppendProperties DEF Accept
    <3>2. Len(pending) \in Nat /\ pushed \in Nat
      OBVIOUS
    <3>3. CASE r \in Rows(stored')
      BY <3>1, <3>3
    <3>4. ASSUME NEW i \in 1 .. Len(pending) + 1, r = pending'[i]
          PROVE  i \in 1 .. Len(pending)
      <4>1. pending'[Len(pending) + 1] # r
        BY <3>1, <3>2
      <4> QED BY <3>2, <3>4, <4>1
    <3> QED BY <3>1, <3>2, <3>3, <3>4
  <2>2. CASE Refuse
    BY <2>2 DEF Refuse
  <2>3. CASE Store
    <3>1. PICK k \in 1 .. Len(pending) :
            /\ stored' = stored \o SubSeq(pending, 1, k)
            /\ pending' = SubSeq(pending, k + 1, Len(pending))
      BY <2>3 DEF Store
    <3>2. /\ Len(pending') = Len(pending) - k
          /\ \A i \in 1 .. Len(pending) - k : pending'[i] = pending[k + i]
      BY <3>1, Cut
    <3>3. /\ Len(stored') = Len(stored) + k
          /\ \A i \in 1 .. Len(stored) : stored'[i] = stored[i]
          /\ \A i \in Len(stored) + 1 .. Len(stored) + k : stored'[i] = pending[i - Len(stored)]
      BY <3>1, Extended
    <3>4. CASE r \in Rows(pending')
      BY <3>2, <3>4
    <3>5. CASE r \in Rows(stored')
      <4>1. PICK i \in 1 .. Len(stored) + k : r = stored'[i]
        BY <3>3, <3>5
      <4>2. CASE i \in 1 .. Len(stored)
        BY <3>3, <4>1, <4>2
      <4>3. CASE i \in Len(stored) + 1 .. Len(stored) + k
        <5>1. i - Len(stored) \in 1 .. Len(pending) /\ r = pending[i - Len(stored)]
          BY <3>3, <4>1, <4>3
        <5> QED BY <5>1
      <4> QED BY <4>1, <4>2, <4>3
    <3> QED BY <3>4, <3>5
  <2>4. CASE GiveUp
    <3>1. PICK k \in 1 .. Len(pending) :
            pending' = SubSeq(pending, k + 1, Len(pending)) /\ stored' = stored
      BY <2>4 DEF GiveUp
    <3>2. /\ Len(pending') = Len(pending) - k
          /\ \A i \in 1 .. Len(pending) - k : pending'[i] = pending[k + i]
      BY <3>1, Cut
    <3>3. CASE r \in Rows(stored')
      BY <3>1, <3>3
    <3>4. CASE r \in Rows(pending')
      <4>1. PICK i \in 1 .. Len(pending) - k : r = pending[k + i]
        BY <3>2, <3>4
      <4>2. Len(pending) \in Nat
        OBVIOUS
      <4>3. k + i \in 1 .. Len(pending)
        BY <4>2
      <4> QED BY <4>1, <4>3
    <3> QED BY <3>3, <3>4
  <2> QED BY <2>1, <2>2, <2>3, <2>4 DEF Next
<1> HIDE DEF Step
<1>2. Spec => [][Step]_vars
  BY <1>1, LogInvAlways, PTL DEF Spec
<1> QED BY <1>2 DEF GivenUpForGood, Step
============================================================================
