------------------------- MODULE ChainVolumeProofs -------------------------
(***************************************************************************)
(* Proofs about the chain volume of a TaoNode: its claim is grown under    *)
(* pressure and never above maxSize, and pruning keeps the newest          *)
(* snapshots and, when it is not cut short, no more than those.            *)
(***************************************************************************)
EXTENDS ChainVolume, FiniteSetTheorems, TLAPS

----------------------------------------------------------------------------
(***************************************************************************)
(* The inductive invariant                                                 *)
(***************************************************************************)

AtMostOne(f) == \A x, y \in f : x = y

OneAtATime(S) == \A s, t \in S : s.at = t.at => s = t

(* TypeOK, with the optional sizes in the form the steps preserve. *)
VolumeType ==
  /\ role \in Roles /\ [policy |-> policy, limit |-> limit] \in Settings
  /\ node \in {"live", "deleting", "gone"}
  /\ clock \in 0 .. MaxClock
  /\ snaps \subseteq Snapshot
  /\ OneAtATime(snaps)
  /\ pvc \subseteq Nat /\ AtMostOne(pvc)
  /\ pvcSeen \subseteq Nat /\ AtMostOne(pvcSeen)
  /\ copy \subseteq Nat /\ AtMostOne(copy)
  /\ pressure \in BOOLEAN /\ answering \in BOOLEAN
  /\ pc \in {"idle", "expand", "create", "list", "prune", "finish"}
  /\ job \in {"none", "disk", "restore", "finalize"}
  /\ labels \in Roles
  /\ toDelete \subseteq Snapshot
  /\ faults \in 0 .. MaxFaults

(* Snapshots are taken under a policy only, a TaoNode that is gone is not being
   reconciled, and the list of snapshots to delete lives as long as its loop. *)
PassShape ==
  /\ policy = {} => snaps = {} /\ pc \notin {"create", "list", "prune"}
  /\ node = "gone" => pc = "idle"
  /\ pc # "prune" => toDelete = {}

(* The snapshots of S with the labels l that a pass over D will leave. *)
Survivors(S, D, l) ==
  {t \in S : t.role = l /\ ~t.deleting /\ \A s \in D : s.at # t.at}

(* The newer snapshots that stay. *)
Newer(S, s) == {t \in S : t.role = s.role /\ t.at > s.at /\ ~t.deleting}

Covered(S, r) == \A s \in S : s.deleting => Cardinality(Newer(S, s)) >= r

(* A pass leaves exactly r snapshots of its labels, and they are the newest. *)
PassKeeps(S, D, l, r) ==
  /\ Cardinality(Survivors(S, D, l)) = r
  /\ \A t \in S : t.role = l /\ t \notin Survivors(S, D, l) =>
       \A u \in Survivors(S, D, l) : t.at < u.at
  /\ \A s \in D, t \in S : t.at = s.at => t.role = l

PruneInv ==
  /\ Covered(snaps, Retention)
  /\ pc = "prune" => PassKeeps(snaps, toDelete, labels, Retention)

VolumeInv == VolumeType /\ PassShape /\ PruneInv

----------------------------------------------------------------------------
(***************************************************************************)
(* Facts about sets of snapshots                                           *)
(***************************************************************************)

(* Optional sizes are finite. *)
LEMMA OptionalSize ==
  ASSUME NEW f, AtMostOne(f)
  PROVE  Cardinality(f) <= 1
<1>1. CASE f = {}
  BY <1>1, FS_EmptySet
<1>2. CASE f # {}
  <2>1. PICK x : x \in f
    BY <1>2
  <2>2. f = {x}
    BY <2>1 DEF AtMostOne
  <2>3. Cardinality({x}) = 1
    BY FS_Singleton
  <2> QED
    BY <2>2, <2>3
<1> QED
  BY <1>1, <1>2

(* Snapshots with different creation times are finitely many. *)
LEMMA SnapshotsFinite ==
  ASSUME NEW S \in SUBSET Snapshot, OneAtATime(S)
  PROVE  IsFiniteSet(S)
<1> DEFINE f == [s \in S |-> s.at]
<1>1. f \in [S -> 0 .. MaxClock]
  BY DEF Snapshot
<1>2. \A s, t \in S : f[s] = f[t] => s = t
  BY DEF OneAtATime
<1>3. f \in Injection(S, 0 .. MaxClock)
  BY <1>1, <1>2 DEF Injection, IsInjective
<1>4. IsFiniteSet(0 .. MaxClock)
  BY VolumeAssumption, FS_Interval
<1> QED
  BY <1>3, <1>4, FS_Injection

(* Parts of a finite set. *)
LEMMA OlderPart ==
  ASSUME NEW L, IsFiniteSet(L), NEW s \in L
  PROVE  /\ IsFiniteSet(Older(L, s)) /\ Older(L, s) \subseteq L
         /\ Cardinality(Older(L, s)) \in Nat
<1>1. Older(L, s) \in SUBSET L
  BY DEF Older
<1> QED
  BY <1>1, FS_Subset, FS_CardinalityType

(* Of two snapshots the older one has fewer before it. *)
LEMMA OlderRanksLower ==
  ASSUME NEW L \in SUBSET Snapshot, IsFiniteSet(L),
         NEW s \in L, NEW t \in L, s.at < t.at
  PROVE  Cardinality(Older(L, s)) < Cardinality(Older(L, t))
<1>0. /\ s.at \in Int /\ t.at \in Int
      /\ \A x \in L : x.at \in Int
  BY DEF Snapshot
<1>1. Older(L, s) \in SUBSET Older(L, t)
  BY <1>0 DEF Older
<1>2. s \in Older(L, t) /\ s \notin Older(L, s)
  BY <1>0 DEF Older
<1>3. Cardinality(Older(L, s)) <= Cardinality(Older(L, t))
  BY <1>1, OlderPart, FS_Subset
<1>4. Cardinality(Older(L, s)) # Cardinality(Older(L, t))
  BY <1>1, <1>2, OlderPart, FS_Subset
<1> QED
  BY <1>3, <1>4, OlderPart

(* Every snapshot has its place in the list sorted by age. *)
LEMMA RankInRange ==
  ASSUME NEW L \in SUBSET Snapshot, IsFiniteSet(L), NEW s \in L
  PROVE  /\ Cardinality(L) \in Nat
         /\ Cardinality(Older(L, s)) \in 0 .. Cardinality(L) - 1
<1>1. Cardinality(L) \in Nat /\ Cardinality(Older(L, s)) \in Nat
  BY FS_CardinalityType, OlderPart
<1>2. s \notin Older(L, s) /\ Older(L, s) \in SUBSET L
  BY DEF Older, Snapshot
<1>3. /\ Cardinality(Older(L, s)) <= Cardinality(L)
      /\ Cardinality(Older(L, s)) # Cardinality(L)
  BY <1>2, FS_Subset
<1> QED
  BY <1>1, <1>3

(* No two snapshots have the same place. *)
LEMMA RankInjective ==
  ASSUME NEW L \in SUBSET Snapshot, IsFiniteSet(L), OneAtATime(L),
         NEW M \in SUBSET L, NEW a \in Int, NEW b \in Int,
         \A s \in M : Cardinality(Older(L, s)) \in a .. b
  PROVE  /\ IsFiniteSet(M)
         /\ Cardinality(M) <= IF a > b THEN 0 ELSE b - a + 1
<1> DEFINE rank == [s \in M |-> Cardinality(Older(L, s))]
<1>1. rank \in [M -> a .. b]
  OBVIOUS
<1>2. ASSUME NEW s \in M, NEW t \in M, rank[s] = rank[t]
      PROVE  s = t
  <2>1. s \in L /\ t \in L /\ s.at \in Int /\ t.at \in Int
    BY DEF Snapshot
  <2>2. ~(s.at < t.at) /\ ~(t.at < s.at)
    BY <1>2, <2>1, OlderRanksLower, RankInRange
  <2>3. s.at = t.at
    BY <2>1, <2>2
  <2> QED
    BY <2>1, <2>3 DEF OneAtATime
<1>3. rank \in Injection(M, a .. b)
  BY <1>1, <1>2 DEF Injection, IsInjective
<1> QED
  BY <1>3, FS_Injection, FS_Interval

(* The k oldest of a sorted list are k, if there are as many. *)
LEMMA OldestAreAsMany ==
  ASSUME NEW L \in SUBSET Snapshot, IsFiniteSet(L), OneAtATime(L),
         NEW k \in Nat, k <= Cardinality(L)
  PROVE  Cardinality(L \ OldestSnapshots(L, k)) = Cardinality(L) - k
<1> DEFINE D == OldestSnapshots(L, k)
           n == Cardinality(L)
<1>0. n \in Nat /\ D \in SUBSET L /\ L \ D \in SUBSET L
  BY FS_CardinalityType DEF OldestSnapshots
<1>1. \A s \in L : Cardinality(Older(L, s)) \in 0 .. n - 1
  BY RankInRange
<1>2. \A s \in D : Cardinality(Older(L, s)) \in 0 .. k - 1
  BY <1>0, <1>1 DEF OldestSnapshots
<1>3. \A s \in L \ D : Cardinality(Older(L, s)) \in k .. n - 1
  BY <1>0, <1>1 DEF OldestSnapshots
<1>4. Cardinality(D) <= k
  <2> HIDE DEF D, n
  <2>1. Cardinality(D) <= IF 0 > k - 1 THEN 0 ELSE k - 1 - 0 + 1
    BY <1>0, <1>2, RankInjective
  <2> QED
    BY <2>1
<1>5. Cardinality(L \ D) <= n - k
  <2>1. n - 1 \in Int /\ k <= n
    BY <1>0
  <2> HIDE DEF D, n
  <2>2. Cardinality(L \ D) <= IF k > n - 1 THEN 0 ELSE n - 1 - k + 1
    BY <1>0, <1>3, <2>1, RankInjective
  <2> QED
    BY <1>0, <2>1, <2>2
<1>6. Cardinality(L \ D) = n - Cardinality(D)
  <2>1. L \cap D = D
    BY <1>0
  <2> QED
    BY <2>1, FS_Difference
<1>7. Cardinality(D) \in Nat
  BY <1>0, FS_Subset, FS_CardinalityType
<1> HIDE DEF D, n
<1>8. Cardinality(L \ D) = n - k
  BY <1>0, <1>4, <1>5, <1>6, <1>7
<1> QED
  BY <1>8 DEF D, n

(* Listing: the list may hold snapshots that are being deleted, but these have
   enough newer ones behind them to be among the oldest.  So what the pass leaves
   are r snapshots that stay, the newest of their labels. *)
LEMMA ListingKeeps ==
  ASSUME NEW S \in SUBSET Snapshot, OneAtATime(S), NEW l \in Roles,
         NEW r \in Nat, Covered(S, r),
         NEW L, L = {s \in S : s.role = l},
         NEW D, D = OldestSnapshots(L, Cardinality(L) - r), D # {}
  PROVE  PassKeeps(S, D, l, r)
<1> DEFINE n == Cardinality(L)
<1>1. /\ L \in SUBSET Snapshot /\ L \in SUBSET S /\ OneAtATime(L)
      /\ IsFiniteSet(L) /\ IsFiniteSet(S)
  BY SnapshotsFinite, FS_Subset DEF OneAtATime
<1>2. n \in Nat
  BY <1>1, FS_CardinalityType
<1>3. \A s \in L : Cardinality(Older(L, s)) \in 0 .. n - 1
  BY <1>1, RankInRange
<1>4. D \in SUBSET L /\ \A s \in L : s \in D <=> Cardinality(Older(L, s)) < n - r
  BY DEF OldestSnapshots
<1>5. n - r \in Nat /\ n - r <= n
  <2>1. PICK s \in D : TRUE
    OBVIOUS
  <2>2. Cardinality(Older(L, s)) \in 0 .. n - 1 /\ Cardinality(Older(L, s)) < n - r
    BY <1>3, <1>4, <2>1
  <2> HIDE DEF n
  <2> QED
    BY <1>2, <2>2
<1>6. Cardinality(L \ D) = r
  <2>1. Cardinality(L \ D) = n - (n - r)
    <3> DEFINE k == n - r
    <3>1. k \in Nat /\ k <= Cardinality(L) /\ D = OldestSnapshots(L, k)
      BY <1>5
    <3> HIDE DEF k
    <3>2. Cardinality(L \ D) = Cardinality(L) - k
      BY <1>1, <3>1, OldestAreAsMany
    <3> QED
      BY <3>2 DEF k
  <2> HIDE DEF n
  <2> QED
    BY <1>2, <2>1
<1>7. ASSUME NEW t \in L, t.deleting
      PROVE  t \in D
  <2>1. Cardinality(Newer(S, t)) >= r
    BY <1>1, <1>7 DEF Covered
  <2>2. Newer(S, t) \in SUBSET L /\ Older(L, t) \in SUBSET L
    BY DEF Newer, Older
  <2>3. IsFiniteSet(Newer(S, t)) /\ IsFiniteSet(Older(L, t))
    BY <1>1, <2>2, FS_Subset
  <2>4. Newer(S, t) \cap Older(L, t) = {}
    <3>1. \A x \in Snapshot : x.at \in Int
      BY DEF Snapshot
    <3>2. t.at \in Int /\ \A x \in L : x.at \in Int
      BY <1>1, <3>1
    <3> QED
      BY <2>2, <3>2 DEF Newer, Older
  <2>5. Cardinality(Newer(S, t) \cup Older(L, t)) =
          Cardinality(Newer(S, t)) + Cardinality(Older(L, t)) - Cardinality({})
    BY <2>3, <2>4, FS_Union
  <2>6. Cardinality({}) = 0
    BY FS_EmptySet
  <2>7. t \notin Newer(S, t) \cup Older(L, t)
    <3>1. t.at \in Int
      BY <1>1 DEF Snapshot
    <3> QED
      BY <3>1 DEF Newer, Older
  <2>8. /\ Newer(S, t) \cup Older(L, t) \in SUBSET L
        /\ Newer(S, t) \cup Older(L, t) # L
    BY <2>2, <2>7
  <2>9. /\ Cardinality(Newer(S, t) \cup Older(L, t)) <= n
        /\ Cardinality(Newer(S, t) \cup Older(L, t)) # n
    BY <1>1, <2>8, FS_Subset
  <2>10. Cardinality(Newer(S, t)) \in Nat /\ Cardinality(Older(L, t)) \in Nat
    BY <2>3, FS_CardinalityType
  <2>11. Cardinality(Older(L, t)) < n - r
    <3> HIDE DEF n
    <3> QED
      BY <1>2, <2>1, <2>5, <2>6, <2>9, <2>10
  <2> QED
    BY <1>4, <2>11
<1>8. Survivors(S, D, l) = L \ D
  <2>1. ASSUME NEW t \in L \ D
        PROVE  t \in Survivors(S, D, l)
    <3>1. t \in S /\ t.role = l /\ ~t.deleting
      BY <1>7
    <3>2. \A s \in D : s.at # t.at
      BY <1>1, <1>4 DEF OneAtATime
    <3> QED
      BY <3>1, <3>2 DEF Survivors
  <2>2. Survivors(S, D, l) \subseteq L \ D
    BY DEF Survivors
  <2> QED
    BY <2>1, <2>2
<1>9. ASSUME NEW t \in D, NEW u \in L \ D
      PROVE  t.at < u.at
  <2>0. t \in L /\ u \in L
    BY <1>4
  <2>1. t.at \in Int /\ u.at \in Int
    BY <1>1, <2>0 DEF Snapshot
  <2>2. t.at # u.at
    BY <1>1, <2>0, <1>9 DEF OneAtATime
  <2>3. ~(u.at < t.at)
    <3>1. SUFFICES ASSUME u.at < t.at PROVE FALSE
      OBVIOUS
    <3>2. Cardinality(Older(L, u)) < Cardinality(Older(L, t))
      BY <1>1, <2>0, <3>1, OlderRanksLower
    <3>3. Cardinality(Older(L, t)) < n - r /\ ~(Cardinality(Older(L, u)) < n - r)
      BY <1>4, <2>0
    <3>4. Cardinality(Older(L, t)) \in Int /\ Cardinality(Older(L, u)) \in Int
      BY <1>3, <2>0
    <3> HIDE DEF n
    <3> QED
      BY <1>5, <3>2, <3>3, <3>4
  <2> QED
    BY <2>1, <2>2, <2>3
<1>10. \A s \in D, t \in S : t.at = s.at => t.role = l
  BY <1>1, <1>4 DEF OneAtATime
<1>11. \A t \in S : t.role = l /\ t \notin L \ D => \A u \in L \ D : t.at < u.at
  BY <1>9
<1> QED
  BY <1>6, <1>8, <1>10, <1>11 DEF PassKeeps

(* The snapshots once the one with the name of s is being deleted. *)
Marked(S, s) ==
  LET found == {t \in S : t.at = s.at}
  IN  (S \ found) \cup {[t EXCEPT !.deleting = TRUE] : t \in found}

(* Deleting one: the snapshot that is marked was not going to stay. *)
LEMMA DeletingKeeps ==
  ASSUME NEW S \in SUBSET Snapshot, OneAtATime(S), NEW l \in Roles,
         NEW r \in Nat, Covered(S, r),
         NEW D, NEW s \in D, PassKeeps(S, D, l, r),
         NEW T, T = Marked(S, s)
  PROVE  /\ T \in SUBSET Snapshot /\ OneAtATime(T)
         /\ Covered(T, r)
         /\ Survivors(T, D \ {s}, l) = Survivors(S, D, l)
         /\ PassKeeps(T, D \ {s}, l, r)
<1> USE DEF Marked
<1> DEFINE V == Survivors(S, D, l)
<1>1. \A t \in Snapshot : /\ [t EXCEPT !.deleting = TRUE] \in Snapshot
                          /\ [t EXCEPT !.deleting = TRUE].at = t.at
                          /\ [t EXCEPT !.deleting = TRUE].role = t.role
                          /\ [t EXCEPT !.deleting = TRUE].deleting
  BY DEF Snapshot
<1>2. ASSUME NEW t \in T
      PROVE  \/ t \in S /\ t.at # s.at
             \/ /\ t.at = s.at /\ t.deleting
                /\ \E u \in S : t = [u EXCEPT !.deleting = TRUE] /\ u.at = t.at /\ u.role = t.role
  <2>1. CASE t \in S /\ t.at # s.at
    BY <2>1
  <2>2. CASE \E u \in S : u.at = s.at /\ t = [u EXCEPT !.deleting = TRUE]
    BY <1>1, <2>2
  <2> QED
    BY <2>1, <2>2
<1>3. T \in SUBSET Snapshot
  BY <1>1
<1>4. OneAtATime(T)
  <2> SUFFICES ASSUME NEW t \in T, NEW u \in T, t.at = u.at
               PROVE  t = u
    BY DEF OneAtATime
  <2>1. CASE t.at = s.at
    <3>1. PICK x \in S : t = [x EXCEPT !.deleting = TRUE] /\ x.at = t.at
      BY <1>2, <2>1
    <3>2. PICK y \in S : u = [y EXCEPT !.deleting = TRUE] /\ y.at = u.at
      BY <1>2, <2>1
    <3>3. x = y
      BY <3>1, <3>2 DEF OneAtATime
    <3> QED
      BY <3>1, <3>2, <3>3
  <2>2. CASE t.at # s.at
    <3>1. t \in S /\ u \in S
      BY <1>2, <2>2
    <3> QED
      BY <3>1 DEF OneAtATime
  <2> QED
    BY <2>1, <2>2
<1>5. \A t \in S : t.at # s.at => t \in T
  OBVIOUS
<1>6. Survivors(T, D \ {s}, l) = V
  <2>1. ASSUME NEW t \in T, t.role = l, ~t.deleting, \A x \in D \ {s} : x.at # t.at
        PROVE  t \in V
    BY <1>2, <2>1 DEF Survivors
  <2>2. ASSUME NEW t \in V
        PROVE  t \in Survivors(T, D \ {s}, l)
    BY <1>5 DEF Survivors
  <2> QED
    BY <2>1, <2>2 DEF Survivors
<1>7. Cardinality(V) = r
  BY DEF PassKeeps
<1>8. \A t \in T : t.role = l /\ t \notin V => \A u \in V : t.at < u.at
  <2> SUFFICES ASSUME NEW t \in T, t.role = l, t \notin V, NEW u \in V
               PROVE  t.at < u.at
    OBVIOUS
  <2>1. CASE t \in S
    BY <2>1 DEF PassKeeps
  <2>2. CASE t \notin S
    <3>1. PICK x \in S : x.at = t.at /\ x.role = t.role /\ x.at = s.at
      BY <1>2, <2>2
    <3>2. x \notin V
      BY <3>1 DEF Survivors
    <3> QED
      BY <3>1, <3>2 DEF PassKeeps
  <2> QED
    BY <2>1, <2>2
<1>9. \A x \in D \ {s}, t \in T : t.at = x.at => t.role = l
  BY <1>2 DEF PassKeeps
<1>10. Covered(T, r)
  <2> SUFFICES ASSUME NEW t \in T, t.deleting
               PROVE  Cardinality(Newer(T, t)) >= r
    BY DEF Covered
  <2>0. IsFiniteSet(Newer(T, t))
    <3>1. IsFiniteSet(T) /\ Newer(T, t) \in SUBSET T
      BY <1>3, <1>4, SnapshotsFinite DEF Newer
    <3> QED
      BY <3>1, FS_Subset
  <2>1. CASE t.role = l
    <3>1. t \notin V
      BY <2>1 DEF Survivors
    <3>2. \A u \in V : t.at < u.at
      BY <1>8, <2>1, <3>1
    <3>3. \A u \in V : u \in T /\ u.role = l /\ ~u.deleting
      BY <1>6 DEF Survivors
    <3>4. V \in SUBSET Newer(T, t)
      <4>1. \A x \in Snapshot : x.at \in Int
        BY DEF Snapshot
      <4> HIDE DEF V
      <4> QED
        BY <1>3, <2>1, <3>2, <3>3, <4>1 DEF Newer
    <3>5. Cardinality(V) <= Cardinality(Newer(T, t))
      BY <2>0, <3>4, FS_Subset
    <3>6. Cardinality(Newer(T, t)) \in Nat
      BY <2>0, FS_CardinalityType
    <3> HIDE DEF V
    <3> QED
      BY <1>7, <3>5, <3>6
  <2>2. CASE t.role # l
    <3>1. t \in S /\ t.at # s.at
      <4>1. ASSUME NEW u \in S, u.at = s.at PROVE u.role = l
        BY <4>1 DEF PassKeeps
      <4> QED
        BY <1>2, <2>2, <4>1
    <3>2. Newer(S, t) \subseteq Newer(T, t)
      <4> SUFFICES ASSUME NEW u \in Newer(S, t)
                   PROVE  u \in Newer(T, t)
        OBVIOUS
      <4>1. u \in S /\ u.role # l
        BY <2>2 DEF Newer
      <4>2. u.at # s.at
        BY <4>1 DEF PassKeeps
      <4> QED
        BY <1>5, <4>1, <4>2 DEF Newer
    <3>3. Cardinality(Newer(S, t)) >= r
      BY <3>1 DEF Covered
    <3>4. Cardinality(Newer(S, t)) <= Cardinality(Newer(T, t)) /\ IsFiniteSet(Newer(S, t))
      BY <2>0, <3>2, FS_Subset
    <3>5. Cardinality(Newer(S, t)) \in Nat /\ Cardinality(Newer(T, t)) \in Nat
      BY <2>0, <3>4, FS_CardinalityType
    <3> QED
      BY <3>3, <3>4, <3>5
  <2> QED
    BY <2>1, <2>2
<1> HIDE DEF V
<1>11. PassKeeps(T, D \ {s}, l, r)
  BY <1>6, <1>7, <1>8, <1>9 DEF PassKeeps
<1> QED
  BY <1>3, <1>4, <1>6, <1>10, <1>11 DEF V

(* Taking one more never uncovers a deleted one. *)
LEMMA CreatingCovers ==
  ASSUME NEW S \in SUBSET Snapshot, OneAtATime(S), NEW r \in Nat, Covered(S, r),
         NEW x \in Snapshot, ~x.deleting, \A s \in S : s.at # x.at
  PROVE  /\ S \cup {x} \in SUBSET Snapshot /\ OneAtATime(S \cup {x})
         /\ Covered(S \cup {x}, r)
<1> DEFINE T == S \cup {x}
<1>1. T \in SUBSET Snapshot
  OBVIOUS
<1>2. OneAtATime(T)
  BY DEF OneAtATime
<1>3. Covered(T, r)
  <2> SUFFICES ASSUME NEW s \in T, s.deleting
               PROVE  Cardinality(Newer(T, s)) >= r
    BY DEF Covered
  <2>1. s \in S /\ Cardinality(Newer(S, s)) >= r
    BY DEF Covered
  <2>2. Newer(S, s) \in SUBSET Newer(T, s) /\ Newer(T, s) \in SUBSET T
    BY DEF Newer
  <2>3. IsFiniteSet(Newer(T, s)) /\ IsFiniteSet(Newer(S, s))
    BY <1>1, <1>2, <2>2, SnapshotsFinite, FS_Subset
  <2>4. Cardinality(Newer(S, s)) <= Cardinality(Newer(T, s))
    BY <2>2, <2>3, FS_Subset
  <2>5. Cardinality(Newer(S, s)) \in Nat /\ Cardinality(Newer(T, s)) \in Nat
    BY <2>3, FS_CardinalityType
  <2> QED
    BY <2>1, <2>4, <2>5
<1> QED
  BY <1>1, <1>2, <1>3

(* Collecting one that was being deleted takes nothing that stays. *)
LEMMA CollectingKeeps ==
  ASSUME NEW S \in SUBSET Snapshot, OneAtATime(S), NEW r \in Nat, Covered(S, r),
         NEW x \in S, x.deleting
  PROVE  /\ S \ {x} \in SUBSET Snapshot /\ OneAtATime(S \ {x})
         /\ Covered(S \ {x}, r)
         /\ \A D, l : PassKeeps(S, D, l, r) => PassKeeps(S \ {x}, D, l, r)
<1> DEFINE T == S \ {x}
<1>1. T \in SUBSET Snapshot
  OBVIOUS
<1>2. OneAtATime(T)
  BY DEF OneAtATime
<1>3. \A s : Newer(T, s) = Newer(S, s)
  BY DEF Newer
<1>4. Covered(T, r)
  BY <1>3 DEF Covered
<1>5. \A D, l : Survivors(T, D, l) = Survivors(S, D, l)
  BY DEF Survivors
<1>6. \A D, l : PassKeeps(S, D, l, r) => PassKeeps(T, D, l, r)
  BY <1>5 DEF PassKeeps
<1> QED
  BY <1>1, <1>2, <1>4, <1>6

----------------------------------------------------------------------------
(***************************************************************************)
(* Sizes                                                                   *)
(***************************************************************************)

(* Whatever is lost in an overflow, an integer comes out. *)
LEMMA WrapInt ==
  ASSUME NEW i \in Int
  PROVE  Wrap(i) \in Int
<1>1. MaxInt \in Nat \ {0}
  BY VolumeAssumption
<1>2. 2 * (MaxInt + 1) \in Nat \ {0} /\ i + MaxInt + 1 \in Int
  BY <1>1
<1>3. (i + MaxInt + 1) % (2 * (MaxInt + 1)) \in Int
  BY <1>2
<1> QED
  BY <1>1, <1>3 DEF Wrap

(* The new size is an integer not above the maximum. *)
LEMMA NewSizeBounded ==
  ASSUME NEW size \in Nat, NEW max \in Nat
  PROVE  NewSize(size, max) \in Int /\ NewSize(size, max) <= max
<1>1. IncrementPercent \in Int
  BY VolumeAssumption
<1>2. size * IncrementPercent \in Int
  BY <1>1
<1>3. Wrap(size * IncrementPercent) \in Int
  BY <1>2, WrapInt
<1>4. \A i \in Int : Quotient(i, 100) \in Int
  BY DEF Quotient
<1>5. Increment(size) \in Int
  BY <1>3, <1>4 DEF Increment
<1>6. Wrap(size + Increment(size)) \in Int
  <2>1. size + Increment(size) \in Int
    BY <1>5
  <2> QED
    BY <2>1, WrapInt
<1> QED
  BY <1>6 DEF NewSize, Capped

----------------------------------------------------------------------------
(***************************************************************************)
(* The steps                                                               *)
(***************************************************************************)

(* A policy keeps at least one snapshot. *)
LEMMA RetentionType ==
  ASSUME VolumeType, policy # {}
  PROVE  Retention \in Nat
<1>1. \A p \in policy : p.retention \in Nat
  BY VolumeAssumption DEF VolumeType
<1>2. {p.retention : p \in policy} # {}
  OBVIOUS
<1> QED
  BY <1>1, <1>2 DEF Retention

(* Steps that leave the snapshots alone and start no loop over them. *)
LEMMA PruneFrame ==
  ASSUME VolumeInv, policy' = policy, snaps' = snaps,
         pc' = "prune" => pc = "prune" /\ toDelete' = toDelete /\ labels' = labels
  PROVE  PruneInv'
<1>1. Retention' = Retention
  BY DEF Retention
<1>2. Covered(snaps, Retention)'
  BY <1>1 DEF VolumeInv, PruneInv, Covered, Newer
<1>3. ASSUME pc' = "prune"
      PROVE  PassKeeps(snaps, toDelete, labels, Retention)'
  <2>1. pc = "prune" /\ toDelete' = toDelete /\ labels' = labels
    BY <1>3
  <2>2. PassKeeps(snaps, toDelete, labels, Retention)
    BY <2>1 DEF VolumeInv, PruneInv
  <2> QED
    BY <1>1, <2>1, <2>2 DEF PassKeeps, Survivors
<1> QED
  BY <1>2, <1>3 DEF PruneInv

(* Starting an expansion reads the claim from the cache and changes nothing else. *)
LEMMA EvaluateDiskPressurePreserves ==
  ASSUME VolumeInv, EvaluateDiskPressure
  PROVE  VolumeInv'
<1> USE DEF EvaluateDiskPressure, spec, world
<1>1. VolumeType'
  BY DEF VolumeInv, VolumeType, AtMostOne, OneAtATime
<1>2. PassShape'
  BY DEF VolumeInv, PassShape
<1>3. PruneInv'
  BY PruneFrame
<1> QED
  BY <1>1, <1>2, <1>3 DEF VolumeInv

(* An update of the claim stores one size, a natural number even after an overflow. *)
LEMMA ExpandPVCPreserves ==
  ASSUME VolumeInv, ExpandPVC
  PROVE  VolumeInv'
<1> USE DEF ExpandPVC, spec, Return
<1>1. pvc' \subseteq Nat /\ AtMostOne(pvc')
  <2>1. PICK size \in copy, max \in limit :
          pvc' = IF copy = pvc /\ NewSize(size, max) >= size THEN {NewSize(size, max)} ELSE pvc
    OBVIOUS
  <2>2. size \in Nat /\ max \in Nat
    BY VolumeAssumption DEF VolumeInv, VolumeType
  <2>3. NewSize(size, max) \in Int
    BY <2>2, NewSizeBounded
  <2>4. NewSize(size, max) >= size => NewSize(size, max) \in Nat
    BY <2>2, <2>3
  <2> QED
    BY <2>1, <2>4 DEF VolumeInv, VolumeType, AtMostOne
<1>2. VolumeType'
  <2>1. copy' = {} /\ toDelete' = {}
    OBVIOUS
  <2> QED
    BY <1>1, <2>1 DEF VolumeInv, VolumeType, AtMostOne, OneAtATime
<1>3. PassShape'
  BY DEF VolumeInv, PassShape
<1>4. PruneInv'
  BY PruneFrame
<1> QED
  BY <1>2, <1>3, <1>4 DEF VolumeInv

(* A snapshot is begun under a policy, and by a TaoNode that is not gone. *)
LEMMA BeginPreserves ==
  ASSUME VolumeInv, StartRestore \/ StartFinalization
  PROVE  VolumeInv'
<1> USE DEF StartRestore, StartFinalization, Begin, spec, world
<1>1. VolumeType'
  BY DEF VolumeInv, VolumeType, AtMostOne, OneAtATime
<1>2. PassShape'
  BY DEF VolumeInv, PassShape
<1>3. PruneInv'
  BY PruneFrame
<1> QED
  BY <1>1, <1>2, <1>3 DEF VolumeInv

(* A snapshot is created under a name that is free, or not at all. *)
LEMMA CreateSnapshotPreserves ==
  ASSUME VolumeInv, CreateSnapshot
  PROVE  VolumeInv'
<1> USE DEF CreateSnapshot, spec
<1>1. CASE NameTaken
  <2>1. VolumeType'
    BY <1>1 DEF VolumeInv, VolumeType, AtMostOne, OneAtATime
  <2>2. PassShape'
    BY <1>1 DEF VolumeInv, PassShape
  <2>3. PruneInv'
    BY <1>1, PruneFrame
  <2> QED
    BY <2>1, <2>2, <2>3 DEF VolumeInv
<1>2. CASE ~NameTaken
  <2> DEFINE x == [at |-> clock, role |-> labels, deleting |-> FALSE]
  <2>1. snaps' = snaps \cup {x} /\ pc' = "list"
    BY <1>2
  <2>2. x \in Snapshot /\ ~x.deleting /\ x.at = clock
    BY DEF VolumeInv, VolumeType, Snapshot
  <2>3. \A s \in snaps : s.at # x.at
    BY <1>2 DEF NameTaken
  <2>4. policy # {}
    BY DEF VolumeInv, PassShape
  <2>5. Retention \in Nat
    BY <2>4, RetentionType DEF VolumeInv
  <2> HIDE DEF x
  <2>6. /\ snaps' \subseteq Snapshot /\ OneAtATime(snaps')
        /\ Covered(snaps', Retention)
    <3>1. snaps \in SUBSET Snapshot /\ OneAtATime(snaps) /\ Covered(snaps, Retention)
      BY DEF VolumeInv, VolumeType, PruneInv
    <3> QED
      BY <2>1, <2>2, <2>3, <2>5, <3>1, CreatingCovers
  <2>7. VolumeType'
    BY <2>1, <2>6 DEF VolumeInv, VolumeType, AtMostOne, OneAtATime
  <2>8. PassShape'
    BY <2>1, <2>4 DEF VolumeInv, PassShape
  <2>9. PruneInv'
    <3>1. Retention' = Retention
      BY DEF Retention
    <3> QED
      BY <2>1, <2>6, <3>1 DEF PruneInv, Covered, Newer
  <2> QED
    BY <2>7, <2>8, <2>9 DEF VolumeInv
<1> QED
  BY <1>1, <1>2

(* The list becomes the snapshots to delete, by ListingKeeps. *)
LEMMA ListSnapshotsPreserves ==
  ASSUME VolumeInv, ListSnapshots
  PROVE  VolumeInv'
<1> USE DEF ListSnapshots, spec, world
<1>1. policy # {}
  BY DEF VolumeInv, PassShape
<1>2. Retention \in Nat
  BY <1>1, RetentionType DEF VolumeInv
<1>3. Listed \subseteq Snapshot /\ toDelete' \subseteq Snapshot
  BY DEF VolumeInv, VolumeType, Listed, OldestSnapshots
<1>4. VolumeType'
  BY <1>3 DEF VolumeInv, VolumeType, AtMostOne, OneAtATime
<1>5. PassShape'
  BY <1>1 DEF VolumeInv, PassShape
<1>6. Retention' = Retention
  BY DEF Retention
<1>7. ASSUME pc' = "prune"
      PROVE  PassKeeps(snaps, toDelete', labels, Retention)
  <2>1. toDelete' # {} /\ toDelete' = OldestSnapshots(Listed, Cardinality(Listed) - Retention)
    BY <1>7 DEF Excess
  <2>2. /\ snaps \in SUBSET Snapshot /\ OneAtATime(snaps) /\ Covered(snaps, Retention)
        /\ labels \in Roles
    BY DEF VolumeInv, VolumeType, PruneInv
  <2>3. Listed = {s \in snaps : s.role = labels}
    BY DEF Listed
  <2> QED
    BY <1>2, <2>1, <2>2, <2>3, ListingKeeps
<1>8. PruneInv'
  <2>1. Covered(snaps, Retention)'
    BY <1>6 DEF VolumeInv, PruneInv, Covered, Newer
  <2>2. pc' = "prune" => PassKeeps(snaps, toDelete, labels, Retention)'
    BY <1>6, <1>7 DEF PassKeeps, Survivors
  <2> QED
    BY <2>1, <2>2 DEF PruneInv
<1> QED
  BY <1>4, <1>5, <1>8 DEF VolumeInv

(* What the deletion of one snapshot of the list does. *)
LEMMA DeleteNextEffect ==
  ASSUME VolumeInv, DeleteNext
  PROVE  \E s \in toDelete :
           \/ /\ \A t \in snaps : t.at # s.at
              /\ snaps' = snaps /\ toDelete' = {} /\ pc' = "finish"
           \/ /\ toDelete' = toDelete \ {s}
              /\ pc' = IF toDelete' = {} THEN "finish" ELSE "prune"
              /\ snaps' \subseteq Snapshot /\ OneAtATime(snaps')
              /\ Covered(snaps', Retention)
              /\ PassKeeps(snaps', toDelete', labels, Retention)
<1>1. PICK s \in OldestSnapshots(toDelete, 1) :
        LET found == {t \in snaps : t.at = s.at}
        IN  /\ snaps' = (snaps \ found) \cup {[t EXCEPT !.deleting = TRUE] : t \in found}
            /\ AndThen(IF found = {} THEN {} ELSE toDelete \ {s})
  BY DEF DeleteNext
<1>2. s \in toDelete
  BY DEF OldestSnapshots
<1> DEFINE found == {t \in snaps : t.at = s.at}
<1>3. CASE found = {}
  <2>1. \A t \in snaps : t.at # s.at
    BY <1>3
  <2>2. snaps' = snaps
    BY <1>1, <2>1
  <2>3. toDelete' = {} /\ pc' = "finish"
    BY <1>1, <1>3 DEF AndThen
  <2> QED
    BY <1>2, <2>1, <2>2, <2>3
<1>4. CASE found # {}
  <2>1. toDelete' = toDelete \ {s} /\ pc' = IF toDelete' = {} THEN "finish" ELSE "prune"
    BY <1>1, <1>4 DEF AndThen
  <2>2. /\ snaps \in SUBSET Snapshot /\ OneAtATime(snaps) /\ Covered(snaps, Retention)
        /\ labels \in Roles /\ PassKeeps(snaps, toDelete, labels, Retention)
    BY DEF VolumeInv, VolumeType, PruneInv, DeleteNext
  <2>3. Retention \in Nat
    BY RetentionType DEF VolumeInv, PassShape, DeleteNext
  <2>4. snaps' = Marked(snaps, s)
    BY <1>1 DEF Marked
  <2>5. /\ snaps' \in SUBSET Snapshot /\ OneAtATime(snaps')
        /\ Covered(snaps', Retention)
        /\ PassKeeps(snaps', toDelete \ {s}, labels, Retention)
    BY <1>2, <2>2, <2>3, <2>4, DeletingKeeps
  <2> QED
    BY <1>2, <2>1, <2>5
<1> QED
  BY <1>3, <1>4

(* One deletion of the loop, by DeleteNextEffect. *)
LEMMA DeleteNextPreserves ==
  ASSUME VolumeInv, DeleteNext
  PROVE  VolumeInv'
<1>0. /\ UNCHANGED <<role, policy, limit, node, clock, pvc, pvcSeen, pressure, answering,
                     job, copy, labels, faults>>
      /\ pc = "prune"
  BY DEF DeleteNext, spec
<1>1. policy # {} /\ node # "gone"
  BY <1>0 DEF VolumeInv, PassShape
<1>2. Retention' = Retention
  BY <1>0 DEF Retention
<1>3. PICK s \in toDelete :
        \/ /\ \A t \in snaps : t.at # s.at
           /\ snaps' = snaps /\ toDelete' = {} /\ pc' = "finish"
        \/ /\ toDelete' = toDelete \ {s}
           /\ pc' = IF toDelete' = {} THEN "finish" ELSE "prune"
           /\ snaps' \subseteq Snapshot /\ OneAtATime(snaps')
           /\ Covered(snaps', Retention)
           /\ PassKeeps(snaps', toDelete', labels, Retention)
  BY DeleteNextEffect
<1>4. /\ snaps' \subseteq Snapshot /\ OneAtATime(snaps') /\ toDelete' \subseteq Snapshot
      /\ pc' \in {"finish", "prune"} /\ (pc' # "prune" => toDelete' = {})
      /\ Covered(snaps', Retention)
      /\ pc' = "prune" => PassKeeps(snaps', toDelete', labels, Retention)
  BY <1>3 DEF VolumeInv, VolumeType, PruneInv
<1>5. VolumeType'
  BY <1>0, <1>4 DEF VolumeInv, VolumeType, AtMostOne, OneAtATime
<1>6. PassShape'
  BY <1>0, <1>1, <1>4 DEF PassShape
<1>7. PruneInv'
  <2>1. Covered(snaps, Retention)'
    BY <1>2, <1>4 DEF Covered, Newer
  <2>2. pc' = "prune" => PassKeeps(snaps, toDelete, labels, Retention)'
    BY <1>0, <1>2, <1>4 DEF PassKeeps, Survivors
  <2> QED
    BY <2>1, <2>2 DEF PruneInv
<1> QED
  BY <1>5, <1>6, <1>7 DEF VolumeInv

(* The end of a snapshot, or of the TaoNode. *)
LEMMA FinishPreserves ==
  ASSUME VolumeInv, Finish
  PROVE  VolumeInv'
<1> USE DEF Finish, Return, spec
<1>1. VolumeType'
  BY DEF VolumeInv, VolumeType, AtMostOne, OneAtATime
<1>2. PassShape'
  BY DEF VolumeInv, PassShape
<1>3. PruneInv'
  BY PruneFrame
<1> QED
  BY <1>1, <1>2, <1>3 DEF VolumeInv

(* Failing calls and restarts end the loop where it is. *)
LEMMA FaultsPreserve ==
  ASSUME VolumeInv, SnapshotCallFails \/ ReconcileFails
  PROVE  VolumeInv'
<1> USE DEF SnapshotCallFails, ReconcileFails, Return, CountFault, spec, world
<1>1. faults' \in 0 .. MaxFaults
  BY VolumeAssumption DEF VolumeInv, VolumeType
<1>2. VolumeType'
  BY <1>1 DEF VolumeInv, VolumeType, AtMostOne, OneAtATime
<1>3. PassShape'
  BY DEF VolumeInv, PassShape
<1>4. PruneInv'
  BY PruneFrame
<1> QED
  BY <1>2, <1>3, <1>4 DEF VolumeInv

(* The rest of the cluster, where it leaves the snapshots alone. *)
LEMMA ClusterPreserves ==
  ASSUME VolumeInv,
         \/ Tick \/ ClaimVolume \/ AdminGrows \/ DeliverPvc \/ UsageChanges
         \/ NodeAnswers \/ RoleChanges \/ DeleteNode
  PROVE  VolumeInv'
<1> USE DEF spec, world, local
<1>0. /\ UNCHANGED <<policy, limit, snaps, pc, job, copy, labels, toDelete>>
      /\ node' = "gone" => node = "gone"
  BY DEF Tick, ClaimVolume, AdminGrows, DeliverPvc, UsageChanges, NodeAnswers, RoleChanges,
     DeleteNode
<1>1. VolumeType'
  <2>1. CASE Tick
    <3>1. clock' \in 0 .. MaxClock
      BY <2>1, VolumeAssumption DEF VolumeInv, VolumeType, Tick
    <3> QED
      BY <2>1, <3>1 DEF VolumeInv, VolumeType, Tick, AtMostOne, OneAtATime
  <2>2. CASE ClaimVolume
    BY <2>2, VolumeAssumption DEF VolumeInv, VolumeType, ClaimVolume, AtMostOne, OneAtATime
  <2>3. CASE AdminGrows
    <3>1. faults' \in 0 .. MaxFaults
      BY <2>3, VolumeAssumption DEF VolumeInv, VolumeType, AdminGrows, CountFault
    <3>2. pvc' \subseteq Nat /\ AtMostOne(pvc')
      BY <2>3 DEF VolumeInv, VolumeType, AdminGrows, AtMostOne
    <3> QED
      BY <2>3, <3>1, <3>2 DEF VolumeInv, VolumeType, AdminGrows, AtMostOne, OneAtATime
  <2>4. CASE DeliverPvc
    BY <2>4 DEF VolumeInv, VolumeType, DeliverPvc, AtMostOne, OneAtATime
  <2>5. CASE UsageChanges
    <3>1. pressure' \in BOOLEAN
      BY <2>5 DEF UsageChanges
    <3> QED
      BY <2>5, <3>1 DEF VolumeInv, VolumeType, UsageChanges, AtMostOne, OneAtATime
  <2>8. CASE NodeAnswers
    <3>1. answering' \in BOOLEAN
      BY <2>8 DEF NodeAnswers
    <3> QED
      BY <2>8, <3>1 DEF VolumeInv, VolumeType, NodeAnswers, AtMostOne, OneAtATime
  <2>6. CASE RoleChanges
    <3>1. faults' \in 0 .. MaxFaults
      BY <2>6, VolumeAssumption DEF VolumeInv, VolumeType, RoleChanges, CountFault
    <3> QED
      BY <2>6, <3>1 DEF VolumeInv, VolumeType, RoleChanges, AtMostOne, OneAtATime
  <2>7. CASE DeleteNode
    BY <2>7 DEF VolumeInv, VolumeType, DeleteNode, AtMostOne, OneAtATime
  <2> QED
    BY <2>1, <2>2, <2>3, <2>4, <2>5, <2>6, <2>7, <2>8
<1>2. PassShape'
  BY <1>0 DEF VolumeInv, PassShape
<1>3. PruneInv'
  BY <1>0, PruneFrame
<1> QED
  BY <1>1, <1>2, <1>3 DEF VolumeInv

(* Collected are snapshots that were being deleted, or all of a TaoNode that is gone
   and no longer pruned. *)
LEMMA CollectionPreserves ==
  ASSUME VolumeInv, CollectSnapshot \/ CollectOwned
  PROVE  VolumeInv'
<1> USE DEF spec, local
<1>0. UNCHANGED <<role, policy, limit, node, clock, pvc, pvcSeen, pressure, answering,
                  pc, job, copy, labels, toDelete, faults>>
  BY DEF CollectSnapshot, CollectOwned
<1>1. Retention' = Retention
  BY <1>0 DEF Retention
<1>2. /\ snaps' \subseteq Snapshot /\ OneAtATime(snaps')
      /\ policy = {} => snaps' = {}
      /\ Covered(snaps', Retention)
      /\ pc = "prune" => PassKeeps(snaps', toDelete, labels, Retention)
  <2>0. snaps \in SUBSET Snapshot /\ OneAtATime(snaps) /\ Covered(snaps, Retention)
    BY DEF VolumeInv, VolumeType, PruneInv
  <2>1. CASE CollectSnapshot
    <3>1. PICK s \in snaps : s.deleting /\ snaps' = snaps \ {s}
      BY <2>1 DEF CollectSnapshot
    <3>2. policy # {} /\ Retention \in Nat
      BY RetentionType DEF VolumeInv, PassShape
    <3> QED
      BY <2>0, <3>1, <3>2, CollectingKeeps DEF VolumeInv, PruneInv
  <2>2. CASE CollectOwned
    <3>1. snaps' = {} /\ pc # "prune"
      BY <2>2 DEF CollectOwned, VolumeInv, PassShape
    <3> QED
      BY <3>1 DEF OneAtATime, Covered
  <2> QED
    BY <2>1, <2>2
<1>3. VolumeType'
  BY <1>0, <1>2 DEF VolumeInv, VolumeType, AtMostOne, OneAtATime
<1>4. PassShape'
  BY <1>0, <1>2 DEF VolumeInv, PassShape
<1>5. PruneInv'
  <2>1. Covered(snaps, Retention)'
    BY <1>1, <1>2 DEF Covered, Newer
  <2>2. pc' = "prune" => PassKeeps(snaps, toDelete, labels, Retention)'
    BY <1>0, <1>1, <1>2 DEF PassKeeps, Survivors
  <2> QED
    BY <2>1, <2>2 DEF PruneInv
<1> QED
  BY <1>3, <1>4, <1>5 DEF VolumeInv

----------------------------------------------------------------------------
(***************************************************************************)
(* The theorems                                                            *)
(***************************************************************************)

(* The invariant holds before the first snapshot. *)
LEMMA VolumeInvInit == Init => VolumeInv
<1> SUFFICES ASSUME Init PROVE VolumeInv
  OBVIOUS
<1> USE DEF Init
<1>1. [policy |-> policy, limit |-> limit] \in Settings
  BY VolumeAssumption
<1>2. 0 \in 0 .. MaxClock /\ 0 \in 0 .. MaxFaults
  BY VolumeAssumption
<1>3. VolumeType
  BY <1>1, <1>2 DEF VolumeType, AtMostOne, OneAtATime
<1>4. PassShape
  BY DEF PassShape
<1>5. PruneInv
  BY DEF PruneInv, Covered
<1> QED
  BY <1>3, <1>4, <1>5 DEF VolumeInv

(* Every step preserves the invariant, one case per action. *)
LEMMA VolumeInvStep == VolumeInv /\ [Next]_vars => VolumeInv'
<1> SUFFICES ASSUME VolumeInv, [Next]_vars PROVE VolumeInv'
  OBVIOUS
<1>1. CASE EvaluateDiskPressure
  BY <1>1, EvaluateDiskPressurePreserves
<1>2. CASE ExpandPVC
  BY <1>2, ExpandPVCPreserves
<1>3. CASE StartRestore \/ StartFinalization
  BY <1>3, BeginPreserves
<1>4. CASE CreateSnapshot
  BY <1>4, CreateSnapshotPreserves
<1>5. CASE ListSnapshots
  BY <1>5, ListSnapshotsPreserves
<1>6. CASE DeleteNext
  BY <1>6, DeleteNextPreserves
<1>7. CASE Finish
  BY <1>7, FinishPreserves
<1>8. CASE SnapshotCallFails \/ ReconcileFails
  BY <1>8, FaultsPreserve
<1>9. CASE \/ Tick \/ ClaimVolume \/ AdminGrows \/ DeliverPvc \/ UsageChanges
           \/ NodeAnswers \/ RoleChanges \/ DeleteNode
  BY <1>9, ClusterPreserves
<1>10. CASE CollectSnapshot \/ CollectOwned
  BY <1>10, CollectionPreserves
<1>11. CASE UNCHANGED vars
  <2> USE <1>11 DEF vars, spec, local, world
  <2>1. VolumeType'
    BY DEF VolumeInv, VolumeType, AtMostOne, OneAtATime
  <2>2. PassShape'
    BY DEF VolumeInv, PassShape
  <2>3. PruneInv'
    BY PruneFrame
  <2> QED
    BY <2>1, <2>2, <2>3 DEF VolumeInv
<1> QED
  BY <1>1, <1>2, <1>3, <1>4, <1>5, <1>6, <1>7, <1>8, <1>9, <1>10, <1>11
  DEF Next, Reconcile

(* The invariant of the reconcile of claim and snapshots, in all its interleavings
   with the cluster: types, the shape of a pruning pass, and what it keeps. *)
LEMMA VolumeInvAlways == Spec => []VolumeInv
  BY VolumeInvInit, VolumeInvStep, PTL DEF Spec

(* Every variable keeps its type: no two snapshots share a name, and the claim and
   its copies are one size each. *)
THEOREM TypeCorrect == Spec => []TypeOK
<1>1. VolumeInv => TypeOK
  <2> SUFFICES ASSUME VolumeInv PROVE TypeOK
    OBVIOUS
  <2>1. \A f \in {pvc, pvcSeen, copy} : f \subseteq Nat /\ Cardinality(f) <= 1
    BY OptionalSize DEF VolumeInv, VolumeType
  <2> QED
    BY <2>1 DEF VolumeInv, VolumeType, TypeOK, OneAtATime
<1> QED
  BY <1>1, VolumeInvAlways, PTL

(* pruneOldSnapshots never deletes one of the newest retentionCount snapshots of the
   labels it lists, whatever the list holds and wherever its loop is cut short. *)
THEOREM NewestKeptAlways == Spec => []NewestKept
<1>1. VolumeInv => NewestKept
  BY DEF VolumeInv, PruneInv, Covered, Newer, NewestKept
<1> QED
  BY <1>1, VolumeInvAlways, PTL

(* The step that ends a pass. *)
LEMMA LastDeletion ==
  ASSUME VolumeInv, [Next]_vars,
         NEW s \in toDelete, toDelete = {s}, toDelete' = {},
         NEW t \in snaps', t.at = s.at, t.deleting
  PROVE  Cardinality({u \in snaps' : u.role = labels /\ ~u.deleting}) <= Retention
<1> DEFINE left == {u \in snaps' : u.role = labels /\ ~u.deleting}
<1>1. pc = "prune" /\ policy # {} /\ Retention \in Nat
  BY RetentionType DEF VolumeInv, PassShape
<1>2. PassKeeps(snaps, toDelete, labels, Retention)
  BY <1>1 DEF VolumeInv, PruneInv
<1>3. CASE DeleteNext
  <2>1. PassKeeps(snaps', {}, labels, Retention)
    BY <1>3, DeleteNextEffect
  <2>2. Survivors(snaps', {}, labels) = left
    BY DEF Survivors
  <2>3. Cardinality(left) = Retention
    BY <2>1, <2>2 DEF PassKeeps
  <2> HIDE DEF left
  <2>4. Cardinality(left) <= Retention
    BY <1>1, <2>3
  <2> QED
    BY <2>4 DEF left
<1>4. CASE snaps' = snaps
  <2>1. Survivors(snaps, toDelete, labels) = left
    <3>1. \A u \in snaps : u.at = s.at => u = t
      BY <1>4 DEF VolumeInv, VolumeType, OneAtATime
    <3> QED
      BY <1>4, <3>1 DEF Survivors
  <2>2. Cardinality(left) = Retention
    BY <1>2, <2>1 DEF PassKeeps
  <2> HIDE DEF left
  <2>3. Cardinality(left) <= Retention
    BY <1>1, <2>2
  <2> QED
    BY <2>3 DEF left
<1>5. DeleteNext \/ snaps' = snaps
  BY <1>1 DEF Next, Reconcile, EvaluateDiskPressure, ExpandPVC, StartRestore, StartFinalization,
    Begin, CreateSnapshot, ListSnapshots, Finish, SnapshotCallFails, ReconcileFails, Tick,
    ClaimVolume, AdminGrows, DeliverPvc, UsageChanges, NodeAnswers, RoleChanges, DeleteNode,
    CollectSnapshot, CollectOwned, vars, spec, local, world
<1> QED
  BY <1>3, <1>4, <1>5

(* A pass of pruneOldSnapshots that deletes all it has listed leaves no more than
   retentionCount snapshots of those labels. *)
THEOREM RetentionEnforcedAlways == Spec => RetentionEnforced
<1>1. ASSUME VolumeInv, [Next]_vars
      PROVE  [\A s \in toDelete :
                /\ toDelete = {s} /\ toDelete' = {}
                /\ \E t \in snaps' : t.at = s.at /\ t.deleting
                => Cardinality({t \in snaps' : t.role = labels /\ ~t.deleting}) <= Retention]_vars
  BY <1>1, LastDeletion
<1> QED
  BY <1>1, VolumeInvAlways, PTL DEF Spec, RetentionEnforced

(* The updates of expandPVCPreemptively only ever grow the claim, and never above
   maxSize, although the size was read from a cache. *)
THEOREM ExpansionBoundedAlways == Spec => ExpansionBounded
<1>1. ASSUME VolumeInv, [Next]_vars, pc = "expand", pc' = "idle", pvc' # pvc,
             NEW old \in pvc, NEW new \in pvc'
      PROVE  old < new /\ \A max \in limit : new <= max
  <2>1. ExpandPVC
    BY <1>1 DEF Next, Reconcile, EvaluateDiskPressure, StartRestore, StartFinalization,
      Begin, CreateSnapshot, ListSnapshots, DeleteNext, Finish, SnapshotCallFails,
      ReconcileFails, Tick, ClaimVolume, AdminGrows, DeliverPvc, UsageChanges, NodeAnswers,
      RoleChanges,
      DeleteNode, CollectSnapshot, CollectOwned, vars, spec, local, world
  <2>2. PICK size \in copy, max \in limit :
          pvc' = IF copy = pvc /\ NewSize(size, max) >= size THEN {NewSize(size, max)} ELSE pvc
    BY <2>1 DEF ExpandPVC
  <2>3. /\ copy = pvc /\ NewSize(size, max) >= size
        /\ pvc' = {NewSize(size, max)} /\ new = NewSize(size, max)
    BY <1>1, <2>2
  <2>4. old = size /\ pvc = {size}
    BY <1>1, <2>3 DEF VolumeInv, VolumeType, AtMostOne
  <2>5. limit = {max} /\ max \in Nat /\ size \in Nat
    BY VolumeAssumption, <1>1 DEF VolumeInv, VolumeType
  <2>6. NewSize(size, max) \in Int /\ NewSize(size, max) <= max
    BY <2>5, NewSizeBounded
  <2>7. NewSize(size, max) # size
    BY <1>1, <2>3, <2>4
  <2> QED
    BY <2>3, <2>4, <2>5, <2>6, <2>7
<1>2. ASSUME VolumeInv, [Next]_vars
      PROVE  [pc = "expand" /\ pc' = "idle" /\ pvc' # pvc =>
                \A old \in pvc, new \in pvc' :
                  old < new /\ \A max \in limit : new <= max]_vars
  BY <1>1, <1>2
<1> QED
  BY <1>2, VolumeInvAlways, PTL DEF Spec, ExpansionBounded
============================================================================
