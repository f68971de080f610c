-------------------------- MODULE ByteKeyBTree_proofs --------------------------
(***************************************************************************)
(* The in-memory storage, for any finite set of keys, any times, any       *)
(* limits and any number of purging goroutines: the results of its         *)
(* operations add up to its size, a purge takes no young item, and it      *)
(* spares an old one only for its limit.                                   *)
(***************************************************************************)
EXTENDS ByteKeyBTree, FiniteSetTheorems, WellFoundedInduction, TLAPS

\* The timestamp of an item is the whole second of the time it was made with.
StampInv ==
  \A k \in Present : wrote[k] \in Time /\ tree[k] = Unix(wrote[k])

\* Between its two sections p holds old items, as many as its limit allows, and
\* an old item it does not hold is above all of those it holds.  What was written
\* since then is not bound by this.
DoomedBy(p) ==
  /\ \A k \in doomed[p] \cap Present : k \in fresh[p] \/ tree[k] <= Unix(cut[p])
  /\ limit[p] > 0 => Cardinality(doomed[p]) <= limit[p]
  /\ doomed[p] # {} =>
       \A x \in Present \ doomed[p] :
         \/ x \in fresh[p]
         \/ tree[x] > Unix(cut[p])
         \/ /\ limit[p] > 0 /\ Cardinality(doomed[p]) = limit[p]
            /\ \A k \in doomed[p] : k < x

DoomedInv == \A p \in Purger : DoomedBy(p)

-----------------------------------------------------------------------------
\* Seconds of later times are not smaller, and a second or more makes a difference.
LEMMA UnixOrder ==
  ASSUME NEW a \in Int, NEW b \in Int
  PROVE  /\ Unix(a) \in Int
         /\ a <= b => Unix(a) <= Unix(b)
         /\ a - b >= PerSecond => Unix(a) > Unix(b)
<1> DEFINE P == PerSecond
           q(x) == x \div P
           r(x) == x % P
<1>1. P \in Nat /\ P > 0
  BY BTreeAssumption
<1> HIDE DEF P
<1>2. ASSUME NEW x \in Int
      PROVE  q(x) \in Int /\ r(x) \in Int /\ x = P * q(x) + r(x) /\ 0 <= r(x) /\ r(x) < P
  BY <1>1
<1>3. q(a) \in Int /\ r(a) \in Int /\ a = P * q(a) + r(a) /\ 0 <= r(a) /\ r(a) < P
  BY <1>2
<1>4. q(b) \in Int /\ r(b) \in Int /\ b = P * q(b) + r(b) /\ 0 <= r(b) /\ r(b) < P
  BY <1>2
<1> HIDE DEF q, r
<1>5. ASSUME NEW m \in Int, NEW n \in Int, m > n PROVE P * m >= P * n + P
  BY <1>1, <1>5
<1>6. a <= b => q(a) <= q(b)
  BY <1>1, <1>3, <1>4, <1>5
<1>7. ASSUME a - b >= P PROVE q(a) > q(b)
  <2>1. CASE q(b) > q(a)
    <3>1. P * q(b) >= P * q(a) + P
      BY <1>3, <1>4, <1>5, <2>1
    <3> QED
      BY <1>1, <1>3, <1>4, <1>7, <3>1
  <2>2. CASE q(b) = q(a)
    <3>1. P * q(b) = P * q(a)
      BY <2>2
    <3> QED
      BY <1>1, <1>3, <1>4, <1>7, <3>1
  <2> QED
    BY <1>3, <1>4, <2>1, <2>2
<1> QED
  BY <1>3, <1>6, <1>7 DEF Unix, P, q

\* A nonempty set of numbers has a smallest one.
LEMMA Smallest ==
  ASSUME NEW T \in SUBSET Nat, T # {}
  PROVE  \E x \in T : \A y \in T : x <= y
<1>1. \E x \in T : \A y \in T : ~(<<y, x>> \in OpToRel(<, Nat))
  BY NatLessThanWellFounded, WFMin
<1>2. \A x, y \in Nat : y < x => <<y, x>> \in OpToRel(<, Nat)
  BY Zenon DEF OpToRel
<1>3. \E x \in T : \A y \in T : ~(y < x)
  BY <1>1, <1>2, Zenon
<1> QED
  BY <1>3

\* A nonempty finite set of numbers has a largest one: that with the fewest above.
LEMMA Largest ==
  ASSUME NEW T \in SUBSET Nat, T # {}, IsFiniteSet(T)
  PROVE  \E x \in T : \A y \in T : y <= x
<1> DEFINE Above(x) == {y \in T : y > x}
           C == {Cardinality(Above(x)) : x \in T}
<1>1. \A x \in T : IsFiniteSet(Above(x)) /\ Cardinality(Above(x)) \in Nat
  BY FS_Subset, FS_CardinalityType
<1>2. C \in SUBSET Nat /\ C # {}
  BY <1>1
<1>3. PICK n \in C : \A m \in C : n <= m
  BY <1>2, Smallest
<1>4. PICK x \in T : n = Cardinality(Above(x))
  OBVIOUS
<1>5. ASSUME NEW y \in T, y > x PROVE FALSE
  <2>0. ~(y > y) /\ \A z \in T : z > y => z > x
    BY <1>5
  <2>1. Above(y) \in SUBSET Above(x) /\ y \in Above(x) /\ y \notin Above(y)
    BY <1>5, <2>0, Zenon
  <2>2. Cardinality(Above(x)) <= Cardinality(Above(y))
    BY <1>3, <1>4
  <2> HIDE DEF Above
  <2>3. Cardinality(Above(y)) <= Cardinality(Above(x))
        /\ (Cardinality(Above(x)) = Cardinality(Above(y)) => Above(x) = Above(y))
    BY <1>1, <2>1, FS_Subset
  <2> QED
    BY <1>1, <2>1, <2>2, <2>3
<1> QED
  BY <1>5

\* The walk in the order of keys holds no more than its limit, and ends early only
\* when it holds as many: what it leaves out is above all of it.
LEMMA AscendLimits ==
  ASSUME NEW S \in SUBSET Key, NEW max \in Int, max > 0
  PROVE  /\ Cardinality(Ascend(S, max)) <= max
         /\ \A x \in S \ Ascend(S, max) :
              /\ Cardinality(Ascend(S, max)) = max
              /\ \A k \in Ascend(S, max) : k < x
<1> DEFINE Below(k) == {x \in S : x < k}
           A == Ascend(S, max)
<1>0. Key \in SUBSET Nat /\ IsFiniteSet(Key) /\ max \in Nat
  BY BTreeAssumption
<1>1. S \in SUBSET Nat /\ IsFiniteSet(S) /\ max \in Nat
  <2>1. IsFiniteSet(S)
    BY <1>0, FS_Subset
  <2> QED
    BY <1>0, <2>1
<1>2. \A k \in S : Below(k) \in SUBSET S /\ IsFiniteSet(Below(k)) /\ Cardinality(Below(k)) \in Nat
  BY <1>1, FS_Subset, FS_CardinalityType
<1>3. \A k \in S : k \in A <=> Cardinality(Below(k)) < max
  BY DEF Ascend
<1>4. A \in SUBSET S
  BY DEF Ascend
<1>5. ASSUME NEW k \in S, NEW l \in S, k <= l
      PROVE  Cardinality(Below(k)) <= Cardinality(Below(l))
  <2>1. \A x \in S : x < k => x < l
    BY <1>1, <1>5
  <2>2. Below(k) \in SUBSET Below(l)
    BY <2>1, Zenon
  <2> QED
    BY <1>2, <2>2, FS_Subset
<1>6. \A k \in S : k \notin Below(k) /\ \A x \in S : x \in Below(k) <=> x < k
  BY <1>1
<1> HIDE DEF Below, A
<1>7. IsFiniteSet(A) /\ Cardinality(A) \in Nat /\ A \in SUBSET Nat
  BY <1>1, <1>4, FS_Subset, FS_CardinalityType
<1>8. Cardinality(A) <= max
  <2>1. CASE A = {}
    BY <1>1, <2>1, FS_EmptySet
  <2>2. CASE A # {}
    <3>1. PICK m \in A : \A k \in A : k <= m
      BY <1>7, <2>2, Largest
    <3>2. m \in S /\ Cardinality(Below(m)) < max
      BY <1>3, <1>4, <3>1
    <3>3. A \in SUBSET (Below(m) \cup {m})
      <4>1. ASSUME NEW k \in A PROVE k < m \/ k = m
        BY <1>7, <3>1, <4>1
      <4> QED
        BY <1>4, <1>6, <3>2, <4>1
    <3>4. /\ IsFiniteSet(Below(m) \cup {m})
          /\ Cardinality(Below(m) \cup {m}) = Cardinality(Below(m)) + 1
      BY <1>2, <1>6, <3>2, FS_AddElement
    <3>5. Cardinality(A) <= Cardinality(Below(m)) + 1
      BY <3>3, <3>4, FS_Subset
    <3> QED
      BY <1>1, <1>2, <1>7, <3>2, <3>5
  <2> QED
    BY <2>1, <2>2
<1>9. ASSUME NEW x \in S \ A, NEW k \in A PROVE k < x
  <2>1. Cardinality(Below(k)) < max /\ ~(Cardinality(Below(x)) < max) /\ k \in S
    BY <1>3, <1>4, <1>9
  <2>2. x <= k => Cardinality(Below(x)) <= Cardinality(Below(k))
    BY <1>5, <2>1
  <2>3. Cardinality(Below(x)) \in Nat /\ Cardinality(Below(k)) \in Nat /\ k \in Nat /\ x \in Nat
    BY <1>1, <1>2, <2>1
  <2> QED
    BY <1>1, <2>1, <2>2, <2>3
<1>10. ASSUME S \ A # {} PROVE Cardinality(A) = max
  <2>1. PICK x \in S \ A : \A y \in S \ A : x <= y
    BY <1>1, <1>10, Smallest
  <2>2. ASSUME NEW y \in Below(x) PROVE y \in A
    <3>1. y \in S /\ y < x /\ x \in Nat /\ y \in Nat
      BY <1>1, <1>2, <1>6, <2>2
    <3>2. ~(x <= y)
      BY <3>1
    <3> QED
      BY <2>1, <3>1, <3>2
  <2>3. Cardinality(Below(x)) <= Cardinality(A)
    BY <1>7, <2>2, FS_Subset
  <2>4. Cardinality(Below(x)) \in Nat /\ ~(Cardinality(Below(x)) < max)
    BY <1>2, <1>3
  <2> QED
    BY <1>1, <1>7, <1>8, <2>3, <2>4
<1> QED
  BY <1>8, <1>9, <1>10 DEF A

-----------------------------------------------------------------------------
\* The whole invariant.
StorageInv == TypeOK /\ ResultsAddUp /\ StampInv /\ DoomedInv

\* Every set of keys is finite, and no larger than that of all of them.
LEMMA KeysFinite ==
  \A S \in SUBSET Key :
    IsFiniteSet(S) /\ Cardinality(S) \in Nat /\ Cardinality(S) \in 0..Cardinality(Key)
<1>1. IsFiniteSet(Key)
  BY BTreeAssumption
<1>2. Cardinality(Key) \in Nat
  BY <1>1, FS_CardinalityType
<1> SUFFICES ASSUME NEW S \in SUBSET Key
             PROVE  IsFiniteSet(S) /\ Cardinality(S) \in Nat /\ Cardinality(S) \in 0..Cardinality(Key)
  OBVIOUS
<1>3. IsFiniteSet(S) /\ Cardinality(S) <= Cardinality(Key)
  BY <1>1, FS_Subset
<1>4. Cardinality(S) \in Nat
  BY <1>3, FS_CardinalityType
<1> QED
  BY <1>2, <1>3, <1>4

\* Writing a batch adds the keys that were absent, and stamps its items.
LEMMA UpsertStores ==
  ASSUME StorageInv, NEW S \in SUBSET Key, NEW batch \in [S -> Time], UpsertMany(batch)
  PROVE  /\ tree' \in [Key -> Int \cup {NoItem}] /\ wrote' \in [Key -> Time \cup {NoItem}]
         /\ Present' = Present \cup S
         /\ ResultsAddUp' /\ balance' \in 0..Cardinality(Key)
         /\ StampInv'
         /\ \A k \in Key \ S : tree'[k] = tree[k]
<1>1. DOMAIN batch = S /\ \A k \in S : batch[k] \in Time /\ batch[k] \in Int
  BY BTreeAssumption
<1>2. \A k \in S : Unix(batch[k]) \in Int /\ Unix(batch[k]) # NoItem
  BY <1>1, UnixOrder, BTreeAssumption
<1>3. /\ tree' = [k \in Key |-> IF k \in S THEN Unix(batch[k]) ELSE tree[k]]
      /\ wrote' = [k \in Key |-> IF k \in S THEN batch[k] ELSE wrote[k]]
      /\ balance' = balance + Cardinality(S \ Present)
  BY <1>1 DEF UpsertMany
<1> HIDE DEF UpsertMany
<1>4. TypeOK /\ ResultsAddUp /\ StampInv
  BY DEF StorageInv
<1>5. tree' \in [Key -> Int \cup {NoItem}] /\ wrote' \in [Key -> Time \cup {NoItem}]
  BY <1>1, <1>2, <1>3, <1>4 DEF TypeOK
<1>6. Present' = Present \cup S /\ \A k \in Key \ S : tree'[k] = tree[k]
  BY <1>2, <1>3 DEF Present
<1>7. Present \in SUBSET Key
  BY DEF Present
<1>8. Cardinality(Present \cup S) = Cardinality(Present) + Cardinality(S \ Present)
  <2> DEFINE D == S \ Present
  <2>1. Present \cup S = Present \cup D /\ Present \cap D = {} /\ D \in SUBSET Key
    OBVIOUS
  <2> HIDE DEF D
  <2>2. Cardinality(Present \cup D) = Cardinality(Present) + Cardinality(D) - Cardinality({})
    BY <1>7, <2>1, KeysFinite, FS_Union
  <2>3. Cardinality(Present) \in Nat /\ Cardinality(D) \in Nat /\ Cardinality({}) = 0
    BY <1>7, <2>1, KeysFinite, FS_EmptySet
  <2>4. Cardinality(Present \cup D) = Cardinality(Present) + Cardinality(D)
    BY <2>2, <2>3
  <2> QED
    BY <2>1, <2>4 DEF D
<1>9. ResultsAddUp'
  BY <1>3, <1>4, <1>6, <1>8 DEF ResultsAddUp
<1>10. balance' \in 0..Cardinality(Key)
  BY <1>6, <1>7, <1>9, KeysFinite DEF ResultsAddUp
<1>11. StampInv'
  <2>1. ASSUME NEW k \in S PROVE wrote'[k] = batch[k] /\ tree'[k] = Unix(batch[k])
    BY <1>3, <2>1
  <2>2. ASSUME NEW k \in Key \ S PROVE wrote'[k] = wrote[k] /\ tree'[k] = tree[k]
    BY <1>3, <2>2
  <2> QED
    BY <1>1, <1>4, <1>6, <1>7, <2>1, <2>2 DEF StampInv, Unix
<1> QED
  BY <1>5, <1>6, <1>9, <1>10, <1>11

\* Deleting takes the keys that were there off the size.
LEMMA WithoutRemoves ==
  ASSUME StorageInv, NEW S \in SUBSET Key, Without(S)
  PROVE  /\ tree' \in [Key -> Int \cup {NoItem}] /\ wrote' \in [Key -> Time \cup {NoItem}]
         /\ Present' = Present \ S
         /\ balance' = balance - Cardinality(S \cap Present) =>
              ResultsAddUp' /\ balance' \in 0..Cardinality(Key)
         /\ StampInv'
         /\ \A k \in Key \ S : tree'[k] = tree[k]
<1>1. /\ tree' = [k \in Key |-> IF k \in S THEN NoItem ELSE tree[k]]
      /\ wrote' = [k \in Key |-> IF k \in S THEN NoItem ELSE wrote[k]]
  BY DEF Without
<1>2. TypeOK /\ ResultsAddUp /\ StampInv
  BY DEF StorageInv
<1>3. tree' \in [Key -> Int \cup {NoItem}] /\ wrote' \in [Key -> Time \cup {NoItem}]
  BY <1>1, <1>2 DEF TypeOK
<1>4. Present' = Present \ S /\ \A k \in Key \ S : tree'[k] = tree[k] /\ wrote'[k] = wrote[k]
  BY <1>1 DEF Present
<1>5. Present \in SUBSET Key
  BY DEF Present
<1>6. Cardinality(Present \ S) = Cardinality(Present) - Cardinality(S \cap Present)
  <2>1. Present \cap S = S \cap Present
    OBVIOUS
  <2> QED
    BY <1>5, <2>1, KeysFinite, FS_Difference
<1>7. ASSUME balance' = balance - Cardinality(S \cap Present) PROVE ResultsAddUp'
  BY <1>2, <1>4, <1>6, <1>7 DEF ResultsAddUp
<1>8. ASSUME ResultsAddUp' PROVE balance' \in 0..Cardinality(Key)
  BY <1>4, <1>5, <1>8, KeysFinite DEF ResultsAddUp
<1>9. StampInv'
  BY <1>2, <1>4, <1>5 DEF StampInv, Unix
<1> QED
  BY <1>3, <1>4, <1>7, <1>8, <1>9

\* A write keeps the invariant: what it stores is fresh to every purge under way.
LEMMA UpsertDooms ==
  ASSUME StorageInv, NEW S \in SUBSET Key, NEW batch \in [S -> Time], UpsertMany(batch)
  PROVE  StorageInv'
<1>1. /\ tree' \in [Key -> Int \cup {NoItem}] /\ wrote' \in [Key -> Time \cup {NoItem}]
      /\ Present' = Present \cup S
      /\ ResultsAddUp' /\ balance' \in 0..Cardinality(Key)
      /\ StampInv'
      /\ \A k \in Key \ S : tree'[k] = tree[k]
  BY UpsertStores
<1>2. /\ fresh' = [p \in Purger |-> IF doomed[p] = {} THEN {} ELSE fresh[p] \cup S]
      /\ UNCHANGED <<doomed, cut, limit>>
  BY DEF UpsertMany
<1>3. TypeOK /\ DoomedInv
  BY DEF StorageInv
<1>4. TypeOK'
  BY <1>1, <1>2, <1>3 DEF TypeOK
<1>5. ASSUME NEW p \in Purger PROVE DoomedBy(p)'
  <2>1. CASE doomed[p] = {}
    BY <1>2, <1>3, <2>1 DEF DoomedBy, DoomedInv
  <2>2. CASE doomed[p] # {}
    <3>1. fresh'[p] = fresh[p] \cup S
      BY <1>2, <2>2
    <3>2. \A k \in Present' : k \in fresh'[p] \/ (k \in Present /\ tree'[k] = tree[k])
      BY <1>1, <3>1 DEF Present
    <3>3. DoomedBy(p) /\ fresh[p] \subseteq fresh'[p]
      BY <1>3, <3>1 DEF DoomedInv
    <3> QED
      BY <1>2, <2>2, <3>2, <3>3 DEF DoomedBy, Unix
  <2> QED
    BY <2>1, <2>2
<1>6. DoomedInv'
  BY <1>5 DEF DoomedInv
<1> QED
  BY <1>1, <1>4, <1>6 DEF StorageInv

\* A deletion leaves a purge under way no other items to look at.
LEMMA DeleteDooms ==
  ASSUME StorageInv, NEW S \in SUBSET Key, Without(S), NEW p \in Purger,
         DoomedBy(p), doomed'[p] = doomed[p], cut'[p] = cut[p],
         limit'[p] = limit[p], fresh'[p] = fresh[p]
  PROVE  DoomedBy(p)'
<1>1. Present' \subseteq Present /\ \A k \in Present' : tree'[k] = tree[k]
  BY WithoutRemoves DEF Present
<1> QED
  BY <1>1 DEF DoomedBy, Unix

\* The section under the read lock establishes it for what the goroutine collects.
LEMMA CollectDooms ==
  ASSUME StorageInv, NEW p \in Purger, NEW now \in Time, NEW ttl \in Ttl, NEW max \in Limit,
         PurgeCollect(p, now, ttl, max)
  PROVE  StorageInv'
<1> DEFINE c == now - ttl
           E == Expired(Unix(c))
           A == Ascend(E, max)
<1>1. c \in Int /\ max \in Int /\ Unix(c) \in Int
  BY BTreeAssumption, UnixOrder
<1>2. /\ doomed' = [doomed EXCEPT ![p] = A]
      /\ cut' = [cut EXCEPT ![p] = c]
      /\ limit' = [limit EXCEPT ![p] = max]
      /\ UNCHANGED <<tree, wrote, fresh, balance>>
  BY DEF PurgeCollect
<1>3. E \in SUBSET Key /\ E \subseteq Present /\ A \in SUBSET E /\ (max <= 0 => A = E)
      /\ \A k \in Present : k \in E <=> tree[k] <= Unix(c)
  BY DEF Expired, Present, Ascend
<1>4. max > 0 =>
        /\ Cardinality(A) <= max
        /\ \A x \in E \ A : Cardinality(A) = max /\ \A k \in A : k < x
  BY <1>1, <1>3, AscendLimits
<1> HIDE DEF c, E, A
<1>5. TypeOK /\ DoomedInv /\ ResultsAddUp /\ StampInv
  BY DEF StorageInv
<1>6. TypeOK'
  <2>1. max \in Limit \cup {0} /\ A \in SUBSET Key
    BY <1>3
  <2> QED
    BY <1>1, <1>2, <1>5, <2>1 DEF TypeOK
<1>7. Present' = Present /\ ResultsAddUp' /\ StampInv'
  BY <1>2, <1>5 DEF Present, ResultsAddUp, StampInv, Unix
<1>8. ASSUME NEW q \in Purger PROVE DoomedBy(q)'
  <2>1. CASE q = p
    <3>1. doomed'[q] = A /\ cut'[q] = c /\ limit'[q] = max
      BY <1>2, <1>5, <2>1 DEF TypeOK
    <3>2. \A k \in Present : tree[k] \in Int
      BY <1>5 DEF Present, TypeOK
    <3>3. \A k \in A : tree[k] <= Unix(c)
      BY <1>3
    <3>4. \A x \in Present \ A :
            tree[x] > Unix(c) \/ (max > 0 /\ Cardinality(A) = max /\ \A k \in A : k < x)
      <4>1. ASSUME NEW x \in Present \ A, ~(tree[x] > Unix(c))
            PROVE  max > 0 /\ Cardinality(A) = max /\ \A k \in A : k < x
        <5>1. tree[x] <= Unix(c)
          BY <1>1, <3>2, <4>1
        <5>2. x \in E \ A
          BY <1>3, <4>1, <5>1
        <5>3. max > 0
          BY <1>1, <1>3, <5>2
        <5> QED
          BY <1>4, <5>2, <5>3
      <4> QED
        BY <4>1
    <3>5. UNCHANGED tree
      BY <1>2
    <3> QED
      BY <1>4, <1>7, <3>1, <3>3, <3>4, <3>5 DEF DoomedBy, Unix
  <2>2. CASE q # p
    <3>1. doomed'[q] = doomed[q] /\ cut'[q] = cut[q] /\ limit'[q] = limit[q]
          /\ fresh'[q] = fresh[q] /\ tree' = tree
      BY <1>2, <1>5, <2>2 DEF TypeOK
    <3>2. DoomedBy(q)
      BY <1>5 DEF DoomedInv
    <3> QED
      BY <1>7, <3>1, <3>2 DEF DoomedBy, Unix
  <2> QED
    BY <2>1, <2>2
<1>9. DoomedInv'
  BY <1>8 DEF DoomedInv
<1> QED
  BY <1>6, <1>7, <1>9 DEF StorageInv

\* A deletion of the writers keeps the invariant.
LEMMA DeleteManyKeeps ==
  ASSUME StorageInv, NEW S \in SUBSET Key, DeleteMany(S)
  PROVE  StorageInv'
<1>1. /\ Without(S) /\ balance' = balance - Cardinality(S \cap Present)
      /\ UNCHANGED <<doomed, cut, limit, fresh>>
  BY DEF DeleteMany, purgeVars
<1>2. TypeOK /\ DoomedInv
  BY DEF StorageInv
<1>3. /\ tree' \in [Key -> Int \cup {NoItem}] /\ wrote' \in [Key -> Time \cup {NoItem}]
      /\ ResultsAddUp' /\ balance' \in 0..Cardinality(Key) /\ StampInv'
  BY <1>1, WithoutRemoves
<1>4. TypeOK'
  BY <1>1, <1>2, <1>3 DEF TypeOK
<1>5. DoomedInv'
  BY <1>1, <1>2, DeleteDooms DEF DoomedInv
<1> QED
  BY <1>3, <1>4, <1>5 DEF StorageInv

\* An empty tree is in order, and adds up to nothing.
LEMMA ResetKeeps ==
  ASSUME StorageInv, Reset
  PROVE  StorageInv'
<1>1. Without(Key) /\ balance' = 0 /\ UNCHANGED <<doomed, cut, limit, fresh>> /\ Key \in SUBSET Key
  BY DEF Reset, purgeVars
<1>2. TypeOK /\ DoomedInv
  BY DEF StorageInv
<1>3. /\ tree' \in [Key -> Int \cup {NoItem}] /\ wrote' \in [Key -> Time \cup {NoItem}]
      /\ Present' = Present \ Key /\ StampInv'
  BY <1>1, WithoutRemoves
<1>4. Present' = {}
  BY <1>3 DEF Present
<1>5. ResultsAddUp' /\ balance' \in 0..Cardinality(Key)
  <2>1. Cardinality({}) = 0 /\ {} \in SUBSET Key
    BY FS_EmptySet
  <2>2. 0 \in 0..Cardinality(Key)
    BY <2>1, KeysFinite
  <2> QED
    BY <1>1, <1>4, <2>1, <2>2 DEF ResultsAddUp
<1>6. TypeOK'
  BY <1>1, <1>2, <1>3, <1>5 DEF TypeOK
<1>7. DoomedInv'
  BY <1>1, <1>2, DeleteDooms DEF DoomedInv
<1> QED
  BY <1>3, <1>5, <1>6, <1>7 DEF StorageInv

\* The section under the write lock ends a purge and leaves the others as they are.
LEMMA PurgeDeleteKeeps ==
  ASSUME StorageInv, NEW p \in Purger, PurgeDelete(p)
  PROVE  StorageInv'
<1>1. /\ Without(doomed[p]) /\ balance' = balance - Cardinality(doomed[p] \cap Present)
      /\ doomed' = [doomed EXCEPT ![p] = {}]
      /\ cut' = [cut EXCEPT ![p] = 0]
      /\ limit' = [limit EXCEPT ![p] = 0]
      /\ fresh' = [fresh EXCEPT ![p] = {}]
  BY DEF PurgeDelete
<1>2. TypeOK /\ DoomedInv /\ doomed[p] \in SUBSET Key
  BY DEF StorageInv, TypeOK
<1>3. /\ tree' \in [Key -> Int \cup {NoItem}] /\ wrote' \in [Key -> Time \cup {NoItem}]
      /\ ResultsAddUp' /\ balance' \in 0..Cardinality(Key) /\ StampInv'
  BY <1>1, <1>2, WithoutRemoves
<1>4. TypeOK'
  BY <1>1, <1>2, <1>3 DEF TypeOK
<1>5. ASSUME NEW q \in Purger PROVE DoomedBy(q)'
  <2>1. CASE q = p
    <3>1. doomed'[q] = {} /\ limit'[q] = 0
      BY <1>1, <1>2, <2>1 DEF TypeOK
    <3>2. ~(0 > 0)
      OBVIOUS
    <3> QED
      BY <3>1, <3>2 DEF DoomedBy
  <2>2. CASE q # p
    <3>1. doomed'[q] = doomed[q] /\ cut'[q] = cut[q] /\ limit'[q] = limit[q]
          /\ fresh'[q] = fresh[q]
      BY <1>1, <1>2, <2>2 DEF TypeOK
    <3> QED
      BY <1>1, <1>2, <3>1, DeleteDooms DEF DoomedInv
  <2> QED
    BY <2>1, <2>2
<1>6. DoomedInv'
  BY <1>5 DEF DoomedInv
<1> QED
  BY <1>3, <1>4, <1>6 DEF StorageInv

\* The invariant holds from the start and through every operation.
LEMMA StorageInvariant == Spec => []StorageInv
<1>1. ASSUME Init PROVE StorageInv
  <2>1. {} \in SUBSET Key /\ Cardinality({}) = 0
    BY FS_EmptySet
  <2>2. 0 \in 0..Cardinality(Key)
    BY <2>1, KeysFinite
  <2>3. Present = {}
    BY <1>1 DEF Init, Present
  <2>4. TypeOK
    BY <1>1, <2>2 DEF Init, TypeOK
  <2>5. ResultsAddUp /\ StampInv
    BY <1>1, <2>1, <2>3 DEF Init, ResultsAddUp, StampInv
  <2>6. DoomedInv
    <3>1. ASSUME NEW p \in Purger PROVE doomed[p] = {} /\ limit[p] = 0
      BY <1>1, <3>1 DEF Init
    <3>2. ~(0 > 0)
      OBVIOUS
    <3> QED
      BY <3>1, <3>2 DEF DoomedBy, DoomedInv
  <2> QED
    BY <2>4, <2>5, <2>6 DEF StorageInv
<1>2. ASSUME StorageInv, [Next]_vars PROVE StorageInv'
  <2>1. CASE UNCHANGED vars
    BY <1>2, <2>1 DEF vars, purgeVars, StorageInv, TypeOK, ResultsAddUp, StampInv, DoomedInv,
                      DoomedBy, Present, Unix
  <2>2. ASSUME NEW S \in SUBSET Key, NEW batch \in [S -> Time], UpsertMany(batch) PROVE StorageInv'
    BY <1>2, <2>2, UpsertDooms
  <2>3. ASSUME NEW k \in Key, NEW t \in Time, Upsert(k, t) PROVE StorageInv'
    <3>1. {k} \in SUBSET Key /\ [x \in {k} |-> t] \in [{k} -> Time]
      OBVIOUS
    <3> QED
      BY <2>2, <2>3, <3>1 DEF Upsert
  <2>4. ASSUME NEW S \in SUBSET Key, DeleteMany(S) PROVE StorageInv'
    BY <1>2, <2>4, DeleteManyKeeps
  <2>5. ASSUME NEW k \in Key, Delete(k) PROVE StorageInv'
    BY <2>4, <2>5 DEF Delete
  <2>6. CASE Reset
    BY <1>2, <2>6, ResetKeeps
  <2>7. ASSUME NEW p \in Purger, NEW now \in Time, NEW ttl \in Ttl, NEW max \in Limit,
               PurgeCollect(p, now, ttl, max)
        PROVE  StorageInv'
    BY <1>2, <2>7, CollectDooms
  <2>8. ASSUME NEW p \in Purger, PurgeDelete(p) PROVE StorageInv'
    BY <1>2, <2>8, PurgeDeleteKeeps
  <2> QED
    BY <1>2, <2>1, <2>2, <2>3, <2>4, <2>5, <2>6, <2>7, <2>8 DEF Next, Write, Purge
<1> QED
  BY <1>1, <1>2, PTL DEF Spec

-----------------------------------------------------------------------------
\* Every variable keeps its type: the results never add up to less than nothing or
\* to more than there are keys.
THEOREM TypeCorrect == Spec => []TypeOK
<1>1. StorageInv => TypeOK
  BY DEF StorageInv
<1> QED
  BY <1>1, StorageInvariant, PTL

\* What UpsertMany, DeleteMany and PurgeExpiredAt return adds up to Size, however
\* many purges are between their two sections.
THEOREM ResultsDoAddUp == Spec => []ResultsAddUp
<1>1. StorageInv => ResultsAddUp
  BY DEF StorageInv
<1> QED
  BY <1>1, StorageInvariant, PTL

\* The only step that ends the purge of p is its second section.
LEMMA PurgingIsDelete ==
  ASSUME TypeOK, [Next]_vars, NEW p \in Purger, Purging(p)
  PROVE  PurgeDelete(p) /\ Removed = doomed[p] \cap Present
<1>1. doomed[p] # {} /\ doomed'[p] = {}
  BY DEF Purging
<1>2. ASSUME UNCHANGED doomed PROVE FALSE
  BY <1>1, <1>2
<1>3. CASE UNCHANGED vars
  BY <1>2, <1>3 DEF vars, purgeVars
<1>4. CASE Write
  BY <1>2, <1>4 DEF Write, Upsert, UpsertMany, Delete, DeleteMany, Reset, purgeVars
<1>5. ASSUME NEW q \in Purger, NEW now \in Time, NEW ttl \in Ttl, NEW max \in Limit,
             PurgeCollect(q, now, ttl, max)
      PROVE  FALSE
  BY <1>1, <1>5 DEF PurgeCollect, TypeOK
<1>6. ASSUME NEW q \in Purger, PurgeDelete(q) PROVE q = p
  BY <1>1, <1>6 DEF PurgeDelete, TypeOK
<1>7. PurgeDelete(p)
  BY <1>3, <1>4, <1>5, <1>6 DEF Next, Purge
<1>8. \A k \in Key : tree'[k] = IF k \in doomed[p] THEN NoItem ELSE tree[k]
  BY <1>7 DEF PurgeDelete, Without
<1> QED
  BY <1>7, <1>8 DEF Removed, Present

\* A purge takes no item younger than its ttl by a second or more, except one
\* that was written between its two sections.
THEOREM PurgeTakesOnlyOld == Spec => PurgeTakesOld
<1>1. ASSUME StorageInv, [Next]_vars, NEW p \in Purger, Purging(p),
             NEW k \in Removed, wrote[k] - cut[p] >= PerSecond
      PROVE  k \in fresh[p]
  <2>1. TypeOK /\ StampInv /\ DoomedInv
    BY <1>1 DEF StorageInv
  <2>2. k \in doomed[p] /\ k \in Present
    BY <1>1, <2>1, PurgingIsDelete
  <2>3. wrote[k] \in Int /\ cut[p] \in Int /\ tree[k] = Unix(wrote[k])
    BY <2>1, <2>2, BTreeAssumption DEF StampInv, TypeOK
  <2>4. tree[k] > Unix(cut[p]) /\ tree[k] \in Int /\ Unix(cut[p]) \in Int
    BY <1>1, <2>3, UnixOrder
  <2>5. ~(tree[k] <= Unix(cut[p]))
    BY <2>4
  <2> QED
    BY <2>1, <2>2, <2>5 DEF DoomedInv, DoomedBy
<1>2. StorageInv /\ [Next]_vars =>
        [\A p \in Purger : Purging(p) =>
           \A k \in Removed : wrote[k] - cut[p] >= PerSecond => k \in fresh[p]]_vars
  BY <1>1
<1> QED
  BY <1>2, StorageInvariant, PTL DEF Spec, PurgeTakesOld

\* One purge keeps to its limit, and overlooks an old item only for one written meanwhile
\* or for smaller keys that used the limit up.
THEOREM PurgeOverlooksNoKey == Spec => PurgeOverlooksNone
<1>1. ASSUME StorageInv, [Next]_vars, NEW p \in Purger, Purging(p)
      PROVE  /\ limit[p] > 0 => Cardinality(Removed) <= limit[p]
             /\ \A x \in Present \ Removed : wrote[x] <= cut[p] =>
                  \/ x \in fresh[p]
                  \/ /\ limit[p] > 0 /\ Cardinality(doomed[p]) = limit[p]
                     /\ \A k \in Removed : k < x
  <2>1. TypeOK /\ StampInv /\ DoomedBy(p)
    BY <1>1 DEF StorageInv, DoomedInv
  <2>2. Removed = doomed[p] \cap Present /\ doomed[p] # {}
    BY <1>1, <2>1, PurgingIsDelete DEF Purging
  <2>3. doomed[p] \in SUBSET Key /\ limit[p] \in Int /\ cut[p] \in Int
    <3>1. doomed[p] \in SUBSET Key /\ limit[p] \in Limit \cup {0} /\ cut[p] \in Int
      BY <2>1 DEF TypeOK
    <3>2. Limit \cup {0} \subseteq Int
      BY BTreeAssumption
    <3> QED
      BY <3>1, <3>2
  <2>4. /\ Cardinality(Removed) <= Cardinality(doomed[p])
        /\ Cardinality(Removed) \in Nat /\ Cardinality(doomed[p]) \in Nat
    <3>1. IsFiniteSet(doomed[p]) /\ Removed \in SUBSET doomed[p]
      BY <2>2, <2>3, KeysFinite
    <3> QED
      BY <3>1, FS_Subset, FS_CardinalityType
  <2>5. limit[p] > 0 => Cardinality(Removed) <= limit[p]
    <3>1. limit[p] > 0 => Cardinality(doomed[p]) <= limit[p]
      BY <2>1 DEF DoomedBy
    <3> QED
      BY <2>3, <2>4, <3>1
  <2>6. ASSUME NEW x \in Present \ Removed, wrote[x] <= cut[p], x \notin fresh[p]
        PROVE  /\ limit[p] > 0 /\ Cardinality(doomed[p]) = limit[p]
               /\ \A k \in Removed : k < x
    <3>1. wrote[x] \in Int /\ tree[x] = Unix(wrote[x])
      BY <2>1, <2>6, BTreeAssumption DEF StampInv
    <3>2. tree[x] <= Unix(cut[p]) /\ tree[x] \in Int /\ Unix(cut[p]) \in Int
      BY <2>3, <2>6, <3>1, UnixOrder
    <3>3. ~(tree[x] > Unix(cut[p])) /\ x \in Present \ doomed[p]
      BY <2>2, <2>6, <3>2
    <3> QED
      BY <2>1, <2>2, <2>6, <3>3 DEF DoomedBy
  <2> QED
    BY <2>5, <2>6
<1>2. StorageInv /\ [Next]_vars =>
        [\A p \in Purger : Purging(p) =>
           /\ limit[p] > 0 => Cardinality(Removed) <= limit[p]
           /\ \A x \in Present \ Removed : wrote[x] <= cut[p] =>
                \/ x \in fresh[p]
                \/ /\ limit[p] > 0 /\ Cardinality(doomed[p]) = limit[p]
                   /\ \A k \in Removed : k < x]_vars
  BY <1>1
<1> QED
  BY <1>2, StorageInvariant, PTL DEF Spec, PurgeOverlooksNone
=============================================================================
