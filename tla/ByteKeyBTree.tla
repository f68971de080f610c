----------------------------- MODULE ByteKeyBTree -----------------------------
(***************************************************************************)
(* database/in_memory_storage/btree/btree_bytes.go: a map from byte keys   *)
(* to items with a timestamp, behind an RWMutex.  Every operation is one   *)
(* critical section, except PurgeExpiredAt, which collects under the read  *)
(* lock and deletes under the write lock.  Keys are numbers, whose order   *)
(* stands for that of bytes.Compare; times are ticks of 1/PerSecond s.     *)
(***************************************************************************)
EXTENDS Integers, FiniteSets

CONSTANTS Key,        \* non-empty byte keys
          NoItem,     \* the key is not in the tree
          Purger,     \* goroutines that call PurgeExpiredAt
          Time,       \* the times callers pass, in ticks
          Ttl,        \* the ttl callers pass, in ticks
          Limit,      \* the maxToDelete callers pass
          PerSecond   \* ticks of a second

ASSUME BTreeAssumption ==
  /\ Key \subseteq Nat /\ IsFiniteSet(Key)
  /\ NoItem \notin Int
  /\ Time \subseteq Int /\ Ttl \subseteq Int /\ Limit \subseteq Int
  /\ PerSecond \in Nat \ {0}

VARIABLES tree,     \* tree[k]: timestampUnixSeconds of the item of k
          wrote,    \* history: the time the item of k was made with
          doomed,   \* doomed[p]: itemsToDelete of p between its two sections
          cut,      \* cut[p]: now - ttl of that call, before it is made seconds
          limit,    \* limit[p]: maxToDelete of that call
          fresh,    \* history: keys written between the sections of p
          balance   \* history: sum of the results, new keys minus deleted ones

purgeVars == <<doomed, cut, limit, fresh>>
vars == <<tree, wrote, purgeVars, balance>>

TypeOK ==
  /\ tree \in [Key -> Int \cup {NoItem}]
  /\ wrote \in [Key -> Time \cup {NoItem}]
  /\ doomed \in [Purger -> SUBSET Key]
  /\ cut \in [Purger -> Int]
  /\ limit \in [Purger -> Limit \cup {0}]
  /\ fresh \in [Purger -> SUBSET Key]
  /\ balance \in 0..Cardinality(Key)

Init ==
  /\ tree = [k \in Key |-> NoItem]
  /\ wrote = [k \in Key |-> NoItem]
  /\ doomed = [p \in Purger |-> {}]
  /\ cut = [p \in Purger |-> 0]
  /\ limit = [p \in Purger |-> 0]
  /\ fresh = [p \in Purger |-> {}]
  /\ balance = 0

\* The keys Has and GetNodeItem find, ForEach visits and Size counts, each in one
\* read-locked section.
Present == {k \in Key : tree[k] # NoItem}

\* The timestamp both kinds of item are made with: time.Time.Unix, whole seconds
\* rounded down.
Unix(t) == t \div PerSecond

-----------------------------------------------------------------------------
(* Writers.  A nil item and an empty key are ignored.  Of the items of one  *)
(* key in a batch the last one stays, so a batch is a function.             *)

UpsertMany(batch) ==
  LET S == DOMAIN batch
  IN  /\ tree' = [k \in Key |-> IF k \in S THEN Unix(batch[k]) ELSE tree[k]]
      /\ wrote' = [k \in Key |-> IF k \in S THEN batch[k] ELSE wrote[k]]
      /\ fresh' = [p \in Purger |-> IF doomed[p] = {} THEN {} ELSE fresh[p] \cup S]
      /\ balance' = balance + Cardinality(S \ Present)
      /\ UNCHANGED <<doomed, cut, limit>>

Upsert(k, t) == UpsertMany([x \in {k} |-> t])

\* What the tree is without the keys S.
Without(S) ==
  /\ tree' = [k \in Key |-> IF k \in S THEN NoItem ELSE tree[k]]
  /\ wrote' = [k \in Key |-> IF k \in S THEN NoItem ELSE wrote[k]]

\* mutant: every given key is counted
DeleteManyCountsAll(S) ==
  /\ Without(S)
  /\ balance' = balance - Cardinality(S)
  /\ UNCHANGED purgeVars

\* tree.Delete compares keys only, and returns nil for an absent one.
DeleteMany(S) ==
  /\ Without(S)
  /\ balance' = balance - Cardinality(S \cap Present)
  /\ UNCHANGED purgeVars

Delete(k) == DeleteMany({k})

\* Reset returns nothing: whoever adds up results starts again.
Reset ==
  /\ Without(Key)
  /\ balance' = 0
  /\ UNCHANGED purgeVars

-----------------------------------------------------------------------------
(* PurgeExpiredAt *)

\* mutant: the second of the cutoff does not count
ExpiredBefore(cutoffUnix) == {k \in Present : tree[k] < cutoffUnix}

\* mutant: the ttl is rounded down separately, a second too early
ExpiredEarly(cutoffUnix) == {k \in Present : tree[k] <= cutoffUnix + 1}

\* What ListExpiredAt returns without a limit.
Expired(cutoffUnix) == {k \in Present : tree[k] <= cutoffUnix}

\* The walk in the order of keys ends when max items are found.
Ascend(S, max) ==
  {k \in S : max <= 0 \/ Cardinality({x \in S : x < k}) < max}

\* Under the read lock.  Nothing found: the call returns 0.
PurgeCollect(p, now, ttl, max) ==
  /\ doomed[p] = {} /\ ttl > 0
  /\ Expired(Unix(now - ttl)) # {}
  /\ doomed' = [doomed EXCEPT ![p] = Ascend(Expired(Unix(now - ttl)), max)]
  /\ cut' = [cut EXCEPT ![p] = now - ttl]
  /\ limit' = [limit EXCEPT ![p] = max]
  /\ UNCHANGED <<tree, wrote, fresh, balance>>

\* mutant: the result is the number of collected items
PurgeDeleteCountsCollected(p) ==
  /\ doomed[p] # {}
  /\ Without(doomed[p])
  /\ balance' = balance - Cardinality(doomed[p])
  /\ doomed' = [doomed EXCEPT ![p] = {}]
  /\ cut' = [cut EXCEPT ![p] = 0]
  /\ limit' = [limit EXCEPT ![p] = 0]
  /\ fresh' = [fresh EXCEPT ![p] = {}]

\* Under the write lock: the collected keys go, whatever they hold by now.
PurgeDelete(p) ==
  /\ doomed[p] # {}
  /\ Without(doomed[p])
  /\ balance' = balance - Cardinality(doomed[p] \cap Present)
  /\ doomed' = [doomed EXCEPT ![p] = {}]
  /\ cut' = [cut EXCEPT ![p] = 0]
  /\ limit' = [limit EXCEPT ![p] = 0]
  /\ fresh' = [fresh EXCEPT ![p] = {}]

-----------------------------------------------------------------------------
Write ==
  \/ \E k \in Key, t \in Time : Upsert(k, t)
  \/ \E S \in SUBSET Key : \E batch \in [S -> Time] : UpsertMany(batch)
  \/ \E k \in Key : Delete(k)
  \/ \E S \in SUBSET Key : DeleteMany(S)
  \/ Reset

Purge(p) ==
  \/ \E now \in Time, ttl \in Ttl, max \in Limit : PurgeCollect(p, now, ttl, max)
  \/ PurgeDelete(p)

Next == Write \/ \E p \in Purger : Purge(p)

Spec == Init /\ [][Next]_vars

-----------------------------------------------------------------------------
(* Properties. *)

\* The results add up to Size (btree_bytes.go:291) for whoever sums them since
\* the last Reset, however the purges of several goroutines overlap: a key two
\* of them collected is counted by one.
ResultsAddUp == balance = Cardinality(Present)

\* p's second section, and what it removes.
Purging(p) == doomed[p] # {} /\ doomed'[p] = {}
Removed == {k \in Present : tree'[k] = NoItem}

\* A purge removes no item that is younger than its ttl by a second or more,
\* unless it was written after the purge had collected the key: then the new
\* item is lost, whatever its time ("delete the keys whose last write is older
\* than now - ttl", btree_bytes.go:305).
PurgeTakesOld ==
  [][\A p \in Purger : Purging(p) =>
       \A k \in Removed : wrote[k] - cut[p] >= PerSecond => k \in fresh[p]]_vars

\* One purge keeps to its limit, and it overlooks an item that has reached its ttl
\* only if it was written meanwhile, or if the limit was used up by smaller keys.
\* (With a limit, smaller keys that keep expiring can hold a larger one off.)
PurgeOverlooksNone ==
  [][\A p \in Purger : Purging(p) =>
       /\ limit[p] > 0 => Cardinality(Removed) <= limit[p]
       /\ \A x \in Present \ Removed : wrote[x] <= cut[p] =>
            \/ x \in fresh[p]
            \/ /\ limit[p] > 0 /\ Cardinality(doomed[p]) = limit[p]
               /\ \A k \in Removed : k < x]_vars
=============================================================================
