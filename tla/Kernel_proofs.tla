----------------------------- MODULE Kernel_proofs -----------------------------
(***************************************************************************)
(* The kernel's shutdown hooks, for any names and priorities and any       *)
(* signals: whoever registers them when, they run in the order of priority *)
(* and, within a priority, of registration.                                *)
(***************************************************************************)
EXTENDS Kernel, SequenceTheorems, WellFoundedInduction, TLAPS

Phase == {"execution", "recover", "run", "stop", "locked", "hooks", "inHook",
          "stuck", "return", "exited", "crashed", "killed"}

\* The list of hooks was, or may have been, run to its end.
Over == {"return", "exited", "killed"}

\* e was registered.
Known(e) == \E i \in 1..Len(registered) : registered[i] = e

\* No two hooks have one name.
NamesOnce ==
  \A i, j \in 1..Len(registered) : registered[i].name = registered[j].name => i = j

\* Nothing runs before Kernel.Stop, and a hook that is called is on the list.
PhaseInv ==
  /\ main \in {"execution", "recover", "run", "stop", "locked"} => executed = <<>>
  /\ main \in {"inHook", "stuck"} => hooks # <<>>

\* The hooks on the list and those that ran are registered ones, as many as there are.
KnownInv ==
  /\ NamesOnce
  /\ \A i \in 1..Len(hooks) : Known(hooks[i])
  /\ \A i \in 1..Len(executed) : Known(executed[i])
  /\ Len(executed) + Len(hooks) = Len(registered)

Sorted(list) == \A i, j \in 1..Len(list) : i < j => Before(list[i], list[j])

\* Both lists are in order, also the one of hooks that came too late, and until the
\* list is over the hooks that ran are before those that wait.
OrderInv ==
  /\ Sorted(hooks) /\ Sorted(executed)
  /\ main \notin Over =>
       \A i \in 1..Len(executed), j \in 1..Len(hooks) : Before(executed[i], hooks[j])

KernelInv == TypeOK /\ PhaseInv /\ KnownInv /\ OrderInv

-----------------------------------------------------------------------------
\* A nonempty set of numbers has a smallest one.
LEMMA Smallest ==
  ASSUME NEW T \in SUBSET Nat, T # {}
  PROVE  \E x \in T : \A y \in T : x <= y
<1>1. \E x \in T : \A y \in T : ~(<<y, x>> \in OpToRel(<, Nat))
  BY NatLessThanWellFounded, WFMin
<1>2. \A x, y \in Nat : y < x => <<y, x>> \in OpToRel(<, Nat)
  BY Zenon DEF OpToRel
<1>3. \E x \in T : \A y \in T : ~(y < x)
  BY <1>1, <1>2, Zenon
<1> QED
  BY <1>3

\* Names and priorities of entries.
LEMMA EntryType ==
  ASSUME NEW e \in Entry
  PROVE  e.name \in Hook /\ e.priority \in Nat /\ e.priority \in Priority
BY KernelAssumption DEF Entry

\* The walk of RegisterShutdown ends: at the first entry of a larger number, or at
\* the end of the list.
LEMMA InsertAtEnds ==
  ASSUME NEW list \in Seq(Entry), NEW priority \in Nat
  PROVE  /\ InsertAt(list, priority) \in 1..Len(list) + 1
         /\ \A i \in 1..Len(list) :
              /\ i < InsertAt(list, priority) => list[i].priority <= priority
              /\ i = InsertAt(list, priority) => list[i].priority > priority
<1> DEFINE n == Len(list)
           End(k) == k = n + 1 \/ list[k].priority > priority
           T == {k \in 1..n + 1 : End(k)}
           Q(k) == End(k) /\ \A i \in 1..k - 1 : list[i].priority <= priority
<1>1. n \in Nat /\ \A i \in 1..n : list[i].priority \in Nat
  BY EntryType, ElementOfSeq
<1> HIDE DEF n
<1>2. T \in SUBSET Nat /\ T # {}
  <2>1. n + 1 \in 1..n + 1 /\ 1..n + 1 \subseteq Nat
    BY <1>1
  <2> QED
    BY <2>1
<1>3. PICK k \in T : \A y \in T : k <= y
  BY <1>2, Smallest
<1>4. ASSUME NEW i \in 1..k - 1 PROVE list[i].priority <= priority
  <2>1. i \in 1..n /\ i \in 1..n + 1 /\ ~(k <= i)
    BY <1>1, <1>3
  <2>2. ~(list[i].priority > priority)
    BY <1>3, <2>1
  <2> QED
    BY <1>1, <2>1, <2>2
<1>5. \E j \in 1..n + 1 : Q(j)
  BY <1>3, <1>4
<1> DEFINE m == CHOOSE j \in 1..n + 1 : Q(j)
<1>6. m \in 1..n + 1 /\ Q(m)
  <2> HIDE DEF Q
  <2> QED
    BY <1>5
<1>7. InsertAt(list, priority) = m
  BY DEF InsertAt, n
<1> HIDE DEF m
<1>8. ASSUME NEW i \in 1..n
      PROVE  /\ i < m => list[i].priority <= priority
             /\ i = m => list[i].priority > priority
  <2>1. i < m => i \in 1..m - 1
    BY <1>1, <1>6
  <2>2. i = m => m # n + 1
    BY <1>1
  <2> QED
    BY <1>6, <2>1, <2>2
<1> QED
  BY <1>6, <1>7, <1>8 DEF n

\* What a list is after an insertion at k.
LEMMA InsertProperties ==
  ASSUME NEW list \in Seq(Entry), NEW e \in Entry, NEW k \in 1..Len(list) + 1
  PROVE  LET new == SubSeq(list, 1, k - 1) \o <<e>> \o SubSeq(list, k, Len(list))
         IN  /\ new \in Seq(Entry)
             /\ Len(new) = Len(list) + 1
             /\ \A i \in 1..Len(list) + 1 :
                  /\ i < k => new[i] = list[i]
                  /\ i = k => new[i] = e
                  /\ i > k => new[i] = list[i - 1]
<1> DEFINE n == Len(list)
           a == SubSeq(list, 1, k - 1)
           b == a \o <<e>>
           c == SubSeq(list, k, n)
<1>1. n \in Nat /\ k \in Nat /\ k >= 1 /\ k <= n + 1 /\ \A i \in 1..n : list[i] \in Entry
  BY ElementOfSeq
<1>2. a \in Seq(Entry) /\ Len(a) = k - 1 /\ \A i \in 1..k - 1 : a[i] = list[i]
  <2>1. \A i \in 1..k - 1 : list[i] \in Entry
    BY <1>1
  <2>2. /\ a \in Seq(Entry) /\ Len(a) = IF 1 <= k - 1 THEN k - 1 - 1 + 1 ELSE 0
        /\ \A i \in 1..k - 1 - 1 + 1 : a[i] = list[1 + i - 1]
    BY <1>1, <2>1, SubSeqProperties
  <2> HIDE DEF a, n
  <2> QED
    BY <1>1, <2>2
<1>3. c \in Seq(Entry) /\ Len(c) = n - k + 1 /\ \A i \in 1..n - k + 1 : c[i] = list[k + i - 1]
  <2>1. \A i \in k..n : list[i] \in Entry
    BY <1>1
  <2>2. /\ c \in Seq(Entry) /\ Len(c) = IF k <= n THEN n - k + 1 ELSE 0
        /\ \A i \in 1..n - k + 1 : c[i] = list[k + i - 1]
    BY <1>1, <2>1, SubSeqProperties
  <2> HIDE DEF c, n
  <2> QED
    BY <1>1, <2>2
<1> HIDE DEF a, c, n
<1>4. <<e>> \in Seq(Entry) /\ Len(<<e>>) = 1 /\ <<e>>[1] = e
  OBVIOUS
<1>5. /\ b \in Seq(Entry) /\ Len(b) = k
      /\ \A i \in 1..k : b[i] = IF i <= k - 1 THEN list[i] ELSE e
  <2> DEFINE one == <<e>>
  <2> HIDE DEF one
  <2>0. one \in Seq(Entry) /\ Len(one) = 1 /\ one[1] = e /\ b = a \o one
    BY <1>4 DEF one
  <2>1. /\ b \in Seq(Entry) /\ Len(b) = Len(a) + Len(one)
        /\ \A i \in 1..Len(a) + Len(one) : b[i] = IF i <= Len(a) THEN a[i] ELSE one[i - Len(a)]
    BY <1>2, <2>0, ConcatProperties
  <2> HIDE DEF b
  <2>2. Len(a) + Len(one) = k
    BY <1>1, <1>2, <2>0
  <2>3. ASSUME NEW i \in 1..k PROVE b[i] = IF i <= k - 1 THEN list[i] ELSE e
    <3>1. CASE i <= k - 1
      BY <1>1, <1>2, <2>1, <2>2, <3>1
    <3>2. CASE i = k
      <4>1. ~(i <= Len(a)) /\ i - Len(a) = 1 /\ ~(i <= k - 1)
        BY <1>1, <1>2, <3>2
      <4> QED
        BY <2>0, <2>1, <2>2, <4>1
    <3> QED
      BY <1>1, <3>1, <3>2
  <2> QED
    BY <2>1, <2>2, <2>3
<1> HIDE DEF b
<1>6. /\ b \o c \in Seq(Entry) /\ Len(b \o c) = k + (n - k + 1)
      /\ \A i \in 1..k + (n - k + 1) : (b \o c)[i] = IF i <= k THEN b[i] ELSE c[i - k]
  <2>1. /\ b \o c \in Seq(Entry) /\ Len(b \o c) = Len(b) + Len(c)
        /\ \A i \in 1..Len(b) + Len(c) : (b \o c)[i] = IF i <= Len(b) THEN b[i] ELSE c[i - Len(b)]
    BY <1>3, <1>5, ConcatProperties
  <2> QED
    BY <1>3, <1>5, <2>1
<1>7. k + (n - k + 1) = n + 1
  BY <1>1
<1>8. ASSUME NEW i \in 1..n + 1
      PROVE  /\ i < k => (b \o c)[i] = list[i]
             /\ i = k => (b \o c)[i] = e
             /\ i > k => (b \o c)[i] = list[i - 1]
  <2>1. CASE i <= k
    BY <1>1, <1>5, <1>6, <1>7, <2>1
  <2>2. CASE i > k
    <3>1. i - k \in 1..n - k + 1 /\ k + (i - k) - 1 = i - 1
      BY <1>1, <2>2
    <3> QED
      BY <1>1, <1>3, <1>6, <1>7, <2>2, <3>1
  <2>3. i <= k \/ i > k
    BY <1>1
  <2> QED
    BY <2>1, <2>2, <2>3
<1> QED
  BY <1>6, <1>7, <1>8 DEF a, b, c, n

\* In a list without two entries of one name, an entry has one place.
LEMMA OnePlace ==
  ASSUME NEW list, NEW i \in 1..Len(list),
         \A j \in 1..Len(list) : list[j].name = list[i].name => j = i
  PROVE  (CHOOSE j \in 1..Len(list) : list[j] = list[i]) = i
<1> DEFINE m == CHOOSE j \in 1..Len(list) : list[j] = list[i]
<1>1. m \in 1..Len(list) /\ list[m] = list[i]
  OBVIOUS
<1> HIDE DEF m
<1>2. m = i
  BY <1>1
<1> QED
  BY <1>2 DEF m

\* Registering leaves the places of the known entries and gives the new one the last.
LEMMA RegisterIndex ==
  ASSUME KernelInv, NEW name \in Hook, NEW priority \in Priority,
         RegisterShutdown(name, priority)
  PROVE  LET new == [name |-> name, priority |-> priority]
         IN  /\ registered' \in Seq(Entry) /\ Len(registered') = Len(registered) + 1
             /\ NamesOnce' /\ Known(new)' /\ RegistrationIndex(new)' = Len(registered) + 1
             /\ \A e : Known(e) =>
                  /\ Known(e)' /\ RegistrationIndex(e)' = RegistrationIndex(e)
                  /\ RegistrationIndex(e) \in 1..Len(registered)
<1> DEFINE new == [name |-> name, priority |-> priority]
           n == Len(registered)
           after == registered'
<1>1. registered \in Seq(Entry) /\ NamesOnce /\ n \in Nat
  BY DEF KernelInv, TypeOK, KnownInv
<1>2. after = Append(registered, new) /\ \A i \in 1..n : registered[i].name # name
  BY DEF RegisterShutdown
<1>3. new \in Entry /\ new.name = name
  BY DEF Entry
<1> HIDE DEF new
<1>4. /\ after \in Seq(Entry) /\ Len(after) = n + 1 /\ after[n + 1] = new
      /\ \A i \in 1..n : after[i] = registered[i]
  BY <1>1, <1>2, <1>3
<1> HIDE DEF n, after
<1>5. \A i \in 1..n + 1 : i \in 1..n \/ i = n + 1
  BY <1>1
<1>6. n + 1 \in 1..n + 1 /\ \A i \in 1..n : i \in 1..n + 1 /\ i # n + 1
  BY <1>1
<1>7. \A i, j \in 1..n : registered[i].name = registered[j].name => i = j
  BY <1>1 DEF NamesOnce, n
<1>8. ASSUME NEW i \in 1..n + 1, NEW j \in 1..n + 1, after[i].name = after[j].name PROVE i = j
  BY <1>2, <1>3, <1>4, <1>5, <1>7, <1>8
<1>9. ASSUME NEW i \in 1..n + 1
      PROVE  (CHOOSE j \in 1..Len(after) : after[j] = after[i]) = i
  BY <1>4, <1>8, OnePlace
<1>10. ASSUME NEW i \in 1..n
       PROVE  (CHOOSE j \in 1..Len(registered) : registered[j] = registered[i]) = i
  BY <1>7, OnePlace DEF n
<1>11. NamesOnce'
  BY <1>4, <1>8 DEF NamesOnce, after
<1>12. Known(new)' /\ RegistrationIndex(new)' = n + 1
  BY <1>4, <1>6, <1>9 DEF Known, RegistrationIndex, after
<1>13. ASSUME NEW e, Known(e)
       PROVE  Known(e)' /\ RegistrationIndex(e)' = RegistrationIndex(e) /\ RegistrationIndex(e) \in 1..n
  <2>1. PICK i \in 1..n : registered[i] = e
    BY <1>13 DEF Known, n
  <2>2. RegistrationIndex(e) = i
    BY <1>10, <2>1 DEF RegistrationIndex
  <2>3. RegistrationIndex(e)' = i
    BY <1>4, <1>6, <1>9, <2>1 DEF RegistrationIndex, after
  <2>4. Known(e)'
    BY <1>4, <1>6, <2>1 DEF Known, after
  <2> QED
    BY <2>2, <2>3, <2>4
<1> QED
  BY <1>4, <1>11, <1>12, <1>13 DEF after, n, new

\* Registering keeps the list complete and in order.
LEMMA RegisterKeeps ==
  ASSUME KernelInv, NEW name \in Hook, NEW priority \in Priority,
         RegisterShutdown(name, priority)
  PROVE  KernelInv'
<1> DEFINE new == [name |-> name, priority |-> priority]
<1>0. PICK h, ran, list : h = hooks /\ ran = executed /\ list = hooks'
  OBVIOUS
<1> DEFINE k == InsertAt(h, priority)
           n == Len(h)
<1>1. /\ h \in Seq(Entry) /\ ran \in Seq(Entry)
      /\ TypeOK /\ PhaseInv /\ KnownInv /\ OrderInv
  BY <1>0 DEF KernelInv, TypeOK
<1>2. new \in Entry /\ new.priority = priority /\ priority \in Nat
  BY KernelAssumption DEF Entry
<1>3. /\ k \in 1..n + 1
      /\ \A i \in 1..n :
           /\ i < k => h[i].priority <= priority
           /\ i = k => h[i].priority > priority
  BY <1>1, <1>2, InsertAtEnds
<1>4. /\ list = SubSeq(h, 1, k - 1) \o <<new>> \o SubSeq(h, k, n)
      /\ UNCHANGED <<main, waiter, sig, notify, sent, kernelDone, executed>>
      /\ main \in {"execution", "recover", "run", "stop", "locked", "return"}
  BY <1>0, <1>1 DEF RegisterShutdown, Alive, TypeOK
<1> HIDE DEF new, k
<1>5. /\ list \in Seq(Entry) /\ Len(list) = n + 1
      /\ \A i \in 1..n + 1 :
           /\ i < k => list[i] = h[i]
           /\ i = k => list[i] = new
           /\ i > k => list[i] = h[i - 1]
  BY <1>1, <1>2, <1>3, <1>4, InsertProperties
<1> HIDE DEF n
<1>6. /\ registered' \in Seq(Entry) /\ Len(registered') = Len(registered) + 1
      /\ NamesOnce' /\ Known(new)' /\ RegistrationIndex(new)' = Len(registered) + 1
      /\ \A e : Known(e) =>
           /\ Known(e)' /\ RegistrationIndex(e)' = RegistrationIndex(e)
           /\ RegistrationIndex(e) \in 1..Len(registered)
  BY RegisterIndex DEF new
<1>7. n \in Nat /\ Len(ran) \in Nat /\ Len(registered) \in Nat
  BY <1>1 DEF TypeOK, n
<1>8. TypeOK'
  BY <1>0, <1>1, <1>4, <1>5, <1>6 DEF TypeOK
<1>9. PhaseInv'
  BY <1>1, <1>4 DEF PhaseInv
<1>10. ASSUME NEW i \in 1..n + 1
       PROVE  \/ i < k /\ i \in 1..n /\ list[i] = h[i]
              \/ i = k /\ list[i] = new
              \/ i > k /\ i - 1 \in 1..n /\ list[i] = h[i - 1] /\ i - 1 >= k
  <2>1. i < k => i \in 1..n
    BY <1>3, <1>7
  <2>2. i > k => i - 1 \in 1..n /\ i - 1 >= k
    BY <1>3, <1>7
  <2>3. i < k \/ i = k \/ i > k
    BY <1>3, <1>7
  <2>4. CASE i < k
    BY <1>5, <2>1, <2>4
  <2>5. CASE i = k
    BY <1>5, <2>5
  <2>6. CASE i > k
    BY <1>5, <2>2, <2>6
  <2> QED
    BY <2>3, <2>4, <2>5, <2>6
<1>11. /\ \A i \in 1..n : Known(h[i]) /\ h[i].priority \in Nat
       /\ \A i \in 1..Len(ran) : Known(ran[i])
  <2>1. \A i \in 1..n : h[i].priority \in Nat
    BY <1>1, EntryType, ElementOfSeq DEF n
  <2> QED
    BY <1>0, <1>1, <2>1 DEF KnownInv, n
<1>12. KnownInv'
  <2>1. ASSUME NEW i \in 1..n + 1 PROVE Known(list[i])'
    BY <1>6, <1>10, <1>11
  <2>2. \A i \in 1..Len(ran) : Known(ran[i])'
    BY <1>6, <1>11
  <2>3. Len(ran) + Len(list) = Len(registered')
    <3>1. Len(ran) + n = Len(registered)
      BY <1>0, <1>1 DEF KnownInv, n
    <3> QED
      BY <1>5, <1>6, <1>7, <3>1
  <2>4. hooks' = list /\ executed' = ran
    BY <1>0, <1>4
  <2> QED
    BY <1>5, <1>6, <2>1, <2>2, <2>3, <2>4 DEF KnownInv
<1>13. ASSUME NEW e, NEW f, Known(e), Known(f), Before(e, f) PROVE Before(e, f)'
  BY <1>6, <1>13 DEF Before
<1>14. ASSUME NEW i \in 1..n, i < k PROVE Before(h[i], new)'
  <2>1. h[i].priority <= new.priority
    BY <1>2, <1>3, <1>14
  <2>2. RegistrationIndex(h[i])' < RegistrationIndex(new)'
    BY <1>6, <1>7, <1>11
  <2>3. h[i].priority < new.priority \/ h[i].priority = new.priority
    BY <1>2, <1>11, <2>1
  <2> QED
    BY <2>2, <2>3 DEF Before
<1>15. ASSUME NEW i \in 1..n, i >= k PROVE Before(new, h[i])'
  <2>1. k \in 1..n /\ h[k].priority > priority
    BY <1>3, <1>7, <1>15
  <2>2. k < i => Before(h[k], h[i])
    BY <1>0, <1>1, <2>1 DEF OrderInv, Sorted, n
  <2>3. h[k].priority <= h[i].priority
    <3>1. CASE k < i
      BY <1>11, <2>1, <2>2, <3>1 DEF Before
    <3>2. CASE k = i
      BY <1>11, <2>1, <3>2
    <3> QED
      BY <1>3, <1>7, <1>15, <3>1, <3>2
  <2>4. new.priority < h[i].priority
    BY <1>2, <1>11, <2>1, <2>3
  <2> QED
    BY <2>4 DEF Before
<1>16. ASSUME NEW i \in 1..n + 1, NEW j \in 1..n + 1, i < j PROVE Before(list[i], list[j])'
  <2>0. \A a, b \in 1..n : a < b => Before(h[a], h[b])'
    <3>1. \A a, b \in 1..n : a < b => Before(h[a], h[b])
      BY <1>0, <1>1 DEF OrderInv, Sorted, n
    <3> QED
      BY <1>11, <1>13, <3>1
  <2>1. CASE j < k
    <3>1. i < k
      BY <1>3, <1>7, <1>16, <2>1
    <3>2. i \in 1..n /\ j \in 1..n /\ list[i] = h[i] /\ list[j] = h[j]
      BY <1>3, <1>5, <1>7, <2>1, <3>1
    <3> QED
      BY <1>16, <2>0, <3>2
  <2>2. CASE j = k
    <3>1. i < k /\ i \in 1..n
      BY <1>3, <1>7, <1>16, <2>2
    <3> QED
      BY <1>5, <1>14, <2>2, <3>1
  <2>3. CASE j > k /\ i = k
    <3>1. j - 1 \in 1..n /\ j - 1 >= k
      BY <1>3, <1>7, <2>3
    <3> QED
      BY <1>5, <1>15, <2>3, <3>1
  <2>4. CASE j > k /\ i < k
    <3>1. i \in 1..n /\ j - 1 \in 1..n /\ i < j - 1
      BY <1>3, <1>7, <2>4
    <3> QED
      BY <1>5, <2>0, <2>4, <3>1
  <2>5. CASE j > k /\ i > k
    <3>1. i - 1 \in 1..n /\ j - 1 \in 1..n /\ i - 1 < j - 1
      BY <1>3, <1>7, <1>16, <2>5
    <3> QED
      BY <1>5, <2>0, <2>5, <3>1
  <2>6. j < k \/ j = k \/ (j > k /\ (i = k \/ i < k \/ i > k))
    BY <1>3, <1>7
  <2> QED
    BY <2>1, <2>2, <2>3, <2>4, <2>5, <2>6
<1>17. OrderInv'
  <2>1. hooks' = list /\ executed' = ran
    BY <1>0, <1>4
  <2>2. Sorted(hooks)'
    BY <1>5, <1>16, <2>1 DEF Sorted
  <2>3. \A i, j \in 1..Len(ran) : i < j => Before(ran[i], ran[j])
    BY <1>0, <1>1 DEF OrderInv, Sorted
  <2>4. Sorted(executed)'
    BY <1>11, <1>13, <2>1, <2>3 DEF Sorted
  <2>5. main' \notin Over => Len(executed') = 0
    BY <1>1, <1>4 DEF PhaseInv, Over
  <2>6. 1..0 = {}
    OBVIOUS
  <2> QED
    BY <2>2, <2>4, <2>5, <2>6 DEF OrderInv
<1> QED
  BY <1>8, <1>9, <1>12, <1>17 DEF KernelInv

\* A hook that returns goes from the head of one list to the end of the other.
LEMMA HookReturnsKeeps ==
  ASSUME KernelInv, HookReturns
  PROVE  KernelInv'
<1>0. PICK h, ran, rest, more :
        h = hooks /\ ran = executed /\ rest = hooks' /\ more = executed'
  OBVIOUS
<1> DEFINE n == Len(h)
           m == Len(ran)
<1>1. /\ h \in Seq(Entry) /\ ran \in Seq(Entry) /\ h # <<>>
      /\ TypeOK /\ PhaseInv /\ KnownInv /\ OrderInv
  BY <1>0 DEF KernelInv, TypeOK, PhaseInv, HookReturns
<1>2. /\ main = "inHook" /\ main' = "hooks"
      /\ more = Append(ran, Head(h)) /\ rest = Tail(h)
      /\ UNCHANGED <<waiter, sig, notify, sent, kernelDone, registered>>
  BY <1>0 DEF HookReturns
<1>3. n \in Nat /\ n >= 1 /\ m \in Nat /\ Head(h) = h[1] /\ h[1] \in Entry
  BY <1>1
<1>4. /\ rest \in Seq(Entry) /\ Len(rest) = n - 1
      /\ \A i \in 1..n - 1 : rest[i] = h[i + 1]
  BY <1>1, <1>2, HeadTailProperties
<1>5. /\ more \in Seq(Entry) /\ Len(more) = m + 1
      /\ more[m + 1] = h[1] /\ \A i \in 1..m : more[i] = ran[i]
  BY <1>1, <1>2, <1>3
<1>6. /\ \A i \in 1..n : Known(h[i])
      /\ \A i \in 1..m : Known(ran[i])
      /\ m + n = Len(registered)
      /\ \A i, j \in 1..n : i < j => Before(h[i], h[j])
      /\ \A i, j \in 1..m : i < j => Before(ran[i], ran[j])
      /\ \A i \in 1..m, j \in 1..n : Before(ran[i], h[j])
  BY <1>0, <1>1, <1>2 DEF KnownInv, OrderInv, Sorted, Over
<1>7. \A e, f : (Known(e) => Known(e)') /\ (Before(e, f) => Before(e, f)')
  BY <1>2 DEF Known, Before, RegistrationIndex
<1> HIDE DEF n, m
<1>8. 1 \in 1..n /\ \A i \in 1..n - 1 : i + 1 \in 1..n /\ 1 < i + 1
  BY <1>3
<1>9. \A i \in 1..m + 1 : i \in 1..m \/ i = m + 1
  BY <1>3
<1>10. TypeOK'
  BY <1>0, <1>1, <1>2, <1>4, <1>5 DEF TypeOK
<1>11. PhaseInv'
  BY <1>2 DEF PhaseInv
<1>12. KnownInv'
  <2>1. NamesOnce'
    BY <1>1, <1>2 DEF KnownInv, NamesOnce
  <2>2. \A i \in 1..n - 1 : Known(rest[i])'
    BY <1>4, <1>6, <1>7, <1>8
  <2>3. \A i \in 1..m + 1 : Known(more[i])'
    BY <1>5, <1>6, <1>7, <1>8, <1>9
  <2>4. (m + 1) + (n - 1) = Len(registered')
    BY <1>2, <1>3, <1>6
  <2> QED
    BY <1>0, <1>4, <1>5, <2>1, <2>2, <2>3, <2>4 DEF KnownInv
<1>13. ASSUME NEW i \in 1..n - 1, NEW j \in 1..n - 1, i < j PROVE Before(rest[i], rest[j])'
  <2>1. i + 1 < j + 1
    BY <1>3, <1>13
  <2> QED
    BY <1>4, <1>6, <1>7, <1>8, <2>1
<1>14. ASSUME NEW i \in 1..m + 1, NEW j \in 1..m + 1, i < j PROVE Before(more[i], more[j])'
  <2>1. i \in 1..m
    BY <1>3, <1>14
  <2>2. CASE j \in 1..m
    BY <1>5, <1>6, <1>7, <1>14, <2>1, <2>2
  <2>3. CASE j = m + 1
    BY <1>5, <1>6, <1>7, <1>8, <2>1, <2>3
  <2> QED
    BY <1>9, <2>2, <2>3
<1>15. ASSUME NEW i \in 1..m + 1, NEW j \in 1..n - 1 PROVE Before(more[i], rest[j])'
  <2>1. CASE i \in 1..m
    BY <1>4, <1>5, <1>6, <1>7, <1>8, <2>1
  <2>2. CASE i = m + 1
    BY <1>4, <1>5, <1>6, <1>7, <1>8, <2>2
  <2> QED
    BY <1>9, <2>1, <2>2
<1>16. OrderInv'
  <2>1. Sorted(hooks)' /\ Sorted(executed)'
    BY <1>0, <1>4, <1>5, <1>13, <1>14 DEF Sorted
  <2>2. \A i \in 1..Len(executed'), j \in 1..Len(hooks') : Before(executed[i], hooks[j])'
    BY <1>0, <1>4, <1>5, <1>15
  <2> QED
    BY <2>1, <2>2 DEF OrderInv
<1> QED
  BY <1>10, <1>11, <1>12, <1>16 DEF KernelInv

\* The other steps of RunKernel, the signal goroutine and the signals leave both
\* lists alone, and a list that is over stays so.
LEMMA OtherKeeps ==
  ASSUME KernelInv, UNCHANGED hookVars, main \in Over => main' \in Over
  PROVE  KnownInv' /\ OrderInv'
<1>1. KnownInv /\ OrderInv /\ UNCHANGED <<hooks, registered, executed>>
  BY DEF KernelInv, hookVars
<1>2. KnownInv'
  BY <1>1 DEF KnownInv, NamesOnce, Known
<1>3. OrderInv'
  <2>1. PICK h, ran : h = hooks /\ ran = executed
    OBVIOUS
  <2>2. \A e, f : Before(e, f) => Before(e, f)'
    BY <1>1 DEF Before, RegistrationIndex
  <2>3. /\ \A i, j \in 1..Len(h) : i < j => Before(h[i], h[j])'
        /\ \A i, j \in 1..Len(ran) : i < j => Before(ran[i], ran[j])'
        /\ main \notin Over =>
             \A i \in 1..Len(ran), j \in 1..Len(h) : Before(ran[i], h[j])'
    BY <1>1, <2>1, <2>2 DEF OrderInv, Sorted
  <2>4. hooks' = h /\ executed' = ran
    BY <1>1, <2>1
  <2> QED
    BY <2>3, <2>4 DEF OrderInv, Sorted
<1> QED
  BY <1>2, <1>3

\* Every step of the kernel keeps the invariant.
LEMMA KernelInductive == KernelInv /\ [Next]_vars => KernelInv'
<1> SUFFICES ASSUME KernelInv, [Next]_vars PROVE KernelInv'
  OBVIOUS
<1>0. TypeOK /\ PhaseInv
  BY DEF KernelInv
<1>1. CASE UNCHANGED vars
  <2>1. TypeOK' /\ PhaseInv' /\ UNCHANGED hookVars /\ main' = main
    BY <1>0, <1>1 DEF vars, hookVars, TypeOK, PhaseInv
  <2> QED
    BY <2>1, OtherKeeps DEF KernelInv
<1>2. ASSUME NEW name \in Hook, NEW priority \in Priority, RegisterShutdown(name, priority)
      PROVE  KernelInv'
  BY <1>2, RegisterKeeps
<1>3. CASE HookReturns
  BY <1>3, HookReturnsKeeps
<1>4. CASE \/ ExecutionReturns \/ ExecutionFails \/ RunReturns \/ StopSupervisors
           \/ StopSupervisorsFails \/ CallHook \/ HookPanics \/ HookBlocks \/ HooksDone \/ StopReturns
  <2>1. /\ UNCHANGED hookVars /\ main' \in Phase
        /\ UNCHANGED <<waiter, sig, notify, sent, kernelDone>>
        /\ main \in Over => main' \in Over
    BY <1>4 DEF ExecutionReturns, ExecutionFails, RunReturns, StopSupervisors,
                StopSupervisorsFails, CallHook, HookPanics, HookBlocks, HooksDone, StopReturns, Phase, Over
  <2>2. TypeOK'
    BY <1>0, <2>1 DEF TypeOK, hookVars, Phase
  <2>3. PhaseInv'
    BY <1>0, <1>4 DEF ExecutionReturns, ExecutionFails, RunReturns, StopSupervisors,
                StopSupervisorsFails, CallHook, HookPanics, HookBlocks, HooksDone, StopReturns, PhaseInv, hookVars
  <2> QED
    BY <2>1, <2>2, <2>3, OtherKeeps DEF KernelInv
<1>5. CASE Recover \/ Waiter
  <2>1. /\ UNCHANGED hookVars
        /\ main' = main \/ (main = "recover" /\ main' = "stop")
        /\ waiter' \in {"wait", "cancel", "unsubscribe", "ended"}
        /\ sig' \in 0..1 /\ notify' \in BOOLEAN /\ kernelDone' \in BOOLEAN /\ sent' = sent
    <3>1. CASE Recover
      BY <1>0, <3>1 DEF Recover, TypeOK
    <3>2. CASE ReceiveSignal
      BY <1>0, <3>2 DEF ReceiveSignal, TypeOK
    <3>3. CASE CancelContext
      BY <1>0, <3>3 DEF CancelContext, TypeOK
    <3>4. CASE Unsubscribe
      BY <1>0, <3>4 DEF Unsubscribe, TypeOK
    <3> QED
      BY <1>5, <3>1, <3>2, <3>3, <3>4 DEF Waiter
  <2>2. TypeOK' /\ PhaseInv' /\ (main \in Over => main' \in Over)
    BY <1>0, <2>1 DEF TypeOK, PhaseInv, hookVars, Over
  <2> QED
    BY <2>1, <2>2, OtherKeeps DEF KernelInv
<1>6. CASE Signal
  <2>1. /\ UNCHANGED <<hookVars, waiter, notify, kernelDone>>
        /\ main' \in {main, "killed"}
        /\ sig' \in 0..1 /\ sent' \in 0..MaxSignals
    BY <1>0, <1>6, KernelAssumption DEF Signal, TypeOK
  <2>2. TypeOK' /\ PhaseInv' /\ (main \in Over => main' \in Over)
    BY <1>0, <2>1 DEF TypeOK, PhaseInv, hookVars, Over
  <2> QED
    BY <2>1, <2>2, OtherKeeps DEF KernelInv
<1> QED
  BY <1>1, <1>2, <1>3, <1>4, <1>5, <1>6 DEF Next, Main

\* It holds of the kernel from the start.
LEMMA KernelInvariant == Spec => []KernelInv
<1>1. ASSUME Init PROVE KernelInv
  <2>1. 0 \in 0..1 /\ 0 \in 0..MaxSignals /\ <<>> \in Seq(Entry) /\ 1..0 = {}
    BY KernelAssumption
  <2>2. Len(hooks) = 0 /\ Len(executed) = 0 /\ Len(registered) = 0
    BY <1>1 DEF Init
  <2>3. TypeOK /\ PhaseInv
    BY <1>1, <2>1 DEF Init, TypeOK, PhaseInv
  <2>4. KnownInv
    BY <2>1, <2>2 DEF KnownInv, NamesOnce
  <2>5. OrderInv
    BY <2>1, <2>2 DEF OrderInv, Sorted
  <2> QED
    BY <2>3, <2>4, <2>5 DEF KernelInv
<1> QED
  BY <1>1, KernelInductive, PTL DEF Spec

-----------------------------------------------------------------------------
\* Every variable keeps its type: the channel of signals holds one at most, and a
\* hook that returns is taken off a list that has one.
THEOREM TypeCorrect == Spec => []TypeOK
<1>1. KernelInv => TypeOK
  BY DEF KernelInv
<1> QED
  BY <1>1, KernelInvariant, PTL

\* Each registered hook is on the list or has run, and all of them are in the order
\* of priority and registration; only those that came after the end are not.
THEOREM HooksRunInOrder == Spec => []HooksInOrder
<1>1. ASSUME KernelInv PROVE HooksInOrder
  <2> DEFINE late == main \in Over /\ executed # <<>>
             both == executed \o hooks
             m == Len(executed)
             n == Len(hooks)
  <2>1. /\ executed \in Seq(Entry) /\ hooks \in Seq(Entry)
        /\ KnownInv /\ OrderInv
    BY <1>1 DEF KernelInv, TypeOK
  <2>2. m \in Nat /\ n \in Nat /\ (executed = <<>> => m = 0)
    BY <2>1
  <2>3. /\ Len(both) = m + n
        /\ \A i \in 1..m + n : both[i] = IF i <= m THEN executed[i] ELSE hooks[i - m]
    BY <2>1, ConcatProperties
  <2>4. ASSUME ~late, NEW i \in 1..m, NEW j \in 1..n PROVE Before(executed[i], hooks[j])
    <3>1. executed # <<>>
      BY <2>2
    <3> QED
      BY <2>1, <2>4, <3>1 DEF OrderInv
  <2>5. /\ \A i, j \in 1..m : i < j => Before(executed[i], executed[j])
        /\ \A i, j \in 1..n : i < j => Before(hooks[i], hooks[j])
    BY <2>1 DEF OrderInv, Sorted
  <2> HIDE DEF both, late, m, n
  <2>6. ASSUME ~late, NEW i \in 1..m + n, NEW j \in 1..m + n, i < j
        PROVE  Before(both[i], both[j])
    <3>1. CASE j <= m
      <4>1. i \in 1..m /\ j \in 1..m /\ i <= m
        BY <2>2, <2>6, <3>1
      <4> QED
        BY <2>3, <2>5, <2>6, <3>1, <4>1
    <3>2. CASE i <= m /\ j > m
      <4>1. i \in 1..m /\ j - m \in 1..n /\ ~(j <= m)
        BY <2>2, <3>2
      <4> QED
        BY <2>3, <2>4, <2>6, <3>2, <4>1
    <3>3. CASE i > m
      <4>1. i - m \in 1..n /\ j - m \in 1..n /\ i - m < j - m /\ ~(i <= m) /\ ~(j <= m)
        BY <2>2, <2>6, <3>3
      <4> QED
        BY <2>3, <2>5, <4>1
    <3> QED
      BY <2>2, <3>1, <3>2, <3>3
  <2>7. m + n = Len(registered)
    BY <2>1 DEF KnownInv, m, n
  <2>8. CASE late
    BY <2>5, <2>7, <2>8 DEF HooksInOrder, late, m, n, Over
  <2>9. CASE ~late
    BY <2>3, <2>6, <2>7, <2>9 DEF HooksInOrder, late, both, m, n, Over
  <2> QED
    BY <2>8, <2>9
<1> QED
  BY <1>1, KernelInvariant, PTL
=============================================================================
