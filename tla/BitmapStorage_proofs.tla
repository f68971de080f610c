------------------------- MODULE BitmapStorage_proofs -------------------------
(***************************************************************************)
(* The dump of the bitmap, for any keys, any number of goroutines and with *)
(* or without restarts: it is never empty, it is the bitmap once a         *)
(* Replicate has stored it, and Recover brings back exactly what it holds. *)
(***************************************************************************)
EXTENDS BitmapStorage, TLAPS

USE BitmapAssumption

\* Between two steps of Replicate or Recover a goroutine holds bytes.
HoldsBytes == \A w \in Proc : op[w] \in {"write", "clear", "load"} => held[w] # NoDump

\* While Replicates do not overlap and no SET is left behind, there is one writer
\* at a time, and once a Replicate has succeeded it carries the present bitmap.
WriterCurrent ==
  orderly =>
    /\ stray = NoDump
    /\ \A v, w \in Proc : op[v] = "write" /\ op[w] = "write" => v = w
    /\ synced => /\ dump \in {NoDump, bitmap}
                 /\ \A w \in Proc : op[w] = "write" => held[w] = bitmap

\* D is the only set of keys on the way between the bitmap and Redis.
OnlySet(D) ==
  /\ bitmap \in {{}, D}
  /\ {dump, stray} \subseteq {NoDump, D}
  /\ \A w \in Proc : held[w] \in {NoDump, D}

\* Since the start of the process only one set of keys went around.
OneSet == pristine => \E D \in SUBSET Key : OnlySet(D)

\* The strengthened type invariant.
TypeInv == TypeOK /\ HoldsBytes

-----------------------------------------------------------------------------
\* NoDump, the missing replication key, is not a set of keys.
LEMMA NoDumpIsNoSet == \A S \in SUBSET Key : NoDump # S
OBVIOUS

\* A goroutine's step leaves the bytes and the step of the others alone.
LEMMA GotoOthers ==
  ASSUME TypeOK, NEW w \in Proc, NEW step, NEW bytes, Goto(w, step, bytes)
  PROVE  /\ op' = [op EXCEPT ![w] = step]
         /\ DOMAIN held' = Proc
         /\ held'[w] = bytes /\ \A x \in Proc \ {w} : held'[x] = held[x]
         /\ op'[w] = step /\ \A x \in Proc \ {w} : op'[x] = op[x]
BY DEF Goto, TypeOK

\* A step of one goroutine keeps the strengthened types if its next step and its
\* bytes fit, and the rest does.
LEMMA GotoType ==
  ASSUME TypeInv, NEW w \in Proc, NEW bytes,
         NEW step \in {"idle", "write", "clear", "load", "warm"},
         Goto(w, step, bytes), IsBytes(bytes),
         step \in {"write", "clear", "load"} => bytes # NoDump,
         w = Background => step \in {"idle", "write"}
  PROVE  /\ op' \in [Proc -> {"idle", "write", "clear", "load", "warm"}]
         /\ DOMAIN held' = Proc /\ \A x \in Proc : IsBytes(held'[x])
         /\ op'[Background] \in {"idle", "write"}
         /\ HoldsBytes'
<1>1. op' \in [Proc -> {"idle", "write", "clear", "load", "warm"}]
  BY DEF Goto, TypeInv, TypeOK
<1>2. DOMAIN held' = Proc /\ \A x \in Proc : IsBytes(held'[x])
  BY DEF Goto, TypeInv, TypeOK, IsBytes
<1>3. op'[Background] \in {"idle", "write"}
  BY DEF Goto, TypeInv, TypeOK, Proc
<1>4. HoldsBytes'
  BY DEF Goto, TypeInv, TypeOK, HoldsBytes
<1> QED
  BY <1>1, <1>2, <1>3, <1>4

\* A write of the bitmap keeps its type and the types of the histories.
LEMMA PutType ==
  ASSUME TypeOK, NEW S, S # NoDump, S \subseteq Key, NEW byApp \in BOOLEAN, Put(S, byApp)
  PROVE  /\ bitmap' # NoDump /\ bitmap' \subseteq Key
         /\ {orderly', synced', pristine'} \subseteq BOOLEAN
BY DEF TypeOK, Put

\* Every step of the bitmap, of its replicator, of Redis and of the process
\* keeps each variable in its type and every pending call with its bytes.
LEMMA TypeInductive == TypeInv /\ [Next]_vars => TypeInv'
<1> SUFFICES ASSUME TypeInv, [Next]_vars PROVE TypeInv'
  OBVIOUS
<1> USE DEF replVars, procVars, histVars
<1> TypeOK
  BY DEF TypeInv
<1>0. IsBytes(NoDump) /\ {} # NoDump /\ bitmap # NoDump /\ bitmap \subseteq Key /\ IsBytes(bitmap)
  BY NoDumpIsNoSet DEF TypeOK, IsBytes
<1>1. CASE UNCHANGED vars
  BY <1>1 DEF vars, TypeInv, TypeOK, IsBytes, HoldsBytes
<1>2. ASSUME NEW S \in SUBSET Key, UpsertMany(S) \/ RemoveMany(S) PROVE TypeInv'
  <2>1. PICK T \in SUBSET Key : Put(T, TRUE)
    BY <1>2, <1>0 DEF UpsertMany, RemoveMany
  <2> QED
    BY <1>2, <2>1, PutType, NoDumpIsNoSet
    DEF UpsertMany, RemoveMany, TypeInv, TypeOK, IsBytes, HoldsBytes
<1>3. CASE Clear
  BY <1>3, <1>0, PutType DEF Clear, TypeInv, TypeOK, IsBytes, HoldsBytes
<1>4. CASE MustWarmer
  BY <1>4 DEF MustWarmer, TypeInv, TypeOK, IsBytes, HoldsBytes
<1>5. CASE DropReplicationKey \/ ExpireDump
  BY <1>5, <1>0 DEF DropReplicationKey, ExpireDump, TypeInv, TypeOK, IsBytes, HoldsBytes
<1>6. CASE Cancel
  BY <1>6 DEF Cancel, TypeInv, TypeOK, IsBytes, HoldsBytes
<1>7. CASE Link
  BY <1>7 DEF Link, TypeInv, TypeOK, IsBytes, HoldsBytes
<1>8. CASE LateWrite
  BY <1>8, <1>0 DEF LateWrite, TypeInv, TypeOK, IsBytes, HoldsBytes
<1>9. CASE BackgroundDone
  BY <1>9 DEF BackgroundDone, TypeInv, TypeOK, IsBytes, HoldsBytes
<1>10. CASE Restart
  <2>1. IsBytes(stray')
    BY <1>10 DEF Restart, TypeInv, TypeOK, IsBytes
  <2>2. {orderly', synced', pristine'} \subseteq BOOLEAN
    BY <1>10 DEF Restart, TypeInv, TypeOK
  <2>3. HoldsBytes'
    BY <1>10 DEF Restart, HoldsBytes
  <2> QED
    BY <1>10, <1>0, <2>1, <2>2, <2>3 DEF Restart, TypeInv, TypeOK, IsBytes, Proc
<1>11. ASSUME NEW w \in Worker, Warm(w) PROVE TypeInv'
  <2> w \in Proc /\ w # Background
    BY DEF Proc
  <2>1. CASE WarmCheck(w)
    BY <2>1, <1>0, GotoType DEF WarmCheck, TypeInv, TypeOK, IsBytes
  <2>2. CASE WarmSkip(w)
    BY <2>2, <1>0, GotoType DEF WarmSkip, TypeInv, TypeOK, IsBytes
  <2>3. ASSUME NEW data \in SUBSET Key, WarmUpsert(w, data) PROVE TypeInv'
    <3>1. bitmap \cup data # NoDump /\ bitmap \cup data \subseteq Key
      BY <1>0, NoDumpIsNoSet
    <3> QED
      BY <2>3, <3>1, <1>0, GotoType, PutType DEF WarmUpsert, TypeInv, TypeOK, IsBytes
  <2> QED
    BY <1>11, <2>1, <2>2, <2>3 DEF Warm
<1>12. ASSUME NEW w \in Worker, Recover(w) PROVE TypeInv'
  <2> w \in Proc /\ w # Background
    BY DEF Proc
  <2>1. CASE readBytesFromDump(w)
    BY <2>1, <1>0, GotoType DEF readBytesFromDump, TypeInv, TypeOK, IsBytes
  <2>2. CASE RecoverClear(w)
    <3>1. IsBytes(held[w]) /\ held[w] # NoDump
      BY <2>2 DEF RecoverClear, TypeInv, TypeOK, HoldsBytes
    <3> QED
      BY <2>2, <3>1, <1>0, GotoType, PutType DEF RecoverClear, TypeInv, TypeOK, IsBytes
  <2>3. CASE ReadFromBuffer(w)
    <3>1. held[w] \subseteq Key /\ held[w] # NoDump
      BY <2>3 DEF ReadFromBuffer, TypeInv, TypeOK, HoldsBytes, IsBytes
    <3> QED
      BY <2>3, <3>1, <1>0, GotoType, PutType DEF ReadFromBuffer, TypeInv, TypeOK, IsBytes
  <2>4. CASE ReadFails(w)
    BY <2>4, <1>0, GotoType DEF ReadFails, TypeInv, TypeOK, IsBytes
  <2> QED
    BY <1>12, <2>1, <2>2, <2>3, <2>4 DEF Recover
<1>13. ASSUME NEW w \in Proc, Replicate(w) PROVE TypeInv'
  <2>1. CASE GetBytesFromBitmap(w)
    BY <2>1, <1>0, GotoType DEF GetBytesFromBitmap, TypeInv, TypeOK, IsBytes
  <2>2. CASE writeBytesToDump(w)
    BY <2>2, <1>0, GotoType DEF writeBytesToDump, TypeInv, TypeOK, IsBytes
  <2>3. CASE WriteFails(w)
    BY <2>3, <1>0, GotoType DEF WriteFails, TypeInv, TypeOK, IsBytes
  <2> QED
    BY <1>13, <2>1, <2>2, <2>3 DEF Replicate
<1> QED
  BY <1>1, <1>2, <1>3, <1>4, <1>5, <1>6, <1>7, <1>8, <1>9, <1>10, <1>11, <1>12, <1>13
  DEF Next, Application, Environment

\* The strengthened type invariant holds of the storage and its replicators.
LEMMA TypeInvariant == Spec => []TypeInv
<1>1. Init => TypeInv
  BY NoDumpIsNoSet DEF Init, TypeInv, TypeOK, IsBytes, HoldsBytes, Proc
<1> QED
  BY <1>1, TypeInductive, PTL DEF Spec

\* Every variable keeps its type: in particular Recover loads the bitmap from a
\* set of keys, never from a missing dump.
THEOREM TypeCorrect == Spec => []TypeOK
<1>1. TypeInv => TypeOK
  BY DEF TypeInv
<1> QED
  BY <1>1, TypeInvariant, PTL

-----------------------------------------------------------------------------
\* Every step keeps the empty set out of Redis and out of the bytes on the way:
\* the only bytes that are made are those of a bitmap that is not empty.
LEMMA NeverEmptyInductive ==
  TypeOK /\ DumpNeverEmpty /\ [Next]_vars => DumpNeverEmpty'
<1> SUFFICES ASSUME TypeOK, DumpNeverEmpty, [Next]_vars PROVE DumpNeverEmpty'
  OBVIOUS
<1> USE NoDumpIsNoSet DEF replVars, procVars, histVars
<1>1. ASSUME NEW w \in Proc, NEW step, NEW bytes, bytes # {}, Goto(w, step, bytes),
             dump' # {}, stray' # {}
      PROVE  DumpNeverEmpty'
  BY <1>1, GotoOthers DEF DumpNeverEmpty
<1>2. CASE UNCHANGED <<dump, stray, held>>
  BY <1>2 DEF DumpNeverEmpty
<1>3. CASE DropReplicationKey \/ ExpireDump \/ LateWrite
  BY <1>3 DEF DropReplicationKey, ExpireDump, LateWrite, DumpNeverEmpty
<1>4. CASE Restart
  BY <1>4 DEF Restart, DumpNeverEmpty
<1>5. ASSUME NEW w \in Worker, Warm(w) \/ Recover(w) PROVE DumpNeverEmpty'
  <2> w \in Proc
    BY DEF Proc
  <2>1. dump # {} /\ stray # {} /\ held[w] # {}
    BY DEF DumpNeverEmpty
  <2>2. UNCHANGED <<dump, stray>>
    BY <1>5 DEF Warm, Recover, WarmCheck, WarmSkip, WarmUpsert,
                readBytesFromDump, RecoverClear, ReadFromBuffer, ReadFails
  <2>3. \E step : \E bytes \in {NoDump, dump, held[w]} : Goto(w, step, bytes)
    BY <1>5 DEF Warm, Recover, WarmCheck, WarmSkip, WarmUpsert,
                readBytesFromDump, RecoverClear, ReadFromBuffer, ReadFails
  <2> QED
    BY <1>1, <2>1, <2>2, <2>3
<1>6. ASSUME NEW w \in Proc, Replicate(w) PROVE DumpNeverEmpty'
  <2>1. dump # {} /\ stray # {} /\ held[w] # {}
    BY DEF DumpNeverEmpty
  <2>2. dump' # {} /\ stray' # {}
    BY <1>6, <2>1 DEF Replicate, GetBytesFromBitmap, writeBytesToDump, WriteFails
  <2>3. \E step, bytes : bytes # {} /\ Goto(w, step, bytes)
    BY <1>6 DEF Replicate, GetBytesFromBitmap, writeBytesToDump, WriteFails
  <2> QED
    BY <1>1, <2>2, <2>3
<1>7. CASE \/ \E S \in (SUBSET Key) \ {{}} : UpsertMany(S) \/ RemoveMany(S)
           \/ Clear \/ MustWarmer \/ Cancel \/ Link \/ BackgroundDone
  BY <1>2, <1>7 DEF UpsertMany, RemoveMany, Clear, MustWarmer, Cancel, Link, BackgroundDone
<1> QED
  BY <1>2, <1>3, <1>4, <1>5, <1>6, <1>7 DEF Next, Application, Environment, vars

\* The dump is never an empty set, although Recover and Warm leave the bitmap
\* empty for a while and the background goroutine may replicate meanwhile.
THEOREM DumpIsNeverEmpty == Spec => []DumpNeverEmpty
<1>1. Init => DumpNeverEmpty
  BY NoDumpIsNoSet DEF Init, DumpNeverEmpty
<1> QED
  BY <1>1, NeverEmptyInductive, TypeCorrect, PTL DEF Spec

-----------------------------------------------------------------------------
\* Every step keeps the one writer of an orderly history current.
LEMMA WriterInductive ==
  TypeOK /\ WriterCurrent /\ [Next]_vars => WriterCurrent'
<1> SUFFICES ASSUME TypeOK, WriterCurrent, [Next]_vars, orderly' PROVE WriterCurrent'
  BY DEF WriterCurrent
<1> USE NoDumpIsNoSet DEF replVars, procVars, histVars
<1>1. CASE UNCHANGED <<bitmap, dump, stray, op, held, orderly, synced>>
  BY <1>1 DEF WriterCurrent
<1>2. ASSUME NEW S, NEW byApp, Put(S, byApp), UNCHANGED <<dump, stray, op, held>>
      PROVE  WriterCurrent'
  BY <1>2 DEF Put, WriterCurrent, TypeOK
<1>3. CASE DropReplicationKey \/ ExpireDump
  BY <1>3 DEF DropReplicationKey, ExpireDump, WriterCurrent
<1>4. CASE LateWrite
  BY <1>4 DEF LateWrite, WriterCurrent
<1>5. CASE Restart
  BY <1>5 DEF Restart, WriterCurrent, TypeOK
<1>6. ASSUME NEW w \in Worker, Warm(w) \/ Recover(w) PROVE WriterCurrent'
  <2> w \in Proc
    BY DEF Proc
  <2>1. PICK step, bytes : step # "write" /\ Goto(w, step, bytes)
    BY <1>6 DEF Warm, Recover, WarmCheck, WarmSkip, WarmUpsert,
                readBytesFromDump, RecoverClear, ReadFromBuffer, ReadFails
  <2>2. \A x \in Proc : op'[x] = "write" => op[x] = "write" /\ held'[x] = held[x]
    BY <2>1, GotoOthers
  <2>3. UNCHANGED <<dump, stray, orderly>>
    BY <1>6 DEF Warm, Recover, WarmCheck, WarmSkip, WarmUpsert,
                readBytesFromDump, RecoverClear, ReadFromBuffer, ReadFails, Put
  <2>4. UNCHANGED <<bitmap, synced>> \/ \E S, byApp : Put(S, byApp)
    BY <1>6 DEF Warm, Recover, WarmCheck, WarmSkip, WarmUpsert,
                readBytesFromDump, RecoverClear, ReadFromBuffer, ReadFails
  <2>5. synced' => synced /\ bitmap' = bitmap
    BY <2>4 DEF Put, TypeOK
  <2> QED
    BY <2>2, <2>3, <2>5 DEF WriterCurrent
<1>7. ASSUME NEW w \in Proc, Replicate(w) PROVE WriterCurrent'
  <2>1. CASE GetBytesFromBitmap(w)
    <3>1. orderly /\ \A x \in Proc : op[x] # "write"
      BY <2>1 DEF GetBytesFromBitmap, TypeOK
    <3>2. /\ held'[w] = bitmap
          /\ \A x \in Proc \ {w} : op'[x] # "write"
      BY <2>1, <3>1, GotoOthers DEF GetBytesFromBitmap
    <3> QED
      BY <2>1, <3>1, <3>2 DEF GetBytesFromBitmap, WriterCurrent
  <2>2. CASE writeBytesToDump(w)
    <3>1. orderly /\ stray' = NoDump
      BY <2>2 DEF writeBytesToDump, WriterCurrent
    <3>2. \A x \in Proc : op'[x] # "write"
      BY <2>2, <3>1, GotoOthers DEF writeBytesToDump, WriterCurrent
    <3>3. synced' => dump' = bitmap'
      BY <2>2, <3>1 DEF writeBytesToDump, WriterCurrent
    <3> QED
      BY <3>1, <3>2, <3>3 DEF WriterCurrent
  <2>3. CASE WriteFails(w)
    <3>1. orderly /\ UNCHANGED <<bitmap, dump, stray, synced>>
      BY <2>3 DEF WriteFails
    <3>2. \A x \in Proc : op'[x] # "write"
      BY <2>3, <3>1, GotoOthers DEF WriteFails, WriterCurrent
    <3> QED
      BY <3>1, <3>2 DEF WriterCurrent
  <2> QED
    BY <1>7, <2>1, <2>2, <2>3 DEF Replicate
<1>8. CASE \/ \E S \in (SUBSET Key) \ {{}} : UpsertMany(S) \/ RemoveMany(S)
           \/ Clear
  BY <1>2, <1>8 DEF UpsertMany, RemoveMany, Clear
<1>9. CASE MustWarmer \/ Cancel \/ Link \/ BackgroundDone
  BY <1>1, <1>9 DEF MustWarmer, Cancel, Link, BackgroundDone
<1>10. CASE UNCHANGED vars
  BY <1>1, <1>10 DEF vars
<1> QED
  BY <1>3, <1>4, <1>5, <1>6, <1>7, <1>8, <1>9, <1>10 DEF Next, Application, Environment

\* Once a Replicate has stored the bitmap, the dump is the bitmap until the
\* bitmap changes, as long as Replicates do not overlap and no SET comes late.
THEOREM DumpIsCurrent == Spec => []DumpCurrent
<1>1. Init => WriterCurrent
  BY DEF Init, WriterCurrent
<1>2. WriterCurrent => DumpCurrent
  BY DEF WriterCurrent, DumpCurrent
<1> QED
  BY <1>1, <1>2, WriterInductive, TypeCorrect, PTL DEF Spec

-----------------------------------------------------------------------------
\* Every step leaves at most one set of keys between the bitmap and Redis, until
\* the application writes one of its own.
LEMMA OneSetInductive == TypeInv /\ OneSet /\ [Next]_vars => OneSet'
<1> SUFFICES ASSUME TypeInv, OneSet, [Next]_vars, pristine'
             PROVE  \E D \in SUBSET Key : OnlySet(D)'
  BY DEF OneSet
<1> TypeOK /\ bitmap' # NoDump
  BY TypeInductive DEF TypeInv, TypeOK
<1> USE NoDumpIsNoSet DEF replVars, procVars, histVars
<1>1. CASE Restart
  <2> DEFINE D == IF dump = NoDump THEN {} ELSE dump
  <2>1. D \in SUBSET Key
    BY DEF TypeOK, IsBytes
  <2>2. stray' = NoDump /\ bitmap' = {} /\ dump' = dump /\ \A w \in Proc : held'[w] = NoDump
    BY <1>1 DEF Restart
  <2> HIDE DEF D
  <2>3. dump \in {NoDump, D}
    BY DEF D
  <2> QED
    BY <2>1, <2>2, <2>3 DEF OnlySet
<1>2. CASE ~Restart
  <2>1. pristine
    BY <1>2 DEF Next, Application, Environment, UpsertMany, RemoveMany, Clear, MustWarmer,
       DropReplicationKey, Cancel, Warm, Recover, ExpireDump, Link, LateWrite,
       BackgroundDone, Replicate, WarmCheck, WarmSkip, WarmUpsert, readBytesFromDump,
       RecoverClear, ReadFromBuffer, ReadFails, GetBytesFromBitmap, writeBytesToDump, WriteFails,
       Put, vars, TypeOK
  <2>2. PICK D \in SUBSET Key : OnlySet(D)
    BY <2>1 DEF OneSet
  <2>3. ASSUME NEW w \in Proc, NEW step, NEW bytes \in {NoDump, D}, Goto(w, step, bytes)
        PROVE  \A x \in Proc : held'[x] \in {NoDump, D}
    BY <2>2, <2>3, GotoOthers DEF OnlySet
  <2>4. CASE UNCHANGED <<bitmap, held>> /\ {dump', stray'} \subseteq {NoDump, D}
    BY <2>2, <2>4 DEF OnlySet
  <2>5. CASE DropReplicationKey \/ ExpireDump \/ LateWrite
    BY <2>2, <2>4, <2>5 DEF DropReplicationKey, ExpireDump, LateWrite, OnlySet
  <2>6. ASSUME NEW w \in Worker, Warm(w) PROVE OnlySet(D)'
    <3> w \in Proc
      BY DEF Proc
    <3>1. ~\E data \in SUBSET Key : WarmUpsert(w, data)
      BY DEF WarmUpsert, Put
    <3>2. (\E step : Goto(w, step, NoDump)) /\ UNCHANGED <<bitmap, dump, stray>>
      BY <2>6, <3>1 DEF Warm, WarmCheck, WarmSkip
    <3> QED
      BY <2>2, <2>3, <3>2 DEF OnlySet
  <2>7. ASSUME NEW w \in Worker, Recover(w) PROVE OnlySet(D)'
    <3> w \in Proc
      BY DEF Proc
    <3>1. UNCHANGED <<dump, stray>>
      BY <2>7 DEF Recover, readBytesFromDump, RecoverClear, ReadFromBuffer, ReadFails
    <3>2. \E step : \E bytes \in {NoDump, dump, held[w]} : Goto(w, step, bytes)
      BY <2>7 DEF Recover, readBytesFromDump, RecoverClear, ReadFromBuffer, ReadFails
    <3>3. bitmap' \in {bitmap, {}, held[w]} /\ bitmap' # NoDump
      BY <2>7 DEF Recover, readBytesFromDump, RecoverClear, ReadFromBuffer, ReadFails, Put
    <3> QED
      BY <2>2, <2>3, <3>1, <3>2, <3>3 DEF OnlySet
  <2>8. ASSUME NEW w \in Proc, Replicate(w) PROVE OnlySet(D)'
    <3>1. {dump', stray'} \subseteq {dump, stray, held[w]} /\ bitmap' = bitmap
      BY <2>8 DEF Replicate, GetBytesFromBitmap, writeBytesToDump, WriteFails
    <3>2. \E step : \E bytes \in {NoDump, D} : Goto(w, step, bytes)
      BY <2>2, <2>8 DEF Replicate, GetBytesFromBitmap, writeBytesToDump, WriteFails, OnlySet
    <3> QED
      BY <2>2, <2>3, <3>1, <3>2 DEF OnlySet
  <2>9. CASE MustWarmer \/ Cancel \/ Link \/ BackgroundDone \/ UNCHANGED vars
    BY <2>2, <2>4, <2>9 DEF MustWarmer, Cancel, Link, BackgroundDone, vars, OnlySet
  <2>10. ~(Clear \/ \E S \in (SUBSET Key) \ {{}} : UpsertMany(S) \/ RemoveMany(S))
    BY DEF Clear, UpsertMany, RemoveMany, Put
  <2> QED
    BY <1>2, <2>5, <2>6, <2>7, <2>8, <2>9, <2>10 DEF Next, Application, Environment
<1> QED
  BY <1>1, <1>2

\* After a restart, Recover brings back exactly the dump, with the background
\* goroutine replicating and any number of Recovers on the way, unless a SET was still
\* on its way to Redis when the process ended.
THEOREM RecoverBringsBackDump == Spec => []RecoverRestores
<1>1. Init => OneSet
  BY DEF Init, OneSet, OnlySet
<1>2. OneSet => RecoverRestores
  BY DEF OneSet, OnlySet, RecoverRestores
<1> QED
  BY <1>1, <1>2, OneSetInductive, TypeInvariant, PTL DEF Spec
=============================================================================
