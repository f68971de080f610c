----------------------------- MODULE BitmapStorage -----------------------------
(***************************************************************************)
(* database/in_memory_storage/bitmap: a set of keys in memory behind an    *)
(* RWMutex (roaring_bitmap.go) and its dump in Redis, which the Redis      *)
(* replicator writes and reads.  Each access to the bitmap is a critical   *)
(* section of its own, so Replicate, Recover and Warm are sequences of     *)
(* steps that interleave with everything else.  The fake replicator has    *)
(* the same steps with a map for Redis; the stub has none.                 *)
(***************************************************************************)
CONSTANTS Key,         \* keys
          Worker,      \* goroutines of the application
          Background,  \* the goroutine of background()
          NoDump,      \* the replication key does not exist
          Restarts     \* whether the process may crash and start again

ASSUME BitmapAssumption ==
  /\ Background \notin Worker
  /\ \A S \in SUBSET Key : NoDump # S
  /\ Restarts \in BOOLEAN

VARIABLES bitmap,    \* s.bitmap
          dump,      \* Redis: what the replication key holds
          up,        \* Redis can be reached
          stray,     \* a SET nobody waits for any more, still on its way to Redis
          bg,        \* the background goroutine: none, loop, ended
          ctxDone,   \* its context is done
          op,        \* op[w]: the step w is at
          held,      \* held[w]: the bytes w holds between two steps
          orderly,   \* history: no two Replicates overlapped, no SET was left behind
          synced,    \* history: a Replicate succeeded and the bitmap is the same since
          pristine   \* history: since the start, only Recover has put something in

replVars == <<dump, up, stray>>
procVars == <<bg, ctxDone>>
histVars == <<orderly, synced, pristine>>
vars == <<bitmap, replVars, procVars, op, held, histVars>>

Proc == Worker \cup {Background}

\* A serialised bitmap, or nothing.
IsBytes(b) == b = NoDump \/ b \in SUBSET Key

TypeOK ==
  /\ bitmap # NoDump /\ bitmap \subseteq Key
  /\ IsBytes(dump) /\ IsBytes(stray)
  /\ bg \in {"none", "loop", "ended"}
  /\ op \in [Proc -> {"idle", "write", "clear", "load", "warm"}]
  /\ DOMAIN held = Proc /\ \A w \in Proc : IsBytes(held[w])
  /\ {up, ctxDone, orderly, synced, pristine} \subseteq BOOLEAN
  /\ op[Background] \in {"idle", "write"}

Init ==
  /\ bitmap = {}
  /\ dump = NoDump /\ stray = NoDump
  /\ up = TRUE
  /\ bg = "none" /\ ctxDone = FALSE
  /\ op = [w \in Proc |-> "idle"]
  /\ held = [w \in Proc |-> NoDump]
  /\ orderly = TRUE /\ synced = FALSE /\ pristine = TRUE

\* w goes on to its next step with these bytes.
Goto(w, step, bytes) ==
  /\ op' = [op EXCEPT ![w] = step]
  /\ held' = [held EXCEPT ![w] = bytes]

\* The bitmap becomes S; the application wrote it, or Recover did.
Put(S, byApp) ==
  /\ bitmap' = S
  /\ synced' = (synced /\ S = bitmap)
  /\ pristine' = (pristine /\ ~byApp)
  /\ UNCHANGED orderly

-----------------------------------------------------------------------------
(* Writes of the application, one critical section each. *)

UpsertMany(S) == Put(bitmap \cup S, TRUE) /\ UNCHANGED <<replVars, procVars, op, held>>
RemoveMany(S) == Put(bitmap \ S, TRUE) /\ UNCHANGED <<replVars, procVars, op, held>>
Clear == Put({}, TRUE) /\ UNCHANGED <<replVars, procVars, op, held>>

\* MustWarmer sets the callback and starts the background goroutine, which
\* GoRecover does not run on a done context.  A second call panics.
MustWarmer ==
  /\ bg = "none"
  /\ bg' = IF ctxDone THEN "ended" ELSE "loop"
  /\ UNCHANGED <<bitmap, replVars, ctxDone, op, held, histVars>>

\* Warm: the storage is empty, the callback is called ...
WarmCheck(w) ==
  /\ op[w] = "idle" /\ bg # "none" /\ bitmap = {}
  /\ Goto(w, "warm", NoDump)
  /\ UNCHANGED <<bitmap, replVars, procVars, histVars>>

\* ... and what it returned is added to what there is by then.
WarmUpsert(w, data) ==
  /\ op[w] = "warm" /\ data # {}
  /\ Put(bitmap \cup data, TRUE)
  /\ Goto(w, "idle", NoDump)
  /\ UNCHANGED <<replVars, procVars>>

\* The callback failed, or returned nothing.
WarmSkip(w) ==
  /\ op[w] = "warm"
  /\ Goto(w, "idle", NoDump)
  /\ UNCHANGED <<bitmap, replVars, procVars, histVars>>

-----------------------------------------------------------------------------
(* Replicate *)

\* A replication tick comes to the background goroutine; anyone else may call
\* Replicate at any time.
CanReplicate(w) == op[w] = "idle" /\ (w = Background => bg = "loop")

\* mutant: an empty bitmap has bytes too
GetBytesOfAny(w) ==
  /\ CanReplicate(w)
  /\ Goto(w, "write", bitmap)
  /\ orderly' = (orderly /\ \A x \in Proc : op[x] # "write")
  /\ UNCHANGED <<bitmap, replVars, procVars, synced, pristine>>

\* GetBytesFromBitmap: nil for an empty bitmap, which is an error of Replicate.
GetBytesFromBitmap(w) ==
  /\ CanReplicate(w) /\ bitmap # {}
  /\ Goto(w, "write", bitmap)
  /\ orderly' = (orderly /\ \A x \in Proc : op[x] # "write")
  /\ UNCHANGED <<bitmap, replVars, procVars, synced, pristine>>

\* SET key bytes with the ttl.  If the client had to try again, its first request
\* may still be on the way.
writeBytesToDump(w) ==
  /\ op[w] = "write" /\ up
  /\ dump' = held[w]
  /\ synced' = (synced \/ held[w] = bitmap)
  /\ \/ stray' = held[w] /\ orderly' = FALSE
     \/ UNCHANGED <<stray, orderly>>
  /\ Goto(w, "idle", NoDump)
  /\ UNCHANGED <<bitmap, up, procVars, pristine>>

\* mutant: the error of SET is not returned
WriteErrorLost(w) ==
  /\ op[w] = "write" /\ ~up
  /\ synced' = (synced \/ held[w] = bitmap)
  /\ Goto(w, "idle", NoDump)
  /\ UNCHANGED <<bitmap, replVars, procVars, orderly, pristine>>

\* mutant: an error ends the background goroutine
WriteFailsEndsLoop(w) ==
  /\ op[w] = "write" /\ (~up \/ (w = Background /\ ctxDone))
  /\ bg' = IF w = Background THEN "ended" ELSE bg
  /\ Goto(w, "idle", NoDump)
  /\ UNCHANGED <<bitmap, replVars, ctxDone, histVars>>

\* SET fails, its request gone or still on the way.
WriteFails(w) ==
  /\ op[w] = "write" /\ (~up \/ (w = Background /\ ctxDone))
  /\ \/ stray' = held[w] /\ orderly' = FALSE
     \/ UNCHANGED <<stray, orderly>>
  /\ Goto(w, "idle", NoDump)
  /\ UNCHANGED <<bitmap, dump, up, procVars, synced, pristine>>

\* case <-localCtx.Done() of background()
BackgroundDone ==
  /\ bg = "loop" /\ ctxDone /\ op[Background] = "idle"
  /\ bg' = "ended"
  /\ UNCHANGED <<bitmap, replVars, ctxDone, op, held, histVars>>

-----------------------------------------------------------------------------
(* Recover: GET, then Clear, then ReadFromBuffer.  A missing key is an error, *)
(* and the bitmap stays as it is.                                            *)

\* mutant: a missing key is read as nil without an error
ReadMissingDump(w) ==
  /\ op[w] = "idle" /\ up
  /\ Goto(w, "clear", dump)
  /\ UNCHANGED <<bitmap, replVars, procVars, histVars>>

readBytesFromDump(w) ==
  /\ op[w] = "idle" /\ up /\ dump # NoDump
  /\ Goto(w, "clear", dump)
  /\ UNCHANGED <<bitmap, replVars, procVars, histVars>>

RecoverClear(w) ==
  /\ op[w] = "clear"
  /\ Put({}, FALSE)
  /\ Goto(w, "load", held[w])
  /\ UNCHANGED <<replVars, procVars>>

\* The bitmap is made anew from the bytes.
ReadFromBuffer(w) ==
  /\ op[w] = "load"
  /\ Put(held[w], FALSE)
  /\ Goto(w, "idle", NoDump)
  /\ UNCHANGED <<replVars, procVars>>

\* Bytes it cannot read are an error after the Clear: the bitmap stays as it is.
ReadFails(w) ==
  /\ op[w] = "load"
  /\ Goto(w, "idle", NoDump)
  /\ UNCHANGED <<bitmap, replVars, procVars, histVars>>

DropReplicationKey ==
  /\ up /\ dump # NoDump /\ dump' = NoDump
  /\ UNCHANGED <<bitmap, up, stray, procVars, op, held, histVars>>

-----------------------------------------------------------------------------
(* Redis, the context and the process. *)

\* The ttl of the dump is over.
ExpireDump ==
  /\ dump # NoDump /\ dump' = NoDump
  /\ UNCHANGED <<bitmap, up, stray, procVars, op, held, histVars>>

Link ==
  /\ up' = ~up
  /\ UNCHANGED <<bitmap, dump, stray, procVars, op, held, histVars>>

LateWrite ==
  /\ stray # NoDump
  /\ dump' = stray /\ stray' = NoDump
  /\ UNCHANGED <<bitmap, up, procVars, op, held, histVars>>

Cancel ==
  /\ ~ctxDone /\ ctxDone' = TRUE
  /\ UNCHANGED <<bitmap, replVars, bg, op, held, histVars>>

\* The process crashes and starts again: the memory is gone, the dump is not,
\* and a SET it had sent may still arrive.
Restart ==
  /\ Restarts
  /\ bitmap' = {}
  /\ bg' = "none" /\ ctxDone' = FALSE
  /\ op' = [w \in Proc |-> "idle"]
  /\ held' = [w \in Proc |-> NoDump]
  /\ stray' \in {stray} \cup {held[w] : w \in {x \in Proc : op[x] = "write"}}
  /\ orderly' = (orderly /\ stray' = NoDump)
  /\ synced' = FALSE
  /\ pristine' = (stray' = NoDump)
  /\ UNCHANGED <<dump, up>>

-----------------------------------------------------------------------------
Replicate(w) == GetBytesFromBitmap(w) \/ writeBytesToDump(w) \/ WriteFails(w)
Recover(w) == readBytesFromDump(w) \/ RecoverClear(w) \/ ReadFromBuffer(w) \/ ReadFails(w)
Warm(w) == WarmCheck(w) \/ WarmSkip(w) \/ \E data \in SUBSET Key : WarmUpsert(w, data)

Application ==
  \/ \E S \in (SUBSET Key) \ {{}} : UpsertMany(S) \/ RemoveMany(S)
  \/ Clear \/ MustWarmer \/ DropReplicationKey \/ Cancel
  \/ \E w \in Worker : Warm(w) \/ Recover(w)

Environment == ExpireDump \/ Link \/ LateWrite \/ Restart

Next ==
  \/ Application \/ Environment \/ BackgroundDone
  \/ \E w \in Proc : Replicate(w)

Spec == Init /\ [][Next]_vars

\* Goroutines in the middle of a call go on; the replication ticker keeps firing.
Fairness ==
  /\ WF_vars(Replicate(Background))
  /\ \A w \in Worker :
       WF_vars(op[w] # "idle" /\ (Warm(w) \/ Recover(w) \/ Replicate(w)))

FairSpec == Spec /\ Fairness

-----------------------------------------------------------------------------
(* Properties. *)

\* The dump is never an empty set, although Recover (bitmam_redis_replicator.go:57)
\* and Warm leave the bitmap empty for a while and the background goroutine may
\* replicate at any moment: an empty bitmap is refused (line 39).
DumpNeverEmpty == {} \notin {dump, stray} \cup {held[w] : w \in Proc}

\* Once a Replicate has stored the bitmap, the dump is the bitmap until the
\* bitmap changes, whatever fails in between; it takes that Replicates do not
\* overlap and no request arrives late, since nothing orders two SETs.
DumpCurrent == orderly /\ synced /\ dump # NoDump => dump = bitmap

\* After a restart, Recover brings back exactly the dump, with the background
\* goroutine replicating and any number of Recovers on the way, unless a SET was still
\* on its way to Redis when the process ended.
RecoverRestores == pristine /\ bitmap # {} /\ dump # NoDump => dump = bitmap

\* As long as Redis is there, MustWarmer was called, its context lives and the
\* bitmap keeps a value, the dump gets that value again and again, even if it expires.
DumpCatchesUp ==
  \A S \in (SUBSET Key) \ {{}} :
    <>[](bitmap = S /\ up /\ bg # "none" /\ ~ctxDone) => []<>(dump = S)
=============================================================================
