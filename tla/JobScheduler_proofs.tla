-------------------------- MODULE JobScheduler_proofs --------------------------
(***************************************************************************)
(* The job scheduler, for any jobs, callers and rate, and any number of    *)
(* starts: no more functions run than the rate allows, no token is lost,   *)
(* and calls that do not overlap leave one goroutine per job, and none     *)
(* after Stop.                                                             *)
(***************************************************************************)
EXTENDS JobScheduler, FiniteSetTheorems, TLAPS

Label == Live \cup {"none", "spawned", "done", "skipped"}

\* The goroutines of j that count in j.wg: GoRecover may have skipped one for ever.
Counted(j) == {k \in Run : gpc[j][k] \in Live \cup {"spawned", "skipped"}}

\* j.wg counts the goroutines of j, and a goroutine has the number of a context
\* that was made.
WgInv ==
  /\ \A j \in Job : wg[j] = Cardinality(Counted(j))
  /\ \A j \in Job : \A k \in Run : k > gen[j] => gpc[j][k] = "none"

\* Only added jobs are started and visited.
AddedInv ==
  /\ \A c \in Caller : todo[c] \subseteq added
  /\ \A j \in Job \ added : Runners(j) = {}

Idle == \A c \in Caller : cpc[c] = "idle"

\* While calls do not overlap there is one at a time.  Start finds no goroutine of
\* the jobs it has still to visit, the waiting Stop has left none of those it has
\* visited, and a stopped scheduler has none.
SerialInv ==
  serial =>
    /\ \A c, d \in Caller : cpc[c] # "idle" /\ cpc[d] # "idle" => c = d
    /\ \A c \in Caller :
         /\ cpc[c] = "starting" => started /\ \A j \in todo[c] : Runners(j) = {}
         /\ cpc[c] \in {"cancelling", "waiting", "panicked"} => ~started
         /\ cpc[c] = "waiting" => \A j \in Job \ todo[c] : Runners(j) = {}
    /\ Idle /\ ~started => \A j \in Job : Runners(j) = {}
    /\ \A j \in Job : \A k, l \in Runners(j) : k = l

CountInv == TypeOK /\ TokensAccounted /\ WgInv
CallInv == AddedInv /\ SerialInv

-----------------------------------------------------------------------------
\* Two finite sets that differ at most in e differ by one in size, if at all.
LEMMA CountOne ==
  ASSUME NEW U, IsFiniteSet(U), NEW A \in SUBSET U, NEW B \in SUBSET U, NEW e \in U,
         A \ {e} = B \ {e}
  PROVE  /\ Cardinality(A) \in Nat /\ Cardinality(B) \in Nat
         /\ e \in B /\ e \notin A => Cardinality(B) = Cardinality(A) + 1
         /\ e \in A /\ e \notin B => Cardinality(B) = Cardinality(A) - 1
         /\ (e \in A <=> e \in B) => Cardinality(B) = Cardinality(A)
<1>1. IsFiniteSet(A) /\ IsFiniteSet(B)
  BY FS_Subset
<1>2. Cardinality(A) \in Nat /\ Cardinality(B) \in Nat
  BY <1>1, FS_CardinalityType
<1>3. e \in B /\ e \notin A => B = A \cup {e}
  OBVIOUS
<1>4. e \in A /\ e \notin B => B = A \ {e}
  OBVIOUS
<1>5. (e \in A <=> e \in B) => B = A
  OBVIOUS
<1>6. e \in B /\ e \notin A => Cardinality(B) = Cardinality(A) + 1
  BY <1>1, <1>3, FS_AddElement
<1>7. e \in A /\ e \notin B => Cardinality(B) = Cardinality(A) - 1
  BY <1>1, <1>4, FS_RemoveElement
<1> QED
  BY <1>2, <1>5, <1>6, <1>7

\* There are finitely many goroutines.
LEMMA RunsFinite == IsFiniteSet(Run) /\ IsFiniteSet(Job \X Run) /\ Run \subseteq Nat
<1>1. IsFiniteSet(Run) /\ Run \subseteq Nat
  BY SchedulerAssumption, FS_Interval DEF Run
<1> QED
  BY <1>1, SchedulerAssumption, FS_Product

\* gpc differs in the goroutine k of job j at most.
Moved(j, k) ==
  /\ gpc' \in [Job -> [Run -> Label]]
  /\ \A i \in Job \ {j} : gpc'[i] = gpc[i]
  /\ \A l \in Run \ {k} : gpc'[j][l] = gpc[j][l]

\* A step of one goroutine leaves the others where they are.
LEMMA GotoMoves ==
  ASSUME TypeOK, NEW j \in Job, NEW k \in Run, NEW label \in Label,
         gpc' = [gpc EXCEPT ![j][k] = label]
  PROVE  Moved(j, k) /\ gpc'[j][k] = label
BY DEF TypeOK, Moved, Label

\* How the step of a goroutine changes the number of tokens held.
LEMMA HoldingMoves ==
  ASSUME TypeOK, NEW j \in Job, NEW k \in Run, Moved(j, k)
  PROVE  /\ Cardinality(Holding) \in Nat
         /\ LET before == gpc[j][k] \in {"token", "fn"}
                after == gpc'[j][k] \in {"token", "fn"}
            IN  /\ after /\ ~before => Cardinality(Holding') = Cardinality(Holding) + 1
                /\ before /\ ~after => Cardinality(Holding') = Cardinality(Holding) - 1
                /\ (before <=> after) => Cardinality(Holding') = Cardinality(Holding)
<1> DEFINE A == Holding
           B == Holding'
           e == <<j, k>>
<1>1. A \in SUBSET (Job \X Run) /\ B \in SUBSET (Job \X Run) /\ e \in Job \X Run
  BY DEF Holding
<1>2. A \ {e} = B \ {e}
  <2>1. ASSUME NEW x \in Job \X Run, x # e PROVE gpc'[x[1]][x[2]] = gpc[x[1]][x[2]]
    BY <2>1 DEF Moved
  <2> QED
    BY <2>1 DEF Holding
<1>3. (e \in A <=> gpc[j][k] \in {"token", "fn"}) /\ (e \in B <=> gpc'[j][k] \in {"token", "fn"})
  BY DEF Holding
<1> HIDE DEF A, B, e
<1>4. /\ Cardinality(A) \in Nat /\ Cardinality(B) \in Nat
      /\ e \in B /\ e \notin A => Cardinality(B) = Cardinality(A) + 1
      /\ e \in A /\ e \notin B => Cardinality(B) = Cardinality(A) - 1
      /\ (e \in A <=> e \in B) => Cardinality(B) = Cardinality(A)
  BY <1>1, <1>2, CountOne, RunsFinite
<1> QED
  BY <1>3, <1>4 DEF A, B

\* How it changes the number of goroutines that count in a wait group.
LEMMA CountedMoves ==
  ASSUME TypeOK, NEW j \in Job, NEW k \in Run, Moved(j, k)
  PROVE  /\ \A i \in Job : Cardinality(Counted(i)) \in Nat
         /\ \A i \in Job \ {j} : Counted(i)' = Counted(i)
         /\ LET before == gpc[j][k] \in Live \cup {"spawned", "skipped"}
                after == gpc'[j][k] \in Live \cup {"spawned", "skipped"}
            IN  /\ after /\ ~before => Cardinality(Counted(j)') = Cardinality(Counted(j)) + 1
                /\ before /\ ~after => Cardinality(Counted(j)') = Cardinality(Counted(j)) - 1
                /\ (before <=> after) => Cardinality(Counted(j)') = Cardinality(Counted(j))
<1> DEFINE A == Counted(j)
           B == Counted(j)'
<1>1. A \in SUBSET Run /\ B \in SUBSET Run
  BY DEF Counted
<1>2. A \ {k} = B \ {k}
  BY DEF Counted, Moved
<1>3. /\ k \in A <=> gpc[j][k] \in Live \cup {"spawned", "skipped"}
      /\ k \in B <=> gpc'[j][k] \in Live \cup {"spawned", "skipped"}
  BY DEF Counted
<1>4. \A i \in Job : Cardinality(Counted(i)) \in Nat
  <2>1. \A i \in Job : Counted(i) \in SUBSET Run
    BY DEF Counted
  <2> QED
    BY <2>1, RunsFinite, FS_Subset, FS_CardinalityType
<1>5. \A i \in Job \ {j} : Counted(i)' = Counted(i)
  BY DEF Counted, Moved
<1> HIDE DEF A, B
<1>6. /\ Cardinality(A) \in Nat /\ Cardinality(B) \in Nat
      /\ k \in B /\ k \notin A => Cardinality(B) = Cardinality(A) + 1
      /\ k \in A /\ k \notin B => Cardinality(B) = Cardinality(A) - 1
      /\ (k \in A <=> k \in B) => Cardinality(B) = Cardinality(A)
  <2>1. IsFiniteSet(Run)
    BY RunsFinite
  <2> QED
    BY <1>1, <1>2, <2>1, CountOne
<1> QED
  BY <1>3, <1>4, <1>5, <1>6 DEF A, B

-----------------------------------------------------------------------------
(* Types and counts. *)

\* Every step of a goroutine keeps the types, the tokens and the wait groups.
LEMMA GoroutineCounts ==
  ASSUME CountInv, NEW j \in Job, NEW k \in Run, Goroutine(j, k)
  PROVE  CountInv'
<1> USE DEF CountInv
<1>0. /\ gpc[j][k] \in Label /\ rate \in Nat /\ rate <= Rate /\ Rate \in Nat
      /\ rate = Cardinality(Holding) /\ wg \in [Job -> Nat] /\ wg[j] = Cardinality(Counted(j))
  BY SchedulerAssumption DEF TypeOK, Label, TokensAccounted, WgInv
<1>1. PICK label \in Label : gpc' = [gpc EXCEPT ![j][k] = label]
  BY DEF Goroutine, Spawn, ReadContext, SelectDone, SelectTick, ExecDone, ExecToken,
         ExecCheck, FnReturns, Goto, Label, Live
<1>2. Moved(j, k) /\ gpc'[j][k] = label
  BY <1>1, GotoMoves
<1>3. gpc[j][k] # "none" /\ UNCHANGED <<gen, cancelled, callVars, parentDone>>
  BY DEF Goroutine, Spawn, ReadContext, SelectDone, SelectTick, ExecDone, ExecToken,
         ExecCheck, FnReturns
<1>4. ctx' \in [Job -> [Run -> 0..MaxStarts]]
  <2>1. CASE ReadContext(j, k) \/ SelectTick(j, k)
    <3>1. gen[j] \in 0..MaxStarts /\ ctx \in [Job -> [Run -> 0..MaxStarts]]
      BY DEF TypeOK
    <3> QED
      BY <2>1, <3>1 DEF ReadContext, SelectTick
  <2>2. CASE ~ReadContext(j, k) /\ ~SelectTick(j, k)
    BY <2>2 DEF Goroutine, Spawn, SelectDone, ExecDone, ExecToken, ExecCheck, FnReturns, TypeOK
  <2> QED
    BY <2>1, <2>2
<1>5. rate' \in 0..Rate /\ rate' = Cardinality(Holding')
  <2>1. CASE ExecToken(j, k)
    <3>1. gpc[j][k] = "exec" /\ gpc'[j][k] = "token" /\ rate' = rate + 1 /\ rate < Rate
      BY <1>0, <1>2, <2>1 DEF ExecToken, Goto, Moved, TypeOK
    <3> QED
      BY <1>0, <1>2, <3>1, HoldingMoves
  <2>2. CASE rate' = rate - 1 /\ gpc[j][k] \in {"token", "fn"} /\ gpc'[j][k] = "read"
    <3>1. Cardinality(Holding') = Cardinality(Holding) - 1 /\ Cardinality(Holding) \in Nat
      BY <1>2, <2>2, HoldingMoves
    <3>2. Cardinality(Holding) # 0
      <4>1. <<j, k>> \in Holding
        BY <2>2 DEF Holding
      <4>2. IsFiniteSet(Holding)
        BY RunsFinite, FS_Subset DEF Holding
      <4> QED
        BY <4>1, <4>2, FS_EmptySet
    <3> QED
      BY <1>0, <2>2, <3>1, <3>2
  <2>3. CASE UNCHANGED rate /\ (gpc[j][k] \in {"token", "fn"} <=> gpc'[j][k] \in {"token", "fn"})
    BY <1>0, <1>2, <2>3, HoldingMoves
  <2>4. CASE ExecCheck(j, k) \/ FnReturns(j, k)
    BY <1>0, <1>2, <2>2, <2>3, <2>4 DEF ExecCheck, FnReturns, Goto, TypeOK
  <2>5. CASE \/ Spawn(j, k) \/ ReadContext(j, k) \/ SelectDone(j, k) \/ SelectTick(j, k)
             \/ ExecDone(j, k)
    BY <1>0, <1>2, <2>3, <2>5
    DEF Spawn, ReadContext, SelectDone, SelectTick, ExecDone, Goto, TypeOK
  <2> QED
    BY <2>1, <2>4, <2>5 DEF Goroutine
<1>6. wg' \in [Job -> Nat] /\ \A i \in Job : wg'[i] = Cardinality(Counted(i)')
  <2>1. \A i \in Job \ {j} : Cardinality(Counted(i)') = wg[i]
    BY <1>2, CountedMoves DEF WgInv
  <2>2. CASE SelectDone(j, k)
    <3>1. gpc[j][k] = "select" /\ gpc'[j][k] = "done" /\ wg' = [wg EXCEPT ![j] = wg[j] - 1]
      BY <2>2 DEF SelectDone, Goto, TypeOK
    <3>2. Cardinality(Counted(j)') = wg[j] - 1
      BY <1>0, <1>2, <3>1, CountedMoves DEF Live
    <3>3. Cardinality(Counted(j)') \in Nat
      BY RunsFinite, FS_Subset, FS_CardinalityType DEF Counted
    <3> QED
      BY <1>0, <2>1, <3>1, <3>2, <3>3
  <2>3. CASE ~SelectDone(j, k)
    <3>1. UNCHANGED wg
      BY <2>3 DEF Goroutine, Spawn, ReadContext, SelectTick, ExecDone, ExecToken, ExecCheck, FnReturns
    <3>2. /\ gpc[j][k] \in Live \cup {"spawned", "skipped"}
          /\ gpc'[j][k] \in Live \cup {"spawned", "skipped"}
      BY <1>0, <2>3 DEF Goroutine, Spawn, ReadContext, SelectTick, ExecDone, ExecToken,
                        ExecCheck, FnReturns, Goto, TypeOK, Live
    <3> QED
      BY <1>0, <1>2, <2>1, <3>1, <3>2, CountedMoves
  <2> QED
    BY <2>2, <2>3
<1>7. \A i \in Job : \A l \in Run : l > gen'[i] => gpc'[i][l] = "none"
  BY <1>2, <1>3 DEF Moved, WgInv
<1> QED
  BY <1>2, <1>3, <1>4, <1>5, <1>6, <1>7
  DEF TypeOK, TokensAccounted, WgInv, Moved, Label, callVars

\* A new goroutine of a job is the first to have its number.
LEMMA StartJobCounts ==
  ASSUME CountInv, NEW c \in Caller, NEW j \in Job, StartJob(c, j)
  PROVE  CountInv' /\ gen[j] + 1 \in Run /\ Moved(j, gen[j] + 1)
         /\ gpc'[j][gen[j] + 1] = "spawned"
<1> USE DEF CountInv
<1> DEFINE k == gen[j] + 1
<1>0. /\ k \in Run /\ k > gen[j] /\ gen' = [gen EXCEPT ![j] = k] /\ k \in 0..MaxStarts
      /\ gen \in [Job -> 0..MaxStarts]
  BY SchedulerAssumption DEF StartJob, TypeOK, Run
<1>1. gpc[j][k] = "none" /\ gpc' = [gpc EXCEPT ![j][k] = "spawned"]
  BY <1>0 DEF StartJob, WgInv
<1> HIDE DEF k
<1>2. Moved(j, k) /\ gpc'[j][k] = "spawned"
  BY <1>0, <1>1, GotoMoves DEF Label
<1>3. Cardinality(Holding') = rate
  BY <1>0, <1>1, <1>2, HoldingMoves DEF TokensAccounted
<1>4. wg' \in [Job -> Nat] /\ \A i \in Job : wg'[i] = Cardinality(Counted(i)')
  <2>1. \A i \in Job \ {j} : Cardinality(Counted(i)') = wg[i]
    BY <1>0, <1>2, CountedMoves DEF WgInv
  <2>2. wg[j] \in Nat /\ Cardinality(Counted(j)') = wg[j] + 1
    BY <1>0, <1>1, <1>2, CountedMoves DEF WgInv, Live
  <2> QED
    BY <2>1, <2>2 DEF StartJob, TypeOK
<1>5. \A i \in Job : \A l \in Run : l > gen'[i] => gpc'[i][l] = "none"
  <2>1. ASSUME NEW l \in Run, l > k PROVE l > gen[j] /\ l # k
    BY <1>0, <2>1, RunsFinite
  <2> QED
    BY <1>0, <1>2, <2>1 DEF Moved, WgInv
<1>6. TypeOK'
  <2>1. todo' \in [Caller -> SUBSET Job]
    BY DEF StartJob, Visited, TypeOK
  <2>2. gen' \in [Job -> 0..MaxStarts]
    BY <1>0
  <2> QED
    BY <1>2, <1>4, <2>1, <2>2 DEF StartJob, TypeOK, Moved, Label
<1> QED
  BY <1>0, <1>2, <1>3, <1>4, <1>5, <1>6 DEF k, TokensAccounted, WgInv, StartJob

\* A step that leaves the goroutines alone keeps what is counted of them.
LEMMA CountsStutter ==
  ASSUME CountInv, UNCHANGED <<gen, wg, gpc, rate>>, TypeOK'
  PROVE  CountInv'
BY DEF CountInv, TokensAccounted, WgInv, Holding, Counted

\* Every step of the callers, the goroutines and the parent context keeps the
\* types, the tokens and the wait groups.
LEMMA CountInductive == CountInv /\ [Next]_vars => CountInv'
<1> SUFFICES ASSUME CountInv, [Next]_vars PROVE CountInv'
  OBVIOUS
<1> TypeOK
  BY DEF CountInv
<1> USE DEF jobVars, callVars
<1>1. CASE UNCHANGED vars \/ EndParent
  <2>1. TypeOK'
    BY <1>1 DEF vars, EndParent, TypeOK
  <2> QED
    BY <1>1, <2>1, CountsStutter DEF vars, EndParent
<1>2. ASSUME NEW c \in Caller, StartBegin(c) \/ StopBegin(c) PROVE CountInv'
  <2>1. TypeOK'
    BY <1>2 DEF StartBegin, StopBegin, Enter, TypeOK
  <2> QED
    BY <1>2, <2>1, CountsStutter DEF StartBegin, StopBegin
<1>3. ASSUME NEW c \in Caller, Advance(c) PROVE CountInv'
  <2>1. CASE StartEnd(c) \/ StopUnlock(c) \/ StopEnd(c)
    <3>1. TypeOK'
      BY <2>1 DEF StartEnd, StopUnlock, StopEnd, TypeOK
    <3> QED
      BY <2>1, <3>1, CountsStutter DEF StartEnd, StopUnlock, StopEnd
  <2>2. ASSUME NEW j \in Job, StopJob(c, j) PROVE CountInv'
    <3>1. gen[j] \in Run
      BY <2>2, SchedulerAssumption DEF StopJob, TypeOK, Run
    <3>2. cancelled' \in [Job -> SUBSET Run]
      BY <2>2, <3>1 DEF StopJob, TypeOK
    <3>3. todo' \in [Caller -> SUBSET Job]
      BY <2>2 DEF StopJob, Visited, TypeOK
    <3>4. TypeOK'
      BY <2>2, <3>2, <3>3 DEF StopJob, TypeOK
    <3> QED
      BY <2>2, <3>4, CountsStutter DEF StopJob
  <2>3. ASSUME NEW j \in Job, StopPanics(c, j) \/ StopWait(c, j) PROVE CountInv'
    <3>1. TypeOK'
      BY <2>3 DEF StopPanics, StopWait, Visited, TypeOK
    <3> QED
      BY <2>3, <3>1, CountsStutter DEF StopPanics, StopWait
  <2> QED
    BY <1>3, <2>1, <2>2, <2>3, StartJobCounts DEF Advance
<1>4. ASSUME NEW c \in Caller, NEW j \in Job, Add(c, j) PROVE CountInv'
  <2>1. TypeOK'
    BY <1>4 DEF Add, TypeOK
  <2> QED
    BY <1>4, <2>1, CountsStutter DEF Add
<1> QED
  BY <1>1, <1>2, <1>3, <1>4, GoroutineCounts DEF Next

\* The types and the counts hold of the scheduler from the start.
LEMMA CountInvariant == Spec => []CountInv
<1>1. ASSUME Init PROVE CountInv
  <2>1. 0 \in 0..MaxStarts /\ 0 \in 0..Rate /\ 0 \in Nat
    BY SchedulerAssumption
  <2>2. TypeOK
    BY <1>1, <2>1 DEF Init, TypeOK
  <2>3. Holding = {} /\ \A j \in Job : Counted(j) = {}
    BY <1>1 DEF Init, Holding, Counted, Live
  <2> QED
    BY <1>1, <2>2, <2>3, FS_EmptySet DEF Init, CountInv, TokensAccounted, WgInv
<1> QED
  BY <1>1, CountInductive, PTL DEF Spec

\* Every variable keeps its type: no wait group goes below zero, and s.rate never
\* holds more tokens than its capacity or fewer than none.
THEOREM TypeCorrect == Spec => []TypeOK
<1>1. CountInv => TypeOK
  BY DEF CountInv
<1> QED
  BY <1>1, CountInvariant, PTL

\* A token is in s.rate exactly for each execution that holds one.
THEOREM TokensAreAccounted == Spec => []TokensAccounted
<1>1. CountInv => TokensAccounted
  BY DEF CountInv
<1> QED
  BY <1>1, CountInvariant, PTL

\* No more job functions run at a time than the rate given to NewJobScheduler.
THEOREM RateIsLimited == Spec => []RateLimit
<1>1. CountInv => RateLimit
  <2> SUFFICES ASSUME CountInv PROVE Cardinality(Running) <= Rate
    BY DEF RateLimit
  <2>1. Running \in SUBSET Holding /\ Holding \in SUBSET (Job \X Run)
    BY DEF Running, Holding
  <2>2. IsFiniteSet(Holding)
    BY <2>1, RunsFinite, FS_Subset
  <2>3. Cardinality(Running) <= Cardinality(Holding)
    BY <2>1, <2>2, FS_Subset
  <2>4. Cardinality(Running) \in Nat
    BY <2>1, <2>2, FS_Subset, FS_CardinalityType
  <2>5. Cardinality(Holding) = rate /\ rate \in 0..Rate /\ Rate \in Nat
    BY SchedulerAssumption DEF CountInv, TokensAccounted, TypeOK
  <2> QED
    BY <2>3, <2>4, <2>5
<1> QED
  BY <1>1, CountInvariant, PTL

-----------------------------------------------------------------------------
(* Calls that do not overlap. *)

\* A goroutine's step makes no goroutine.
LEMMA GoroutineRunners ==
  ASSUME TypeOK, NEW j \in Job, NEW k \in Run, Goroutine(j, k)
  PROVE  UNCHANGED callVars /\ \A i \in Job : Runners(i)' \subseteq Runners(i)
<1>1. UNCHANGED callVars
  BY DEF Goroutine, Spawn, ReadContext, SelectDone, SelectTick, ExecDone, ExecToken,
         ExecCheck, FnReturns
<1>2. PICK label \in Label : gpc' = [gpc EXCEPT ![j][k] = label]
  BY DEF Goroutine, Spawn, ReadContext, SelectDone, SelectTick, ExecDone, ExecToken,
         ExecCheck, FnReturns, Goto, Label, Live
<1>3. gpc[j][k] \in Live \cup {"spawned"}
  BY DEF Goroutine, Spawn, ReadContext, SelectDone, SelectTick, ExecDone, ExecToken,
         ExecCheck, FnReturns, Live
<1>4. Moved(j, k)
  BY <1>2, GotoMoves
<1> QED
  BY <1>1, <1>3, <1>4 DEF Moved, Runners

\* An empty wait group means that no goroutine of the job is left.
LEMMA WaitedFor ==
  ASSUME CountInv, NEW j \in Job, wg[j] = 0
  PROVE  Runners(j) = {}
<1>1. Counted(j) \in SUBSET Run /\ Cardinality(Counted(j)) = 0
  BY DEF CountInv, WgInv, Counted
<1>2. Counted(j) = {}
  BY <1>1, RunsFinite, FS_Subset, FS_EmptySet
<1> QED
  BY <1>2 DEF Counted, Runners

\* Every step keeps the invariant of calls that do not overlap.
LEMMA CallInductive == CountInv /\ CallInv /\ [Next]_vars => CallInv'
<1> SUFFICES ASSUME CountInv, AddedInv, SerialInv, [Next]_vars PROVE AddedInv' /\ SerialInv'
  BY DEF CallInv
<1> USE DEF jobVars, callVars
<1> TypeOK
  BY DEF CountInv
<1>1. ASSUME UNCHANGED callVars, \A i \in Job : Runners(i)' \subseteq Runners(i)
      PROVE  AddedInv' /\ SerialInv'
  <2>1. AddedInv'
    BY <1>1 DEF AddedInv
  <2>2. \A c \in Caller : \A j \in todo[c] : j \in Job
    BY DEF TypeOK
  <2>3. SerialInv'
    BY <1>1, <2>2 DEF SerialInv, Idle
  <2> QED
    BY <2>1, <2>3
<1>2. CASE UNCHANGED vars \/ EndParent
  BY <1>1, <1>2 DEF vars, EndParent, Runners
<1>3. ASSUME NEW j \in Job, NEW k \in Run, Goroutine(j, k) PROVE AddedInv' /\ SerialInv'
  BY <1>1, <1>3, GoroutineRunners
<1>4. ASSUME NEW c \in Caller, NEW j \in Job, Add(c, j) PROVE AddedInv' /\ SerialInv'
  BY <1>4 DEF Add, AddedInv, SerialInv, Idle, Runners
<1>5. ASSUME NEW c \in Caller, StartBegin(c) \/ StopBegin(c) PROVE AddedInv' /\ SerialInv'
  <2>1. AddedInv'
    BY <1>5 DEF StartBegin, StopBegin, Enter, AddedInv, Runners, TypeOK
  <2>2. /\ \A i \in Job : Runners(i)' = Runners(i)
        /\ cpc[c] = "idle" /\ cpc'[c] \in {"starting", "cancelling"}
        /\ \A d \in Caller \ {c} : cpc'[d] = cpc[d]
        /\ todo'[c] \subseteq Job
        /\ cpc'[c] = "starting" => ~started /\ started'
        /\ cpc'[c] = "cancelling" => started /\ ~started'
    BY <1>5 DEF StartBegin, StopBegin, Enter, Runners, TypeOK
  <2>3. serial' => serial /\ Idle
    BY <1>5, <2>2 DEF StartBegin, StopBegin, Enter, TypeOK, Idle
  <2>4. SerialInv'
    BY <2>2, <2>3 DEF SerialInv, Idle
  <2> QED
    BY <2>1, <2>4
<1>6. ASSUME NEW c \in Caller, StartEnd(c) \/ StopUnlock(c) \/ StopEnd(c)
      PROVE  AddedInv' /\ SerialInv'
  <2>1. AddedInv'
    BY <1>6 DEF StartEnd, StopUnlock, StopEnd, AddedInv, Runners, TypeOK
  <2>2. /\ \A i \in Job : Runners(i)' = Runners(i)
        /\ \A d \in Caller \ {c} : cpc'[d] = cpc[d] /\ todo'[d] = todo[d]
        /\ UNCHANGED <<started, serial>>
    BY <1>6 DEF StartEnd, StopUnlock, StopEnd, Runners, TypeOK
  <2>3. CASE StartEnd(c)
    <3>1. cpc[c] = "starting" /\ cpc'[c] = "idle" /\ UNCHANGED todo
      BY <2>3 DEF StartEnd, TypeOK
    <3> QED
      BY <2>1, <2>2, <3>1 DEF SerialInv, Idle
  <2>4. CASE StopUnlock(c)
    <3>1. cpc[c] = "cancelling" /\ cpc'[c] = "waiting" /\ todo'[c] = added
      BY <2>4 DEF StopUnlock, TypeOK
    <3>2. \A j \in Job \ added : Runners(j) = {}
      BY DEF AddedInv
    <3> QED
      BY <2>1, <2>2, <3>1, <3>2 DEF SerialInv, Idle
  <2>5. CASE StopEnd(c)
    <3>1. cpc[c] = "waiting" /\ cpc'[c] = "idle" /\ todo[c] = {} /\ UNCHANGED todo
      BY <2>5 DEF StopEnd, TypeOK
    <3> QED
      BY <2>1, <2>2, <3>1 DEF SerialInv, Idle
  <2> QED
    BY <1>6, <2>1, <2>3, <2>4, <2>5
<1>7. ASSUME NEW c \in Caller, NEW j \in Job, StartJob(c, j) PROVE AddedInv' /\ SerialInv'
  <2> DEFINE k == gen[j] + 1
  <2>1. k \in Run /\ Moved(j, k)
    BY <1>7, StartJobCounts
  <2> HIDE DEF k
  <2>2. /\ \A i \in Job \ {j} : Runners(i)' = Runners(i)
        /\ Runners(j)' \subseteq Runners(j) \cup {k}
    BY <2>1 DEF Moved, Runners
  <2>3. /\ cpc[c] = "starting" /\ j \in todo[c] /\ todo'[c] = todo[c] \ {j}
        /\ \A d \in Caller \ {c} : todo'[d] = todo[d]
        /\ UNCHANGED <<cpc, started, serial, added>>
    BY <1>7 DEF StartJob, Visited, TypeOK
  <2>4. AddedInv'
    BY <2>2, <2>3 DEF AddedInv
  <2>5. SerialInv'
    <3> SUFFICES ASSUME serial PROVE SerialInv'
      BY <2>3 DEF SerialInv
    <3>1. Runners(j) = {} /\ started /\ \A d \in Caller \ {c} : cpc[d] = "idle"
      BY <2>3 DEF SerialInv
    <3>2. todo[c] \subseteq Job
      BY DEF TypeOK
    <3> QED
      BY <2>2, <2>3, <3>1, <3>2 DEF SerialInv, Idle
  <2> QED
    BY <2>4, <2>5
<1>8. ASSUME NEW c \in Caller, NEW j \in Job, StopJob(c, j) \/ StopPanics(c, j) \/ StopWait(c, j)
      PROVE  AddedInv' /\ SerialInv'
  <2>1. /\ \A i \in Job : Runners(i)' = Runners(i)
        /\ todo'[c] \subseteq todo[c]
        /\ \A d \in Caller \ {c} : cpc'[d] = cpc[d] /\ todo'[d] = todo[d]
        /\ UNCHANGED <<started, serial, added>>
    BY <1>8 DEF StopJob, StopPanics, StopWait, Visited, Runners, TypeOK
  <2>2. AddedInv'
    BY <2>1 DEF AddedInv
  <2>3. CASE StopJob(c, j) \/ StopPanics(c, j)
    <3>1. cpc[c] = "cancelling" /\ cpc'[c] \in {"cancelling", "panicked"}
      BY <2>3 DEF StopJob, StopPanics, TypeOK
    <3> QED
      BY <2>1, <2>2, <3>1 DEF SerialInv, Idle
  <2>4. CASE StopWait(c, j)
    <3>1. /\ cpc[c] = "waiting" /\ UNCHANGED cpc /\ todo'[c] = todo[c] \ {j}
          /\ Runners(j) = {}
      BY <2>4, WaitedFor DEF StopWait, Visited, TypeOK
    <3> QED
      BY <2>1, <2>2, <3>1 DEF SerialInv, Idle
  <2> QED
    BY <1>8, <2>3, <2>4
<1> QED
  BY <1>2, <1>3, <1>4, <1>5, <1>6, <1>7, <1>8 DEF Next, Advance

\* The invariant of the calls holds from the start.
LEMMA CallInvariant == Spec => []CallInv
<1>1. ASSUME Init PROVE CallInv
  <2>1. \A j \in Job : Runners(j) = {}
    BY <1>1 DEF Init, Runners, Live
  <2> QED
    BY <1>1, <2>1 DEF Init, CallInv, AddedInv, SerialInv
<1> QED
  BY <1>1, CallInductive, CountInvariant, PTL DEF Spec

\* When Stop has come back, nothing of an earlier start is left, if calls of Start
\* and Stop do not overlap.
THEOREM StopHasWaited == Spec => []StopWaited
<1>1. CallInv => StopWaited
  BY DEF CallInv, SerialInv, Idle, StopWaited
<1> QED
  BY <1>1, CallInvariant, PTL

\* A job never has two goroutines, so its executions do not overlap, as long as
\* the calls of Start and Stop do not.
THEOREM OneRunnerPerJob == Spec => []OneRunner
<1>1. CallInv => OneRunner
  <2> SUFFICES ASSUME CallInv, serial, NEW j \in Job PROVE Cardinality(Runners(j)) <= 1
    BY DEF OneRunner
  <2>1. \A k, l \in Runners(j) : k = l
    BY DEF CallInv, SerialInv
  <2>2. CASE Runners(j) = {}
    BY <2>2, FS_EmptySet
  <2>3. CASE Runners(j) # {}
    <3>1. PICK k : Runners(j) = {k}
      BY <2>1, <2>3
    <3>2. Cardinality(Runners(j)) = 1
      BY <3>1, FS_Singleton
    <3> QED
      BY <3>2
  <2> QED
    BY <2>2, <2>3
<1> QED
  BY <1>1, CallInvariant, PTL
=============================================================================
