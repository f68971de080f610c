----------------------------- MODULE JobScheduler -----------------------------
(***************************************************************************)
(* scheduler/scheduler.go: jobs that run on tickers under a common rate    *)
(* limit, started and stopped by any number of callers.                    *)
(*                                                                         *)
(* The k-th pass of Start over a job makes the k-th context of that job    *)
(* (j.ctx, j.cancel) and the k-th goroutine of run: both are named k here. *)
(* A goroutine takes the newest context each time it comes to a select.    *)
(***************************************************************************)
EXTENDS Integers, FiniteSets

CONSTANTS Job,        \* names of jobs
          Caller,     \* goroutines that call Add, Start and Stop
          NoCaller,   \* s.mu is free
          Rate,       \* capacity of s.rate
          MaxStarts,  \* bound: passes of Start over one job
          ParentEnds  \* whether the context given to Start is ever cancelled

ASSUME SchedulerAssumption ==
  /\ IsFiniteSet(Job)
  /\ NoCaller \notin Caller
  /\ Rate \in Nat \ {0}
  /\ MaxStarts \in Nat
  /\ ParentEnds \in BOOLEAN

VARIABLES started,    \* s.started
          added,      \* the keys of s.goroutines
          smu,        \* who holds s.mu across steps
          gen,        \* gen[j]: number of the newest context of j, 0 is nil
          cancelled,  \* cancelled[j]: contexts of j that were cancelled
          parentDone, \* the context given to Start is done
          wg,         \* wg[j]: j.wg
          rate,       \* tokens in s.rate
          gpc,        \* gpc[j][k]: where goroutine k of j is
          ctx,        \* ctx[j][k]: the context the select it is in waits for
          cpc,        \* cpc[c]: where caller c is
          todo,       \* todo[c]: jobs c has still to visit in its loop
          serial      \* history: so far no call began while another one was under way

jobVars == <<gen, cancelled, wg, gpc, ctx, rate>>
callVars == <<started, added, smu, cpc, todo, serial>>
vars == <<jobVars, callVars, parentDone>>

Run == 1..MaxStarts
Live == {"read", "select", "exec", "token", "fn"}

TypeOK ==
  /\ started \in BOOLEAN /\ parentDone \in BOOLEAN
  /\ added \subseteq Job
  /\ smu \in Caller \cup {NoCaller}
  /\ gen \in [Job -> 0..MaxStarts]
  /\ cancelled \in [Job -> SUBSET Run]
  /\ wg \in [Job -> Nat]
  /\ rate \in 0..Rate
  /\ gpc \in [Job -> [Run -> Live \cup {"none", "spawned", "done", "skipped"}]]
  /\ ctx \in [Job -> [Run -> 0..MaxStarts]]
  /\ cpc \in [Caller -> {"idle", "starting", "cancelling", "waiting", "panicked"}]
  /\ todo \in [Caller -> SUBSET Job]
  /\ serial \in BOOLEAN

Init ==
  /\ started = FALSE /\ parentDone = FALSE
  /\ added = {}
  /\ smu = NoCaller
  /\ gen = [j \in Job |-> 0]
  /\ cancelled = [j \in Job |-> {}]
  /\ wg = [j \in Job |-> 0]
  /\ rate = 0
  /\ gpc = [j \in Job |-> [k \in Run |-> "none"]]
  /\ ctx = [j \in Job |-> [k \in Run |-> 0]]
  /\ cpc = [c \in Caller |-> "idle"]
  /\ todo = [c \in Caller |-> {}]
  /\ serial = TRUE

-----------------------------------------------------------------------------
(* Callers.  A Start of a started and a Stop of a stopped scheduler return at once. *)

\* Add: refused once started, and for a name that exists
Add(c, j) ==
  /\ cpc[c] = "idle" /\ smu = NoCaller
  /\ ~started /\ j \notin added
  /\ added' = added \cup {j}
  /\ UNCHANGED <<jobVars, started, smu, cpc, todo, serial, parentDone>>

Enter(c, label) ==
  /\ cpc[c] = "idle" /\ smu = NoCaller
  /\ cpc' = [cpc EXCEPT ![c] = label]
  /\ todo' = [todo EXCEPT ![c] = added]
  /\ serial' = (serial /\ \A d \in Caller \ {c} : cpc[d] = "idle")

\* mutant: started is not looked at
StartBeginAlways(c) ==
  /\ \A j \in Job : gen[j] < MaxStarts
  /\ Enter(c, "starting")
  /\ started' = TRUE
  /\ UNCHANGED <<jobVars, added, smu, parentDone>>

\* Start, under s.mu: sets started and copies the jobs.
StartBegin(c) ==
  /\ \A j \in Job : gen[j] < MaxStarts
  /\ ~started /\ Enter(c, "starting")
  /\ started' = TRUE
  /\ UNCHANGED <<jobVars, added, smu, parentDone>>

Visited(c, j) == j \in todo[c] /\ todo' = [todo EXCEPT ![c] = @ \ {j}]

\* ... and without it, job by job: context, ticker, wg.Add(1), GoRecover
StartJob(c, j) ==
  /\ cpc[c] = "starting" /\ Visited(c, j)
  /\ gen[j] < MaxStarts
  /\ gen' = [gen EXCEPT ![j] = @ + 1]
  /\ wg' = [wg EXCEPT ![j] = @ + 1]
  /\ gpc' = [gpc EXCEPT ![j][gen[j] + 1] = "spawned"]
  /\ UNCHANGED <<cancelled, ctx, rate, started, added, smu, cpc, serial, parentDone>>

StartEnd(c) ==
  /\ cpc[c] = "starting" /\ todo[c] = {}
  /\ cpc' = [cpc EXCEPT ![c] = "idle"]
  /\ UNCHANGED <<jobVars, started, added, smu, todo, serial, parentDone>>

\* Stop, holding s.mu: started is cleared, then every job is cancelled.
StopBegin(c) ==
  /\ started /\ Enter(c, "cancelling")
  /\ started' = FALSE
  /\ smu' = c
  /\ UNCHANGED <<jobVars, added, parentDone>>

StopJob(c, j) ==
  /\ cpc[c] = "cancelling" /\ Visited(c, j)
  /\ gen[j] # 0
  /\ cancelled' = [cancelled EXCEPT ![j] = @ \cup {gen[j]}]
  /\ UNCHANGED <<gen, wg, gpc, ctx, rate, started, added, smu, cpc, serial, parentDone>>

\* j.cancel is nil because Start has not come to j yet: a panic, s.mu stays locked.
StopPanics(c, j) ==
  /\ cpc[c] = "cancelling" /\ j \in todo[c] /\ gen[j] = 0
  /\ cpc' = [cpc EXCEPT ![c] = "panicked"]
  /\ UNCHANGED <<jobVars, started, added, smu, todo, serial, parentDone>>

StopUnlock(c) ==
  /\ cpc[c] = "cancelling" /\ todo[c] = {}
  /\ smu' = NoCaller
  /\ cpc' = [cpc EXCEPT ![c] = "waiting"]
  /\ todo' = [todo EXCEPT ![c] = added]
  /\ UNCHANGED <<jobVars, started, added, serial, parentDone>>

\* mutant: Stop does not wait
StopWaitNot(c, j) ==
  /\ cpc[c] = "waiting" /\ Visited(c, j)
  /\ UNCHANGED <<jobVars, started, added, smu, cpc, serial, parentDone>>

\* j.wg.Wait()
StopWait(c, j) ==
  /\ cpc[c] = "waiting" /\ Visited(c, j) /\ wg[j] = 0
  /\ UNCHANGED <<jobVars, started, added, smu, cpc, serial, parentDone>>

StopEnd(c) ==
  /\ cpc[c] = "waiting" /\ todo[c] = {}
  /\ cpc' = [cpc EXCEPT ![c] = "idle"]
  /\ UNCHANGED <<jobVars, started, added, smu, todo, serial, parentDone>>

-----------------------------------------------------------------------------
(* The goroutines of run. *)

Done(j, g) == parentDone \/ g \in cancelled[j]
Goto(j, k, label) == gpc' = [gpc EXCEPT ![j][k] = label]

\* GoRecover: a context that is already done keeps run, and its wg.Done, from
\* being executed.
Spawn(j, k) ==
  /\ gpc[j][k] = "spawned"
  /\ Goto(j, k, IF parentDone THEN "skipped" ELSE "read")
  /\ UNCHANGED <<gen, cancelled, wg, ctx, rate, callVars, parentDone>>

ReadContext(j, k) ==
  /\ gpc[j][k] = "read"
  /\ ctx' = [ctx EXCEPT ![j][k] = gen[j]]
  /\ Goto(j, k, "select")
  /\ UNCHANGED <<gen, cancelled, wg, rate, callVars, parentDone>>

\* mutant: wg.Done() twice
SelectDoneTwice(j, k) ==
  /\ gpc[j][k] = "select" /\ Done(j, ctx[j][k])
  /\ Goto(j, k, "done")
  /\ wg' = [wg EXCEPT ![j] = @ - 2]
  /\ UNCHANGED <<gen, cancelled, ctx, rate, callVars, parentDone>>

\* case <-ctx.Done(): return
SelectDone(j, k) ==
  /\ gpc[j][k] = "select" /\ Done(j, ctx[j][k])
  /\ Goto(j, k, "done")
  /\ wg' = [wg EXCEPT ![j] = @ - 1]
  /\ UNCHANGED <<gen, cancelled, ctx, rate, callVars, parentDone>>

\* A tick, be it one that was in the channel before the ticker was stopped; exec
\* comes to its own select.
SelectTick(j, k) ==
  /\ gpc[j][k] = "select"
  /\ ctx' = [ctx EXCEPT ![j][k] = gen[j]]
  /\ Goto(j, k, "exec")
  /\ UNCHANGED <<gen, cancelled, wg, rate, callVars, parentDone>>

ExecDone(j, k) ==
  /\ gpc[j][k] = "exec" /\ Done(j, ctx[j][k])
  /\ Goto(j, k, "read")
  /\ UNCHANGED <<gen, cancelled, wg, ctx, rate, callVars, parentDone>>

\* mutant: one token too many
ExecTokenOver(j, k) ==
  /\ gpc[j][k] = "exec" /\ rate <= Rate
  /\ rate' = rate + 1
  /\ Goto(j, k, "token")
  /\ UNCHANGED <<gen, cancelled, wg, ctx, callVars, parentDone>>

ExecToken(j, k) ==
  /\ gpc[j][k] = "exec" /\ rate < Rate
  /\ rate' = rate + 1
  /\ Goto(j, k, "token")
  /\ UNCHANGED <<gen, cancelled, wg, ctx, callVars, parentDone>>

\* mutant: the early return leaves the token in the channel
ExecCheckKeepsToken(j, k) ==
  /\ gpc[j][k] = "token"
  /\ Goto(j, k, IF Done(j, gen[j]) THEN "read" ELSE "fn")
  /\ UNCHANGED <<gen, cancelled, wg, ctx, rate, callVars, parentDone>>

\* The context is looked at once more; the token goes back by a defer.
ExecCheck(j, k) ==
  /\ gpc[j][k] = "token"
  /\ \/ Done(j, gen[j]) /\ Goto(j, k, "read") /\ rate' = rate - 1
     \/ ~Done(j, gen[j]) /\ Goto(j, k, "fn") /\ UNCHANGED rate
  /\ UNCHANGED <<gen, cancelled, wg, ctx, callVars, parentDone>>

\* The job's function returns, fails or panics (recovered); in either stop mode
\* its context carries the job's deadline.
FnReturns(j, k) ==
  /\ gpc[j][k] = "fn"
  /\ rate' = rate - 1
  /\ Goto(j, k, "read")
  /\ UNCHANGED <<gen, cancelled, wg, ctx, callVars, parentDone>>

\* Whoever gave Start its context cancels it.
EndParent ==
  /\ ParentEnds /\ ~parentDone
  /\ parentDone' = TRUE
  /\ UNCHANGED <<jobVars, callVars>>

-----------------------------------------------------------------------------
Advance(c) ==
  \/ StartEnd(c) \/ StopUnlock(c) \/ StopEnd(c)
  \/ \E j \in Job : StartJob(c, j) \/ StopJob(c, j) \/ StopPanics(c, j) \/ StopWait(c, j)

Goroutine(j, k) ==
  \/ Spawn(j, k) \/ ReadContext(j, k) \/ SelectDone(j, k) \/ SelectTick(j, k)
  \/ ExecDone(j, k) \/ ExecToken(j, k) \/ ExecCheck(j, k) \/ FnReturns(j, k)

Next ==
  \/ EndParent
  \/ \E c \in Caller : StartBegin(c) \/ StopBegin(c) \/ Advance(c)
  \/ \E c \in Caller, j \in Job : Add(c, j)
  \/ \E j \in Job, k \in Run : Goroutine(j, k)

Spec == Init /\ [][Next]_vars

\* Callers and goroutines run while they can.  select picks among ready cases
\* at random, so a context that is done is noticed sooner or later even if
\* ticks keep coming, and exec gets a token or notices the context.
Fairness ==
  /\ \A c \in Caller : WF_vars(Advance(c))
  /\ \A j \in Job, k \in Run :
       /\ WF_vars(Goroutine(j, k))
       /\ SF_vars(SelectDone(j, k))
       /\ SF_vars(ExecDone(j, k) \/ ExecToken(j, k))

FairSpec == Spec /\ Fairness

-----------------------------------------------------------------------------
(* Properties. *)

\* The goroutines, as <<job, run>>, that run the job's function, and those that
\* hold a token of s.rate.
Running == {e \in Job \X Run : gpc[e[1]][e[2]] = "fn"}
Holding == {e \in Job \X Run : gpc[e[1]][e[2]] \in {"token", "fn"}}
Runners(j) == {k \in Run : gpc[j][k] \in Live \cup {"spawned"}}

\* No more job functions run at a time than the rate given to NewJobScheduler,
\* whichever way earlier executions ended.
RateLimit == Cardinality(Running) <= Rate

\* A token is in the channel exactly for each execution that holds one: none is
\* lost on an early return, so the scheduler does not starve.
TokensAccounted == rate = Cardinality(Holding)

\* When Stop has come back, nothing of an earlier start is left: "Stop stops the
\* jobs and waits for their completion" (scheduler.go:112).  It takes that calls
\* of Start and Stop do not overlap.
StopWaited ==
  serial /\ ~started /\ (\A c \in Caller : cpc[c] = "idle")
    => \A j \in Job : Runners(j) = {}

\* A job never has two goroutines, so its executions do not overlap, as long as
\* the calls of Start and Stop do not.
OneRunner == serial => \A j \in Job : Cardinality(Runners(j)) <= 1

\* A call of Stop that waits for the jobs comes back (scheduler.go:112).
StopReturns == \A c \in Caller : (cpc[c] = "waiting") ~> (cpc[c] # "waiting")
=============================================================================
