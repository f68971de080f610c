------------------------------ MODULE Leadership ------------------------------
(***************************************************************************)
(* kernel/kernel.go: the leader supervisors of one kernel, on top of the   *)
(* elections they follow (LeaderFeed).  For every supervisor a goroutine   *)
(* of StartWatchdogsLeadership turns announcements into calls of the       *)
(* supervisor's Start and Stop; Kernel.Stop walks the supervisors in the   *)
(* order of registration.  Start and Stop are the application's callbacks: *)
(* each is an interval, entered under the supervisor's mutex and left by   *)
(* returning or, where MayPanic says so, by a panic.                       *)
(***************************************************************************)
EXTENDS LeaderFeed

CONSTANTS N,           \* number of registered supervisors
          MayPanic,    \* bound: supervisors whose Start may panic
          WatchdogStops \* bound: watchdogs the application may stop by itself

ASSUME LeadershipAssumption ==
  /\ N \in Nat \ {0}
  /\ Node = 1..N
  /\ MayPanic \subseteq Node /\ WatchdogStops \subseteq Node

VARIABLES kernelDone,  \* kernel.ctx is cancelled
          supDone,     \* supDone[s]: supervisor.cancel() was called
          lpc,         \* lpc[s]: where the goroutine of s is
          mu,          \* mu[s]: who holds supervisor.mu
          Working,     \* Working[s]: the field
          active,      \* active[s]: Start has returned and no Stop has returned since
          at,          \* Kernel.Stop: the supervisor it is at, 0 before, N+1 after
          inStop       \* Kernel.Stop is inside the Stop callback of supervisor at

supVars == <<kernelDone, supDone, lpc, mu, Working, active, at, inStop>>
vars == <<feedVars, supVars>>

TypeOK ==
  /\ FeedTypeOK
  /\ kernelDone \in BOOLEAN
  /\ supDone \in [Node -> BOOLEAN]
  /\ lpc \in [Node -> {"spawn", "select", "lost", "taken", "clear", "starting", "stopping",
                       "returned", "dead"}]
  /\ mu \in [Node -> {"free", "loop", "kernel"}]
  /\ Working \in [Node -> BOOLEAN]
  /\ active \in [Node -> BOOLEAN]
  /\ at \in 0..N+1
  /\ inStop \in BOOLEAN

Init ==
  /\ FeedInit
  /\ kernelDone = FALSE
  /\ supDone = [s \in Node |-> FALSE]
  /\ lpc = [s \in Node |-> "spawn"]
  /\ mu = [s \in Node |-> "free"]
  /\ Working = [s \in Node |-> FALSE]
  /\ active = [s \in Node |-> FALSE]
  /\ at = 0
  /\ inStop = FALSE

-----------------------------------------------------------------------------
(* StartWatchdogsLeadership: the goroutine of supervisor s. *)

Goto(s, label) == lpc' = [lpc EXCEPT ![s] = label]
Acquire(s, who) == mu[s] = "free" /\ mu' = [mu EXCEPT ![s] = who]
Release(s) == mu' = [mu EXCEPT ![s] = "free"]

kernelVars == <<kernelDone, supDone, at, inStop>>

\* GoRecover runs the loop unless the kernel's context is already done.
LoopSpawn(s) ==
  /\ lpc[s] = "spawn"
  /\ Goto(s, IF kernelDone THEN "returned" ELSE "select")
  /\ UNCHANGED <<feedVars, kernelVars, mu, Working, active>>

\* case <-ctx.Done()
LoopKernelDone(s) ==
  /\ lpc[s] = "select" /\ kernelDone
  /\ Goto(s, "returned")
  /\ UNCHANGED <<feedVars, kernelVars, mu, Working, active>>

\* case <-supervisor.ctx.Done(); the context is a child of the kernel's
LoopSupDone(s) ==
  /\ lpc[s] = "select" /\ (supDone[s] \/ kernelDone)
  /\ Goto(s, "clear")
  /\ UNCHANGED <<feedVars, kernelVars, mu, Working, active>>

\* ... lock, Working = false, unlock, return: without a call of Stop
LoopClear(s) ==
  /\ lpc[s] = "clear" /\ mu[s] = "free"
  /\ Working' = [Working EXCEPT ![s] = FALSE]
  /\ Goto(s, "returned")
  /\ UNCHANGED <<feedVars, kernelVars, mu, active>>

\* case res, ok := <-supervisor.Watcher
LoopReceive(s) ==
  /\ lpc[s] = "select"
  /\ \/ Receive(s) /\ Goto(s, IF Head(watcher[s]) = LostAcquire THEN "lost" ELSE "taken")
     \/ watcher[s] = <<>> /\ closed[s] /\ Goto(s, "returned") /\ UNCHANGED feedVars
  /\ UNCHANGED <<kernelVars, mu, Working, active>>

\* mutant: Lost is taken for an old announcement and skipped
LoopLostSkipped(s) ==
  /\ lpc[s] = "lost" /\ Goto(s, "select")
  /\ UNCHANGED <<feedVars, kernelVars, mu, Working, active>>

\* LostAcquire: under mu, Stop is called if Working
LoopLost(s) ==
  /\ lpc[s] = "lost"
  /\ \/ Working[s] /\ Acquire(s, "loop") /\ Goto(s, "stopping")
     \/ ~Working[s] /\ mu[s] = "free" /\ Goto(s, "select") /\ UNCHANGED mu
  /\ UNCHANGED <<feedVars, kernelVars, Working, active>>

\* mutant: mu is not released
LoopStopKeepsMutex(s) ==
  /\ lpc[s] = "stopping"
  /\ active' = [active EXCEPT ![s] = FALSE]
  /\ Working' = [Working EXCEPT ![s] = FALSE]
  /\ Goto(s, "select")
  /\ UNCHANGED <<feedVars, kernelVars, mu>>

LoopStopReturns(s) ==
  /\ lpc[s] = "stopping"
  /\ active' = [active EXCEPT ![s] = FALSE]
  /\ Working' = [Working EXCEPT ![s] = FALSE]
  /\ Release(s)
  /\ Goto(s, "select")
  /\ UNCHANGED <<feedVars, kernelVars>>

\* TakenAcquire: under mu, Start is called if not Working
LoopTaken(s) ==
  /\ lpc[s] = "taken"
  /\ \/ ~Working[s] /\ Acquire(s, "loop") /\ Goto(s, "starting")
     \/ Working[s] /\ mu[s] = "free" /\ Goto(s, "select") /\ UNCHANGED mu
  /\ UNCHANGED <<feedVars, kernelVars, Working, active>>

LoopStartReturns(s) ==
  /\ lpc[s] = "starting"
  /\ active' = [active EXCEPT ![s] = TRUE]
  /\ Working' = [Working EXCEPT ![s] = TRUE]
  /\ Release(s)
  /\ Goto(s, "select")
  /\ UNCHANGED <<feedVars, kernelVars>>

\* A panic of Start ends in GoRecover; no deferred unlock frees mu.
LoopStartPanics(s) ==
  /\ lpc[s] = "starting" /\ s \in MayPanic
  /\ Goto(s, "dead")
  /\ UNCHANGED <<feedVars, kernelVars, mu, Working, active>>

Loop(s) ==
  \/ LoopSpawn(s) \/ LoopKernelDone(s) \/ LoopSupDone(s) \/ LoopClear(s)
  \/ LoopReceive(s) \/ LoopLost(s) \/ LoopStopReturns(s)
  \/ LoopTaken(s) \/ LoopStartReturns(s) \/ LoopStartPanics(s)

-----------------------------------------------------------------------------
(* The end of the kernel. *)

\* The signal goroutine calls cancel(): the kernel's context and with it the
\* contexts of the watchdogs are done.
Cancel ==
  /\ ~kernelDone
  /\ kernelDone' = TRUE
  /\ ctxDone' = [s \in Node |-> TRUE]
  /\ UNCHANGED <<phase, isLeader, watcher, closed, supDone, lpc, mu, Working, active, at, inStop>>

\* Kernel.Stop is deferred in RunKernel: it begins when the context is done, or
\* before that when the execution function panics or returns an error.
StopBegin ==
  /\ at = 0 /\ at' = 1
  /\ UNCHANGED <<feedVars, kernelDone, supDone, lpc, mu, Working, active, inStop>>

\* mutant: mu is not taken
StopSupervisorUnlocked ==
  /\ at \in Node /\ ~inStop
  /\ supDone' = [supDone EXCEPT ![at] = TRUE]
  /\ \/ Working[at] /\ inStop' = TRUE /\ UNCHANGED at
     \/ ~Working[at] /\ at' = at + 1 /\ UNCHANGED inStop
  /\ UNCHANGED <<feedVars, kernelDone, lpc, mu, Working, active>>

\* Under mu: cancel the supervisor's context, call Stop if Working
StopSupervisor ==
  /\ at \in Node /\ ~inStop /\ mu[at] = "free"
  /\ supDone' = [supDone EXCEPT ![at] = TRUE]
  /\ \/ Working[at] /\ inStop' = TRUE /\ Acquire(at, "kernel") /\ UNCHANGED at
     \/ ~Working[at] /\ at' = at + 1 /\ UNCHANGED <<inStop, mu>>
  /\ UNCHANGED <<feedVars, kernelDone, lpc, Working, active>>

StopCallbackReturns ==
  /\ inStop /\ inStop' = FALSE
  /\ active' = [active EXCEPT ![at] = FALSE]
  /\ Working' = [Working EXCEPT ![at] = FALSE]
  /\ Release(at)
  /\ at' = at + 1
  /\ UNCHANGED <<feedVars, kernelDone, supDone, lpc>>

KernelStop == StopSupervisor \/ StopCallbackReturns

-----------------------------------------------------------------------------
ElectStep(s) == Elect(s) /\ UNCHANGED supVars
WatchdogStop(s) == s \in WatchdogStops /\ Stop(s) /\ UNCHANGED supVars

Next ==
  \/ Cancel \/ StopBegin \/ KernelStop
  \/ \E s \in Node : Loop(s) \/ ElectStep(s) \/ WatchdogStop(s)

Spec == Init /\ [][Next]_vars

\* The Go scheduler runs every goroutine that can move, callbacks return, an
\* announcement is sent when there is room, and a sync.Mutex does not starve
\* Kernel.Stop while the loop takes and releases it: strong fairness.
Fairness ==
  /\ WF_vars(StopCallbackReturns) /\ SF_vars(StopSupervisor)
  /\ \A s \in Node :
       /\ WF_vars(Loop(s))
       /\ WF_vars(ElectStep(s) /\ phase[s] # "idle")

FairSpec == Spec /\ Fairness

-----------------------------------------------------------------------------
(* Properties. *)

\* Start is only called on stopped work and Stop only on started work, and no
\* two callbacks of a supervisor overlap, although the goroutine of
\* StartWatchdogsLeadership and Kernel.Stop both call them.
CallbacksPaired ==
  \A s \in Node :
    /\ lpc[s] = "starting" => ~active[s]
    /\ lpc[s] = "stopping" => active[s]
    /\ inStop /\ at = s => active[s] /\ lpc[s] \notin {"starting", "stopping"}

\* Until it is shut down, a supervisor that has handled every announcement
\* runs its work exactly if its process is the leader.
SettledAgreement ==
  \A s \in Node :
    /\ ~ctxDone[s] /\ ~supDone[s]
    /\ lpc[s] = "select" /\ watcher[s] = <<>> /\ phase[s] = "idle"
    => (active[s] <=> isLeader[s])

\* Work that goes on after the leadership is lost is stopped, unless the process
\* or the watchdog is being shut down: then the announcement may be dropped, and
\* the loop may end or clear Working without calling Stop.
LossStopsWork ==
  \A s \in Node :
    (active[s] /\ ~isLeader[s]) ~> (~active[s] \/ isLeader[s] \/ ctxDone[s] \/ supDone[s])

\* Kernel.Stop gets past its supervisors, so the shutdown hooks behind them run,
\* unless a panic of Start has left a mutex locked.
ShutdownCompletes == (at = 1) ~> (at = N + 1 \/ \E s \in Node : lpc[s] = "dead")

\* Behind the log line "Supervisor %s has been stopped" (kernel.go:216) the work
\* of the supervisor is stopped.
StoppedMeansInactive == \A s \in Node : at > s => ~active[s]
=============================================================================
