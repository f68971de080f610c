-------------------------------- MODULE Kernel --------------------------------
(***************************************************************************)
(* kernel/kernel.go: RunKernel from the execution function to the end of   *)
(* Kernel.Stop, the goroutine that waits for a signal, and the list of     *)
(* shutdown hooks, which any goroutine may extend at any time.  What       *)
(* Kernel.Stop does with the leader supervisors is in module Leadership;   *)
(* here it passes them, or does not come past one of them.                 *)
(***************************************************************************)
EXTENDS Naturals, Sequences, FiniteSets

CONSTANTS Hook,        \* the names hooks are registered under, each once
          Priority,    \* the priorities in use
          MaxSignals,  \* bound: signals the operating system sends
          Faulty,      \* bound: hooks that may panic or not return
          FaultySupervisor  \* a leader supervisor's callback may panic or not return

ASSUME KernelAssumption ==
  /\ IsFiniteSet(Hook)
  /\ Priority \subseteq Nat
  /\ MaxSignals \in Nat
  /\ Faulty \subseteq Hook
  /\ FaultySupervisor \in BOOLEAN

VARIABLES main,       \* where the goroutine of RunKernel is
          waiter,     \* where the signal goroutine of Start is
          sig,        \* number of signals in the channel kernel.sig, capacity 1
          notify,     \* signal.Notify is in force
          sent,       \* signals the operating system has sent
          kernelDone, \* the kernel's context is cancelled
          hooks,      \* the linked list kernel.shutdown
          registered, \* history: all hooks, in the order of registration
          executed    \* history: the hooks that ran, in order

hookVars == <<hooks, registered, executed>>
vars == <<main, waiter, sig, notify, sent, kernelDone, hookVars>>

Entry == [name : Hook, priority : Priority]

TypeOK ==
  /\ main \in {"execution", "recover", "run", "stop", "locked", "hooks", "inHook",
               "stuck", "return", "exited", "crashed", "killed"}
  /\ waiter \in {"wait", "cancel", "unsubscribe", "ended"}
  /\ sig \in 0..1
  /\ notify \in BOOLEAN /\ kernelDone \in BOOLEAN
  /\ sent \in 0..MaxSignals
  /\ {hooks, registered, executed} \subseteq Seq(Entry)

\* RunKernel has called Start, which subscribed to the signals.
Init ==
  /\ main = "execution"
  /\ waiter = "wait"
  /\ sig = 0
  /\ notify = TRUE
  /\ sent = 0
  /\ kernelDone = FALSE
  /\ hooks = <<>> /\ registered = <<>> /\ executed = <<>>

\* The process still runs.
Alive == main \notin {"exited", "crashed", "killed"}

-----------------------------------------------------------------------------
(* RegisterShutdown *)

\* mutant: < instead of <=
InsertAtBefore(list, priority) ==
  CHOOSE k \in 1..Len(list) + 1 :
    /\ k = Len(list) + 1 \/ list[k].priority >= priority
    /\ \A i \in 1..k - 1 : list[i].priority < priority

\* The walk along the list ends at the first entry of a larger priority number.
InsertAt(list, priority) ==
  CHOOSE k \in 1..Len(list) + 1 :
    /\ k = Len(list) + 1 \/ list[k].priority > priority
    /\ \A i \in 1..k - 1 : list[i].priority <= priority

\* Under shutdownRWM, which Kernel.Stop holds while hooks run.
RegisterShutdown(name, priority) ==
  /\ Alive /\ main \notin {"hooks", "inHook", "stuck"}
  /\ \A i \in 1..Len(registered) : registered[i].name # name
  /\ LET new == [name |-> name, priority |-> priority]
         k == InsertAt(hooks, priority)
     IN  /\ hooks' = SubSeq(hooks, 1, k - 1) \o <<new>> \o SubSeq(hooks, k, Len(hooks))
         /\ registered' = Append(registered, new)
  /\ UNCHANGED <<main, waiter, sig, notify, sent, kernelDone, executed>>

-----------------------------------------------------------------------------
(* RunKernel *)

\* The execution function returns nil, and Run waits for the context.
ExecutionReturns ==
  /\ main = "execution" /\ main' = "run"
  /\ UNCHANGED <<waiter, sig, notify, sent, kernelDone, hookVars>>

\* It panics, or returns an error and RunKernel panics.
ExecutionFails ==
  /\ main = "execution" /\ main' = "recover"
  /\ UNCHANGED <<waiter, sig, notify, sent, kernelDone, hookVars>>

\* RegisterRecovers: kernel.sig <- SIGTERM waits for room in the channel.
Recover ==
  /\ main = "recover" /\ sig = 0
  /\ sig' = 1
  /\ main' = "stop"
  /\ UNCHANGED <<waiter, notify, sent, kernelDone, hookVars>>

\* Run: <-kernel.ctx.Done()
RunReturns ==
  /\ main = "run" /\ kernelDone
  /\ main' = "stop"
  /\ UNCHANGED <<waiter, sig, notify, sent, kernelDone, hookVars>>

\* Kernel.Stop passes the supervisors and takes shutdownRWM.
StopSupervisors ==
  /\ main = "stop" /\ main' = "hooks"
  /\ UNCHANGED <<waiter, sig, notify, sent, kernelDone, hookVars>>

\* It does not: a supervisor's mu was left locked by the panic of its Start or Stop
\* in the loop, or is held by one that does not return, or Kernel.Stop's own call of
\* supervisor.Stop does not return or panics.
StopSupervisorsFails ==
  /\ main = "stop" /\ FaultySupervisor
  /\ main' \in {"locked", "crashed"}
  /\ UNCHANGED <<waiter, sig, notify, sent, kernelDone, hookVars>>

\* shutdownAllAndDeleteAllCanceled calls the first function of the list, ...
CallHook ==
  /\ main = "hooks" /\ hooks # <<>>
  /\ main' = "inHook"
  /\ UNCHANGED <<waiter, sig, notify, sent, kernelDone, hookVars>>

\* ... takes it off the list when it returns, ...
HookReturns ==
  /\ main = "inHook" /\ main' = "hooks"
  /\ executed' = Append(executed, Head(hooks))
  /\ hooks' = Tail(hooks)
  /\ UNCHANGED <<waiter, sig, notify, sent, kernelDone, registered>>

\* ... is left by its panic, which nothing recovers any more, ...
HookPanics ==
  /\ main = "inHook" /\ Head(hooks).name \in Faulty
  /\ main' = "crashed"
  /\ UNCHANGED <<waiter, sig, notify, sent, kernelDone, hookVars>>

\* ... or is waited for: it does not return, as one that registers a hook, for
\* shutdownRWM is held.
HookBlocks ==
  /\ main = "inHook" /\ Head(hooks).name \in Faulty
  /\ main' = "stuck"
  /\ UNCHANGED <<waiter, sig, notify, sent, kernelDone, hookVars>>

\* The list is empty: shutdownRWM is released, ...
HooksDone ==
  /\ main = "hooks" /\ hooks = <<>>
  /\ main' = "return"
  /\ UNCHANGED <<waiter, sig, notify, sent, kernelDone, hookVars>>

\* ... Stop and RunKernel return, and the process ends.
StopReturns ==
  /\ main = "return"
  /\ main' = "exited"
  /\ UNCHANGED <<waiter, sig, notify, sent, kernelDone, hookVars>>

Main ==
  \/ ExecutionReturns \/ ExecutionFails \/ Recover \/ RunReturns
  \/ StopSupervisors \/ StopSupervisorsFails
  \/ CallHook \/ HookReturns \/ HookPanics \/ HookBlocks \/ HooksDone \/ StopReturns

-----------------------------------------------------------------------------
(* Start: the signal goroutine, and the operating system. *)

\* <-kernel.sig
ReceiveSignal ==
  /\ Alive /\ waiter = "wait" /\ sig = 1
  /\ sig' = 0
  /\ waiter' = "cancel"
  /\ UNCHANGED <<main, notify, sent, kernelDone, hookVars>>

\* mutant: cancel() is forgotten
SkipCancel ==
  /\ Alive /\ waiter = "cancel" /\ waiter' = "unsubscribe"
  /\ UNCHANGED <<main, sig, notify, sent, kernelDone, hookVars>>

\* cancel()
CancelContext ==
  /\ Alive /\ waiter = "cancel"
  /\ kernelDone' = TRUE
  /\ waiter' = "unsubscribe"
  /\ UNCHANGED <<main, sig, notify, sent, hookVars>>

\* deferred signal.Stop(kernel.sig)
Unsubscribe ==
  /\ Alive /\ waiter = "unsubscribe"
  /\ notify' = FALSE
  /\ waiter' = "ended"
  /\ UNCHANGED <<main, sig, sent, kernelDone, hookVars>>

Waiter == ReceiveSignal \/ CancelContext \/ Unsubscribe

\* mutant: the channel takes every signal
SignalQueued ==
  /\ Alive /\ sent < MaxSignals
  /\ sent' = sent + 1
  /\ \/ notify /\ sig' = sig + 1 /\ UNCHANGED main
     \/ ~notify /\ main' = "killed" /\ UNCHANGED sig
  /\ UNCHANGED <<waiter, notify, kernelDone, hookVars>>

\* A SIGTERM, SIGINT or SIGQUIT: put in the channel if there is room and dropped
\* if not; without a subscription it kills the process.
Signal ==
  /\ Alive /\ sent < MaxSignals
  /\ sent' = sent + 1
  /\ \/ notify /\ sig' = 1 /\ UNCHANGED main
     \/ ~notify /\ main' = "killed" /\ UNCHANGED sig
  /\ UNCHANGED <<waiter, notify, kernelDone, hookVars>>

-----------------------------------------------------------------------------
Next ==
  \/ Main \/ Waiter \/ Signal
  \/ \E name \in Hook, priority \in Priority : RegisterShutdown(name, priority)

Spec == Init /\ [][Next]_vars

\* Both goroutines run while they can; the execution function ends.  A hook that does
\* not return and a supervisor that is not passed are steps of their own, after which
\* nothing is fair.
Fairness == WF_vars(Main) /\ WF_vars(Waiter)

FairSpec == Spec /\ Fairness

-----------------------------------------------------------------------------
(* Properties. *)

RegistrationIndex(e) == CHOOSE i \in 1..Len(registered) : registered[i] = e

\* e is to run before f: smaller priority number first, then first come first served.
Before(e, f) ==
  \/ e.priority < f.priority
  \/ e.priority = f.priority /\ RegistrationIndex(e) < RegistrationIndex(f)

\* The hooks that ran, followed by those that wait, are all the registered ones,
\* each once, in the order of priority and, within a priority, of registration:
\* RegisterShutdown (kernel.go:173) may come from any goroutine at any time.
\* Only a hook that comes after the list was run to its end is out of order.
HooksInOrder ==
  LET late == main \in {"return", "exited", "killed"} /\ executed # <<>>
      all == IF late THEN executed ELSE executed \o hooks
  IN  /\ Len(executed) + Len(hooks) = Len(registered)
      /\ \A i, j \in 1..Len(all) : i < j => Before(all[i], all[j])

\* A second signal that came before signal.Stop and that nobody receives: the
\* recovery of a failed execution function waits for room in the channel.
Blocked == main = "recover" /\ sig = 1 /\ waiter # "wait"

\* The kernel does not come past a supervisor (kernel.go:209-212), or a hook does not
\* return (kernel.go:201): both are for the application to avoid.
Held == main \in {"locked", "stuck"}

\* A failed execution function cancels the context of everybody else, and a kernel
\* whose context is cancelled ends, whatever signals come while it shuts down, if the
\* callbacks of the supervisors and the hooks come back and the recovery is not
\* Blocked, which takes two signals.  It is not said to end in good order: it may
\* crash or be killed before the hooks have run.
KernelEnds ==
  /\ main = "recover" ~> kernelDone \/ ~Alive
  /\ kernelDone ~> ~Alive \/ Held \/ (Blocked /\ sent >= 2)
=============================================================================
