---------------------------- MODULE WatchdogLeader ----------------------------
(***************************************************************************)
(* watchdog/watchdog_leader.go: Elect, the goroutine each process runs to  *)
(* take and keep the election lock, and Stop, which cancels it.            *)
(*                                                                         *)
(* Time is one clock for everybody: Tick runs down the TTL of the key and  *)
(* the tickers, and measures how long each goroutine is away from its      *)
(* select with a tick to serve.  MaxBusy bounds that delay; how it relates *)
(* to Expiration decides whether two processes can both think they lead.   *)
(***************************************************************************)
EXTENDS RedisLocker, Sequences

CONSTANTS MaxBusy,    \* longest time a due tick goes unserved, in ticks
          Cap,        \* capacity of the watcher channel (8 in the code)
          Stoppable   \* bound: the nodes whose watchdog may be stopped

ASSUME WatchdogAssumption ==
  /\ Expiration >= 3
  /\ MaxBusy \in Nat
  /\ Cap \in Nat \ {0}
  /\ Stoppable \subseteq Node

VARIABLES pc,           \* pc[n]: where the goroutine of n is
          isLeader,     \* isLeader[n]: its local variable
          renew,        \* renew[n]: renewIntervalJitter
          timer,        \* timer[n]: ticks until the ticker fires
          tickPending,  \* tickPending[n]: ticker.C holds a tick
          age,          \* age[n]: how long n has been busy
          ctxDone,      \* ctxDone[n]: the watchdog context is cancelled
          watcher,      \* watcher[n]: events nobody has received yet
          closed        \* closed[n]: close(watcher) was executed

loopVars == <<pc, isLeader, tickPending, age>>
clockVars == <<renew, timer>>
chanVars == <<watcher, closed>>
vars == <<lockerVars, loopVars, clockVars, chanVars, ctxDone>>

LostAcquire == 1
TakenAcquire == 2

\* mutant: renew when the lock is about to expire
RenewAtExpiry == {Expiration}

\* Expiration/3 + rand.Int63n(Expiration/10), rounded down to clock ticks
RenewIntervals == (Expiration \div 3)..((13 * Expiration) \div 30)

TypeOK ==
  /\ LockerTypeOK
  /\ pc \in [Node -> {"spawn", "call", "send", "finalSend", "select", "returned"}]
  /\ isLeader \in [Node -> BOOLEAN]
  /\ renew \in [Node -> RenewIntervals]
  /\ timer \in [Node -> 1..Expiration]
  /\ tickPending \in [Node -> BOOLEAN]
  /\ age \in [Node -> 0..MaxBusy]
  /\ ctxDone \in [Node -> BOOLEAN]
  /\ watcher \in [Node -> Seq({LostAcquire, TakenAcquire})]
  /\ closed \in [Node -> BOOLEAN]

Init ==
  /\ LockerInit
  /\ pc = [n \in Node |-> "spawn"]
  /\ isLeader = [n \in Node |-> FALSE]
  /\ renew \in [Node -> RenewIntervals]
  /\ timer = renew
  /\ tickPending = [n \in Node |-> FALSE]
  /\ age = [n \in Node |-> 0]
  /\ ctxDone = [n \in Node |-> FALSE]
  /\ watcher = [n \in Node |-> <<>>]
  /\ closed = [n \in Node |-> FALSE]

-----------------------------------------------------------------------------
(* Control flow of the goroutine. *)

Goto(n, label) == pc' = [pc EXCEPT ![n] = label]

\* Back at the select; a tick that came meanwhile is due from now on.
ToSelect(n) == Goto(n, "select") /\ age' = [age EXCEPT ![n] = 0]

\* GoRecover finds the context live and runs the function, which asks for
\* the lock at once.
Spawn(n) ==
  /\ pc[n] = "spawn" /\ ~ctxDone[n]
  /\ Begin(n, "lock")
  /\ Goto(n, "call")
  /\ UNCHANGED <<owner, ttl, link, isLeader, tickPending, age, clockVars, chanVars, ctxDone>>

\* GoRecover finds the context cancelled: the function, and with it the
\* deferred close, never runs.
SpawnCancelled(n) ==
  /\ pc[n] = "spawn" /\ ctxDone[n]
  /\ Goto(n, "returned")
  /\ UNCHANGED <<lockerVars, isLeader, tickPending, age, clockVars, chanVars, ctxDone>>

\* mutant: only a leader does something on a tick
SelectTickLeaderOnly(n) ==
  /\ pc[n] = "select" /\ tickPending[n] /\ ~ctxDone[n]
  /\ tickPending' = [tickPending EXCEPT ![n] = FALSE]
  /\ \/ isLeader[n] /\ Begin(n, "extend") /\ Goto(n, "call")
     \/ ~isLeader[n] /\ UNCHANGED <<call, reply, stray, pc>>
  /\ UNCHANGED <<owner, ttl, link, isLeader, age, clockVars, chanVars, ctxDone>>

\* case <-ticker.C: ask for the lock, or renew it.
SelectTick(n) ==
  /\ pc[n] = "select" /\ tickPending[n] /\ ~ctxDone[n]
  /\ Begin(n, IF isLeader[n] THEN "extend" ELSE "lock")
  /\ tickPending' = [tickPending EXCEPT ![n] = FALSE]
  /\ Goto(n, "call")
  /\ UNCHANGED <<owner, ttl, link, isLeader, age, clockVars, chanVars, ctxDone>>

\* The same case taken although the context is done: select prefers no case,
\* and the client fails a call on a done context without sending anything.
SelectTickCancelled(n) ==
  /\ pc[n] = "select" /\ tickPending[n] /\ ctxDone[n]
  /\ tickPending' = [tickPending EXCEPT ![n] = FALSE]
  /\ isLeader' = [isLeader EXCEPT ![n] = FALSE]
  /\ IF isLeader[n] THEN Goto(n, "send") /\ UNCHANGED age ELSE ToSelect(n)
  /\ UNCHANGED <<lockerVars, clockVars, chanVars, ctxDone>>

\* case <-ctx.Done() of a leader.  Without leadership the case does nothing
\* and the loop turns again: no step of the model.
SelectDone(n) ==
  /\ pc[n] = "select" /\ ctxDone[n] /\ isLeader[n]
  /\ Begin(n, "unlock")
  /\ Goto(n, "call")
  /\ UNCHANGED <<owner, ttl, link, isLeader, tickPending, age, clockVars, chanVars, ctxDone>>

\* A call that ended without an error and returned true, or did not.
CallOk(n) == Return(n, "ok")

\* An error counts as false: the result is `ok, _`.
CallFailed(n) ==
  \/ Return(n, "no")
  \/ (~link[n] \/ (ctxDone[n] /\ call[n] # "unlock")) /\ ReturnErr(n)

\* mutant: an error of ExtendLockTTL does not end the leadership
RenewalErrorIgnored(n) ==
  /\ call[n] \in {"lock", "extend"}
  /\ \/ CallOk(n) /\ isLeader' = [isLeader EXCEPT ![n] = TRUE]
        /\ IF call[n] = "lock" THEN Goto(n, "send") /\ UNCHANGED age ELSE ToSelect(n)
     \/ CallFailed(n) /\ UNCHANGED isLeader /\ ToSelect(n)
  /\ UNCHANGED <<owner, ttl, link, tickPending, clockVars, chanVars, ctxDone>>

\* Lock and ExtendLockTTL return: a change of leadership is announced.
RenewalDone(n) ==
  /\ call[n] \in {"lock", "extend"}
  /\ \/ CallOk(n) /\ isLeader' = [isLeader EXCEPT ![n] = TRUE]
     \/ CallFailed(n) /\ isLeader' = [isLeader EXCEPT ![n] = FALSE]
  /\ IF isLeader'[n] # isLeader[n]
     THEN Goto(n, "send") /\ UNCHANGED age
     ELSE ToSelect(n)
  /\ UNCHANGED <<owner, ttl, link, tickPending, clockVars, chanVars, ctxDone>>

\* Unlock on the way out: its result is ignored.
UnlockDone(n) ==
  /\ call[n] = "unlock"
  /\ CallOk(n) \/ CallFailed(n)
  /\ isLeader' = [isLeader EXCEPT ![n] = FALSE]
  /\ Goto(n, "finalSend")
  /\ UNCHANGED <<owner, ttl, link, tickPending, age, clockVars, chanVars, ctxDone>>

\* mutant: a full channel loses the event
OfferOrLose(n) ==
  \/ /\ Len(watcher[n]) < Cap
     /\ watcher' = [watcher EXCEPT ![n] =
                      Append(@, IF isLeader[n] THEN TakenAcquire ELSE LostAcquire)]
  \/ (ctxDone[n] \/ Len(watcher[n]) = Cap) /\ UNCHANGED watcher

\* send(event): the event is the new value of isLeader.  When the context is
\* done the event may be dropped, whether or not the channel has room.
Offer(n) ==
  \/ /\ Len(watcher[n]) < Cap
     /\ watcher' = [watcher EXCEPT ![n] =
                      Append(@, IF isLeader[n] THEN TakenAcquire ELSE LostAcquire)]
  \/ ctxDone[n] /\ UNCHANGED watcher

Send(n) ==
  /\ pc[n] = "send"
  /\ Offer(n)
  /\ ToSelect(n)
  /\ UNCHANGED <<lockerVars, isLeader, tickPending, clockVars, closed, ctxDone>>

\* send(LostAcquire); return; deferred close(watcher)
FinalSend(n) ==
  /\ pc[n] = "finalSend"
  /\ Offer(n)
  /\ closed' = [closed EXCEPT ![n] = TRUE]
  /\ Goto(n, "returned")
  /\ UNCHANGED <<lockerVars, isLeader, tickPending, age, clockVars, ctxDone>>

-----------------------------------------------------------------------------
(* The environment of the goroutine. *)

\* Stop, or the parent context: rwl.cancel()
Stop(n) ==
  /\ n \in Stoppable /\ ~ctxDone[n]
  /\ ctxDone' = [ctxDone EXCEPT ![n] = TRUE]
  /\ UNCHANGED <<lockerVars, loopVars, clockVars, chanVars>>

\* The reader of the channel takes an event.
Consume(n) ==
  /\ watcher[n] # <<>>
  /\ watcher' = [watcher EXCEPT ![n] = Tail(@)]
  /\ UNCHANGED <<lockerVars, loopVars, clockVars, closed, ctxDone>>

\* n holds a tick it has not served completely.
Busy(n) ==
  \/ pc[n] \in {"call", "send", "finalSend"}
  \/ pc[n] = "select" /\ tickPending[n]

\* NewTicker was called and ticker.Stop was not.
Ticking(n) == pc[n] \notin {"spawn", "returned"}

\* A tick of the clock.  A ticker whose channel is full drops its tick.
Tick ==
  /\ \A n \in Node : Busy(n) => age[n] < MaxBusy
  /\ Expire
  /\ timer' = [n \in Node |-> IF ~Ticking(n) THEN timer[n]
                              ELSE IF timer[n] = 1 THEN renew[n] ELSE timer[n] - 1]
  /\ tickPending' = [n \in Node |-> tickPending[n] \/ (Ticking(n) /\ timer[n] = 1)]
  /\ age' = [n \in Node |-> IF Busy(n) THEN age[n] + 1 ELSE 0]
  /\ UNCHANGED <<link, call, reply, stray, pc, isLeader, renew, chanVars, ctxDone>>

-----------------------------------------------------------------------------
Serve(n) == RenewalDone(n) \/ UnlockDone(n)

Goroutine(n) ==
  \/ Spawn(n) \/ SpawnCancelled(n)
  \/ SelectTick(n) \/ SelectTickCancelled(n) \/ SelectDone(n)
  \/ Serve(n)
  \/ Send(n) \/ FinalSend(n)

Redis(n) ==
  /\ Execute(n) \/ ExecuteStray(n) \/ LinkDown(n) \/ LinkUp(n)
  /\ UNCHANGED <<loopVars, clockVars, chanVars, ctxDone>>

Next ==
  \/ Tick
  \/ \E n \in Node : Goroutine(n) \/ Redis(n) \/ Stop(n) \/ Consume(n)

Spec == Init /\ [][Next]_vars

\* The Go scheduler runs every goroutine that can move, the reader drains the
\* channel, time passes.  A call ends however often the link flaps, because
\* the client's retries are bounded: strong fairness.  Nothing makes a link
\* come back or a late request arrive.
Fairness ==
  /\ WF_vars(Tick)
  /\ \A n \in Node :
       /\ WF_vars(Goroutine(n))
       /\ SF_vars(Serve(n))
       /\ WF_vars(Execute(n) /\ UNCHANGED <<loopVars, clockVars, chanVars, ctxDone>>)
       /\ WF_vars(Consume(n))

FairSpec == Spec /\ Fairness

-----------------------------------------------------------------------------
(* Safety. *)

\* n acts on its leadership: it believes to lead and has not begun to release
\* the lock.
Leading(n) == isLeader[n] /\ call[n] # "unlock"

\* Two processes never both lead.  The code relies on the TTL alone for this
\* (there is no fencing), so it depends on the speed of renewals: see Timely.
MutualExclusion == \A m, n \in Node : Leading(m) /\ Leading(n) => m = n

\* The speed that is needed: a due renewal, from the tick to the return to the
\* select (Redis round trip with its retries, and the send to the watcher),
\* takes less than half the expiration.
Timely == 2 * MaxBusy < Expiration

\* How control, leadership and the pending call of a goroutine belong together.
Control ==
  \A n \in Node :
    /\ (pc[n] = "call") <=> (call[n] # "none")
    /\ reply[n] # "none" => call[n] # "none"
    /\ call[n] = "lock" => ~isLeader[n]
    /\ call[n] \in {"extend", "unlock"} => isLeader[n]
    /\ pc[n] \in {"spawn", "finalSend", "returned"} => ~isLeader[n]
    /\ stray[n] = "unlock" => pc[n] \in {"finalSend", "returned"}
    /\ timer[n] <= renew[n]

\* n leads, or is about to learn that it does.
Holds(n) == Leading(n) \/ (call[n] = "lock" /\ reply[n] = "ok")

\* The renewal of the current busy period has already been executed.
Renewed(n) == reply[n] = "ok" \/ pc[n] = "send"

\* How long it may take n, from now, to have its next renewal executed.
NextRenewal(n) ==
  CASE ~Busy(n) -> timer[n] + MaxBusy
    [] Busy(n) /\ ~Renewed(n) -> MaxBusy - age[n]
    [] Busy(n) /\ Renewed(n) /\ tickPending[n] -> 2 * MaxBusy - age[n]
    [] OTHER -> MaxBusy + (IF timer[n] > MaxBusy - age[n] THEN timer[n]
                           ELSE MaxBusy - age[n])

\* Whoever holds the leadership owns the key, and the key outlives the time
\* its next renewal may take.  This is what makes the exclusion inductive.
Lease == \A n \in Node : Holds(n) => owner = n /\ ttl > NextRenewal(n)

\* The inductive invariant behind MutualExclusion, under Timely.
LeaseInv == Control /\ Lease

\* However slow renewals are, nobody deletes a key it does not own: a key goes
\* away by expiry or by an unlock its owner sent.
OnlyOwnerReleases ==
  [][\A n \in Node : owner = n /\ owner' # n =>
       ttl = 1 \/ "unlock" \in {call[n], stray[n]}]_owner

-----------------------------------------------------------------------------
(* Liveness, under FairSpec. *)

\* A process that lost its key without noticing (it was too slow) does not
\* stay leader for ever: its next renewal tells it.
StaleLeaderStepsDown == \A n \in Node : []<>(~isLeader[n] \/ owner = n)

\* When the links are up for good and not everybody is stopped, there is a leader
\* again and again, whatever keys earlier failures and stops left behind.
LeaderEmerges ==
  <>[](/\ \A n \in Node : link[n]
       /\ \E n \in Node : ~ctxDone[n])
  => []<>(\E n \in Node : isLeader[n])

\* Every stopped watchdog's goroutine ends: README.md:5 promises a safe stop.
StopEndsGoroutine == \A n \in Node : ctxDone[n] ~> (pc[n] = "returned")
=============================================================================
