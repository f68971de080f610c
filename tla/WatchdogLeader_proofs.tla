------------------------- MODULE WatchdogLeader_proofs -------------------------
(***************************************************************************)
(* Type correctness of the election, mutual exclusion of the leaders for   *)
(* any number of processes when renewals are timely, and, however slow     *)
(* they are, that only an owner's key is deleted and that Elect implements *)
(* LeaderFeed.                                                             *)
(***************************************************************************)
EXTENDS WatchdogFeed, TLAPS

USE LockerAssumption, WatchdogAssumption

\* The renewal interval is positive and shorter than half the expiration.
LEMMA RenewBounds ==
  \A r \in RenewIntervals : r \in Nat /\ r >= 1 /\ 2 * r < Expiration /\ r <= Expiration
BY DEF RenewIntervals

\* A script leaves the key well formed and changes nothing of the others.
LEMMA EvalType ==
  ASSUME LockerTypeOK, NEW op \in Op, NEW n \in Node, NEW r, Eval(op, n, r)
  PROVE  /\ owner' \in Node \cup {NoNode}
         /\ ttl' \in 0..Expiration
         /\ (owner' = NoNode) <=> (ttl' = 0)
BY DEF LockerTypeOK, Op, Eval, lockScript, unlockScript, extendTTLScript

\* The key stays well formed while its time runs down.
LEMMA ExpireType ==
  ASSUME LockerTypeOK, Expire
  PROVE  /\ owner' \in Node \cup {NoNode}
         /\ ttl' \in 0..Expiration
         /\ (owner' = NoNode) <=> (ttl' = 0)
BY DEF LockerTypeOK, Expire

\* The end of a call, with or without an error, only touches the round trip.
LEMMA ReturnType ==
  ASSUME LockerTypeOK, NEW n \in Node, CallOk(n) \/ CallFailed(n)
  PROVE  /\ call' \in [Node -> Op \cup {"none"}]
         /\ reply' \in [Node -> {"none", "ok", "no"}]
         /\ stray' \in [Node -> Op \cup {"none"}]
<1>1. CASE \E r \in {"ok", "no"} : Return(n, r)
  BY <1>1 DEF Return, LockerTypeOK
<1>2. CASE ReturnErr(n)
  BY <1>2 DEF ReturnErr, LockerTypeOK
<1> QED
  BY <1>1, <1>2 DEF CallOk, CallFailed

-----------------------------------------------------------------------------
\* Type correctness is inductive: every action of Elect, of Redis and of the
\* clock keeps each variable in its type.
LEMMA TypeInductive == TypeOK /\ [Next]_vars => TypeOK'
<1> SUFFICES ASSUME TypeOK, [Next]_vars PROVE TypeOK'
  OBVIOUS
<1> USE DEF TypeOK
<1>1. CASE UNCHANGED vars
  BY <1>1 DEF LockerTypeOK, vars, lockerVars, loopVars, clockVars, chanVars
<1>2. CASE Tick
  <2>1. LockerTypeOK'
    BY <1>2, ExpireType DEF Tick, LockerTypeOK
  <2>2. timer' \in [Node -> 1..Expiration]
    BY <1>2, RenewBounds DEF Tick
  <2>3. age' \in [Node -> 0..MaxBusy]
    BY <1>2 DEF Tick
  <2>4. tickPending' \in [Node -> BOOLEAN]
    BY <1>2 DEF Tick
  <2> QED
    BY <1>2, <2>1, <2>2, <2>3, <2>4 DEF Tick, chanVars
<1>3. ASSUME NEW n \in Node, Goroutine(n) PROVE TypeOK'
  <2> USE DEF clockVars, chanVars, Goto, ToSelect
  <2>1. CASE Spawn(n)
    BY <2>1 DEF Spawn, Begin, LockerTypeOK, Op
  <2>2. CASE SpawnCancelled(n)
    BY <2>2 DEF SpawnCancelled, LockerTypeOK, lockerVars
  <2>3. CASE SelectTick(n)
    BY <2>3 DEF SelectTick, Begin, LockerTypeOK, Op
  <2>4. CASE SelectTickCancelled(n)
    <3>1. LockerTypeOK'
      BY <2>4 DEF SelectTickCancelled, LockerTypeOK, lockerVars
    <3>2. CASE isLeader[n]
      BY <2>4, <3>1, <3>2 DEF SelectTickCancelled
    <3>3. CASE ~isLeader[n]
      <4>1. pc' = [pc EXCEPT ![n] = "select"] /\ age' = [age EXCEPT ![n] = 0]
        BY <2>4, <3>3 DEF SelectTickCancelled
      <4> QED
        BY <2>4, <3>1, <4>1 DEF SelectTickCancelled
    <3> QED
      BY <3>2, <3>3
  <2>5. CASE SelectDone(n)
    BY <2>5 DEF SelectDone, Begin, LockerTypeOK, Op
  <2>6. CASE RenewalDone(n)
    <3>1. LockerTypeOK'
      BY <2>6, ReturnType DEF RenewalDone, LockerTypeOK
    <3>2. isLeader' \in [Node -> BOOLEAN]
      BY <2>6 DEF RenewalDone
    <3>3. CASE isLeader'[n] # isLeader[n]
      BY <2>6, <3>1, <3>2, <3>3 DEF RenewalDone
    <3>4. CASE isLeader'[n] = isLeader[n]
      <4>1. pc' = [pc EXCEPT ![n] = "select"] /\ age' = [age EXCEPT ![n] = 0]
        BY <2>6, <3>4 DEF RenewalDone
      <4> QED
        BY <2>6, <3>1, <3>2, <4>1 DEF RenewalDone
    <3> QED
      BY <3>3, <3>4
  <2>7. CASE UnlockDone(n)
    <3>1. LockerTypeOK'
      BY <2>7, ReturnType DEF UnlockDone, LockerTypeOK
    <3> QED
      BY <2>7, <3>1 DEF UnlockDone
  <2>8. ASSUME Offer(n) PROVE watcher' \in [Node -> Seq({LostAcquire, TakenAcquire})]
    <3> DEFINE e == IF isLeader[n] THEN TakenAcquire ELSE LostAcquire
    <3>1. Append(watcher[n], e) \in Seq({LostAcquire, TakenAcquire})
      <4>1. watcher[n] \in Seq({LostAcquire, TakenAcquire}) /\ e \in {LostAcquire, TakenAcquire}
        OBVIOUS
      <4> QED
        BY <4>1
    <3>2. watcher' \in {watcher, [watcher EXCEPT ![n] = Append(watcher[n], e)]}
      BY <2>8 DEF Offer
    <3> QED
      BY <3>1, <3>2
  <2>9. CASE Send(n)
    BY <2>8, <2>9 DEF Send, LockerTypeOK, lockerVars
  <2>10. CASE FinalSend(n)
    BY <2>8, <2>10 DEF FinalSend, LockerTypeOK, lockerVars
  <2> QED
    BY <1>3, <2>1, <2>2, <2>3, <2>4, <2>5, <2>6, <2>7, <2>9, <2>10 DEF Goroutine, Serve
<1>4. ASSUME NEW n \in Node, Redis(n) PROVE TypeOK'
  <2>1. LockerTypeOK'
    <3>1. CASE Execute(n)
      BY <3>1, EvalType DEF Execute, LockerTypeOK
    <3>2. CASE ExecuteStray(n)
      BY <3>2, EvalType DEF ExecuteStray, LockerTypeOK
    <3>3. CASE LinkDown(n)
      BY <3>3 DEF LinkDown, LockerTypeOK
    <3>4. CASE LinkUp(n)
      BY <3>4 DEF LinkUp, LockerTypeOK
    <3> QED
      BY <1>4, <3>1, <3>2, <3>3, <3>4 DEF Redis
  <2> QED
    BY <1>4, <2>1 DEF Redis, loopVars, clockVars, chanVars
<1>5. ASSUME NEW n \in Node, Stop(n) PROVE TypeOK'
  BY <1>5 DEF Stop, LockerTypeOK, lockerVars, loopVars, clockVars, chanVars
<1>6. ASSUME NEW n \in Node, Consume(n) PROVE TypeOK'
  <2>1. watcher' \in [Node -> Seq({LostAcquire, TakenAcquire})]
    BY <1>6 DEF Consume
  <2> QED
    BY <1>6, <2>1 DEF Consume, LockerTypeOK, lockerVars, loopVars, clockVars
<1> QED
  BY <1>1, <1>2, <1>3, <1>4, <1>5, <1>6 DEF Next

\* Every reachable state of the election is well typed; in particular the key
\* has an owner exactly while it has time to live.
THEOREM TypeCorrect == Spec => []TypeOK
<1>1. Init => TypeOK
  BY RenewBounds DEF Init, LockerInit, TypeOK, LockerTypeOK
<1> QED
  BY <1>1, TypeInductive, PTL DEF Spec

-----------------------------------------------------------------------------
\* The links between program counter, leadership and pending call are kept by
\* every action: what a goroutine asks Redis for follows from its isLeader,
\* and an unlock is only ever sent by a goroutine on its way out.
LEMMA ControlInductive == TypeOK /\ Control /\ [Next]_vars => Control'
<1> SUFFICES ASSUME TypeOK, Control, [Next]_vars PROVE Control'
  OBVIOUS
<1> USE DEF TypeOK, LockerTypeOK, Op, Control
<1>1. CASE UNCHANGED vars
  BY <1>1 DEF vars, lockerVars, loopVars, clockVars, chanVars
<1>2. CASE Tick
  BY <1>2, RenewBounds DEF Tick, clockVars, chanVars
<1>3. ASSUME NEW n \in Node, Goroutine(n) PROVE Control'
  <2> USE DEF clockVars, chanVars, Goto, ToSelect, Begin
  <2>1. CASE Spawn(n)
    BY <2>1 DEF Spawn
  <2>2. CASE SpawnCancelled(n)
    BY <2>2 DEF SpawnCancelled, lockerVars
  <2>3. CASE SelectTick(n)
    BY <2>3 DEF SelectTick
  <2>4. CASE SelectTickCancelled(n)
    <3>1. pc' = [pc EXCEPT ![n] = IF isLeader[n] THEN "send" ELSE "select"]
      BY <2>4 DEF SelectTickCancelled
    <3> QED
      BY <2>4, <3>1 DEF SelectTickCancelled, lockerVars
  <2>5. CASE SelectDone(n)
    BY <2>5 DEF SelectDone
  <2>6. CASE RenewalDone(n)
    <3>1. pc' = [pc EXCEPT ![n] = IF isLeader'[n] # isLeader[n] THEN "send" ELSE "select"]
      BY <2>6 DEF RenewalDone
    <3>2. /\ call' = [call EXCEPT ![n] = "none"]
          /\ reply' = [reply EXCEPT ![n] = "none"]
          /\ stray' \in {stray, [stray EXCEPT ![n] = call[n]]}
      BY <2>6 DEF RenewalDone, CallOk, CallFailed, Return, ReturnErr
    <3>3. \E b \in BOOLEAN : isLeader' = [isLeader EXCEPT ![n] = b]
      BY <2>6 DEF RenewalDone
    <3> QED
      BY <2>6, <3>1, <3>2, <3>3 DEF RenewalDone
  <2>7. CASE UnlockDone(n)
    <3>1. /\ call' = [call EXCEPT ![n] = "none"]
          /\ reply' = [reply EXCEPT ![n] = "none"]
          /\ stray' \in {stray, [stray EXCEPT ![n] = call[n]]}
      BY <2>7 DEF UnlockDone, CallOk, CallFailed, Return, ReturnErr
    <3> QED
      BY <2>7, <3>1 DEF UnlockDone
  <2>8. CASE Send(n)
    BY <2>8 DEF Send, lockerVars
  <2>9. CASE FinalSend(n)
    BY <2>9 DEF FinalSend, lockerVars
  <2> QED
    BY <1>3, <2>1, <2>2, <2>3, <2>4, <2>5, <2>6, <2>7, <2>8, <2>9 DEF Goroutine, Serve
<1>4. ASSUME NEW n \in Node, Redis(n) PROVE Control'
  <2> USE DEF loopVars, clockVars
  <2>1. CASE Execute(n)
    BY <1>4, <2>1 DEF Redis, Execute
  <2>2. CASE ExecuteStray(n)
    BY <1>4, <2>2 DEF Redis, ExecuteStray
  <2>3. CASE LinkDown(n)
    BY <1>4, <2>3 DEF Redis, LinkDown
  <2>4. CASE LinkUp(n)
    BY <1>4, <2>4 DEF Redis, LinkUp
  <2> QED
    BY <1>4, <2>1, <2>2, <2>3, <2>4 DEF Redis
<1>5. ASSUME NEW n \in Node, Stop(n) PROVE Control'
  BY <1>5 DEF Stop, lockerVars, loopVars, clockVars
<1>6. ASSUME NEW n \in Node, Consume(n) PROVE Control'
  BY <1>6 DEF Consume, lockerVars, loopVars, clockVars
<1> QED
  BY <1>1, <1>2, <1>3, <1>4, <1>5, <1>6 DEF Next

-----------------------------------------------------------------------------
\* The next renewal is always due before a full expiration has passed: a key
\* just set or extended lives long enough.
LEMMA RenewalFits ==
  ASSUME TypeOK, Control, Timely, NEW n \in Node
  PROVE  NextRenewal(n) \in Nat /\ NextRenewal(n) < Expiration
<1>1. renew[n] \in RenewIntervals /\ timer[n] \in 1..renew[n] /\ age[n] \in 0..MaxBusy
  BY RenewBounds DEF TypeOK, Control
<1>2. timer[n] \in Nat /\ 2 * timer[n] < Expiration
  BY <1>1, RenewBounds
<1> QED
  BY <1>1, <1>2 DEF NextRenewal, Timely

\* A script executed for n leaves the key of another node alone.
LEMMA EvalOther ==
  ASSUME LockerTypeOK, NEW m \in Node, NEW n \in Node, m # n,
         NEW op, NEW r, Eval(op, n, r), owner = m
  PROVE  owner' = m /\ ttl' = ttl
BY DEF LockerTypeOK, Eval, lockScript, unlockScript, extendTTLScript

\* Lock and ExtendLockTTL executed for the owner never shorten its lease.
LEMMA EvalOwn ==
  ASSUME LockerTypeOK, NEW m \in Node, NEW op \in {"lock", "extend"}, NEW r,
         Eval(op, m, r), owner = m
  PROVE  owner' = m /\ ttl' \in {ttl, Expiration}
BY DEF LockerTypeOK, Eval, lockScript, unlockScript, extendTTLScript

\* A node whose goroutine is not touched needs its renewal as soon as before.
LEMMA Frame ==
  ASSUME NEW m \in Node,
         pc'[m] = pc[m], isLeader'[m] = isLeader[m], call'[m] = call[m],
         reply'[m] = reply[m], timer'[m] = timer[m],
         tickPending'[m] = tickPending[m], age'[m] = age[m]
  PROVE  Holds(m)' = Holds(m) /\ NextRenewal(m)' = NextRenewal(m)
BY DEF Holds, Leading, NextRenewal, Busy, Renewed

\* A goroutine's step moves no other goroutine.
LEMMA GoroutineLocal ==
  ASSUME TypeOK, NEW m \in Node, NEW n \in Node, m # n, Goroutine(n)
  PROVE  Holds(m)' = Holds(m) /\ NextRenewal(m)' = NextRenewal(m)
<1> DEFINE Same == /\ pc'[m] = pc[m] /\ isLeader'[m] = isLeader[m] /\ call'[m] = call[m]
                   /\ reply'[m] = reply[m] /\ timer'[m] = timer[m]
                   /\ tickPending'[m] = tickPending[m] /\ age'[m] = age[m]
<1> USE DEF TypeOK, LockerTypeOK, clockVars, lockerVars, Goto, ToSelect, Begin
<1>1. CASE Spawn(n) \/ SpawnCancelled(n)
  BY <1>1, Frame DEF Spawn, SpawnCancelled
<1>2. CASE SelectTick(n) \/ SelectTickCancelled(n) \/ SelectDone(n)
  BY <1>2, Frame DEF SelectTick, SelectTickCancelled, SelectDone
<1>3. CASE RenewalDone(n)
  <2>1. Same
    BY <1>3 DEF RenewalDone, CallOk, CallFailed, Return, ReturnErr
  <2> QED
    BY <2>1, Frame
<1>4. CASE UnlockDone(n)
  <2>1. Same
    BY <1>4 DEF UnlockDone, CallOk, CallFailed, Return, ReturnErr
  <2> QED
    BY <2>1, Frame
<1>5. CASE Send(n) \/ FinalSend(n)
  BY <1>5, Frame DEF Send, FinalSend
<1> QED
  BY <1>1, <1>2, <1>3, <1>4, <1>5 DEF Goroutine, Serve

\* The lease argument: under Timely no action leaves a holder with a key that
\* could expire before its next renewal.
LEMMA LeaseInductive ==
  ASSUME Timely, TypeOK, TypeOK', Control, Control', Lease, [Next]_vars
  PROVE  Lease'
<1> SUFFICES ASSUME NEW m \in Node, Holds(m)'
             PROVE  owner' = m /\ ttl' > NextRenewal(m)'
  BY DEF Lease
<1> DEFINE Good == Holds(m) => owner = m /\ ttl > NextRenewal(m)
<1>0. /\ Good
      /\ NextRenewal(m) \in Nat /\ NextRenewal(m) < Expiration
      /\ NextRenewal(m)' \in Nat /\ NextRenewal(m)' < Expiration
  <2>1. Timely'
    BY DEF Timely
  <2>2. NextRenewal(m)' \in Nat /\ NextRenewal(m)' < Expiration
    <3>1. renew'[m] \in RenewIntervals /\ timer'[m] \in 1..renew'[m] /\ age'[m] \in 0..MaxBusy
      BY RenewBounds DEF TypeOK, Control
    <3>2. timer'[m] \in Nat /\ 2 * timer'[m] < Expiration
      BY <3>1, RenewBounds
    <3> QED
      BY <3>1, <3>2 DEF NextRenewal, Timely
  <2> QED
    BY <2>2, RenewalFits DEF Lease
<1>a. LockerTypeOK /\ ttl \in Nat /\ Expiration \in Nat
  <2>1. LockerTypeOK
    BY DEF TypeOK
  <2> QED
    BY <2>1 DEF LockerTypeOK
<1>1. CASE UNCHANGED vars
  <2>1. Holds(m)' = Holds(m) /\ NextRenewal(m)' = NextRenewal(m)
    BY <1>1, Frame DEF vars, lockerVars, loopVars, clockVars
  <2> QED
    BY <1>0, <1>1, <2>1 DEF vars, lockerVars
<1>2. CASE Tick
  <2>1. Holds(m)
    BY <1>2 DEF Tick, Holds, Leading
  <2>2. ttl - 1 > NextRenewal(m)'
    <3>1. NextRenewal(m)' <= NextRenewal(m) - 1
      <4>1. /\ timer[m] \in Nat /\ timer[m] >= 1 /\ renew[m] \in Nat
            /\ age[m] \in Nat /\ age[m] <= MaxBusy
            /\ pc[m] = "select" => reply[m] # "ok"
            /\ Ticking(m)
        <5>1. timer[m] \in 1..Expiration /\ renew[m] \in RenewIntervals /\ age[m] \in 0..MaxBusy
          BY DEF TypeOK
        <5>2. Ticking(m) /\ (pc[m] = "select" => reply[m] # "ok")
          BY <2>1 DEF Control, Holds, Leading, Ticking
        <5> QED
          BY <5>1, <5>2, RenewBounds
      <4>2. /\ timer'[m] = IF timer[m] = 1 THEN renew[m] ELSE timer[m] - 1
            /\ tickPending[m] \/ timer[m] = 1 => tickPending'[m]
            /\ ~tickPending[m] /\ timer[m] # 1 => ~tickPending'[m]
            /\ age'[m] = IF Busy(m) THEN age[m] + 1 ELSE 0
            /\ Busy(m) => age[m] < MaxBusy
            /\ pc' = pc /\ reply' = reply
        BY <1>2, <4>1 DEF Tick
      <4>3. CASE ~Busy(m)
        <5>1. pc[m] = "select" /\ ~tickPending[m]
          BY <2>1, <4>3 DEF Busy, Holds, Leading, Control, TypeOK
        <5>2. CASE timer[m] = 1
          <6>1. Busy(m)' /\ ~Renewed(m)'
            BY <4>1, <4>2, <5>1, <5>2 DEF Busy, Renewed
          <6> QED
            BY <4>1, <4>2, <4>3, <5>2, <6>1 DEF NextRenewal
        <5>3. CASE timer[m] # 1
          <6>1. ~Busy(m)'
            BY <4>2, <5>1, <5>3 DEF Busy
          <6> QED
            BY <4>1, <4>2, <4>3, <5>3, <6>1 DEF NextRenewal
        <5> QED
          BY <5>2, <5>3
      <4>4. CASE Busy(m)
        <5>1. Busy(m)' /\ Renewed(m)' = Renewed(m)
          BY <4>2, <4>4 DEF Busy, Renewed
        <5>2. CASE ~Renewed(m)
          BY <4>1, <4>2, <4>4, <5>1, <5>2 DEF NextRenewal
        <5>3. CASE Renewed(m) /\ tickPending[m]
          BY <4>1, <4>2, <4>4, <5>1, <5>3 DEF NextRenewal
        <5>4. CASE Renewed(m) /\ ~tickPending[m]
          BY <4>1, <4>2, <4>4, <5>1, <5>4 DEF NextRenewal
        <5> QED
          BY <5>2, <5>3, <5>4
      <4> QED
        BY <4>3, <4>4
    <3> QED
      BY <1>0, <1>a, <2>1, <3>1
  <2> QED
    BY <1>0, <1>2, <1>a, <2>1, <2>2 DEF Tick, Expire
<1>3. ASSUME NEW n \in Node, Goroutine(n) PROVE owner' = m /\ ttl' > NextRenewal(m)'
  <2>1. owner' = owner /\ ttl' = ttl
    BY <1>3 DEF Goroutine, Serve, Spawn, SpawnCancelled, SelectTick, SelectTickCancelled,
                SelectDone, RenewalDone, UnlockDone, Send, FinalSend, lockerVars
  <2>2. CASE m # n
    BY <1>0, <1>3, <2>1, <2>2, GoroutineLocal
  <2>3. CASE m = n
    <3> USE DEF Goto, ToSelect, Begin, clockVars
    <3>0. /\ timer[m] \in Nat /\ age[m] \in Nat /\ age[m] <= MaxBusy
          /\ n \in DOMAIN pc /\ n \in DOMAIN isLeader /\ n \in DOMAIN call
          /\ n \in DOMAIN reply /\ n \in DOMAIN age /\ n \in DOMAIN tickPending
      BY DEF TypeOK, LockerTypeOK
    <3>1. CASE Spawn(n) \/ SpawnCancelled(n) \/ SelectTickCancelled(n)
      <4>1. ~Holds(m)'
        BY <2>3, <3>0, <3>1 DEF Spawn, SpawnCancelled, SelectTickCancelled, Holds, Leading,
                                Control, lockerVars
      <4> QED
        BY <4>1
    <3>2. CASE SelectDone(n) \/ UnlockDone(n) \/ FinalSend(n)
      <4>1. ~Holds(m)'
        BY <2>3, <3>0, <3>2 DEF SelectDone, UnlockDone, FinalSend, Holds, Leading, Control,
                                lockerVars, CallOk, CallFailed, Return, ReturnErr
      <4> QED
        BY <4>1
    <3>3. CASE SelectTick(n)
      <4>1. /\ isLeader[m] /\ call'[m] = "extend"
            /\ pc[m] = "select" /\ call[m] = "none" /\ reply[m] = "none" /\ tickPending[m]
            /\ pc'[m] = "call" /\ reply' = reply /\ age' = age
        BY <2>3, <3>0, <3>3 DEF SelectTick, Holds, Leading, Control
      <4>2. Holds(m) /\ NextRenewal(m)' = NextRenewal(m)
        BY <4>1 DEF Holds, Leading, NextRenewal, Busy, Renewed
      <4> QED
        BY <1>0, <2>1, <4>2
    <3>4. CASE RenewalDone(n)
      <4>1. /\ isLeader'[m] /\ reply[m] = "ok" /\ pc[m] = "call"
            /\ reply'[m] = "none" /\ timer' = timer /\ tickPending' = tickPending
            /\ call[m] \in {"lock", "extend"}
        BY <2>3, <3>0, <3>4 DEF RenewalDone, CallOk, CallFailed, Return, ReturnErr, Holds,
                                Leading, Control
      <4>2. Holds(m)
        BY <4>1 DEF Holds, Leading, Control
      <4>3. Busy(m) /\ Renewed(m)
        BY <4>1 DEF Busy, Renewed
      <4>4. CASE pc'[m] = "send" /\ age' = age
        <5>1. Busy(m)' /\ Renewed(m)'
          BY <4>4 DEF Busy, Renewed
        <5>2. NextRenewal(m)' = NextRenewal(m)
          BY <4>1, <4>3, <4>4, <5>1 DEF NextRenewal
        <5> QED
          BY <1>0, <2>1, <4>2, <5>2
      <4>5. CASE pc'[m] = "select" /\ age'[m] = 0
        <5>1. ~Renewed(m)' /\ (Busy(m)' <=> tickPending[m])
          BY <4>1, <4>5 DEF Busy, Renewed
        <5>2. NextRenewal(m)' <= NextRenewal(m)
          BY <3>0, <4>1, <4>3, <4>5, <5>1 DEF NextRenewal
        <5> QED
          BY <1>0, <1>a, <2>1, <4>2, <5>2
      <4> QED
        BY <2>3, <3>0, <3>4, <4>4, <4>5 DEF RenewalDone
    <3>5. CASE Send(n)
      <4>1. /\ isLeader[m] /\ call[m] = "none" /\ reply'[m] = "none" /\ pc[m] = "send"
            /\ pc'[m] = "select" /\ age'[m] = 0
            /\ timer' = timer /\ tickPending' = tickPending
        BY <2>3, <3>0, <3>5 DEF Send, Holds, Leading, Control, lockerVars
      <4>2. /\ Holds(m) /\ Busy(m) /\ Renewed(m)
            /\ ~Renewed(m)' /\ (Busy(m)' <=> tickPending[m])
        BY <4>1 DEF Holds, Leading, Busy, Renewed
      <4>3. NextRenewal(m)' <= NextRenewal(m)
        BY <3>0, <4>1, <4>2 DEF NextRenewal
      <4> QED
        BY <1>0, <1>a, <2>1, <4>2, <4>3
    <3> QED
      BY <1>3, <3>1, <3>2, <3>3, <3>4, <3>5 DEF Goroutine, Serve
  <2> QED
    BY <2>2, <2>3
<1>4. ASSUME NEW n \in Node, Redis(n) PROVE owner' = m /\ ttl' > NextRenewal(m)'
  <2>0. /\ pc' = pc /\ isLeader' = isLeader /\ timer' = timer
        /\ tickPending' = tickPending /\ age' = age
    BY <1>4 DEF Redis, loopVars, clockVars
  <2>1. CASE Execute(n)
    <3>1. CASE m # n
      <4>1. Holds(m)' = Holds(m) /\ NextRenewal(m)' = NextRenewal(m)
        BY <1>a, <2>0, <2>1, <3>1, Frame DEF Execute, LockerTypeOK
      <4> QED
        BY <1>0, <1>a, <2>1, <3>1, <4>1, EvalOther DEF Execute
    <3>2. CASE m = n
      <4>1. PICK r \in {"ok", "no"} : Eval(call[m], m, r) /\ reply'[m] = r
        BY <1>a, <2>1, <3>2 DEF Execute, LockerTypeOK
      <4>2. \/ call[m] = "lock" /\ r = "ok"
            \/ call[m] = "extend" /\ Holds(m)
        BY <1>a, <2>0, <2>1, <3>2, <4>1 DEF Execute, Holds, Leading, Control, LockerTypeOK, Op
      <4>3. owner' = m /\ ttl' = Expiration
        BY <1>0, <4>1, <4>2 DEF Eval, lockScript, extendTTLScript
      <4> QED
        BY <1>0, <4>3
    <3> QED
      BY <3>1, <3>2
  <2>2. CASE ExecuteStray(n)
    <3>1. Holds(m) /\ NextRenewal(m)' = NextRenewal(m)
      BY <2>0, <2>2, Frame DEF ExecuteStray
    <3>2. PICK r \in {"ok", "no"} : Eval(stray[n], n, r)
      BY <2>2 DEF ExecuteStray
    <3>3. CASE m # n
      BY <1>0, <1>a, <3>1, <3>2, <3>3, EvalOther
    <3>4. CASE m = n
      <4>1. stray[m] \in {"lock", "extend"}
        BY <1>a, <2>2, <3>1, <3>4 DEF ExecuteStray, Holds, Leading, Control, LockerTypeOK, Op
      <4> QED
        BY <1>0, <1>a, <3>1, <3>2, <3>4, <4>1, EvalOwn
    <3> QED
      BY <3>3, <3>4
  <2>3. CASE LinkDown(n)
    <3>1. Holds(m) /\ NextRenewal(m)' <= NextRenewal(m)
      <4>1. CASE reply'[m] = reply[m]
        <5>1. Holds(m)' = Holds(m) /\ NextRenewal(m)' = NextRenewal(m)
          BY <2>0, <2>3, <4>1, Frame DEF LinkDown
        <5> QED
          BY <1>0, <5>1
      <4>2. CASE reply'[m] = "none"
        <5>1. Holds(m) /\ (Renewed(m)' => Renewed(m)) /\ (Busy(m)' <=> Busy(m))
          BY <2>0, <2>3, <4>2 DEF LinkDown, Holds, Leading, Renewed, Busy
        <5>2. timer[m] \in Nat /\ age[m] \in Nat /\ age[m] <= MaxBusy
          BY DEF TypeOK
        <5>3. NextRenewal(m)' <= NextRenewal(m)
          BY <2>0, <5>1, <5>2 DEF NextRenewal
        <5> QED
          BY <5>1, <5>3
      <4> QED
        BY <1>a, <2>3, <4>1, <4>2 DEF LinkDown, LockerTypeOK
    <3> QED
      BY <1>0, <1>a, <2>3, <3>1 DEF LinkDown
  <2>4. CASE LinkUp(n)
    <3>1. Holds(m)' = Holds(m) /\ NextRenewal(m)' = NextRenewal(m)
      BY <2>0, <2>4, Frame DEF LinkUp
    <3> QED
      BY <1>0, <2>4, <3>1 DEF LinkUp
  <2> QED
    BY <1>4, <2>1, <2>2, <2>3, <2>4 DEF Redis
<1>5. ASSUME NEW n \in Node, Stop(n) \/ Consume(n) PROVE owner' = m /\ ttl' > NextRenewal(m)'
  <2>1. Holds(m)' = Holds(m) /\ NextRenewal(m)' = NextRenewal(m)
    BY <1>5, Frame DEF Stop, Consume, lockerVars, loopVars, clockVars
  <2> QED
    BY <1>0, <1>5, <2>1 DEF Stop, Consume, lockerVars
<1> QED
  BY <1>1, <1>2, <1>3, <1>4, <1>5 DEF Next

\* With timely renewals the leases are kept, for every set of processes, every
\* expiration and every pattern of link failures, late requests and stops.
THEOREM LeaseKept == ASSUME Timely PROVE Spec => []LeaseInv
<1>1. Init => LeaseInv
  BY RenewBounds DEF Init, LockerInit, LeaseInv, Control, Lease, Holds, Leading
<1>2. TypeOK /\ TypeOK' /\ LeaseInv /\ [Next]_vars => LeaseInv'
  BY ControlInductive, LeaseInductive DEF LeaseInv
<1> QED
  BY <1>1, <1>2, TypeCorrect, PTL DEF Spec

\* With timely renewals no two processes lead at the same time.
THEOREM Exclusion == ASSUME Timely PROVE Spec => []MutualExclusion
<1>1. LeaseInv => MutualExclusion
  BY DEF LeaseInv, Lease, Holds, MutualExclusion
<1> QED
  BY <1>1, LeaseKept, PTL

-----------------------------------------------------------------------------
\* However slow renewals are, the key of a node goes away by expiry or by an unlock
\* that the node sent itself: unlockScript compares the value.
THEOREM OnlyOwnersRelease == Spec => OnlyOwnerReleases
<1>1. ASSUME TypeOK, [Next]_vars, NEW n \in Node, owner = n, owner' # n
      PROVE  ttl = 1 \/ "unlock" \in {call[n], stray[n]}
  <2> USE DEF TypeOK, LockerTypeOK
  <2>1. n # NoNode
    OBVIOUS
  <2>2. CASE Tick
    BY <1>1, <2>1, <2>2 DEF Tick, Expire
  <2>3. ASSUME NEW m \in Node, NEW op, NEW r, Eval(op, m, r) PROVE op = "unlock" /\ m = n
    BY <1>1, <2>1, <2>3 DEF Eval, lockScript, unlockScript, extendTTLScript
  <2>4. ASSUME NEW m \in Node, Redis(m) PROVE "unlock" \in {call[n], stray[n]}
    <3>1. CASE Execute(m)
      BY <2>3, <3>1 DEF Execute
    <3>2. CASE ExecuteStray(m)
      BY <2>3, <3>2 DEF ExecuteStray
    <3>3. CASE LinkDown(m) \/ LinkUp(m)
      BY <1>1, <3>3 DEF LinkDown, LinkUp
    <3> QED
      BY <2>4, <3>1, <3>2, <3>3 DEF Redis
  <2>5. ASSUME UNCHANGED owner PROVE FALSE
    BY <1>1, <2>5
  <2>6. ASSUME NEW m \in Node, Goroutine(m) \/ Stop(m) \/ Consume(m) PROVE FALSE
    BY <2>5, <2>6 DEF Goroutine, Serve, Spawn, SpawnCancelled, SelectTick, SelectTickCancelled,
                      SelectDone, RenewalDone, UnlockDone, Send, FinalSend, Stop, Consume, lockerVars
  <2>7. CASE UNCHANGED vars
    BY <2>5, <2>7 DEF vars, lockerVars
  <2> QED
    BY <1>1, <2>2, <2>4, <2>6, <2>7 DEF Next
<1>2. TypeOK /\ [Next]_vars =>
        [\A n \in Node : owner = n /\ owner' # n =>
           ttl = 1 \/ "unlock" \in {call[n], stray[n]}]_owner
  BY <1>1
<1> QED
  BY <1>2, TypeCorrect, PTL DEF Spec, OnlyOwnerReleases

-----------------------------------------------------------------------------
\* An unlock is only called after the context was cancelled.
Resigning == \A n \in Node : call[n] = "unlock" => ctxDone[n]

FeedInv == TypeOK /\ Control /\ Resigning

\* What the refinement needs holds whatever the timing.
LEMMA FeedInvariant == Spec => []FeedInv
<1>1. Init => FeedInv
  <2>1. Init => TypeOK
    BY RenewBounds DEF Init, LockerInit, TypeOK, LockerTypeOK
  <2>2. Init => Control /\ Resigning
    BY RenewBounds DEF Init, LockerInit, Control, Resigning
  <2> QED
    BY <2>1, <2>2 DEF FeedInv
<1>2. ASSUME TypeOK, Resigning, [Next]_vars PROVE Resigning'
  <2> USE DEF TypeOK, LockerTypeOK, Resigning
  <2>1. ASSUME UNCHANGED ctxDone, \A n \in Node : call'[n] = "unlock" => call[n] = "unlock" \/ ctxDone[n]
        PROVE  Resigning'
    BY <1>2, <2>1
  <2>2. CASE UNCHANGED vars \/ Tick
    BY <1>2, <2>1, <2>2 DEF vars, lockerVars, Tick
  <2>3. ASSUME NEW n \in Node, Redis(n) \/ Consume(n) PROVE Resigning'
    BY <1>2, <2>1, <2>3 DEF Redis, Execute, ExecuteStray, LinkDown, LinkUp, Consume, lockerVars
  <2>4. ASSUME NEW n \in Node, Stop(n) PROVE Resigning'
    BY <1>2, <2>4 DEF Stop, lockerVars
  <2>5. ASSUME NEW n \in Node, Goroutine(n) PROVE Resigning'
    <3>1. CASE Spawn(n) \/ SelectTick(n) \/ SelectDone(n)
      BY <1>2, <2>1, <3>1 DEF Spawn, SelectTick, SelectDone, Begin
    <3>2. CASE SpawnCancelled(n) \/ SelectTickCancelled(n) \/ Send(n) \/ FinalSend(n)
      BY <1>2, <2>1, <3>2 DEF SpawnCancelled, SelectTickCancelled, Send, FinalSend, lockerVars
    <3>3. CASE Serve(n)
      <4>1. call' = [call EXCEPT ![n] = "none"] /\ UNCHANGED ctxDone
        BY <3>3 DEF Serve, RenewalDone, UnlockDone, CallOk, CallFailed, Return, ReturnErr
      <4> QED
        BY <1>2, <2>1, <4>1
    <3> QED
      BY <2>5, <3>1, <3>2, <3>3 DEF Goroutine
  <2> QED
    BY <1>2, <2>2, <2>3, <2>4, <2>5 DEF Next
<1>3. FeedInv /\ [Next]_vars => FeedInv'
  BY <1>2, TypeInductive, ControlInductive DEF FeedInv
<1> QED
  BY <1>1, <1>3, PTL DEF Spec

phases == [n \in Node |-> Phase(n)]

\* A step that leaves what the reader sees and the phase of every goroutine is no
\* step of the feed.
LEMMA FeedStutter ==
  ASSUME UNCHANGED <<isLeader, ctxDone, watcher, closed>>, \A n \in Node : Phase(n)' = Phase(n)
  PROVE  UNCHANGED Feed!feedVars
BY DEF Feed!feedVars

\* A goroutine that goes from one place to another moves its own phase alone.
LEMMA PhaseMoves ==
  ASSUME TypeOK, NEW n \in Node, NEW label, Goto(n, label)
  PROVE  /\ phases' = [phases EXCEPT ![n] = Phase(n)']
         /\ phases[n] = Phase(n) /\ pc'[n] = label
         /\ \A m \in Node : Phase(m)' = IF m = n THEN Phase(n)' ELSE Phase(m)
<1>1. pc'[n] = label /\ \A m \in Node \ {n} : pc'[m] = pc[m]
  BY DEF TypeOK, Goto
<1>2. \A m \in Node \ {n} : Phase(m)' = Phase(m)
  BY <1>1 DEF Phase
<1> QED
  BY <1>1, <1>2 DEF phases

\* Every step of a goroutine of Elect is a step of its feed, or none.
LEMMA GoroutineFeeds ==
  ASSUME FeedInv, NEW n \in Node, Goroutine(n)
  PROVE  Feed!Elect(n) \/ UNCHANGED Feed!feedVars
<1>0. TypeOK /\ Control /\ Resigning
  BY DEF FeedInv
<1> USE DEF chanVars
<1>1. CASE Spawn(n) \/ SelectTick(n) \/ SelectDone(n)
  <2>1. Goto(n, "call") /\ pc[n] \in {"spawn", "select"}
        /\ UNCHANGED <<isLeader, ctxDone, watcher, closed>>
    BY <1>1 DEF Spawn, SelectTick, SelectDone
  <2>2. Phase(n)' = Phase(n)
    BY <1>0, <2>1, PhaseMoves DEF Phase
  <2> QED
    BY <1>0, <2>1, <2>2, PhaseMoves, FeedStutter
<1>2. CASE SpawnCancelled(n)
  <2>1. /\ Goto(n, "returned") /\ pc[n] = "spawn" /\ ctxDone[n] /\ ~isLeader[n]
        /\ UNCHANGED <<isLeader, ctxDone, watcher, closed>>
    BY <1>0, <1>2 DEF SpawnCancelled, Control
  <2>2. Phase(n) = "idle" /\ Phase(n)' = "ended"
    BY <1>0, <2>1, PhaseMoves DEF Phase
  <2>3. Feed!NeverRan(n)
    BY <1>0, <2>1, <2>2, PhaseMoves DEF Feed!NeverRan, phases
  <2> QED
    BY <2>3 DEF Feed!Elect
<1>3. ASSUME pc[n] \in {"select", "call"}, UNCHANGED <<ctxDone, watcher, closed>>,
             NEW b \in BOOLEAN, isLeader' = [isLeader EXCEPT ![n] = b],
             Goto(n, IF b # isLeader[n] THEN "send" ELSE "select")
      PROVE  Feed!Elect(n) \/ UNCHANGED Feed!feedVars
  <2>1. Phase(n) = "idle" /\ isLeader[n] \in BOOLEAN
    BY <1>0, <1>3 DEF Phase, TypeOK
  <2>2. CASE b # isLeader[n]
    <3>1. Phase(n)' = "announce"
      BY <1>0, <1>3, <2>2, PhaseMoves DEF Phase
    <3>2. isLeader' = [isLeader EXCEPT ![n] = ~isLeader[n]]
      BY <1>3, <2>1, <2>2
    <3>3. Feed!Change(n)
      BY <1>0, <1>3, <2>1, <3>1, <3>2, PhaseMoves DEF Feed!Change, phases
    <3> QED
      BY <3>3 DEF Feed!Elect
  <2>3. CASE b = isLeader[n]
    <3>1. Phase(n)' = "idle"
      BY <1>0, <1>3, <2>3, PhaseMoves DEF Phase
    <3>2. isLeader' = isLeader
      BY <1>0, <1>3, <2>3 DEF TypeOK
    <3> QED
      BY <1>0, <1>3, <2>1, <3>1, <3>2, PhaseMoves, FeedStutter
  <2> QED
    BY <2>2, <2>3
<1>4. CASE SelectTickCancelled(n)
  <2>1. Goto(n, IF FALSE # isLeader[n] THEN "send" ELSE "select")
    BY <1>0, <1>4 DEF SelectTickCancelled, ToSelect, TypeOK
  <2> QED
    BY <1>3, <1>4, <2>1 DEF SelectTickCancelled
<1>5. CASE RenewalDone(n)
  <2>1. PICK b \in BOOLEAN : isLeader' = [isLeader EXCEPT ![n] = b]
    BY <1>5 DEF RenewalDone
  <2>2. isLeader'[n] = b
    BY <1>0, <2>1 DEF TypeOK
  <2>3. Goto(n, IF b # isLeader[n] THEN "send" ELSE "select")
    BY <1>5, <2>2 DEF RenewalDone, ToSelect
  <2>4. pc[n] = "call" /\ UNCHANGED <<ctxDone, watcher, closed>>
    BY <1>0, <1>5 DEF RenewalDone, Control
  <2> QED
    BY <1>3, <2>1, <2>3, <2>4
<1>6. CASE UnlockDone(n)
  <2>1. /\ Goto(n, "finalSend") /\ pc[n] = "call" /\ ctxDone[n] /\ isLeader[n]
        /\ isLeader' = [isLeader EXCEPT ![n] = FALSE]
        /\ UNCHANGED <<ctxDone, watcher, closed>>
    BY <1>0, <1>6 DEF UnlockDone, Control, Resigning
  <2>2. Phase(n) = "idle" /\ Phase(n)' = "farewell"
    BY <1>0, <2>1, PhaseMoves DEF Phase
  <2>3. Feed!Resign(n)
    BY <1>0, <2>1, <2>2, PhaseMoves DEF Feed!Resign, phases
  <2> QED
    BY <2>3 DEF Feed!Elect
<1>7. Offer(n) => Feed!Offer(n)
  BY DEF Offer, Feed!Offer, TakenAcquire, LostAcquire, Feed!TakenAcquire, Feed!LostAcquire
<1>8. CASE Send(n)
  <2>1. Goto(n, "select") /\ pc[n] = "send" /\ Offer(n) /\ UNCHANGED <<isLeader, ctxDone, closed>>
    BY <1>8 DEF Send, ToSelect
  <2>2. Phase(n) = "announce" /\ Phase(n)' = "idle"
    BY <1>0, <2>1, PhaseMoves DEF Phase
  <2>3. Feed!Announce(n)
    BY <1>0, <1>7, <2>1, <2>2, PhaseMoves DEF Feed!Announce, phases
  <2> QED
    BY <2>3 DEF Feed!Elect
<1>9. CASE FinalSend(n)
  <2>1. /\ Goto(n, "returned") /\ pc[n] = "finalSend" /\ Offer(n)
        /\ closed' = [closed EXCEPT ![n] = TRUE] /\ UNCHANGED <<isLeader, ctxDone>>
    BY <1>9 DEF FinalSend
  <2>2. Phase(n) = "farewell" /\ Phase(n)' = "ended"
    BY <1>0, <2>1, PhaseMoves DEF Phase
  <2>3. Feed!Farewell(n)
    BY <1>0, <1>7, <2>1, <2>2, PhaseMoves DEF Feed!Farewell, phases
  <2> QED
    BY <2>3 DEF Feed!Elect
<1> QED
  BY <1>1, <1>2, <1>4, <1>5, <1>6, <1>8, <1>9 DEF Goroutine, Serve

\* Elect implements LeaderFeed, for any processes, timing and failures: each change of
\* leadership is sent before another one, and only a done context leaves one out.
THEOREM FeedIsRefined == Spec => FeedRefined
<1>1. Init => Feed!FeedInit
  BY DEF Init, Phase, Feed!FeedInit
<1>2. ASSUME FeedInv, [Next]_vars PROVE [Feed!FeedNext]_(Feed!feedVars)
  <2> USE DEF chanVars
  <2>0. ASSUME UNCHANGED <<pc, isLeader, ctxDone, watcher, closed>> PROVE UNCHANGED Feed!feedVars
    BY <2>0, FeedStutter DEF Phase
  <2>1. CASE UNCHANGED vars \/ Tick
    BY <2>0, <2>1 DEF vars, loopVars, Tick
  <2>2. ASSUME NEW n \in Node, Goroutine(n) PROVE [Feed!FeedNext]_(Feed!feedVars)
    BY <1>2, <2>2, GoroutineFeeds DEF Feed!FeedNext
  <2>3. ASSUME NEW n \in Node, Redis(n) PROVE [Feed!FeedNext]_(Feed!feedVars)
    BY <2>0, <2>3 DEF Redis, loopVars
  <2>4. ASSUME UNCHANGED pc PROVE phases' = phases
    BY <2>4 DEF phases, Phase
  <2>5. ASSUME NEW n \in Node, Stop(n) PROVE [Feed!FeedNext]_(Feed!feedVars)
    <3>1. Feed!Stop(n)
      BY <2>4, <2>5 DEF Stop, loopVars, phases, Feed!Stop
    <3> QED
      BY <3>1 DEF Feed!FeedNext
  <2>6. ASSUME NEW n \in Node, Consume(n) PROVE [Feed!FeedNext]_(Feed!feedVars)
    <3>1. Feed!Receive(n)
      BY <2>4, <2>6 DEF Consume, loopVars, phases, Feed!Receive
    <3> QED
      BY <3>1 DEF Feed!FeedNext
  <2> QED
    BY <1>2, <2>1, <2>2, <2>3, <2>5, <2>6 DEF Next
<1> QED
  BY <1>1, <1>2, FeedInvariant, PTL DEF Spec, FeedRefined, Feed!FeedSpec
=============================================================================
