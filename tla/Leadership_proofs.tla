-------------------------- MODULE Leadership_proofs --------------------------
(***************************************************************************)
(* The leader supervisors of a kernel, for any number of supervisors and   *)
(* any capacity of the channels: callbacks come in pairs and never         *)
(* overlap, and a supervisor that has heard everything agrees with its     *)
(* election.                                                               *)
(***************************************************************************)
EXTENDS Leadership, SequenceTheorems, TLAPS

\* Kernel.Stop is in a callback of a supervisor whose context it has cancelled.
InStopInv == inStop => at \in Node /\ supDone[at]

\* supervisor.mu is held exactly through a callback; a panic of Start keeps it.
MutexInv ==
  \A s \in Node :
    /\ mu[s] = "loop" <=> lpc[s] \in {"starting", "stopping", "dead"}
    /\ mu[s] = "kernel" <=> (inStop /\ at = s)

\* Working follows the work itself until the loop has cleared it and returned,
\* and it does not change while a callback runs.
WorkingInv ==
  \A s \in Node :
    /\ lpc[s] = "starting" => ~Working[s]
    /\ lpc[s] = "stopping" => Working[s]
    /\ inStop /\ at = s => Working[s]
    /\ Working[s] => active[s]
    /\ lpc[s] # "returned" => (active[s] => Working[s])

\* What supervisor s will do once it has handled every announcement sent.
Told(s) ==
  IF watcher[s] # <<>> THEN watcher[s][Len(watcher[s])] = TakenAcquire
  ELSE \/ lpc[s] \in {"taken", "starting"}
       \/ lpc[s] \notin {"lost", "stopping"} /\ active[s]

\* The goroutine of s still follows the election, and nobody is shutting it down.
Following(s) ==
  ~ctxDone[s] /\ ~supDone[s] /\ lpc[s] \in {"spawn", "select", "lost", "taken", "starting", "stopping"}

\* The announcements are one behind the election while it is in a send, and
\* otherwise level with it.
AgreementInv ==
  \A s \in Node :
    /\ ~ctxDone[s] => phase[s] \in {"idle", "announce"}
    /\ Following(s) => /\ phase[s] = "idle" => (Told(s) <=> isLeader[s])
                       /\ phase[s] = "announce" => (Told(s) <=> ~isLeader[s])

TypeInv == TypeOK /\ InStopInv
PairInv == MutexInv /\ WorkingInv

-----------------------------------------------------------------------------
\* A send leaves a channel of announcements within its capacity.
LEMMA OfferType ==
  ASSUME FeedTypeOK, NEW n \in Node, Offer(n)
  PROVE  /\ watcher' \in [Node -> Seq({LostAcquire, TakenAcquire})]
         /\ \A m \in Node : Len(watcher'[m]) <= Cap
<1> DEFINE e == IF isLeader[n] THEN TakenAcquire ELSE LostAcquire
<1>0. watcher[n] \in Seq({LostAcquire, TakenAcquire}) /\ e \in {LostAcquire, TakenAcquire}
  BY DEF FeedTypeOK
<1>1. Append(watcher[n], e) \in Seq({LostAcquire, TakenAcquire})
  BY <1>0
<1>2. Len(Append(watcher[n], e)) = Len(watcher[n]) + 1 /\ Len(watcher[n]) \in Nat
  BY <1>0
<1>3. CASE UNCHANGED watcher
  BY <1>3 DEF FeedTypeOK
<1>4. CASE Len(watcher[n]) < Cap /\ watcher' = [watcher EXCEPT ![n] = Append(watcher[n], e)]
  BY <1>1, <1>2, <1>4, FeedAssumption DEF FeedTypeOK
<1> QED
  BY <1>3, <1>4 DEF Offer

\* Every step of an election keeps the types of the feed.
LEMMA ElectType ==
  ASSUME FeedTypeOK, NEW n \in Node, Elect(n)
  PROVE  FeedTypeOK'
<1>1. CASE Change(n) \/ Resign(n) \/ NeverRan(n)
  BY <1>1 DEF Change, Resign, NeverRan, FeedTypeOK
<1>2. CASE Announce(n)
  BY <1>2, OfferType DEF Announce, FeedTypeOK
<1>3. CASE Farewell(n)
  BY <1>3, OfferType DEF Farewell, FeedTypeOK
<1> QED
  BY <1>1, <1>2, <1>3 DEF Elect

\* Receiving keeps the types of the feed.
LEMMA ReceiveType ==
  ASSUME FeedTypeOK, NEW n \in Node, Receive(n)
  PROVE  FeedTypeOK'
<1>1. watcher[n] \in Seq({LostAcquire, TakenAcquire}) /\ watcher[n] # <<>>
  BY DEF FeedTypeOK, Receive
<1>2. Tail(watcher[n]) \in Seq({LostAcquire, TakenAcquire}) /\ Len(Tail(watcher[n])) <= Len(watcher[n])
  BY <1>1
<1>3. Len(Tail(watcher[n])) <= Cap
  BY <1>1, <1>2, FeedAssumption DEF FeedTypeOK
<1> QED
  BY <1>2, <1>3 DEF Receive, FeedTypeOK

\* Every step of the goroutines, of Kernel.Stop and of the elections keeps each
\* variable in its type, and Kernel.Stop within the supervisors while it is in
\* a callback.
LEMMA TypeInductive == TypeInv /\ [Next]_vars => TypeInv'
<1> SUFFICES ASSUME TypeOK, InStopInv, [Next]_vars PROVE TypeOK' /\ InStopInv'
  BY DEF TypeInv
<1> USE DEF supVars, kernelVars, Goto, Acquire, Release
<1>0. ASSUME UNCHANGED feedVars PROVE FeedTypeOK'
  BY <1>0 DEF feedVars, FeedTypeOK, TypeOK
<1>1. CASE UNCHANGED vars
  BY <1>0, <1>1 DEF vars, TypeOK, InStopInv
<1>2. CASE Cancel
  BY <1>2 DEF Cancel, TypeOK, FeedTypeOK, InStopInv
<1>3. CASE StopBegin
  BY <1>0, <1>3, LeadershipAssumption DEF StopBegin, TypeOK, InStopInv
<1>4. CASE StopSupervisor
  <2>1. at' \in 0..N+1
    BY <1>4, LeadershipAssumption DEF StopSupervisor, TypeOK
  <2>2. mu' \in [Node -> {"free", "loop", "kernel"}] /\ supDone' \in [Node -> BOOLEAN]
    BY <1>4 DEF StopSupervisor, TypeOK
  <2>3. InStopInv'
    BY <1>4 DEF StopSupervisor, TypeOK, InStopInv
  <2> QED
    BY <1>0, <1>4, <2>1, <2>2, <2>3 DEF StopSupervisor, TypeOK
<1>5. CASE StopCallbackReturns
  <2>1. at' \in 0..N+1
    BY <1>5, LeadershipAssumption DEF StopCallbackReturns, TypeOK, InStopInv
  <2>2. /\ mu' \in [Node -> {"free", "loop", "kernel"}]
        /\ Working' \in [Node -> BOOLEAN] /\ active' \in [Node -> BOOLEAN]
    BY <1>5 DEF StopCallbackReturns, TypeOK
  <2> QED
    BY <1>0, <1>5, <2>1, <2>2 DEF StopCallbackReturns, TypeOK, InStopInv
<1>6. ASSUME NEW s \in Node, Loop(s) PROVE TypeOK' /\ InStopInv'
  <2>1. CASE LoopSpawn(s) \/ LoopKernelDone(s) \/ LoopSupDone(s) \/ LoopStartPanics(s)
    BY <1>0, <2>1 DEF LoopSpawn, LoopKernelDone, LoopSupDone, LoopStartPanics, TypeOK, InStopInv
  <2>2. CASE LoopClear(s)
    BY <1>0, <2>2 DEF LoopClear, TypeOK, InStopInv
  <2>3. CASE LoopReceive(s)
    <3>1. FeedTypeOK'
      BY <1>0, <2>3, ReceiveType DEF LoopReceive, TypeOK
    <3>2. lpc' \in [Node -> {"spawn", "select", "lost", "taken", "clear", "starting", "stopping",
                             "returned", "dead"}]
      BY <2>3 DEF LoopReceive, TypeOK
    <3> QED
      BY <2>3, <3>1, <3>2 DEF LoopReceive, TypeOK, InStopInv
  <2>4. CASE LoopLost(s) \/ LoopTaken(s)
    <3>1. CASE LoopLost(s)
      BY <1>0, <3>1 DEF LoopLost, TypeOK, InStopInv
    <3>2. CASE LoopTaken(s)
      BY <1>0, <3>2 DEF LoopTaken, TypeOK, InStopInv
    <3> QED
      BY <2>4, <3>1, <3>2
  <2>5. CASE LoopStopReturns(s) \/ LoopStartReturns(s)
    <3>1. CASE LoopStopReturns(s)
      BY <1>0, <3>1 DEF LoopStopReturns, TypeOK, InStopInv
    <3>2. CASE LoopStartReturns(s)
      BY <1>0, <3>2 DEF LoopStartReturns, TypeOK, InStopInv
    <3> QED
      BY <2>5, <3>1, <3>2
  <2> QED
    BY <1>6, <2>1, <2>2, <2>3, <2>4, <2>5 DEF Loop
<1>7. ASSUME NEW s \in Node, ElectStep(s) PROVE TypeOK' /\ InStopInv'
  BY <1>7, ElectType DEF ElectStep, TypeOK, InStopInv
<1>8. ASSUME NEW s \in Node, WatchdogStop(s) PROVE TypeOK' /\ InStopInv'
  BY <1>8 DEF WatchdogStop, Stop, TypeOK, FeedTypeOK, InStopInv
<1> QED
  BY <1>1, <1>2, <1>3, <1>4, <1>5, <1>6, <1>7, <1>8 DEF Next, KernelStop

\* The strengthened type invariant holds of the supervisors and their elections.
LEMMA TypeInvariant == Spec => []TypeInv
<1>1. Init => TypeInv
  <2>1. <<>> \in Seq({LostAcquire, TakenAcquire}) /\ Len(<<>>) = 0
    OBVIOUS
  <2>2. ASSUME Init PROVE FeedTypeOK
    BY <2>1, <2>2, FeedAssumption DEF Init, FeedInit, FeedTypeOK
  <2> QED
    <3>1. 0 \in 0..N+1
      BY LeadershipAssumption
    <3> QED
      BY <2>2, <3>1 DEF Init, TypeInv, TypeOK, InStopInv
<1> QED
  BY <1>1, TypeInductive, PTL DEF Spec

\* Every variable keeps its type: no channel exceeds its capacity, and
\* Kernel.Stop never walks past its supervisors.
THEOREM TypeCorrect == Spec => []TypeOK
<1>1. TypeInv => TypeOK
  BY DEF TypeInv
<1> QED
  BY <1>1, TypeInvariant, PTL

-----------------------------------------------------------------------------
\* Every step keeps the mutex with the callback that runs and Working with the
\* work it stands for.
LEMMA PairInductive == TypeInv /\ PairInv /\ [Next]_vars => PairInv'
<1> SUFFICES ASSUME TypeOK, InStopInv, MutexInv, WorkingInv, [Next]_vars
             PROVE  MutexInv' /\ WorkingInv'
  BY DEF TypeInv, PairInv
<1> USE DEF supVars, kernelVars, Goto, Acquire, Release
<1>1. CASE UNCHANGED supVars
  BY <1>1 DEF MutexInv, WorkingInv
<1>2. CASE Cancel
  BY <1>2 DEF Cancel, MutexInv, WorkingInv
<1>3. CASE StopBegin
  BY <1>3, LeadershipAssumption DEF StopBegin, MutexInv, WorkingInv, InStopInv
<1>4. CASE StopSupervisor
  <2>1. MutexInv'
    BY <1>4 DEF StopSupervisor, MutexInv, TypeOK
  <2>2. WorkingInv'
    BY <1>4 DEF StopSupervisor, WorkingInv, TypeOK
  <2> QED
    BY <2>1, <2>2
<1>5. CASE StopCallbackReturns
  <2>0. at \in Node /\ mu[at] = "kernel" /\ lpc[at] \notin {"starting", "stopping", "dead"}
    BY <1>5 DEF StopCallbackReturns, InStopInv, MutexInv
  <2>1. MutexInv'
    BY <1>5, <2>0 DEF StopCallbackReturns, MutexInv, TypeOK
  <2>2. WorkingInv'
    BY <1>5, <2>0 DEF StopCallbackReturns, WorkingInv, TypeOK
  <2> QED
    BY <2>1, <2>2
<1>6. ASSUME NEW s \in Node, Loop(s) PROVE MutexInv' /\ WorkingInv'
  <2>1. CASE LoopSpawn(s) \/ LoopKernelDone(s) \/ LoopSupDone(s)
    BY <2>1 DEF LoopSpawn, LoopKernelDone, LoopSupDone, MutexInv, WorkingInv, TypeOK
  <2>2. CASE LoopClear(s)
    BY <2>2 DEF LoopClear, MutexInv, WorkingInv, TypeOK
  <2>3. CASE LoopReceive(s)
    BY <2>3 DEF LoopReceive, MutexInv, WorkingInv, TypeOK
  <2>4. CASE LoopLost(s) \/ LoopTaken(s)
    BY <2>4 DEF LoopLost, LoopTaken, MutexInv, WorkingInv, TypeOK
  <2>5. CASE LoopStopReturns(s) \/ LoopStartReturns(s)
    <3>1. MutexInv'
      BY <2>5 DEF LoopStopReturns, LoopStartReturns, MutexInv, TypeOK
    <3>2. ~(inStop /\ at = s)
      BY <2>5 DEF LoopStopReturns, LoopStartReturns, MutexInv
    <3>3. WorkingInv'
      BY <2>5, <3>2 DEF LoopStopReturns, LoopStartReturns, WorkingInv, TypeOK
    <3> QED
      BY <3>1, <3>3
  <2>6. CASE LoopStartPanics(s)
    BY <2>6 DEF LoopStartPanics, MutexInv, WorkingInv, TypeOK
  <2> QED
    BY <1>6, <2>1, <2>2, <2>3, <2>4, <2>5, <2>6 DEF Loop
<1> QED
  BY <1>1, <1>2, <1>3, <1>4, <1>5, <1>6 DEF Next, KernelStop, ElectStep, WatchdogStop, vars

\* The invariant of the mutex and of Working holds of every kernel.
LEMMA PairInvariant == Spec => []PairInv
<1>1. Init => PairInv
  BY DEF Init, PairInv, MutexInv, WorkingInv
<1> QED
  BY <1>1, PairInductive, TypeInvariant, PTL DEF Spec

\* Start is only called on stopped work and Stop only on started work, and no
\* two callbacks of a supervisor overlap, although the goroutine of
\* StartWatchdogsLeadership and Kernel.Stop both call them.
THEOREM CallbacksArePaired == Spec => []CallbacksPaired
<1>1. PairInv => CallbacksPaired
  BY DEF PairInv, MutexInv, WorkingInv, CallbacksPaired
<1> QED
  BY <1>1, PairInvariant, PTL

-----------------------------------------------------------------------------
\* A send to a channel makes the state of the election the last announcement.
LEMMA OfferLast ==
  ASSUME FeedTypeOK, NEW n \in Node, Offer(n), ~ctxDone[n]
  PROVE  /\ watcher'[n] # <<>>
         /\ watcher'[n][Len(watcher'[n])] = TakenAcquire <=> isLeader[n]
         /\ \A m \in Node \ {n} : watcher'[m] = watcher[m]
<1> DEFINE e == IF isLeader[n] THEN TakenAcquire ELSE LostAcquire
<1>1. watcher'[n] = Append(watcher[n], e) /\ \A m \in Node \ {n} : watcher'[m] = watcher[m]
  BY DEF Offer, FeedTypeOK
<1>2. watcher[n] \in Seq({LostAcquire, TakenAcquire}) /\ e \in {LostAcquire, TakenAcquire}
  BY DEF FeedTypeOK
<1>3. Append(watcher[n], e) # <<>> /\ Append(watcher[n], e)[Len(Append(watcher[n], e))] = e
  BY <1>2
<1>4. e = TakenAcquire <=> isLeader[n]
  BY DEF FeedTypeOK, LostAcquire, TakenAcquire
<1> QED
  BY <1>1, <1>3, <1>4

\* A channel that holds something and not one announcement holds two or more.
LEMMA AtLeastTwo ==
  ASSUME NEW S, NEW q \in Seq(S), q # <<>>, Len(q) # 1
  PROVE  Len(q) \in Nat /\ Len(q) >= 2 /\ Tail(q) # <<>>
<1>1. Len(q) \in Nat \ {0}
  BY EmptySeq
<1>2. \A k \in Nat \ {0} : k # 1 => k >= 2 /\ k - 1 # 0
  OBVIOUS
<1>3. Len(Tail(q)) = Len(q) - 1
  BY HeadTailProperties
<1>4. Len(<<>>) = 0
  BY EmptySeq
<1> QED
  BY <1>1, <1>2, <1>3, <1>4, Zenon

\* Receiving takes the only announcement, or leaves the last one where it is.
LEMMA ReceiveLast ==
  ASSUME FeedTypeOK, NEW n \in Node, Receive(n)
  PROVE  /\ \A m \in Node \ {n} : watcher'[m] = watcher[m]
         /\ \/ watcher'[n] = <<>> /\ Head(watcher[n]) = watcher[n][Len(watcher[n])]
            \/ /\ watcher'[n] # <<>>
               /\ watcher'[n][Len(watcher'[n])] = watcher[n][Len(watcher[n])]
<1>1. watcher[n] \in Seq({LostAcquire, TakenAcquire}) /\ watcher[n] # <<>>
  BY DEF FeedTypeOK, Receive
<1>2. watcher'[n] = Tail(watcher[n]) /\ \A m \in Node \ {n} : watcher'[m] = watcher[m]
  BY DEF FeedTypeOK, Receive
<1>3. CASE Len(watcher[n]) = 1
  BY <1>1, <1>2, <1>3
<1>4. CASE Len(watcher[n]) # 1
  <2>1. Len(watcher[n]) \in Nat /\ Len(watcher[n]) >= 2
    BY <1>1, <1>4, AtLeastTwo
  <2>2. Len(Tail(watcher[n])) = Len(watcher[n]) - 1
    BY <1>1
  <2>3. Tail(watcher[n])[Len(watcher[n]) - 1] = watcher[n][Len(watcher[n])]
    BY <1>1, <2>1
  <2>4. watcher'[n] # <<>> /\ Len(watcher'[n]) = Len(watcher[n]) - 1
    BY <1>1, <1>2, <1>4, <2>2, AtLeastTwo
  <2> QED
    BY <1>2, <2>3, <2>4
<1> QED
  BY <1>2, <1>3, <1>4

\* Every step keeps the announcements level with the election, or one behind
\* while it is in a send.
LEMMA AgreementInductive ==
  TypeInv /\ PairInv /\ AgreementInv /\ [Next]_vars => AgreementInv'
<1> SUFFICES ASSUME TypeOK, InStopInv, MutexInv, WorkingInv, AgreementInv, [Next]_vars
             PROVE  AgreementInv'
  BY DEF TypeInv, PairInv
<1> USE DEF supVars, kernelVars, Goto, Acquire, Release
<1> FeedTypeOK
  BY DEF TypeOK
<1> HIDE DEF LostAcquire, TakenAcquire
<1>1. CASE UNCHANGED vars
  BY <1>1 DEF vars, feedVars, AgreementInv, Following, Told
<1>2. CASE Cancel
  BY <1>2 DEF Cancel, AgreementInv, Following
<1>3. CASE StopBegin
  BY <1>3 DEF StopBegin, feedVars, AgreementInv, Following, Told
<1>4. CASE StopSupervisor
  BY <1>4 DEF StopSupervisor, feedVars, AgreementInv, Following, Told, TypeOK
<1>5. CASE StopCallbackReturns
  <2>1. at \in Node /\ supDone'[at] /\ \A s \in Node \ {at} : active'[s] = active[s]
    BY <1>5 DEF StopCallbackReturns, InStopInv, TypeOK
  <2> QED
    BY <1>5, <2>1 DEF StopCallbackReturns, feedVars, AgreementInv, Following, Told
<1>6. ASSUME NEW s \in Node, Loop(s) PROVE AgreementInv'
  <2>0. ASSUME \A t \in Node \ {s} : /\ lpc'[t] = lpc[t] /\ active'[t] = active[t]
                                     /\ watcher'[t] = watcher[t],
               UNCHANGED <<phase, isLeader, ctxDone, closed, supDone>>,
               Following(s)' => Following(s) /\ (Told(s)' <=> Told(s))
        PROVE  AgreementInv'
    BY <2>0 DEF AgreementInv, Following, Told
  <2>1. CASE LoopSpawn(s) \/ LoopKernelDone(s) \/ LoopSupDone(s) \/ LoopClear(s) \/ LoopStartPanics(s)
    <3>1. /\ \A t \in Node \ {s} : lpc'[t] = lpc[t]
          /\ UNCHANGED <<feedVars, active, supDone>>
          /\ lpc'[s] \in {"returned", "clear", "dead"} \/ (lpc[s] = "spawn" /\ lpc'[s] = "select")
      BY <2>1 DEF LoopSpawn, LoopKernelDone, LoopSupDone, LoopClear, LoopStartPanics, TypeOK
    <3> QED
      BY <2>0, <3>1 DEF feedVars, Following, Told
  <2>2. CASE LoopReceive(s)
    <3>1. CASE watcher[s] = <<>> /\ closed[s] /\ Goto(s, "returned") /\ UNCHANGED feedVars
      BY <2>0, <2>2, <3>1 DEF LoopReceive, feedVars, Following, TypeOK
    <3>2. CASE Receive(s) /\ Goto(s, IF Head(watcher[s]) = LostAcquire THEN "lost" ELSE "taken")
      <4>1. Head(watcher[s]) \in {LostAcquire, TakenAcquire}
        BY <3>2 DEF Receive, FeedTypeOK
      <4>2. /\ lpc[s] = "select"
            /\ lpc'[s] = IF Head(watcher[s]) = TakenAcquire THEN "taken" ELSE "lost"
            /\ \A t \in Node \ {s} : lpc'[t] = lpc[t]
        BY <2>2, <3>2, <4>1 DEF LoopReceive, TypeOK, LostAcquire, TakenAcquire
      <4>3. Told(s)' <=> Told(s)
        <5>1. watcher[s] # <<>>
          BY <3>2 DEF Receive
        <5>2. CASE watcher'[s] = <<>> /\ Head(watcher[s]) = watcher[s][Len(watcher[s])]
          BY <4>2, <5>1, <5>2 DEF Told
        <5>3. CASE watcher'[s] # <<>> /\ watcher'[s][Len(watcher'[s])] = watcher[s][Len(watcher[s])]
          BY <5>1, <5>3 DEF Told
        <5> QED
          BY <3>2, <5>2, <5>3, ReceiveLast
      <4>4. Following(s)' => Following(s)
        BY <2>2, <3>2, <4>2 DEF Following, LoopReceive, Receive
      <4> QED
        BY <2>0, <2>2, <3>2, <4>2, <4>3, <4>4, ReceiveLast DEF LoopReceive, Receive
    <3> QED
      BY <2>2, <3>1, <3>2 DEF LoopReceive
  <2>3. CASE LoopLost(s) \/ LoopTaken(s)
    <3>1. /\ UNCHANGED <<feedVars, kernelVars, active>>
          /\ \A t \in Node \ {s} : lpc'[t] = lpc[t]
          /\ lpc[s] \in {"lost", "taken"} /\ lpc'[s] \in {"select", "starting", "stopping"}
          /\ (lpc[s] \in {"taken", "starting"} \/ (lpc[s] \notin {"lost", "stopping"} /\ active[s]))
             <=> (lpc'[s] \in {"taken", "starting"} \/ (lpc'[s] \notin {"lost", "stopping"} /\ active[s]))
      BY <2>3 DEF LoopLost, LoopTaken, WorkingInv, TypeOK
    <3> QED
      BY <2>0, <3>1 DEF feedVars, Following, Told
  <2>4. CASE LoopStopReturns(s) \/ LoopStartReturns(s)
    <3>1. /\ UNCHANGED <<feedVars, kernelVars>>
          /\ \A t \in Node \ {s} : lpc'[t] = lpc[t] /\ active'[t] = active[t]
          /\ lpc[s] \in {"stopping", "starting"} /\ lpc'[s] = "select"
          /\ active'[s] <=> lpc[s] = "starting"
      BY <2>4 DEF LoopStopReturns, LoopStartReturns, TypeOK
    <3> QED
      BY <2>0, <3>1 DEF feedVars, Following, Told
  <2> QED
    BY <1>6, <2>1, <2>2, <2>3, <2>4 DEF Loop
<1>7. ASSUME NEW s \in Node, ElectStep(s) PROVE AgreementInv'
  <2>1. UNCHANGED <<supVars, ctxDone>> /\ Elect(s)
    BY <1>7 DEF ElectStep, Elect, Change, Resign, NeverRan, Announce, Farewell
  <2>2. CASE Change(s)
    BY <2>1, <2>2 DEF Change, AgreementInv, Following, Told, FeedTypeOK
  <2>3. CASE Resign(s) \/ NeverRan(s)
    <3>1. /\ ctxDone[s] /\ UNCHANGED <<ctxDone, watcher, lpc, active, supDone>>
          /\ \A t \in Node \ {s} : phase'[t] = phase[t] /\ isLeader'[t] = isLeader[t]
      BY <2>1, <2>3 DEF Resign, NeverRan, FeedTypeOK
    <3> QED
      BY <3>1 DEF AgreementInv, Following, Told
  <2>4. CASE Announce(s) \/ Farewell(s)
    <3>1. Offer(s) /\ UNCHANGED isLeader /\ \A t \in Node \ {s} : phase'[t] = phase[t]
      BY <2>4 DEF Announce, Farewell, FeedTypeOK
    <3>2. \A t \in Node \ {s} : watcher'[t] = watcher[t]
      BY <3>1 DEF Offer, FeedTypeOK
    <3>3. CASE ctxDone[s]
      BY <2>1, <3>1, <3>2, <3>3 DEF AgreementInv, Following, Told
    <3>4. CASE ~ctxDone[s]
      <4>1. phase[s] = "announce" /\ phase'[s] = "idle"
        BY <2>4, <3>4 DEF Announce, Farewell, AgreementInv, FeedTypeOK
      <4>2. Told(s)' <=> isLeader[s]
        BY <3>1, <3>4, OfferLast DEF Told
      <4> QED
        BY <2>1, <3>1, <3>2, <4>1, <4>2 DEF AgreementInv, Following, Told
    <3> QED
      BY <3>3, <3>4
  <2> QED
    BY <2>1, <2>2, <2>3, <2>4 DEF Elect
<1>8. ASSUME NEW s \in Node, WatchdogStop(s) PROVE AgreementInv'
  BY <1>8 DEF WatchdogStop, Stop, AgreementInv, Following, Told, FeedTypeOK
<1> QED
  BY <1>1, <1>2, <1>3, <1>4, <1>5, <1>6, <1>7, <1>8 DEF Next, KernelStop

\* Until it is shut down, a supervisor that has handled every announcement runs
\* its work exactly if its process is the leader: no announcement is lost or
\* handled out of order between the election and the callbacks.
THEOREM SettledSupervisorsAgree == Spec => []SettledAgreement
<1>1. Init => AgreementInv
  <2> SUFFICES ASSUME Init, NEW s \in Node
               PROVE  phase[s] = "idle" /\ (Told(s) <=> isLeader[s])
    BY DEF AgreementInv
  <2>1. phase[s] = "idle" /\ ~isLeader[s] /\ watcher[s] = <<>> /\ lpc[s] = "spawn" /\ ~active[s]
    BY DEF Init, FeedInit
  <2>2. ~Told(s)
    BY <2>1 DEF Told
  <2> QED
    BY <2>1, <2>2
<1>2. AgreementInv => SettledAgreement
  BY DEF AgreementInv, SettledAgreement, Following, Told
<1> QED
  BY <1>1, <1>2, AgreementInductive, PairInvariant, TypeInvariant, PTL DEF Spec
=============================================================================
