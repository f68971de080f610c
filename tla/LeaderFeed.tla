------------------------------ MODULE LeaderFeed ------------------------------
(***************************************************************************)
(* What watchdog.LeaderElectingWatchdog promises to the reader of Elect's  *)
(* channel, without Redis and without time: every change of leadership is  *)
(* announced before the next one, in order; only a watchdog whose context  *)
(* is done may leave a change out; the channel is closed after a last      *)
(* announcement, if the goroutine ever ran.  WatchdogFeed shows that Elect *)
(* implements it; Leadership builds the kernel's supervisors on it.        *)
(***************************************************************************)
EXTENDS Naturals, Sequences

CONSTANTS Node,   \* the elections a reader listens to
          Cap     \* capacity of a channel

ASSUME FeedAssumption == Cap \in Nat \ {0}

VARIABLES phase,     \* phase[n]: idle, or which send the goroutine is in
          isLeader,  \* isLeader[n]: the goroutine's view
          ctxDone,   \* ctxDone[n]: the watchdog context is cancelled
          watcher,   \* watcher[n]: announcements not yet received
          closed     \* closed[n]: the channel is closed

feedVars == <<phase, isLeader, ctxDone, watcher, closed>>

LostAcquire == 1
TakenAcquire == 2

FeedTypeOK ==
  /\ phase \in [Node -> {"idle", "announce", "farewell", "ended"}]
  /\ isLeader \in [Node -> BOOLEAN]
  /\ ctxDone \in [Node -> BOOLEAN]
  /\ watcher \in [Node -> Seq({LostAcquire, TakenAcquire})]
  /\ \A n \in Node : Len(watcher[n]) <= Cap
  /\ closed \in [Node -> BOOLEAN]

FeedInit ==
  /\ phase = [n \in Node |-> "idle"]
  /\ isLeader = [n \in Node |-> FALSE]
  /\ ctxDone = [n \in Node |-> FALSE]
  /\ watcher = [n \in Node |-> <<>>]
  /\ closed = [n \in Node |-> FALSE]

-----------------------------------------------------------------------------
\* The election is won or lost.
Change(n) ==
  /\ phase[n] = "idle"
  /\ isLeader' = [isLeader EXCEPT ![n] = ~@]
  /\ phase' = [phase EXCEPT ![n] = "announce"]
  /\ UNCHANGED <<ctxDone, watcher, closed>>

\* A leader whose context is done has released the lock.
Resign(n) ==
  /\ phase[n] = "idle" /\ isLeader[n] /\ ctxDone[n]
  /\ isLeader' = [isLeader EXCEPT ![n] = FALSE]
  /\ phase' = [phase EXCEPT ![n] = "farewell"]
  /\ UNCHANGED <<ctxDone, watcher, closed>>

\* The context was done before the goroutine began.
NeverRan(n) ==
  /\ phase[n] = "idle" /\ ~isLeader[n] /\ ctxDone[n]
  /\ phase' = [phase EXCEPT ![n] = "ended"]
  /\ UNCHANGED <<isLeader, ctxDone, watcher, closed>>

\* mutant: a full channel loses the event
OfferOrLose(n) ==
  \/ /\ Len(watcher[n]) < Cap
     /\ watcher' = [watcher EXCEPT ![n] =
                      Append(@, IF isLeader[n] THEN TakenAcquire ELSE LostAcquire)]
  \/ (ctxDone[n] \/ Len(watcher[n]) = Cap) /\ UNCHANGED watcher

\* mutant: an unbounded channel
OfferUnbounded(n) ==
  \/ watcher' = [watcher EXCEPT ![n] =
                    Append(@, IF isLeader[n] THEN TakenAcquire ELSE LostAcquire)]
  \/ ctxDone[n] /\ UNCHANGED watcher

\* send(event)
Offer(n) ==
  \/ /\ Len(watcher[n]) < Cap
     /\ watcher' = [watcher EXCEPT ![n] =
                      Append(@, IF isLeader[n] THEN TakenAcquire ELSE LostAcquire)]
  \/ ctxDone[n] /\ UNCHANGED watcher

Announce(n) ==
  /\ phase[n] = "announce"
  /\ Offer(n)
  /\ phase' = [phase EXCEPT ![n] = "idle"]
  /\ UNCHANGED <<isLeader, ctxDone, closed>>

Farewell(n) ==
  /\ phase[n] = "farewell"
  /\ Offer(n)
  /\ phase' = [phase EXCEPT ![n] = "ended"]
  /\ closed' = [closed EXCEPT ![n] = TRUE]
  /\ UNCHANGED <<isLeader, ctxDone>>

Elect(n) == Change(n) \/ Resign(n) \/ NeverRan(n) \/ Announce(n) \/ Farewell(n)

Stop(n) ==
  /\ ~ctxDone[n]
  /\ ctxDone' = [ctxDone EXCEPT ![n] = TRUE]
  /\ UNCHANGED <<phase, isLeader, watcher, closed>>

\* The reader receives the oldest announcement.
Receive(n) ==
  /\ watcher[n] # <<>>
  /\ watcher' = [watcher EXCEPT ![n] = Tail(@)]
  /\ UNCHANGED <<phase, isLeader, ctxDone, closed>>

FeedNext == \E n \in Node : Elect(n) \/ Stop(n) \/ Receive(n)

FeedSpec == FeedInit /\ [][FeedNext]_feedVars
=============================================================================
