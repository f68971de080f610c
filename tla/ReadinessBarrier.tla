--------------------------- MODULE ReadinessBarrier ---------------------------
(***************************************************************************)
(* readiness_barrier/readiness_barrier.go: a flag that a listener goroutine *)
(* switches by signals.  Start and Stop first swap the atomic running and  *)
(* do the rest in later steps; SendSignalCtx looks at running and sends    *)
(* later.  Listener k is the goroutine of the k-th Start.                  *)
(***************************************************************************)
EXTENDS Naturals, Sequences, FiniteSets

CONSTANTS Caller,      \* goroutines that call Start and Stop
          Sender,      \* goroutines that call SendSignalCtx
          Cap,         \* capacity of r.signals (4 in the code)
          MaxStarts    \* bound: runs of the listener

ASSUME BarrierAssumption == Cap \in Nat \ {0} /\ MaxStarts \in Nat

VARIABLES running,     \* the atomic running
          runCancel,   \* whose context runCancel cancels, 0 is nil
          cancelled,   \* the listeners whose context was cancelled
          parentDone,  \* r.parent is done
          wg,          \* r.wg
          signals,     \* r.signals
          ready,       \* readinessFlag
          latest,      \* history: the last signal sent; not_ready once Stop has left none
          runs,        \* contexts made so far
          mine,        \* mine[c]: the context caller c made in Start
          cpc,         \* cpc[c]: where caller c is
          lpc,         \* lpc[k]: where listener k is: a signal it holds, or a label
          spc,         \* spc[x]: the signal sender x tries to send, or idle
          serial       \* history: so far no call began while another one was under way

callVars == <<running, runCancel, cancelled, runs, mine, cpc, serial>>
flagVars == <<ready, latest>>
vars == <<callVars, parentDone, wg, signals, flagVars, lpc, spc>>

Toggle == {"ready", "not_ready"}
Run == 1..MaxStarts

TypeOK ==
  /\ {running, parentDone, ready, serial} \subseteq BOOLEAN
  /\ runCancel \in 0..MaxStarts /\ runs \in 0..MaxStarts
  /\ cancelled \subseteq Run
  /\ wg \in 0..MaxStarts
  /\ signals \in Seq(Toggle) /\ Len(signals) <= Cap
  /\ latest \in Toggle
  /\ mine \in [Caller -> 0..MaxStarts]
  /\ cpc \in [Caller -> {"idle", "publish", "spawn", "cancel", "wait", "drop", "clear"}]
  /\ lpc \in [Run -> {"none", "listen", "ended"} \cup Toggle]
  /\ spc \in [Sender -> {"idle"} \cup Toggle]

Init ==
  /\ running = FALSE /\ parentDone = FALSE /\ ready = FALSE /\ serial = TRUE
  /\ runCancel = 0 /\ runs = 0 /\ wg = 0
  /\ cancelled = {}
  /\ signals = <<>> /\ latest = "not_ready"
  /\ mine = [c \in Caller |-> 0]
  /\ cpc = [c \in Caller |-> "idle"]
  /\ lpc = [k \in Run |-> "none"]
  /\ spc = [x \in Sender |-> "idle"]

Goto(c, from, to) == cpc[c] = from /\ cpc' = [cpc EXCEPT ![c] = to]

\* A call that gets past its CompareAndSwap.
Enter(c, to) ==
  /\ Goto(c, "idle", to)
  /\ serial' = (serial /\ \A d \in Caller \ {c} : cpc[d] = "idle")

-----------------------------------------------------------------------------
(* Start *)

\* mutant: Start does not look at running
StartAlways(c) ==
  /\ runs < MaxStarts
  /\ Enter(c, "publish")
  /\ running' = TRUE
  /\ runs' = runs + 1
  /\ mine' = [mine EXCEPT ![c] = runs + 1]
  /\ UNCHANGED <<runCancel, cancelled, parentDone, wg, signals, flagVars, lpc, spc>>

\* running goes from false to true; a context is made.
StartSwap(c) ==
  /\ ~running /\ runs < MaxStarts
  /\ Enter(c, "publish")
  /\ running' = TRUE
  /\ runs' = runs + 1
  /\ mine' = [mine EXCEPT ![c] = runs + 1]
  /\ UNCHANGED <<runCancel, cancelled, parentDone, wg, signals, flagVars, lpc, spc>>

\* r.runCancel = cancel, under r.mu
StartPublish(c) ==
  /\ Goto(c, "publish", "spawn")
  /\ runCancel' = mine[c]
  /\ UNCHANGED <<running, cancelled, runs, mine, serial, parentDone, wg, signals, flagVars, lpc, spc>>

StartSpawn(c) ==
  /\ Goto(c, "spawn", "idle")
  /\ wg' = wg + 1
  /\ lpc' = [lpc EXCEPT ![mine[c]] = "listen"]
  /\ UNCHANGED <<running, runCancel, cancelled, runs, mine, serial, parentDone, signals, flagVars, spc>>

-----------------------------------------------------------------------------
(* Stop *)

StopSwap(c) ==
  /\ running
  /\ Enter(c, "cancel")
  /\ running' = FALSE
  /\ UNCHANGED <<runCancel, cancelled, runs, mine, parentDone, wg, signals, flagVars, lpc, spc>>

\* mutant: runCancel is forgotten without a call
StopForgets(c) ==
  /\ Goto(c, "cancel", "wait")
  /\ runCancel' = 0
  /\ UNCHANGED <<running, cancelled, runs, mine, serial, parentDone, wg, signals, flagVars, lpc, spc>>

\* Under r.mu: runCancel, if there is one, is called and forgotten.
StopCancel(c) ==
  /\ Goto(c, "cancel", "wait")
  /\ cancelled' = IF runCancel = 0 THEN cancelled ELSE cancelled \cup {runCancel}
  /\ runCancel' = 0
  /\ UNCHANGED <<running, runs, mine, serial, parentDone, wg, signals, flagVars, lpc, spc>>

\* mutant: Stop does not wait for the listener
StopWaitNot(c) ==
  /\ Goto(c, "wait", "drop")
  /\ UNCHANGED <<running, runCancel, cancelled, runs, mine, serial,
                 parentDone, wg, signals, flagVars, lpc, spc>>

StopWait(c) ==
  /\ Goto(c, "wait", "drop") /\ wg = 0
  /\ UNCHANGED <<running, runCancel, cancelled, runs, mine, serial,
                 parentDone, wg, signals, flagVars, lpc, spc>>

\* The drop loop: one signal at a time until the channel is empty.
StopDrop(c) ==
  /\ \/ Goto(c, "drop", "drop") /\ signals # <<>> /\ signals' = Tail(signals)
     \/ Goto(c, "drop", "clear") /\ signals = <<>> /\ UNCHANGED signals
  /\ UNCHANGED <<running, runCancel, cancelled, runs, mine, serial,
                 parentDone, wg, flagVars, lpc, spc>>

\* setNotReady; a late sender may have put a signal in the channel again.
StopClear(c) ==
  /\ Goto(c, "clear", "idle")
  /\ ready' = FALSE
  /\ latest' = IF signals = <<>> THEN "not_ready" ELSE latest
  /\ UNCHANGED <<running, runCancel, cancelled, runs, mine, serial,
                 parentDone, wg, signals, lpc, spc>>

-----------------------------------------------------------------------------
(* SendSignalCtx, listen, and the parent context. *)

SendCheck(x, sig) ==
  /\ spc[x] = "idle" /\ running
  /\ spc' = [spc EXCEPT ![x] = sig]
  /\ UNCHANGED <<callVars, parentDone, wg, signals, flagVars, lpc>>

\* mutant: an unbounded channel
SendPutAlways(x) ==
  /\ spc[x] # "idle"
  /\ spc' = [spc EXCEPT ![x] = "idle"]
  /\ signals' = Append(signals, spc[x]) /\ latest' = spc[x]
  /\ UNCHANGED <<callVars, parentDone, wg, ready, lpc>>

\* The signal is sent when there is room, or the sender's context ends first.
SendPut(x) ==
  /\ spc[x] # "idle"
  /\ spc' = [spc EXCEPT ![x] = "idle"]
  /\ \/ Len(signals) < Cap /\ signals' = Append(signals, spc[x]) /\ latest' = spc[x]
     \/ UNCHANGED <<signals, latest>>
  /\ UNCHANGED <<callVars, parentDone, wg, ready, lpc>>

ListenReceive(k) ==
  /\ lpc[k] = "listen" /\ signals # <<>>
  /\ lpc' = [lpc EXCEPT ![k] = Head(signals)]
  /\ signals' = Tail(signals)
  /\ UNCHANGED <<callVars, parentDone, wg, flagVars, spc>>

\* mutant: a barrier that was ready once stays so
ListenApplySticky(k) ==
  /\ lpc[k] \in Toggle
  /\ ready' = (ready \/ lpc[k] = "ready")
  /\ lpc' = [lpc EXCEPT ![k] = "listen"]
  /\ UNCHANGED <<callVars, parentDone, wg, signals, latest, spc>>

\* setReady or setNotReady
ListenApply(k) ==
  /\ lpc[k] \in Toggle
  /\ ready' = (lpc[k] = "ready")
  /\ lpc' = [lpc EXCEPT ![k] = "listen"]
  /\ UNCHANGED <<callVars, parentDone, wg, signals, latest, spc>>

\* case <-ctx.Done(): return; wg.Done()
ListenDone(k) ==
  /\ lpc[k] = "listen" /\ (k \in cancelled \/ parentDone)
  /\ lpc' = [lpc EXCEPT ![k] = "ended"]
  /\ wg' = wg - 1
  /\ UNCHANGED <<callVars, parentDone, signals, flagVars, spc>>

EndParent ==
  /\ ~parentDone /\ parentDone' = TRUE
  /\ UNCHANGED <<callVars, wg, signals, flagVars, lpc, spc>>

-----------------------------------------------------------------------------
Advance(c) ==
  \/ StartPublish(c) \/ StartSpawn(c)
  \/ StopCancel(c) \/ StopWait(c) \/ StopDrop(c) \/ StopClear(c)

Listen(k) == ListenReceive(k) \/ ListenApply(k) \/ ListenDone(k)

Next ==
  \/ EndParent
  \/ \E c \in Caller : StartSwap(c) \/ StopSwap(c) \/ Advance(c)
  \/ \E x \in Sender : SendPut(x) \/ \E sig \in Toggle : SendCheck(x, sig)
  \/ \E k \in Run : Listen(k)

Spec == Init /\ [][Next]_vars

\* Calls and listeners run while they can; select does not overlook a done
\* context for ever, however many signals come: strong fairness.  A drain that
\* keeps finding signals ends because senders need a running barrier.
Fairness ==
  /\ \A c \in Caller : WF_vars(Advance(c))
  /\ \A k \in Run : WF_vars(Listen(k)) /\ SF_vars(ListenDone(k))

FairSpec == Spec /\ Fairness

-----------------------------------------------------------------------------
(* Properties. *)

Listening == {k \in Run : lpc[k] \in {"listen"} \cup Toggle}
Quiet == \A c \in Caller : cpc[c] = "idle"

\* "We do not let it start a second time while it is started"
\* (readiness_barrier.go:44): at most one listener, if calls do not overlap.
OneListener == serial => Cardinality(Listening) <= 1

\* If calls do not overlap, a barrier whose Stop has come back is not ready, and
\* no listener is left that could make it so.  (A Stop between the swap of running
\* and the publication of runCancel in Start, lines 45 to 52, breaks this.)
StoppedNotReady == serial /\ Quiet /\ ~running => ~ready /\ Listening = {}

\* If calls do not overlap, the flag is what the last signal says as soon as no
\* signal is under way: none is lost, none overtakes another, Stop takes back all it
\* drains (line 76), and a parent context that ends leaves the flag as it is.
\* Two listeners of overlapping calls would apply their signals in any order.
SignalsTakeEffect ==
  serial /\ Quiet /\ signals = <<>> /\ (\A k \in Run : lpc[k] \notin Toggle)
    => (ready <=> latest = "ready")

\* Stop comes back, if calls do not overlap.
StopReturns == \A c \in Caller : (cpc[c] = "wait") ~> (cpc[c] = "idle" \/ ~serial)
=============================================================================
