------------------------ MODULE ReadinessBarrier_proofs ------------------------
(***************************************************************************)
(* The readiness barrier, for any callers and senders, any capacity of its *)
(* channel and any number of runs: while calls of Start and Stop do not    *)
(* overlap there is one listener, a stopped barrier is not ready, and the  *)
(* flag follows the last signal.                                           *)
(***************************************************************************)
EXTENDS ReadinessBarrier, FiniteSetTheorems, TLAPS

Step == {"idle", "publish", "spawn", "cancel", "wait", "drop", "clear"}
Label == {"none", "listen", "ended"} \cup Toggle

\* A Start that has made its context has a listener of its own to spawn.
FreshInv ==
  /\ runCancel <= runs
  /\ \A k \in cancelled : k <= runs
  /\ \A k \in Run : k > runs => lpc[k] = "none"
  /\ \A c \in Caller : cpc[c] \in {"publish", "spawn"} =>
       mine[c] \in Run /\ mine[c] <= runs /\ lpc[mine[c]] = "none"
  /\ \A c, d \in Caller :
       cpc[c] \in {"publish", "spawn"} /\ cpc[d] \in {"publish", "spawn"}
         /\ mine[c] = mine[d] => c = d

\* r.wg counts the listeners.
WgInv == wg = Cardinality(Listening)

\* While calls do not overlap there is one at a time.  Start finds no listener, Stop
\* leaves none when it has waited, and in between runCancel cancels the only one,
\* which ends by itself with the parent context alone.
SerialInv ==
  serial =>
    /\ \A c, d \in Caller : cpc[c] # "idle" /\ cpc[d] # "idle" => c = d
    /\ \A c \in Caller :
         /\ cpc[c] \in {"publish", "spawn"} =>
              running /\ Listening = {} /\ mine[c] \notin cancelled
         /\ cpc[c] = "spawn" => runCancel = mine[c]
         /\ cpc[c] \in {"cancel", "wait", "drop", "clear"} => ~running
         /\ cpc[c] \in {"drop", "clear"} => Listening = {}
    /\ Quiet /\ running =>
         /\ Listening \subseteq {runCancel} /\ runCancel \notin cancelled
         /\ parentDone \/ runCancel \in Listening
    /\ Quiet /\ ~running => ~ready /\ Listening = {}
    /\ \A k, l \in Listening : k = l

CountInv == TypeOK /\ FreshInv /\ WgInv

\* The last signal sent is the last one in the channel, whichever calls overlap.
LastInv == signals # <<>> => signals[Len(signals)] = latest

\* Its way goes on: out of the channel it is in the listener's hands, and out of
\* those it is in the flag, unless Stop has drained it and has still to clear the flag.
EffectInv ==
  serial /\ signals = <<>> =>
    /\ \A k \in Run : lpc[k] \in Toggle => lpc[k] = latest
    /\ (\A k \in Run : lpc[k] \notin Toggle) /\ (\A c \in Caller : cpc[c] \notin {"drop", "clear"})
         => (ready <=> latest = "ready")

-----------------------------------------------------------------------------
\* There are finitely many runs, and no more listeners than runs.
LEMMA RunsFinite ==
  /\ IsFiniteSet(Run) /\ Run \subseteq Nat
  /\ \A S \in SUBSET Run :
       IsFiniteSet(S) /\ Cardinality(S) \in Nat /\ Cardinality(S) <= MaxStarts
<1>1. IsFiniteSet(Run) /\ Run \subseteq Nat /\ Cardinality(Run) = MaxStarts
  <2>1. 1 \in Int /\ MaxStarts \in Int /\ MaxStarts \in Nat
    BY BarrierAssumption
  <2>2. IsFiniteSet(1..MaxStarts)
        /\ Cardinality(1..MaxStarts) = IF 1 > MaxStarts THEN 0 ELSE MaxStarts - 1 + 1
    BY <2>1, FS_Interval
  <2> QED
    BY <2>1, <2>2 DEF Run
<1>2. ASSUME NEW S \in SUBSET Run
      PROVE  IsFiniteSet(S) /\ Cardinality(S) \in Nat /\ Cardinality(S) <= MaxStarts
  <2>1. IsFiniteSet(S) /\ Cardinality(S) <= Cardinality(Run)
    BY <1>1, FS_Subset
  <2> QED
    BY <1>1, <2>1, FS_CardinalityType
<1> QED
  BY <1>1, <1>2

\* What sending and receiving leave in the channel is of its type.
LEMMA ChannelType ==
  ASSUME TypeOK
  PROVE  /\ \A s \in Toggle : Len(signals) < Cap =>
              Append(signals, s) \in Seq(Toggle) /\ Len(Append(signals, s)) <= Cap
         /\ signals # <<>> =>
              /\ Tail(signals) \in Seq(Toggle) /\ Len(Tail(signals)) <= Cap
              /\ Head(signals) \in Toggle
<1>1. signals \in Seq(Toggle) /\ Len(signals) <= Cap /\ Len(signals) \in Nat /\ Cap \in Nat
  BY BarrierAssumption DEF TypeOK
<1>2. ASSUME NEW s \in Toggle, Len(signals) < Cap
      PROVE  Append(signals, s) \in Seq(Toggle) /\ Len(Append(signals, s)) <= Cap
  BY <1>1, <1>2
<1>3. ASSUME signals # <<>>
      PROVE  /\ Tail(signals) \in Seq(Toggle) /\ Len(Tail(signals)) <= Cap
             /\ Head(signals) \in Toggle
  BY <1>1, <1>3
<1> QED
  BY <1>2, <1>3

\* What the callers' steps have in common: they leave the listeners alone, except
\* that StartSpawn adds the one it has a context for.
LEMMA SpawnCounts ==
  ASSUME CountInv, NEW c \in Caller, StartSpawn(c)
  PROVE  /\ TypeOK' /\ WgInv'
         /\ Listening' = Listening \cup {mine[c]} /\ mine[c] \notin Listening
<1>1. /\ mine[c] \in Run /\ lpc[mine[c]] = "none"
      /\ lpc' = [lpc EXCEPT ![mine[c]] = "listen"]
      /\ wg' = wg + 1 /\ wg = Cardinality(Listening)
  BY DEF CountInv, FreshInv, WgInv, StartSpawn, Goto
<1>2. Listening' = Listening \cup {mine[c]} /\ mine[c] \notin Listening
  BY <1>1 DEF CountInv, TypeOK, Listening, Toggle
<1>3. Listening \in SUBSET Run /\ Listening' \in SUBSET Run
  BY DEF Listening
<1>4. Cardinality(Listening') = Cardinality(Listening) + 1
      /\ Cardinality(Listening') <= MaxStarts /\ Cardinality(Listening) \in Nat
  BY <1>2, <1>3, RunsFinite, FS_AddElement
<1>5. wg' = Cardinality(Listening') /\ wg' \in 0..MaxStarts
  BY <1>1, <1>4, BarrierAssumption
<1>6. lpc' \in [Run -> Label]
  BY <1>1 DEF CountInv, TypeOK, Label
<1>7. TypeOK'
  BY <1>5, <1>6 DEF CountInv, StartSpawn, Goto, TypeOK, Label, flagVars
<1> QED
  BY <1>2, <1>5, <1>7 DEF WgInv

\* A listener that ends is one less.
LEMMA DoneCounts ==
  ASSUME CountInv, NEW k \in Run, ListenDone(k)
  PROVE  TypeOK' /\ WgInv' /\ Listening' = Listening \ {k}
<1>1. /\ k \in Run /\ lpc[k] = "listen"
      /\ lpc' = [lpc EXCEPT ![k] = "ended"]
      /\ wg' = wg - 1 /\ wg = Cardinality(Listening)
  BY DEF CountInv, WgInv, ListenDone
<1>2. Listening' = Listening \ {k} /\ k \in Listening
  BY <1>1 DEF CountInv, TypeOK, Listening, Toggle
<1>3. Listening \in SUBSET Run /\ Listening' \in SUBSET Run
  BY DEF Listening
<1>4. Cardinality(Listening') = Cardinality(Listening) - 1
      /\ Cardinality(Listening') <= MaxStarts /\ Cardinality(Listening') \in Nat
  BY <1>2, <1>3, RunsFinite, FS_RemoveElement
<1>5. wg' = Cardinality(Listening') /\ wg' \in 0..MaxStarts
  BY <1>1, <1>4, BarrierAssumption
<1>6. lpc' \in [Run -> Label]
  BY <1>1 DEF CountInv, TypeOK, Label
<1>7. TypeOK'
  BY <1>5, <1>6 DEF CountInv, ListenDone, callVars, flagVars, TypeOK, Label
<1> QED
  BY <1>2, <1>5, <1>7 DEF WgInv

\* Receiving and applying a signal leave the listeners what they are.
LEMMA ListenKeeps ==
  ASSUME CountInv, NEW k \in Run, ListenReceive(k) \/ ListenApply(k)
  PROVE  /\ TypeOK' /\ WgInv' /\ Listening' = Listening /\ k \in Listening
         /\ UNCHANGED <<callVars, parentDone>>
         /\ \A l \in Run : lpc[l] = "none" => lpc'[l] = "none"
<1>0. TypeOK /\ k \in Run
  BY DEF CountInv
<1>1. CASE ListenReceive(k)
  <2>1. Head(signals) \in Toggle /\ Tail(signals) \in Seq(Toggle) /\ Len(Tail(signals)) <= Cap
    BY <1>0, <1>1, ChannelType DEF ListenReceive
  <2>2. lpc[k] = "listen" /\ lpc' \in [Run -> Label] /\ lpc' = [lpc EXCEPT ![k] = Head(signals)]
    BY <1>0, <1>1, <2>1 DEF ListenReceive, TypeOK, Label
  <2>3. Listening' = Listening /\ k \in Listening
    BY <1>0, <2>1, <2>2 DEF TypeOK, Listening, Toggle
  <2>4. TypeOK'
    BY <1>0, <1>1, <2>1, <2>2 DEF ListenReceive, callVars, flagVars, TypeOK, Label
  <2> QED
    BY <1>0, <1>1, <2>2, <2>3, <2>4 DEF ListenReceive, CountInv, WgInv, TypeOK
<1>2. CASE ListenApply(k)
  <2>1. lpc[k] \in Toggle /\ lpc' \in [Run -> Label] /\ lpc' = [lpc EXCEPT ![k] = "listen"]
    BY <1>0, <1>2 DEF ListenApply, TypeOK, Label
  <2>2. Listening' = Listening /\ k \in Listening
    BY <1>0, <2>1 DEF TypeOK, Listening, Toggle
  <2>3. TypeOK'
    BY <1>0, <1>2, <2>1 DEF ListenApply, callVars, TypeOK, Label
  <2> QED
    BY <1>0, <1>2, <2>1, <2>2, <2>3 DEF ListenApply, CountInv, WgInv, TypeOK, Toggle
<1> QED
  BY <1>1, <1>2

\* Every step keeps the types, the count, and a listener for every Start to spawn.
LEMMA CountInductive == CountInv /\ [Next]_vars => CountInv'
<1> SUFFICES ASSUME CountInv, [Next]_vars PROVE CountInv'
  OBVIOUS
<1> USE DEF Goto, Enter, flagVars
<1>0. TypeOK /\ FreshInv /\ WgInv
  BY DEF CountInv
<1>a. ASSUME UNCHANGED lpc PROVE Listening' = Listening
  BY <1>a DEF Listening
<1>1. CASE UNCHANGED vars
  BY <1>0, <1>1, <1>a DEF vars, callVars, CountInv, TypeOK, FreshInv, WgInv
<1>2. CASE EndParent
  BY <1>0, <1>2, <1>a DEF EndParent, callVars, CountInv, TypeOK, FreshInv, WgInv
<1>3. ASSUME NEW c \in Caller, StartSwap(c) PROVE CountInv'
  <2> DEFINE k == runs + 1
  <2>1. k \in Run /\ runs \in Nat /\ k > runs /\ runs' \in 0..MaxStarts /\ runs' = k
        /\ \A l \in 0..MaxStarts : (l <= runs => l <= k) /\ (l > k => l > runs)
    BY <1>0, <1>3, BarrierAssumption DEF StartSwap, TypeOK, Run
  <2>2. /\ mine' = [mine EXCEPT ![c] = k] /\ cpc' = [cpc EXCEPT ![c] = "publish"]
        /\ cpc[c] = "idle" /\ running' = TRUE
        /\ serial' = (serial /\ \A d \in Caller \ {c} : cpc[d] = "idle")
        /\ UNCHANGED <<runCancel, cancelled, parentDone, wg, signals, ready, latest, lpc, spc>>
    BY <1>3 DEF StartSwap, flagVars
  <2>3. Run \subseteq 0..MaxStarts /\ ~(k <= runs)
    BY <2>1, BarrierAssumption DEF Run
  <2> HIDE DEF k
  <2>4. TypeOK'
    BY <1>0, <2>1, <2>2, <2>3 DEF TypeOK
  <2>5. /\ runCancel <= k
        /\ \A l \in cancelled : l <= k
        /\ \A l \in Run : l > k => lpc[l] = "none"
    BY <1>0, <2>1, <2>3 DEF FreshInv, TypeOK
  <2>6. k <= k /\ lpc[k] = "none"
    BY <1>0, <2>1 DEF FreshInv
  <2>7. ASSUME NEW d \in Caller, cpc'[d] \in {"publish", "spawn"}
        PROVE  mine'[d] \in Run /\ mine'[d] <= k /\ lpc[mine'[d]] = "none"
    BY <1>0, <2>1, <2>2, <2>3, <2>6, <2>7 DEF FreshInv, TypeOK
  <2>8. ASSUME NEW d \in Caller, d # c, cpc'[d] \in {"publish", "spawn"}
        PROVE  cpc[d] \in {"publish", "spawn"} /\ mine'[d] = mine[d] /\ mine[d] # k
    BY <1>0, <2>2, <2>3, <2>8 DEF FreshInv, TypeOK
  <2>9. mine'[c] = k
    BY <1>0, <2>2 DEF TypeOK
  <2>10. FreshInv'
    BY <1>0, <2>1, <2>2, <2>5, <2>7, <2>8, <2>9 DEF FreshInv
  <2> QED
    BY <1>0, <1>a, <2>2, <2>4, <2>10 DEF CountInv, WgInv
<1>4. ASSUME NEW c \in Caller, StartPublish(c) PROVE CountInv'
  <2>1. TypeOK'
    BY <1>0, <1>4 DEF StartPublish, TypeOK
  <2>2. FreshInv'
    BY <1>0, <1>4 DEF StartPublish, TypeOK, FreshInv
  <2> QED
    BY <1>0, <1>4, <1>a, <2>1, <2>2 DEF StartPublish, CountInv, WgInv
<1>5. ASSUME NEW c \in Caller, StartSpawn(c) PROVE CountInv'
  <2>1. mine[c] \in Run /\ mine[c] <= runs
    BY <1>0, <1>5 DEF StartSpawn, FreshInv
  <2>2. /\ lpc' = [lpc EXCEPT ![mine[c]] = "listen"] /\ cpc' = [cpc EXCEPT ![c] = "idle"]
        /\ cpc[c] = "spawn"
        /\ UNCHANGED <<runCancel, cancelled, runs, mine>>
    BY <1>5 DEF StartSpawn
  <2>3. \A l \in Run \ {mine[c]} : lpc'[l] = lpc[l]
    BY <1>0, <2>2 DEF TypeOK
  <2>4. ASSUME NEW d \in Caller, cpc'[d] \in {"publish", "spawn"}
        PROVE  cpc[d] = cpc'[d] /\ mine[d] # mine[c]
    BY <1>0, <2>2, <2>4 DEF FreshInv, TypeOK
  <2>5. ASSUME NEW l \in Run, l > runs PROVE l # mine[c]
    BY <2>1, <2>5, RunsFinite, <1>0 DEF TypeOK
  <2>6. FreshInv'
    BY <1>0, <2>2, <2>3, <2>4, <2>5 DEF FreshInv
  <2> QED
    BY <1>5, <2>6, SpawnCounts DEF CountInv
<1>6. ASSUME NEW c \in Caller, StopSwap(c) PROVE CountInv'
  BY <1>0, <1>6, <1>a DEF StopSwap, CountInv, TypeOK, FreshInv, WgInv
<1>7. ASSUME NEW c \in Caller, StopCancel(c) PROVE CountInv'
  <2>1. runCancel # 0 => runCancel \in Run
    BY <1>0, BarrierAssumption DEF TypeOK, Run
  <2>2. 0 <= runs /\ 0 \in 0..MaxStarts
    BY <1>0, BarrierAssumption DEF TypeOK
  <2>3. TypeOK'
    BY <1>0, <1>7, <2>1, <2>2 DEF StopCancel, TypeOK
  <2>4. FreshInv'
    BY <1>0, <1>7, <2>2 DEF StopCancel, TypeOK, FreshInv
  <2> QED
    BY <1>0, <1>7, <1>a, <2>3, <2>4 DEF StopCancel, CountInv, WgInv
<1>8. ASSUME NEW c \in Caller, StopWait(c) \/ StopClear(c) PROVE CountInv'
  <2>1. TypeOK'
    BY <1>0, <1>8 DEF StopWait, StopClear, TypeOK, Toggle
  <2>2. /\ UNCHANGED <<runCancel, cancelled, runs, mine, lpc>>
        /\ \A d \in Caller : cpc'[d] \in {"publish", "spawn"} => cpc[d] \in {"publish", "spawn"}
    BY <1>0, <1>8 DEF StopWait, StopClear, TypeOK
  <2>3. FreshInv'
    BY <1>0, <2>2 DEF FreshInv
  <2> QED
    BY <1>0, <1>8, <1>a, <2>1, <2>3 DEF StopWait, StopClear, CountInv, WgInv
<1>9. ASSUME NEW c \in Caller, StopDrop(c) PROVE CountInv'
  <2>1. signals' \in Seq(Toggle) /\ Len(signals') <= Cap
    BY <1>0, <1>9, ChannelType DEF StopDrop, TypeOK
  <2>2. TypeOK'
    BY <1>0, <1>9, <2>1 DEF StopDrop, TypeOK
  <2>3. FreshInv'
    BY <1>0, <1>9 DEF StopDrop, TypeOK, FreshInv
  <2> QED
    BY <1>0, <1>9, <1>a, <2>2, <2>3 DEF StopDrop, CountInv, WgInv
<1>10. ASSUME NEW x \in Sender, SendPut(x) PROVE CountInv'
  <2>1. spc[x] \in Toggle
    BY <1>0, <1>10 DEF SendPut, TypeOK
  <2>2. signals' \in Seq(Toggle) /\ Len(signals') <= Cap
    BY <1>0, <1>10, <2>1, ChannelType DEF SendPut, TypeOK
  <2>3. TypeOK'
    BY <1>0, <1>10, <2>2 DEF SendPut, callVars, TypeOK
  <2> QED
    BY <1>0, <1>10, <1>a, <2>3 DEF SendPut, callVars, CountInv, WgInv, FreshInv
<1>11. ASSUME NEW x \in Sender, NEW sig \in Toggle, SendCheck(x, sig) PROVE CountInv'
  BY <1>0, <1>11, <1>a DEF SendCheck, callVars, CountInv, TypeOK, WgInv, FreshInv
<1>12. ASSUME NEW k \in Run, Listen(k) PROVE CountInv'
  <2>1. /\ \A l \in Run : lpc[l] = "none" => lpc'[l] = "none"
        /\ UNCHANGED callVars
        /\ TypeOK' /\ WgInv'
    BY <1>0, <1>12, ListenKeeps, DoneCounts DEF Listen, ListenDone, TypeOK
  <2> QED
    BY <1>0, <2>1 DEF CountInv, FreshInv, callVars
<1> QED
  BY <1>1, <1>2, <1>3, <1>4, <1>5, <1>6, <1>7, <1>8, <1>9, <1>10, <1>11, <1>12
  DEF Next, Advance

\* While calls do not overlap, every step keeps at most one of them under way and
\* at most one listener.
LEMMA SerialInductive == CountInv /\ SerialInv /\ [Next]_vars => SerialInv'
<1> SUFFICES ASSUME CountInv, SerialInv, [Next]_vars PROVE SerialInv'
  OBVIOUS
<1> USE DEF Goto, Enter, flagVars
<1>0. TypeOK /\ FreshInv /\ WgInv
  BY DEF CountInv
<1>a. ASSUME UNCHANGED lpc PROVE Listening' = Listening
  BY <1>a DEF Listening
<1>b. ASSUME UNCHANGED callVars, Listening' = Listening, parentDone => parentDone',
             UNCHANGED ready \/ Listening # {}
      PROVE  SerialInv'
  <2>1. UNCHANGED <<running, runCancel, cancelled, mine, cpc, serial>>
    BY <1>b DEF callVars
  <2> QED
    BY <1>b, <2>1 DEF SerialInv, Quiet
<1>1. CASE UNCHANGED vars \/ EndParent
  BY <1>1, <1>a, <1>b DEF vars, EndParent
<1>2. ASSUME NEW c \in Caller, StartSwap(c) PROVE SerialInv'
  <2>1. /\ cpc[c] = "idle" /\ cpc'[c] = "publish" /\ ~running /\ running'
        /\ \A d \in Caller \ {c} : cpc'[d] = cpc[d]
        /\ mine'[c] = runs + 1
        /\ serial' = (serial /\ \A d \in Caller \ {c} : cpc[d] = "idle")
        /\ UNCHANGED <<runCancel, cancelled, parentDone, ready, lpc>>
    BY <1>0, <1>2 DEF StartSwap, TypeOK
  <2>2. mine'[c] \notin cancelled
    BY <1>0, <2>1 DEF FreshInv, TypeOK
  <2>3. serial' => serial /\ Quiet
    BY <2>1 DEF Quiet
  <2> QED
    BY <1>a, <2>1, <2>2, <2>3 DEF SerialInv, Quiet
<1>3. ASSUME NEW c \in Caller, StartPublish(c) PROVE SerialInv'
  <2>1. /\ cpc[c] = "publish" /\ cpc'[c] = "spawn" /\ runCancel' = mine[c]
        /\ \A d \in Caller \ {c} : cpc'[d] = cpc[d]
        /\ UNCHANGED <<running, serial, mine, cancelled, parentDone, ready, lpc>>
    BY <1>0, <1>3 DEF StartPublish, TypeOK
  <2> QED
    BY <1>a, <2>1 DEF SerialInv, Quiet
<1>4. ASSUME NEW c \in Caller, StartSpawn(c) PROVE SerialInv'
  <2>1. /\ cpc[c] = "spawn" /\ cpc'[c] = "idle"
        /\ \A d \in Caller \ {c} : cpc'[d] = cpc[d]
        /\ Listening' = Listening \cup {mine[c]}
        /\ UNCHANGED <<running, runCancel, serial, mine, cancelled, parentDone, ready>>
    BY <1>0, <1>4, SpawnCounts DEF StartSpawn, TypeOK
  <2> QED
    BY <2>1 DEF SerialInv, Quiet
<1>5. ASSUME NEW c \in Caller, StopSwap(c) PROVE SerialInv'
  <2>1. /\ cpc[c] = "idle" /\ cpc'[c] = "cancel" /\ ~running'
        /\ \A d \in Caller \ {c} : cpc'[d] = cpc[d]
        /\ serial' = (serial /\ \A d \in Caller \ {c} : cpc[d] = "idle")
        /\ UNCHANGED <<runCancel, mine, cancelled, parentDone, ready, lpc>>
    BY <1>0, <1>5 DEF StopSwap, TypeOK
  <2> QED
    BY <1>a, <2>1 DEF SerialInv, Quiet
<1>6. ASSUME NEW c \in Caller, StopCancel(c) \/ StopWait(c) \/ StopDrop(c) PROVE SerialInv'
  <2>1. /\ cpc[c] \in {"cancel", "wait", "drop"} /\ cpc'[c] \in {"wait", "drop", "clear"}
        /\ cpc'[c] \in {"drop", "clear"} => cpc[c] = "drop" \/ wg = 0
        /\ \A d \in Caller \ {c} : cpc'[d] = cpc[d]
        /\ UNCHANGED <<running, serial, mine, parentDone, ready, lpc>>
    BY <1>0, <1>6 DEF StopCancel, StopWait, StopDrop, TypeOK
  <2>2. wg = 0 => Listening = {}
    <3>1. Listening \in SUBSET Run
      BY DEF Listening
    <3>2. IsFiniteSet(Listening)
      BY <3>1, RunsFinite
    <3> QED
      BY <1>0, <3>2, FS_EmptySet DEF WgInv
  <2> QED
    BY <1>a, <2>1, <2>2 DEF SerialInv, Quiet
<1>7. ASSUME NEW c \in Caller, StopClear(c) PROVE SerialInv'
  <2>1. /\ cpc[c] = "clear" /\ cpc'[c] = "idle" /\ ready' = FALSE
        /\ \A d \in Caller \ {c} : cpc'[d] = cpc[d]
        /\ UNCHANGED <<running, runCancel, serial, mine, cancelled, parentDone, lpc>>
    BY <1>0, <1>7 DEF StopClear, TypeOK
  <2> QED
    BY <1>a, <2>1 DEF SerialInv, Quiet
<1>8. ASSUME NEW x \in Sender, SendPut(x) \/ \E sig \in Toggle : SendCheck(x, sig)
      PROVE  SerialInv'
  BY <1>8, <1>a, <1>b DEF SendPut, SendCheck
<1>9. ASSUME NEW k \in Run, ListenReceive(k) \/ ListenApply(k) PROVE SerialInv'
  BY <1>9, <1>b, ListenKeeps
<1>10. ASSUME NEW k \in Run, ListenDone(k) PROVE SerialInv'
  <2>1. /\ Listening' = Listening \ {k} /\ (k \in cancelled \/ parentDone)
        /\ UNCHANGED <<callVars, parentDone, ready>>
    BY <1>10, DoneCounts DEF ListenDone
  <2> QED
    BY <2>1 DEF callVars, SerialInv, Quiet
<1> QED
  BY <1>1, <1>2, <1>3, <1>4, <1>5, <1>6, <1>7, <1>8, <1>9, <1>10 DEF Next, Advance, Listen

\* Only StopClear and a sender change which signal is the last one.
LEMMA LastInductive == TypeOK /\ LastInv /\ [Next]_vars => LastInv'
<1> SUFFICES ASSUME TypeOK, LastInv, [Next]_vars PROVE LastInv'
  OBVIOUS
<1>0. signals \in Seq(Toggle)
  BY DEF TypeOK
<1>1. CASE UNCHANGED <<signals, latest>>
  BY <1>1 DEF LastInv
<1>2. CASE signals # <<>> /\ signals' = Tail(signals) /\ latest' = latest
  BY <1>0, <1>2 DEF LastInv
<1>3. CASE UNCHANGED signals /\ latest' = IF signals = <<>> THEN "not_ready" ELSE latest
  BY <1>3 DEF LastInv
<1>4. ASSUME NEW s \in Toggle, signals' = Append(signals, s), latest' = s PROVE LastInv'
  BY <1>0, <1>4 DEF LastInv
<1>5. ASSUME NEW x \in Sender, SendPut(x) PROVE LastInv'
  <2>1. spc[x] \in Toggle
    BY <1>5 DEF SendPut, TypeOK
  <2> QED
    BY <1>1, <1>4, <1>5, <2>1 DEF SendPut
<1>6. ASSUME NEW c \in Caller, StartSwap(c) \/ StopSwap(c) \/ Advance(c) PROVE LastInv'
  BY <1>1, <1>2, <1>3, <1>6
  DEF StartSwap, StopSwap, Advance, StartPublish, StartSpawn, StopCancel, StopWait, StopDrop,
      StopClear, flagVars
<1>7. ASSUME NEW k \in Run, Listen(k) PROVE LastInv'
  BY <1>1, <1>2, <1>7 DEF Listen, ListenReceive, ListenApply, ListenDone, flagVars
<1>8. CASE UNCHANGED vars \/ EndParent \/ \E x \in Sender, sig \in Toggle : SendCheck(x, sig)
  BY <1>1, <1>8 DEF vars, EndParent, SendCheck, flagVars
<1> QED
  BY <1>5, <1>6, <1>7, <1>8 DEF Next

\* Every step keeps the last signal on its way to the flag.
LEMMA EffectInductive ==
  CountInv /\ SerialInv /\ LastInv /\ EffectInv /\ [Next]_vars => EffectInv'
<1> SUFFICES ASSUME CountInv, SerialInv, LastInv, EffectInv, [Next]_vars, serial', signals' = <<>>
             PROVE  /\ \A k \in Run : lpc'[k] \in Toggle => lpc'[k] = latest'
                    /\ (\A k \in Run : lpc'[k] \notin Toggle)
                       /\ (\A c \in Caller : cpc'[c] \notin {"drop", "clear"})
                         => (ready' <=> latest' = "ready")
  BY DEF EffectInv
<1> USE DEF Goto, Enter, flagVars
<1>0. TypeOK /\ signals \in Seq(Toggle)
  BY DEF CountInv, TypeOK
<1>1. CASE UNCHANGED <<signals, flagVars, lpc, cpc, serial>>
  BY <1>1 DEF EffectInv, flagVars
<1>2. ASSUME NEW c \in Caller, StartSwap(c) \/ StopSwap(c) \/ StartPublish(c) \/ StopCancel(c)
      PROVE  /\ \A k \in Run : lpc'[k] \in Toggle => lpc'[k] = latest'
             /\ (\A k \in Run : lpc'[k] \notin Toggle)
                /\ (\A d \in Caller : cpc'[d] \notin {"drop", "clear"})
                  => (ready' <=> latest' = "ready")
  <2>1. /\ UNCHANGED <<signals, flagVars, lpc>> /\ serial
        /\ cpc[c] \notin {"drop", "clear"}
        /\ \A d \in Caller \ {c} : cpc'[d] = cpc[d]
    BY <1>0, <1>2 DEF StartSwap, StopSwap, StartPublish, StopCancel, TypeOK
  <2> QED
    BY <2>1 DEF EffectInv, flagVars
<1>3. ASSUME NEW c \in Caller, StartSpawn(c)
      PROVE  /\ \A k \in Run : lpc'[k] \in Toggle => lpc'[k] = latest'
             /\ (\A k \in Run : lpc'[k] \notin Toggle)
                /\ (\A d \in Caller : cpc'[d] \notin {"drop", "clear"})
                  => (ready' <=> latest' = "ready")
  <2>1. /\ UNCHANGED <<signals, flagVars, serial>> /\ cpc[c] = "spawn"
        /\ \A d \in Caller \ {c} : cpc'[d] = cpc[d]
    BY <1>0, <1>3 DEF StartSpawn, TypeOK
  <2>2. mine[c] \in Run /\ lpc[mine[c]] = "none" /\ lpc' = [lpc EXCEPT ![mine[c]] = "listen"]
    BY <1>3 DEF StartSpawn, CountInv, FreshInv
  <2>3. \A k \in Run : lpc'[k] \in Toggle \/ lpc[k] \in Toggle => lpc'[k] = lpc[k]
    BY <1>0, <2>2 DEF TypeOK, Toggle
  <2> QED
    BY <2>1, <2>3 DEF EffectInv, flagVars
<1>4. ASSUME NEW c \in Caller, StopWait(c) \/ StopDrop(c) \/ StopClear(c)
      PROVE  /\ \A k \in Run : lpc'[k] \in Toggle => lpc'[k] = latest'
             /\ (\A k \in Run : lpc'[k] \notin Toggle)
                /\ (\A d \in Caller : cpc'[d] \notin {"drop", "clear"})
                  => (ready' <=> latest' = "ready")
  <2>1. CASE StopWait(c) \/ StopDrop(c)
    <3>1. cpc'[c] \in {"drop", "clear"} /\ UNCHANGED <<flagVars, lpc, serial>>
      BY <1>0, <2>1 DEF StopWait, StopDrop, TypeOK
    <3>2. UNCHANGED signals \/ cpc[c] = "drop"
      BY <2>1 DEF StopWait, StopDrop
    <3>3. cpc[c] = "drop" => \A k \in Run : lpc[k] \notin Toggle
      BY <3>1 DEF SerialInv, Listening
    <3> QED
      BY <3>1, <3>2, <3>3 DEF EffectInv, flagVars
  <2>2. CASE StopClear(c)
    <3>1. cpc[c] = "clear" /\ ~ready' /\ latest' = "not_ready" /\ UNCHANGED <<lpc, serial>>
      BY <2>2 DEF StopClear
    <3>2. \A k \in Run : lpc[k] \notin Toggle
      BY <3>1 DEF SerialInv, Listening
    <3> QED
      BY <3>1, <3>2
  <2> QED
    BY <1>4, <2>1, <2>2
<1>5. ASSUME NEW x \in Sender, SendPut(x)
      PROVE  UNCHANGED <<signals, flagVars, lpc, cpc, serial>>
  <2>1. spc[x] \in Toggle
    BY <1>0, <1>5 DEF SendPut, TypeOK
  <2>2. ASSUME NEW s \in Toggle PROVE Append(signals, s) # <<>>
    <3>1. Len(Append(signals, s)) = Len(signals) + 1 /\ Len(signals) \in Nat
      BY <1>0
    <3> QED
      BY <3>1
  <2> QED
    BY <1>5, <2>1, <2>2 DEF SendPut, callVars, flagVars
<1>6. ASSUME NEW k \in Run, ListenReceive(k)
      PROVE  /\ \A l \in Run : lpc'[l] \in Toggle => lpc'[l] = latest'
             /\ ~ \A l \in Run : lpc'[l] \notin Toggle
  <2>1. Len(signals) = 1 /\ Head(signals) = signals[Len(signals)] /\ Head(signals) \in Toggle
    <3>1. signals # <<>> /\ Tail(signals) = <<>>
      BY <1>6 DEF ListenReceive
    <3>2. Len(signals) \in Nat /\ Len(signals) # 0 /\ Len(Tail(signals)) = Len(signals) - 1
      BY <1>0, <3>1
    <3>3. Len(signals) = 1
      BY <3>1, <3>2
    <3> QED
      BY <1>0, <3>1, <3>3
  <2>2. /\ lpc' = [lpc EXCEPT ![k] = Head(signals)] /\ Head(signals) = latest
        /\ UNCHANGED <<flagVars, serial>> /\ k \in Listening
    BY <1>6, <2>1 DEF ListenReceive, LastInv, callVars, Listening
  <2>3. \A l \in Run : lpc[l] \in Toggle => l = k
    BY <2>2 DEF SerialInv, Listening
  <2> QED
    BY <1>0, <2>1, <2>2, <2>3 DEF TypeOK, flagVars
<1>7. ASSUME NEW k \in Run, ListenApply(k)
      PROVE  /\ \A l \in Run : lpc'[l] \in Toggle => lpc'[l] = latest'
             /\ ready' <=> latest' = "ready"
  <2>1. /\ lpc[k] \in Toggle /\ ready' = (lpc[k] = "ready")
        /\ lpc' = [lpc EXCEPT ![k] = "listen"]
        /\ UNCHANGED <<signals, latest, serial>>
    BY <1>7 DEF ListenApply, callVars
  <2>2. lpc[k] = latest
    BY <2>1 DEF EffectInv
  <2>3. \A l \in Run : lpc'[l] \in Toggle => lpc'[l] = lpc[l]
    BY <1>0, <2>1 DEF TypeOK, Toggle
  <2> QED
    BY <2>1, <2>2, <2>3 DEF EffectInv
<1>8. ASSUME NEW k \in Run, ListenDone(k)
      PROVE  /\ \A l \in Run : lpc'[l] \in Toggle => lpc'[l] = latest'
             /\ (\A l \in Run : lpc'[l] \notin Toggle)
                /\ (\A d \in Caller : cpc'[d] \notin {"drop", "clear"})
                  => (ready' <=> latest' = "ready")
  <2>1. /\ lpc[k] = "listen" /\ lpc' = [lpc EXCEPT ![k] = "ended"]
        /\ UNCHANGED <<signals, flagVars, cpc, serial>>
    BY <1>8 DEF ListenDone, callVars
  <2>2. \A l \in Run : lpc'[l] \in Toggle \/ lpc[l] \in Toggle => lpc'[l] = lpc[l]
    BY <1>0, <2>1 DEF TypeOK, Toggle
  <2> QED
    BY <2>1, <2>2 DEF EffectInv, flagVars
<1>9. CASE UNCHANGED vars \/ EndParent \/ \E x \in Sender, sig \in Toggle : SendCheck(x, sig)
  BY <1>1, <1>9 DEF vars, EndParent, SendCheck, callVars
<1> QED
  BY <1>1, <1>2, <1>3, <1>4, <1>5, <1>6, <1>7, <1>8, <1>9 DEF Next, Advance, Listen

\* The whole invariant holds of the barrier from the start.
LEMMA BarrierInvariant == Spec => [](CountInv /\ SerialInv /\ LastInv /\ EffectInv)
<1>1. ASSUME Init PROVE CountInv /\ SerialInv /\ LastInv /\ EffectInv
  <2>1. 0 \in 0..MaxStarts /\ 0 <= Cap /\ Cap \in Nat
    BY BarrierAssumption
  <2>2. signals \in Seq(Toggle) /\ Len(signals) <= Cap
    BY <1>1, <2>1 DEF Init
  <2>3. TypeOK
    BY <1>1, <2>1, <2>2 DEF Init, TypeOK, Toggle
  <2>4. Listening = {}
    BY <1>1 DEF Init, Listening, Toggle
  <2>5. WgInv
    BY <1>1, <2>4, FS_EmptySet DEF Init, WgInv
  <2>6. FreshInv
    BY <1>1 DEF Init, FreshInv
  <2>7. SerialInv
    BY <1>1, <2>4 DEF Init, SerialInv, Quiet
  <2> QED
    BY <1>1, <2>3, <2>5, <2>6, <2>7 DEF CountInv, Init, LastInv, EffectInv, Toggle
<1>2. CountInv => TypeOK
  BY DEF CountInv
<1> QED
  BY <1>1, <1>2, CountInductive, SerialInductive, LastInductive, EffectInductive, PTL DEF Spec

-----------------------------------------------------------------------------
\* Every variable keeps its type: r.wg does not go below zero and the channel not
\* beyond its capacity, whichever calls of Start, Stop and SendSignalCtx overlap.
THEOREM TypeCorrect == Spec => []TypeOK
<1>1. CountInv => TypeOK
  BY DEF CountInv
<1> QED
  BY <1>1, BarrierInvariant, PTL

\* One listener at a time, if calls of Start and Stop do not overlap.
THEOREM OneListenerAtATime == Spec => []OneListener
<1>1. ASSUME SerialInv PROVE OneListener
  <2> SUFFICES ASSUME serial PROVE Cardinality(Listening) <= 1
    BY DEF OneListener
  <2>1. \A k, l \in Listening : k = l
    BY <1>1 DEF SerialInv
  <2>2. CASE Listening = {}
    BY <2>2, FS_EmptySet
  <2>3. CASE \E k : Listening = {k}
    BY <2>3, FS_Singleton
  <2> QED
    BY <2>1, <2>2, <2>3
<1> QED
  BY <1>1, BarrierInvariant, PTL

\* If calls of Start and Stop do not overlap, a barrier whose Stop has come back is
\* not ready, and no listener is left that could make it so.
THEOREM StoppedIsNotReady == Spec => []StoppedNotReady
<1>1. SerialInv => StoppedNotReady
  BY DEF SerialInv, StoppedNotReady
<1> QED
  BY <1>1, BarrierInvariant, PTL

\* If calls of Start and Stop do not overlap, the flag is what the last signal says
\* as soon as no signal is under way, for any number of senders and any capacity.
THEOREM SignalsDoTakeEffect == Spec => []SignalsTakeEffect
<1>1. EffectInv => SignalsTakeEffect
  BY DEF EffectInv, SignalsTakeEffect, Quiet
<1> QED
  BY <1>1, BarrierInvariant, PTL
=============================================================================
