---------------------------- MODULE Service_proofs ----------------------------
(***************************************************************************)
(* A service that is taken down, for any servers, requests, configurations *)
(* and order of hooks, and any number of reconnecting goroutines: what the *)
(* shutdown promises to the requests, and what becomes of the handles of   *)
(* the database.                                                           *)
(***************************************************************************)
EXTENDS Service, TLAPS

\* The handles of a Connection are told apart: the current one, the one each
\* Reconnect holds and the forgotten ones are different, and Shutdown has read
\* one that was current.
HandlesInv ==
  /\ conn \in 1..made \ leaked
  /\ \A w \in Worker : rpc[w] # "idle" => mine[w] \in 1..made \ (leaked \cup {conn})
  /\ \A v, w \in Worker : rpc[v] # "idle" /\ rpc[w] # "idle" /\ mine[v] = mine[w] => v = w
  /\ dbStop # "none" => /\ last \in 1..made \ leaked
                        /\ \A w \in Worker : rpc[w] = "ping" => mine[w] # last

\* How far the shutdown function of a server has come says what its state is and
\* how long it has waited.
StopInv ==
  \A s \in Server :
    /\ stop[s] = "drain" => kind[s] = "chi"
    /\ kind[s] = "chi" =>
         /\ stop[s] \in {"drain", "wait"} <=> state[s] = "draining"
         /\ stop[s] = "wait" => clock[s] >= config.draining

\* A handler only runs on a server that serves, and a server that serves has kept
\* a request past its shutdown only if it ran out of time.
RequestInv ==
  /\ \A r \in Request : req[r] = "running" => serve[to[r]] = "serving"
  /\ \A s \in Server :
       stop[s] = "done" /\ serve[s] = "serving" /\ clock[s] # Grace(s)
         => Of(s, {"conn", "running"}) = {}

\* A connection was cut off under a handler only when the grace was over.
CutInv == \A r \in Request : req[r] = "cut" => GaveUp(to[r])

\* Kernel.Stop calls the hooks one after the other, the database last.
WalkInv ==
  /\ \A i \in 1..Len(Order) : /\ i < at => stop[Order[i]] = "done"
                              /\ i > at => stop[Order[i]] = "none"
  /\ dbStop # "none" => at = Len(Order) /\ stop[Order[at]] = "done"

-----------------------------------------------------------------------------
(* The connection. *)

\* Every step of a Reconnect keeps the types of the connection, the handles apart,
\* and every open handle accounted for.
LEMMA ReconnectKeeps ==
  ASSUME DbTypeOK, HandlesInv, HandlesAccounted, NEW w \in Worker, Reconnect(w)
  PROVE  DbTypeOK' /\ HandlesInv' /\ HandlesAccounted'
<1> USE ClickhouseAssumption DEF Handle
<1>0. /\ made \in 1..MaxHandles /\ conn \in 1..made /\ conn \notin leaked
      /\ rpc[w] # "idle" => mine[w] \in 1..made /\ mine[w] # conn /\ mine[w] \notin leaked
  BY DEF DbTypeOK, HandlesInv
<1>1. CASE OpenDB(w)
  <2>1. /\ made' = made + 1 /\ made' \in 1..MaxHandles /\ rpc[w] = "idle"
        /\ mine'[w] = made' /\ rpc'[w] = "ping"
        /\ \A v \in Worker \ {w} : mine'[v] = mine[v] /\ rpc'[v] = rpc[v]
    BY <1>0, <1>1 DEF OpenDB, DbTypeOK
  <2>2. DbTypeOK'
    BY <1>1, <2>1 DEF OpenDB, DbTypeOK
  <2>3. HandlesInv'
    BY <1>1, <2>1 DEF OpenDB, DbTypeOK, HandlesInv
  <2>4. HandlesAccounted'
    BY <1>1, <2>1 DEF OpenDB, DbTypeOK, HandlesInv, HandlesAccounted
  <2> QED
    BY <2>2, <2>3, <2>4
<1>2. CASE PingAborted(w)
  <2>1. /\ rpc[w] = "ping" /\ rpc'[w] = "idle"
        /\ \A v \in Worker \ {w} : mine'[v] = mine[v] /\ rpc'[v] = rpc[v]
    BY <1>2 DEF PingAborted, DbTypeOK
  <2>2. mine[w] \in open
    BY <1>2, <2>1 DEF DbTypeOK, HandlesInv, HandlesAccounted
  <2>3. DbTypeOK'
    <3>1. mine' \in [Worker -> 0..MaxHandles] /\ rpc' \in [Worker -> {"idle", "ping", "close"}]
      BY <1>2 DEF PingAborted, DbTypeOK
    <3> QED
      BY <1>2, <2>2, <3>1 DEF PingAborted, DbTypeOK
  <2>4. HandlesInv'
    BY <1>0, <1>2, <2>1 DEF PingAborted, DbTypeOK, HandlesInv
  <2>5. HandlesAccounted'
    BY <1>2, <2>1 DEF PingAborted, HandlesAccounted
  <2> QED
    BY <2>3, <2>4, <2>5
<1>3. CASE Swap(w)
  <2>1. /\ rpc[w] = "ping" /\ rpc'[w] = "close" /\ mine'[w] = conn /\ conn' = mine[w]
        /\ \A v \in Worker \ {w} : mine'[v] = mine[v] /\ rpc'[v] = rpc[v]
    BY <1>3 DEF Swap, DbTypeOK
  <2>2. DbTypeOK'
    BY <1>0, <1>3, <2>1 DEF Swap, DbTypeOK
  <2>3. HandlesInv'
    BY <1>0, <1>3, <2>1 DEF Swap, DbTypeOK, HandlesInv
  <2>4. HandlesAccounted'
    BY <1>3, <2>1 DEF Swap, HandlesAccounted
  <2> QED
    BY <2>2, <2>3, <2>4
<1>4. CASE CloseOld(w)
  <2>1. /\ rpc[w] = "close" /\ rpc'[w] = "idle"
        /\ \A v \in Worker \ {w} : mine'[v] = mine[v] /\ rpc'[v] = rpc[v]
    BY <1>4 DEF CloseOld, DbTypeOK
  <2>2. DbTypeOK'
    <3>1. mine' \in [Worker -> 0..MaxHandles] /\ rpc' \in [Worker -> {"idle", "ping", "close"}]
      BY <1>4 DEF CloseOld, DbTypeOK
    <3>2. open' \subseteq 1..made /\ leaked \subseteq open'
      BY <1>0, <1>4, <2>1 DEF CloseOld, DbTypeOK
    <3> QED
      BY <1>4, <3>1, <3>2 DEF CloseOld, DbTypeOK
  <2>3. HandlesInv'
    BY <1>0, <1>4, <2>1 DEF CloseOld, DbTypeOK, HandlesInv
  <2>4. HandlesAccounted'
    BY <1>0, <1>4, <2>1 DEF CloseOld, HandlesAccounted, HandlesInv
  <2> QED
    BY <2>2, <2>3, <2>4
<1> QED
  BY <1>1, <1>2, <1>3, <1>4 DEF Reconnect

\* So does the shutdown function, which closes the handle it has read before.
LEMMA ShutdownKeeps ==
  ASSUME DbTypeOK, HandlesInv, HandlesAccounted, ShutdownRead \/ ShutdownClose
  PROVE  DbTypeOK' /\ HandlesInv' /\ HandlesAccounted'
<1> USE ClickhouseAssumption DEF Handle
<1>1. CASE ShutdownRead
  <2>1. DbTypeOK'
    BY <1>1 DEF ShutdownRead, DbTypeOK
  <2>2. HandlesInv'
    BY <1>1 DEF ShutdownRead, HandlesInv
  <2>3. HandlesAccounted'
    BY <1>1 DEF ShutdownRead, HandlesAccounted
  <2> QED
    BY <2>1, <2>2, <2>3
<1>2. CASE ShutdownClose
  <2>1. DbTypeOK'
    BY <1>2 DEF ShutdownClose, DbTypeOK, HandlesInv
  <2>2. HandlesInv'
    BY <1>2 DEF ShutdownClose, HandlesInv
  <2>3. HandlesAccounted'
    BY <1>2 DEF ShutdownClose, HandlesAccounted
  <2> QED
    BY <2>1, <2>2, <2>3
<1> QED
  BY <1>1, <1>2

\* The part of the service that concerns the connection changes in a step of a
\* Reconnect or of its shutdown function only.
LEMMA DbSteps ==
  ASSUME TypeOK, [Next]_vars
  PROVE  \/ UNCHANGED dbVars
         \/ \E w \in Worker : Reconnect(w)
         \/ ShutdownRead \/ ShutdownClose
<1>1. config.reconnect \subseteq Worker
  BY ServiceAssumption DEF TypeOK, ServersTypeOK
<1>2. CASE MainStep
  BY <1>2 DEF MainStep, CallServer, CallDatabase, Exit
<1>3. CASE Environment
  BY <1>1, <1>3 DEF Environment, Handler, GetDB, Query
<1> QED
  BY <1>2, <1>3 DEF Next, vars, Tick, Cancel

-----------------------------------------------------------------------------
(* The servers. *)

\* What the configuration says of a server, its times and its requests.
LEMMA ConfigFacts ==
  ASSUME TypeOK
  PROVE  /\ kind \in [Server -> Kind] /\ to \in [Request -> Server]
         /\ config.draining \in Nat /\ Timeout \in Nat
         /\ \A s \in Server : /\ Grace(s) \in Nat /\ Timeout <= Grace(s)
                              /\ kind[s] = "chi" => config.draining <= Grace(s)
                              /\ kind[s] # "chi" => Grace(s) = Timeout
                              /\ kind[s] = "chi" => Grace(s) \in {config.draining, Timeout}
<1>1. /\ kind \in [Server -> Kind] /\ to \in [Request -> Server]
      /\ config.draining \in Nat /\ Timeout \in Nat
  BY ServersAssumption DEF TypeOK, ServersTypeOK, kind, to
<1> QED
  BY <1>1 DEF Grace

\* A request's step, told by what it may do to the requests: it leaves the
\* servers alone.
LEMMA RequestStep ==
  ASSUME TypeOK, NEW r \in Request,
         Connect(r) \/ Begin(r) \/ Drop(r) \/ \E result \in {"done", "failed"} : Answer(r, result)
  PROVE  /\ UNCHANGED <<config, serve, state, stop, clock>>
         /\ req' \in [Request -> {"new", "conn", "running", "done", "failed", "refused", "lost", "cut"}]
         /\ \A q \in Request \ {r} : req'[q] = req[q]
         /\ req'[r] = "conn" =>
              /\ req[r] = "new"
              /\ serve[to[r]] = "serving" => stop[to[r]] \in {"none", "drain"}
         /\ req'[r] = "running" => req[r] = "conn" /\ serve[to[r]] = "serving"
                                   /\ state[to[r]] # "draining"
<1>1. CASE Connect(r)
  BY <1>1 DEF Connect, TypeOK, ServersTypeOK
<1>2. CASE Begin(r)
  BY <1>2 DEF Begin, TypeOK, ServersTypeOK
<1>3. CASE Drop(r)
  BY <1>3 DEF Drop, TypeOK, ServersTypeOK
<1>4. CASE \E result \in {"done", "failed"} : Answer(r, result)
  BY <1>4 DEF Answer, TypeOK, ServersTypeOK
<1> QED
  BY <1>1, <1>2, <1>3, <1>4

\* A request's step keeps what is known of the servers.
LEMMA RequestKeeps ==
  ASSUME TypeOK, StopInv, RequestInv, NEW r \in Request,
         Connect(r) \/ Begin(r) \/ Drop(r) \/ \E result \in {"done", "failed"} : Answer(r, result)
  PROVE  ServersTypeOK' /\ StopInv' /\ RequestInv'
<1> USE RequestStep
<1>0. to \in [Request -> Server]
  BY ConfigFacts
<1>1. ServersTypeOK'
  BY DEF TypeOK, ServersTypeOK, Grace, kind
<1>2. StopInv'
  BY DEF StopInv, kind
<1>3. RequestInv'
  <2>1. ASSUME NEW q \in Request, req'[q] = "running" PROVE serve'[to[q]] = "serving"
    BY <2>1 DEF RequestInv
  <2>2. ASSUME NEW s \in Server, stop[s] = "done", serve[s] = "serving", clock[s] # Grace(s)
        PROVE  Of(s, {"conn", "running"})' = {}
    <3>1. Of(s, {"conn", "running"}) = {}
      BY <2>2 DEF RequestInv
    <3>2. \A q \in Request : to[q] = s => req'[q] \notin {"conn", "running"}
      BY <2>2, <3>1 DEF Of
    <3> QED
      BY <3>2 DEF Of, to
  <2> QED
    BY <2>1, <2>2 DEF RequestInv, Grace, kind, to
<1> QED
  BY <1>1, <1>2, <1>3

\* The beginning of the serving goroutine keeps what is known of the servers.
LEMMA ServingKeeps ==
  ASSUME TypeOK, StopInv, RequestInv, NEW s \in Server, NEW done \in BOOLEAN, Serving(s, done)
  PROVE  ServersTypeOK' /\ StopInv' /\ RequestInv'
<1>0. to \in [Request -> Server]
  BY ConfigFacts
<1>1. /\ UNCHANGED <<config, state, stop, clock>>
      /\ serve[s] = "spawn"
      /\ \E to1 \in {"serving", "closed", "skipped", "broken"} : serve' = [serve EXCEPT ![s] = to1]
      /\ stop[s] = "done" => serve'[s] # "serving"
      /\ req' = req \/ req' = Settle(Of(s, {"conn"}), "lost")
  BY DEF Serving, RunChi, RunHTTPServer, StartGRPC, StartGateway, NotStarted, Serves,
         TypeOK, ServersTypeOK
<1>2. req' \in [Request -> {"new", "conn", "running", "done", "failed", "refused", "lost", "cut"}]
  BY <1>1 DEF TypeOK, ServersTypeOK, Settle
<1>3. \A q \in Request : req'[q] \in {req[q], "lost"}
  BY <1>1 DEF Settle
<1>4. \A t \in Server \ {s} : serve'[t] = serve[t]
  BY <1>1 DEF TypeOK, ServersTypeOK
<1>5. ServersTypeOK'
  BY <1>1, <1>2 DEF TypeOK, ServersTypeOK, Grace, kind
<1>6. StopInv'
  BY <1>1 DEF StopInv, kind
<1>7. RequestInv'
  <2>1. ASSUME NEW q \in Request, req'[q] = "running" PROVE serve'[to[q]] = "serving"
    <3>1. req[q] = "running" /\ serve[to[q]] = "serving" /\ to[q] \in Server
      BY <1>0, <1>3, <2>1 DEF RequestInv
    <3>2. to[q] # s
      BY <1>1, <3>1
    <3> QED
      BY <1>4, <3>1, <3>2
  <2>2. ASSUME NEW t \in Server, stop[t] = "done", serve'[t] = "serving", clock[t] # Grace(t)
        PROVE  Of(t, {"conn", "running"})' = {}
    <3>1. t # s /\ Of(t, {"conn", "running"}) = {}
      BY <1>1, <1>4, <2>2 DEF RequestInv
    <3> QED
      BY <1>1, <1>3, <3>1 DEF Of, to
  <2> QED
    BY <1>1, <2>1, <2>2 DEF RequestInv, Grace, kind, to
<1> QED
  BY <1>5, <1>6, <1>7

\* A call of the shutdown function keeps what is known of the servers.
LEMMA StopCallKeeps ==
  ASSUME TypeOK, StopInv, RequestInv, NEW s \in Server, StopCall(s)
  PROVE  ServersTypeOK' /\ StopInv' /\ RequestInv'
<1>1. kind \in [Server -> Kind]
  BY ConfigFacts
<1>2. ServersTypeOK'
  BY DEF StopCall, TypeOK, ServersTypeOK, Grace, kind
<1>3. StopInv'
  BY DEF StopCall, StopInv, TypeOK, ServersTypeOK, kind
<1>4. RequestInv'
  BY DEF StopCall, RequestInv, TypeOK, ServersTypeOK, Of, Grace, kind, to
<1> QED
  BY <1>2, <1>3, <1>4

\* Time that passes in the shutdown function never exceeds its grace.
LEMMA TickKeeps ==
  ASSUME TypeOK, StopInv, RequestInv, NEW s \in Server, TickStop(s)
  PROVE  ServersTypeOK' /\ StopInv' /\ RequestInv'
<1> USE ConfigFacts
<1>1. /\ clock' = [clock EXCEPT ![s] = clock[s] + 1]
      /\ UNCHANGED <<config, serve, state, stop, req>> /\ stop[s] \in {"drain", "wait"}
      /\ clock[s] \in Nat /\ clock \in [Server -> Nat]
  BY DEF TickStop, TypeOK, ServersTypeOK
<1>2. (clock[s] < config.draining /\ kind[s] = "chi") \/ clock[s] < Timeout
  BY <1>1 DEF TickStop, Due, Deadline, StopInv
<1>3. clock[s] + 1 <= Grace(s)
  BY <1>1, <1>2
<1>4. ServersTypeOK'
  BY <1>1, <1>3 DEF TypeOK, ServersTypeOK, Grace, kind
<1>5. StopInv'
  BY <1>1 DEF StopInv, kind
<1>6. RequestInv'
  BY <1>1 DEF RequestInv, Of, Grace, kind, to
<1> QED
  BY <1>4, <1>5, <1>6

\* A shutdown function that returns without having waited for the requests has
\* used up its grace.
LEMMA TimeoutAtGrace ==
  ASSUME TypeOK, StopInv, NEW s \in Server, StopTimeout(s)
  PROVE  clock[s] = Grace(s)
<1>1. clock[s] \in Nat /\ clock[s] <= Grace(s) /\ clock[s] >= Timeout /\ stop[s] = "wait"
  BY DEF StopTimeout, StopReturns, Deadline, TypeOK, ServersTypeOK
<1>2. kind[s] = "chi" => clock[s] >= config.draining
  BY <1>1 DEF StopInv
<1> QED
  BY <1>1, <1>2, ConfigFacts

\* The steps of the shutdown function keep what is known of the servers.
LEMMA StoppingKeeps ==
  ASSUME TypeOK, StopInv, RequestInv, NEW s \in Server, Stopping(s)
  PROVE  ServersTypeOK' /\ StopInv' /\ RequestInv'
<1>0. /\ to \in [Request -> Server] /\ kind \in [Server -> Kind]
      /\ config.draining \in Nat /\ clock[s] \in Nat
  BY ConfigFacts DEF TypeOK, ServersTypeOK
<1>1. CASE StopDrained(s)
  <2>1. ServersTypeOK'
    BY <1>1 DEF StopDrained, TypeOK, ServersTypeOK, Grace, kind
  <2>2. StopInv'
    BY <1>0, <1>1 DEF StopDrained, StopInv, TypeOK, ServersTypeOK, kind
  <2>3. RequestInv'
    BY <1>1 DEF StopDrained, RequestInv, TypeOK, ServersTypeOK, Of, Grace, kind, to
  <2> QED
    BY <2>1, <2>2, <2>3
<1>2. ASSUME StopReturns(s),
             req' \in [Request -> {"new", "conn", "running", "done", "failed", "refused", "lost", "cut"}],
             \A q \in Request : req'[q] \in {req[q], "lost", "cut"},
             serve[s] = "serving" /\ clock[s] # Grace(s) => Of(s, {"conn", "running"}) = {}
      PROVE  ServersTypeOK' /\ StopInv' /\ RequestInv'
  <2>1. ServersTypeOK'
    BY <1>2 DEF StopReturns, TypeOK, ServersTypeOK, Grace, kind
  <2>2. StopInv'
    BY <1>2 DEF StopReturns, StopInv, TypeOK, ServersTypeOK, kind
  <2>3. ASSUME NEW q \in Request, req'[q] = "running" PROVE serve'[to[q]] = "serving"
    BY <1>2, <2>3 DEF StopReturns, RequestInv
  <2>4. ASSUME NEW t \in Server, stop'[t] = "done", serve[t] = "serving", clock[t] # Grace(t)
        PROVE  Of(t, {"conn", "running"})' = {}
    <3>1. Of(t, {"conn", "running"}) = {}
      BY <1>2, <2>4 DEF RequestInv, StopReturns, TypeOK, ServersTypeOK
    <3> QED
      BY <1>2, <3>1 DEF Of, to, StopReturns
  <2>5. RequestInv'
    BY <1>2, <2>3, <2>4 DEF StopReturns, RequestInv, Grace, kind, to
  <2> QED
    BY <2>1, <2>2, <2>5
<1>3. CASE StopClean(s)
  BY <1>2, <1>3 DEF StopClean, Quiescent, TypeOK, ServersTypeOK
<1>4. CASE TimeoutHTTP(s)
  BY <1>2, <1>4, TimeoutAtGrace DEF TimeoutHTTP, StopTimeout, TypeOK, ServersTypeOK
<1>5. CASE StopTimeout(s) /\ CutAll(s)
  <2>1. req' \in [Request -> {"new", "conn", "running", "done", "failed", "refused", "lost", "cut"}]
    BY <1>5 DEF CutAll, TypeOK, ServersTypeOK
  <2>2. \A q \in Request : req'[q] \in {req[q], "lost", "cut"}
    BY <1>5 DEF CutAll
  <2> QED
    BY <1>2, <1>5, <2>1, <2>2, TimeoutAtGrace DEF StopTimeout
<1> QED
  BY <1>1, <1>3, <1>4, <1>5 DEF Stopping, TimeoutGRPC, TimeoutGateway

-----------------------------------------------------------------------------
(* The service. *)

ServerInv == StopInv /\ RequestInv /\ WalkInv
DbInv == HandlesInv /\ HandlesAccounted
ServiceInv == TypeOK /\ ServerInv /\ DbInv

\* What is known of the servers depends on their variables only.
LEMMA ServersStutter ==
  ASSUME TypeOK, StopInv, RequestInv, UNCHANGED serverVars
  PROVE  ServersTypeOK' /\ StopInv' /\ RequestInv'
BY DEF serverVars, TypeOK, ServersTypeOK, StopInv, RequestInv, Of, Grace, kind, to

\* Every step keeps what is known of the connection.
LEMMA DbInductive ==
  ASSUME TypeOK, DbInv, [Next]_vars
  PROVE  DbTypeOK' /\ DbInv'
<1>0. DbTypeOK
  BY DEF TypeOK
<1>1. CASE UNCHANGED dbVars
  BY <1>0, <1>1 DEF dbVars, DbTypeOK, DbInv, HandlesInv, HandlesAccounted
<1>2. CASE \E w \in Worker : Reconnect(w)
  BY <1>0, <1>2, ReconnectKeeps DEF DbInv
<1>3. CASE ShutdownRead \/ ShutdownClose
  BY <1>0, <1>3, ShutdownKeeps DEF DbInv
<1> QED
  BY <1>1, <1>2, <1>3, DbSteps

\* The end of the process leaves no request in a handler.
LEMMA ExitKeeps ==
  ASSUME TypeOK, StopInv, RequestInv, Exit
  PROVE  ServersTypeOK' /\ StopInv' /\ RequestInv'
<1>1. /\ req' \in [Request -> {"new", "conn", "running", "done", "failed", "refused", "lost", "cut"}]
      /\ \A q \in Request : req'[q] \notin {"conn", "running"}
  BY DEF Exit, TypeOK, ServersTypeOK
<1>2. ServersTypeOK'
  BY <1>1 DEF Exit, TypeOK, ServersTypeOK, Grace, kind
<1>3. StopInv'
  BY DEF Exit, StopInv, kind
<1>4. RequestInv'
  BY <1>1 DEF RequestInv, Of
<1> QED
  BY <1>2, <1>3, <1>4

\* The hooks are indexed by the servers, each of which has one.
LEMMA OrderFacts ==
  /\ Len(Order) \in Nat /\ Len(Order) # 0
  /\ \A i \in 1..Len(Order) : Order[i] \in Server
  /\ \A i, j \in 1..Len(Order) : Order[i] = Order[j] => i = j
  /\ \A s \in Server : \E i \in 1..Len(Order) : Order[i] = s
<1>1. Order \in Seq(Server) /\ Order # <<>>
  BY ServiceAssumption
<1>2. Len(Order) \in Nat /\ \A i \in 1..Len(Order) : Order[i] \in Server
  BY <1>1
<1>3. Len(Order) # 0
  BY <1>1
<1> QED
  BY <1>2, <1>3, ServiceAssumption

\* A step of the walk: the next hook is called when the one before is done.
LEMMA CallServerKeeps ==
  ASSUME TypeOK, WalkInv, CallServer
  PROVE  WalkInv' /\ at' \in 0..Len(Order) /\ \E s \in Server : StopCall(s)
<1> USE OrderFacts
<1>1. /\ at \in 0..Len(Order) /\ at < Len(Order) /\ at' = at + 1 /\ at + 1 \in 1..Len(Order)
      /\ Order[at + 1] \in Server /\ UNCHANGED dbStop
      /\ at > 0 => at \in 1..Len(Order) /\ stop[Order[at]] = "done"
  BY DEF CallServer, TypeOK, dbVars
<1>2. /\ \A t \in Server \ {Order[at + 1]} : stop'[t] = stop[t]
      /\ stop[Order[at + 1]] = "none"
  BY <1>1 DEF CallServer, StopCall, TypeOK, ServersTypeOK
<1>3. dbStop = "none"
  BY <1>1 DEF WalkInv
<1>4. ASSUME NEW i \in 1..Len(Order), i < at + 1 PROVE stop'[Order[i]] = "done"
  <2>1. stop[Order[i]] = "done"
    <3>1. CASE i < at
      BY <3>1 DEF WalkInv
    <3>2. CASE i = at
      BY <1>1, <3>2
    <3> QED
      BY <1>1, <1>4, <3>1, <3>2
  <2> QED
    BY <1>2, <2>1
<1>5. ASSUME NEW i \in 1..Len(Order), i > at + 1 PROVE stop'[Order[i]] = "none"
  <2>1. stop[Order[i]] = "none" /\ Order[i] # Order[at + 1]
    BY <1>1, <1>5 DEF WalkInv
  <2> QED
    BY <1>2, <2>1
<1>6. \E s \in Server : StopCall(s)
  BY <1>1 DEF CallServer
<1>7. WalkInv'
  BY <1>1, <1>3, <1>4, <1>5 DEF WalkInv
<1> QED
  BY <1>1, <1>6, <1>7

\* The hook that is under way is the one Kernel.Stop has called last: no other
\* one takes a step.
LEMMA StoppingWalk ==
  ASSUME TypeOK, WalkInv, NEW s \in Server, Stopping(s), UNCHANGED <<at, dbStop>>
  PROVE  WalkInv'
<1>1. stop[s] \in {"drain", "wait"} /\ \A t \in Server \ {s} : stop'[t] = stop[t]
  BY DEF Stopping, StopDrained, StopClean, TimeoutHTTP, TimeoutGRPC, TimeoutGateway,
         StopTimeout, StopReturns, TypeOK, ServersTypeOK
<1>2. ASSUME NEW i \in 1..Len(Order), stop[Order[i]] \in {"none", "done"}
      PROVE  stop'[Order[i]] = stop[Order[i]]
  BY <1>1, <1>2, OrderFacts
<1>3. dbStop # "none" => at \in 1..Len(Order)
  BY OrderFacts DEF WalkInv
<1> QED
  BY <1>2, <1>3 DEF WalkInv

\* Every step of the servers, the requests, the connection and Kernel.Stop keeps
\* the invariant of the service.
LEMMA ServiceInductive == ServiceInv /\ [Next]_vars => ServiceInv'
<1> SUFFICES ASSUME TypeOK, StopInv, RequestInv, WalkInv, DbInv, [Next]_vars
             PROVE  ServiceInv'
  BY DEF ServiceInv, ServerInv
<1> USE DEF ServiceInv, ServerInv, TypeOK
<1>0. DbTypeOK' /\ DbInv'
  BY DbInductive
<1>1. CASE UNCHANGED vars
  BY <1>0, <1>1, ServersStutter DEF vars, serverVars, dbVars, WalkInv
<1>2. CASE CallServer /\ UNCHANGED <<kernelDone, using>>
  BY <1>0, <1>2, CallServerKeeps, StopCallKeeps DEF CallServer
<1>3. CASE CallDatabase /\ UNCHANGED <<kernelDone, using>>
  <2>1. WalkInv'
    BY <1>3 DEF CallDatabase, ShutdownRead, ShutdownClose, serverVars, WalkInv
  <2> QED
    BY <1>0, <1>3, <2>1, ServersStutter DEF CallDatabase
<1>4. CASE Exit /\ UNCHANGED <<kernelDone, using>>
  <2>1. WalkInv'
    BY <1>4 DEF Exit, dbVars, WalkInv
  <2> QED
    BY <1>0, <1>4, <2>1, ExitKeeps DEF Exit
<1>5. ASSUME NEW s \in Server, Stopping(s), UNCHANGED <<dbVars, at, exited, kernelDone, using>>
      PROVE  ServiceInv'
  BY <1>0, <1>5, StoppingKeeps, StoppingWalk DEF dbVars
<1>6. ASSUME NEW s \in Server, TickStop(s), UNCHANGED <<dbVars, kernelDone, at, exited, using>>
      PROVE  ServiceInv'
  <2>1. WalkInv'
    BY <1>6 DEF TickStop, dbVars, WalkInv
  <2> QED
    BY <1>0, <1>6, <2>1, TickKeeps
<1>7. CASE Cancel
  <2>1. WalkInv'
    BY <1>7 DEF Cancel, serverVars, dbVars, WalkInv
  <2> QED
    BY <1>0, <1>7, <2>1, ServersStutter DEF Cancel
<1>8. ASSUME NEW s \in Server, Serving(s, kernelDone),
             UNCHANGED <<dbVars, kernelDone, at, exited, using>>
      PROVE  ServiceInv'
  <2>1. WalkInv'
    BY <1>8 DEF Serving, RunChi, RunHTTPServer, StartGRPC, StartGateway, NotStarted, Serves,
                dbVars, WalkInv
  <2>2. kernelDone \in BOOLEAN
    OBVIOUS
  <2> QED
    BY <1>0, <1>8, <2>1, <2>2, ServingKeeps
<1>9. ASSUME NEW r \in Request, Connect(r) \/ Begin(r) \/ Drop(r),
             UNCHANGED <<dbVars, kernelDone, at, exited, using>>
      PROVE  ServiceInv'
  <2>1. WalkInv'
    BY <1>9, RequestStep DEF dbVars, WalkInv
  <2> QED
    BY <1>0, <1>9, <2>1, RequestKeeps
<1>10. ASSUME NEW r \in Request, Handler(r), UNCHANGED <<kernelDone, at, exited>>
       PROVE  ServiceInv'
  <2>1. using' \in [Request -> 0..MaxHandles]
    BY <1>10, ClickhouseAssumption DEF Handler, GetDB, Query, DbTypeOK, Handle
  <2>2. CASE GetDB(r)
    <3>1. WalkInv'
      BY <1>10, <2>2 DEF GetDB, serverVars, dbVars, WalkInv
    <3> QED
      BY <1>0, <1>10, <2>1, <2>2, <3>1, ServersStutter DEF GetDB
  <2>3. CASE \E result \in {"done", "failed"} : Answer(r, result) /\ UNCHANGED dbVars
    <3>1. WalkInv'
      BY <1>10, <2>3, RequestStep DEF dbVars, WalkInv
    <3> QED
      BY <1>0, <1>10, <2>1, <2>3, <3>1, RequestKeeps
  <2> QED
    BY <1>10, <2>2, <2>3 DEF Handler, Query
<1>11. CASE /\ \E w \in config.reconnect : Reconnect(w)
            /\ UNCHANGED <<serverVars, kernelDone, at, exited, using>>
  <2>1. WalkInv'
    BY <1>11 DEF Reconnect, OpenDB, PingAborted, Swap, CloseOld, serverVars, WalkInv
  <2> QED
    BY <1>0, <1>11, <2>1, ServersStutter
<1> QED
  BY <1>1, <1>2, <1>3, <1>4, <1>5, <1>6, <1>7, <1>8, <1>9, <1>10, <1>11
  DEF Next, MainStep, Tick, Environment

\* The invariant of the service holds from the start.
LEMMA ServiceInvariant == Spec => []ServiceInv
<1>1. ASSUME Init PROVE ServiceInv
  <2>1. kind \in [Server -> Kind] /\ config \in Config /\ Timeout \in Nat /\ config.draining \in Nat
    BY <1>1, ServersAssumption DEF Init, ServersInit, kind
  <2>2. ServersTypeOK
    BY <1>1, <2>1 DEF Init, ServersInit, ServersTypeOK, Grace
  <2>3. DbTypeOK /\ DbInv
    BY <1>1, ClickhouseAssumption
    DEF Init, DbInit, DbTypeOK, Handle, DbInv, HandlesInv, HandlesAccounted
  <2>4. StopInv /\ RequestInv
    BY <1>1 DEF Init, ServersInit, StopInv, RequestInv
  <2>5. WalkInv
    BY <1>1, OrderFacts DEF Init, ServersInit, DbInit, WalkInv
  <2>6. at \in 0..Len(Order) /\ using \in [Request -> 0..MaxHandles]
    BY <1>1, OrderFacts, ClickhouseAssumption DEF Init
  <2> QED
    BY <1>1, <2>2, <2>3, <2>4, <2>5, <2>6 DEF Init, ServiceInv, ServerInv, TypeOK
<1> QED
  BY <1>1, ServiceInductive, PTL DEF Spec

\* Every variable keeps its type: in particular a shutdown function never waits
\* longer than the larger one of its draining time and its timeout.
THEOREM TypeCorrect == Spec => []TypeOK
<1>1. ServiceInv => TypeOK
  BY DEF ServiceInv
<1> QED
  BY <1>1, ServiceInvariant, PTL

\* Every open handle is the current one, held by a Reconnect or forgotten by an
\* aborted one, and all of these are open until Shutdown closes what it has read,
\* however Reconnects and Shutdown overlap.
THEOREM HandlesAreAccounted == Spec => []HandlesAccounted
<1>1. ServiceInv => HandlesAccounted
  BY DEF ServiceInv, DbInv
<1> QED
  BY <1>1, ServiceInvariant, PTL

-----------------------------------------------------------------------------
(* What a step may not do. *)

\* A request changes only by a step of its own, by the end of the shutdown of its
\* server, when its server refuses to serve, or by the end of the process.
LEMMA RequestChanges ==
  ASSUME TypeOK, [Next]_vars, NEW r \in Request, req'[r] # req[r]
  PROVE  \/ Connect(r) \/ Begin(r) \/ Drop(r) \/ Query(r)
         \/ req'[r] \in {"lost", "done"}
         \/ \E s \in Server : /\ kind[s] # "chi" /\ to[r] = s /\ req'[r] = "cut"
                              /\ StopTimeout(s)
         \/ Exit /\ (req[r] = "running" => req'[r] = "cut") /\ req'[r] \in {"lost", "cut"}
<1>1. CASE UNCHANGED req
  BY <1>1
<1>2. CASE Exit
  BY <1>2 DEF Exit
<1>3. ASSUME NEW s \in Server, Stopping(s), ~UNCHANGED req
      PROVE  \/ req'[r] = "lost"
             \/ kind[s] # "chi" /\ to[r] = s /\ req'[r] = "cut" /\ StopTimeout(s)
  <2>1. CutAll(s) /\ StopTimeout(s) /\ kind[s] # "chi"
    BY <1>3 DEF Stopping, StopDrained, StopClean, TimeoutHTTP, TimeoutGRPC, TimeoutGateway
  <2> QED
    BY <2>1 DEF CutAll, Of
<1>4. ASSUME NEW s \in Server, Serving(s, kernelDone), ~UNCHANGED req
      PROVE  req'[r] = "lost"
  <2>1. req' = Settle(Of(s, {"conn"}), "lost")
    BY <1>4 DEF Serving, RunChi, RunHTTPServer, StartGRPC, StartGateway, NotStarted, Serves
  <2> QED
    BY <2>1 DEF Settle
<1>5. ASSUME NEW q \in Request, q # r, Connect(q) \/ Begin(q) \/ Drop(q) \/ Handler(q)
      PROVE  req'[r] = req[r]
  BY <1>5 DEF Connect, Begin, Drop, Handler, GetDB, Query, Answer, serverVars, TypeOK, ServersTypeOK
<1>6. CASE Handler(r)
  BY <1>6 DEF Handler, GetDB, Answer, serverVars, TypeOK, ServersTypeOK
<1>7. CASE MainStep /\ ~UNCHANGED req
  BY <1>2, <1>3, <1>7 DEF MainStep, CallServer, StopCall, CallDatabase, serverVars
<1>8. CASE Environment /\ ~UNCHANGED req
  BY <1>4, <1>5, <1>6, <1>8 DEF Environment, serverVars
<1>9. CASE Tick \/ Cancel \/ UNCHANGED vars
  BY <1>1, <1>9 DEF Tick, TickStop, Cancel, vars, serverVars
<1> QED
  BY <1>1, <1>7, <1>8, <1>9 DEF Next

\* A step of a request itself has a result of its own.
LEMMA OwnStep ==
  ASSUME TypeOK, NEW r \in Request
  PROVE  /\ Connect(r) => req'[r] = "conn"
         /\ Begin(r) => req[r] = "conn" /\ req'[r] \in {"refused", "running"}
         /\ Drop(r) => req'[r] = "lost"
         /\ Query(r) => req'[r] \in {"done", "failed"}
BY DEF Connect, Begin, Drop, Query, Answer, TypeOK, ServersTypeOK

\* When the database is being closed every server has been shut down.
LEMMA AllDone ==
  ASSUME TypeOK, WalkInv, dbStop # "none", NEW s \in Server
  PROVE  stop[s] = "done"
<1>1. PICK i \in 1..Len(Order) : Order[i] = s
  BY OrderFacts
<1>2. at = Len(Order) /\ stop[Order[at]] = "done"
  BY DEF WalkInv
<1>3. CASE i < at
  BY <1>1, <1>3 DEF WalkInv
<1>4. CASE i = at
  BY <1>1, <1>2, <1>4
<1> QED
  BY <1>2, <1>3, <1>4, OrderFacts

\* A handler that still runs when its server is shut down has outlasted its grace.
LEMMA RunningPastDone ==
  ASSUME TypeOK, RequestInv, NEW r \in Request, req[r] \in {"conn", "running"},
         stop[to[r]] = "done", serve[to[r]] = "serving"
  PROVE  clock[to[r]] = Grace(to[r])
<1>1. to[r] \in Server
  BY ConfigFacts
<1>2. Of(to[r], {"conn", "running"}) # {}
  BY DEF Of
<1> QED
  BY <1>1, <1>2 DEF RequestInv

\* A shutdown function that has given up has done so for ever.
LEMMA GaveUpStays ==
  ASSUME TypeOK, [Next]_vars, NEW s \in Server, GaveUp(s)
  PROVE  UNCHANGED config /\ stop'[s] = "done" /\ clock'[s] = clock[s]
<1>1. stop[s] = "done" /\ clock[s] = Grace(s)
  BY DEF GaveUp
<1>2. UNCHANGED config
  BY DEF Next, MainStep, Tick, Cancel, Environment, CallServer, CallDatabase, Exit, StopCall,
         Stopping, StopDrained, StopClean, TimeoutHTTP, TimeoutGRPC, TimeoutGateway,
         StopTimeout, StopReturns, TickStop, Serving, RunChi, RunHTTPServer, StartGRPC,
         StartGateway, NotStarted, Serves, Connect, Begin, Drop, Handler, GetDB, Query, Answer,
         vars, serverVars
<1>3. stop'[s] = "done" /\ clock'[s] = clock[s]
  <2>1. CASE UNCHANGED <<stop, clock>>
    BY <1>1, <2>1
  <2>2. ASSUME NEW t \in Server, StopCall(t) \/ Stopping(t) \/ TickStop(t)
        PROVE  stop'[s] = "done" /\ clock'[s] = clock[s]
    BY <1>1, <2>2
    DEF StopCall, Stopping, StopDrained, StopClean, TimeoutHTTP, TimeoutGRPC, TimeoutGateway,
        StopTimeout, StopReturns, TickStop, TypeOK, ServersTypeOK
  <2>3. CASE CallServer
    <3>1. at + 1 \in 1..Len(Order)
      BY <2>3, OrderFacts DEF CallServer, TypeOK
    <3> QED
      BY <2>2, <2>3, <3>1, OrderFacts DEF CallServer
  <2>4. CASE MainStep
    BY <2>1, <2>2, <2>3, <2>4 DEF MainStep, CallDatabase, Exit, serverVars
  <2>5. CASE Environment
    BY <2>1, <2>5 DEF Environment, Serving, RunChi, RunHTTPServer, StartGRPC, StartGateway,
         NotStarted, Serves, Connect, Begin, Drop, Handler, GetDB, Query, Answer, serverVars
  <2> QED
    BY <2>1, <2>2, <2>4, <2>5 DEF Next, Tick, Cancel, vars, serverVars
<1> QED
  BY <1>2, <1>3

\* A connection is cut off by a forced stop or by the end of the process, and both
\* come after the grace.
LEMMA CutAtGrace ==
  ASSUME ServiceInv, [Next]_vars, NEW r \in Request, req[r] # "cut", req'[r] = "cut"
  PROVE  clock[to[r]] = Grace(to[r]) /\ GaveUp(to[r])'
<1>0. TypeOK /\ StopInv /\ RequestInv /\ WalkInv /\ to[r] \in Server
  BY ConfigFacts DEF ServiceInv, ServerInv
<1>1. (\E s \in Server : to[r] = s /\ StopTimeout(s)) \/ Exit
  BY <1>0, RequestChanges, OwnStep
<1>2. CASE Exit
  <2>1. dbStop # "none" /\ req[r] = "running"
    BY <1>2 DEF Exit
  <2>2. stop[to[r]] = "done" /\ serve[to[r]] = "serving"
    BY <1>0, <2>1, AllDone DEF RequestInv
  <2>3. clock[to[r]] = Grace(to[r])
    BY <1>0, <2>1, <2>2, RunningPastDone
  <2> QED
    BY <1>0, <2>2, <2>3, GaveUpStays DEF GaveUp, Grace, kind, to
<1>3. CASE StopTimeout(to[r])
  <2>1. clock[to[r]] = Grace(to[r])
    BY <1>0, <1>3, TimeoutAtGrace
  <2>2. stop'[to[r]] = "done" /\ UNCHANGED <<config, clock>>
    BY <1>0, <1>3 DEF StopTimeout, StopReturns, TypeOK, ServersTypeOK
  <2> QED
    BY <2>1, <2>2 DEF GaveUp, Grace, kind, to
<1> QED
  BY <1>1, <1>2, <1>3

\* So it is of every connection that was cut off, at any time after.
LEMMA CutInvariant == Spec => []CutInv
<1>1. Init => CutInv
  BY DEF Init, ServersInit, CutInv
<1>2. ASSUME ServiceInv, CutInv, [Next]_vars PROVE CutInv'
  <2>1. TypeOK /\ to \in [Request -> Server]
    BY <1>2, ConfigFacts DEF ServiceInv
  <2>2. ASSUME NEW r \in Request, req'[r] = "cut" PROVE GaveUp(to[r])'
    <3>1. CASE req[r] = "cut"
      BY <1>2, <2>1, <3>1, GaveUpStays DEF CutInv, GaveUp, Grace, kind, to
    <3>2. CASE req[r] # "cut"
      BY <1>2, <2>2, <3>2, CutAtGrace
    <3> QED
      BY <3>1, <3>2
  <2> QED
    BY <2>2 DEF CutInv
<1> QED
  BY <1>1, <1>2, ServiceInvariant, PTL DEF Spec

\* From the moment a chi server drains no request enters a handler, except after
\* a Shutdown that ran out of time and left connections open.
THEOREM DrainingHolds == Spec => DrainHolds
<1>1. ASSUME ServiceInv, [Next]_vars, NEW r \in Request, Enters(r), kind[to[r]] = "chi"
      PROVE  stop[to[r]] = "none" \/ GaveUp(to[r])
  <2>0. TypeOK /\ StopInv /\ RequestInv
    BY <1>1 DEF ServiceInv, ServerInv
  <2>1. Begin(r)
    BY <1>1, <2>0, RequestChanges, OwnStep DEF Enters
  <2>2. /\ to[r] \in Server /\ req[r] = "conn" /\ serve[to[r]] = "serving"
        /\ state[to[r]] # "draining"
    BY <1>1, <2>0, <2>1, ConfigFacts DEF Enters, Begin, TypeOK, ServersTypeOK
  <2>3. stop[to[r]] \in {"none", "done"}
    BY <1>1, <2>0, <2>2 DEF StopInv, TypeOK, ServersTypeOK
  <2> QED
    BY <2>0, <2>2, <2>3, RunningPastDone DEF GaveUp
<1>2. ServiceInv /\ [Next]_vars =>
        [\A r \in Request : Enters(r) /\ kind[to[r]] = "chi" =>
           stop[to[r]] = "none" \/ GaveUp(to[r])]_vars
  BY <1>1
<1> QED
  BY <1>2, ServiceInvariant, PTL DEF Spec, DrainHolds

\* A handler is cut off only after the shutdown of its server has waited for the
\* full time.
THEOREM GraceIsKept == Spec => GraceKept
<1>1. ASSUME ServiceInv, [Next]_vars, NEW r \in Request, Leaves(r, "cut")
      PROVE  clock[to[r]] = Grace(to[r])
  BY <1>1, CutAtGrace DEF Leaves
<1>2. ServiceInv /\ [Next]_vars =>
        [\A r \in Request : Leaves(r, "cut") => clock[to[r]] = Grace(to[r])]_vars
  BY <1>1
<1> QED
  BY <1>2, ServiceInvariant, PTL DEF Spec, GraceKept

\* A query fails on a closed handle only if a Reconnect has replaced the handle
\* since GetDB, or the shutdown of the request's server ran out of time.
THEOREM QueriesFailLate == Spec => QueryFailsLate
<1>1. ASSUME ServiceInv, CutInv, [Next]_vars, NEW r \in Request, Leaves(r, "failed"), using[r] = conn
      PROVE  GaveUp(to[r])
  <2>0. TypeOK /\ RequestInv /\ WalkInv /\ HandlesAccounted
    BY <1>1 DEF ServiceInv, ServerInv, DbInv
  <2>1. Query(r)
    BY <1>1, <2>0, RequestChanges, OwnStep DEF Leaves
  <2>2. conn \notin open
    BY <1>1, <2>0, <2>1 DEF Query, Answer, Leaves, TypeOK, ServersTypeOK
  <2>3. dbStop = "done"
    BY <2>0, <2>2 DEF HandlesAccounted
  <2>4. to[r] \in Server /\ req[r] \in {"running", "cut"}
    BY <1>1, <2>0, ConfigFacts DEF Leaves, Handling
  <2>5. CASE req[r] = "running"
    <3>1. stop[to[r]] = "done" /\ serve[to[r]] = "serving"
      BY <2>0, <2>3, <2>4, <2>5, AllDone DEF RequestInv
    <3> QED
      BY <2>0, <2>5, <3>1, RunningPastDone DEF GaveUp
  <2>6. CASE req[r] = "cut"
    BY <1>1, <2>6 DEF CutInv
  <2> QED
    BY <2>4, <2>5, <2>6
<1>2. ServiceInv /\ CutInv /\ [Next]_vars =>
        [\A r \in Request : Leaves(r, "failed") => using[r] # conn \/ GaveUp(to[r])]_vars
  BY <1>1
<1> QED
  BY <1>2, ServiceInvariant, CutInvariant, PTL DEF Spec, QueryFailsLate
=============================================================================
