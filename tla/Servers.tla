------------------------------- MODULE Servers -------------------------------
(***************************************************************************)
(* server/chi.go, gorilla.go, grpc.go, grpc_gateway.go: the goroutine that *)
(* serves, the requests it has taken, and the shutdown function that the   *)
(* constructor returns and the application registers as a hook.  A "chi"   *)
(* server has a PreShutdownState with Need and the DrainMiddleware; without *)
(* them it takes the same steps as a "gorilla" server.  What net/http and  *)
(* grpc-go do is modelled from how the four files use them.                *)
(***************************************************************************)
EXTENDS Naturals

CONSTANTS Server, Request,
          Config,    \* the configurations to start from
          Timeout    \* time for shutdown, in ticks: TimeForShutdown, ShutdownTimeout, 5 s

Kind == {"chi", "gorilla", "grpc", "gateway"}

ASSUME ServersAssumption ==
  /\ Timeout \in Nat
  /\ \A c \in Config :
       /\ c.kind \in [Server -> Kind]
       /\ c.to \in [Request -> Server]     \* where a request is sent
       /\ c.draining \in Nat               \* TimeForDraining
       /\ c.taken \subseteq Server         \* the servers whose port is in use
       /\ \A s \in c.taken : c.kind[s] # "gateway"

VARIABLES config,  \* how the application is configured, never changes
          serve,   \* serve[s]: the serving goroutine and its listener
          state,   \* state[s]: PreShutdownState.State
          stop,    \* stop[s]: where the shutdown function is
          clock,   \* clock[s]: ticks since the shutdown function was called
          req      \* req[r]: how far a request has come

serverVars == <<config, serve, state, stop, clock, req>>

kind == config.kind
to == config.to

\* The longest time the shutdown function waits for the requests of s.
Grace(s) == IF kind[s] = "chi" /\ config.draining > Timeout THEN config.draining ELSE Timeout

ServersTypeOK ==
  /\ config \in Config
  /\ serve \in [Server -> {"spawn", "serving", "closed", "skipped", "broken"}]
  /\ state \in [Server -> {"initial", "running", "draining", "shutdown"}]
  /\ stop \in [Server -> {"none", "drain", "wait", "done"}]
  /\ clock \in [Server -> Nat] /\ \A s \in Server : clock[s] <= Grace(s)
  /\ req \in [Request -> {"new", "conn", "running", "done", "failed", "refused", "lost", "cut"}]

\* The constructors have returned, the goroutines have not begun.  A gRPC server
\* goes on without a listener if its port is in use; for a gateway that is an error.
ServersInit ==
  /\ config \in Config
  /\ serve = [s \in Server |-> "spawn"]
  /\ state = [s \in Server |-> IF kind[s] = "chi" THEN "running" ELSE "initial"]
  /\ stop = [s \in Server |-> "none"]
  /\ clock = [s \in Server |-> 0]
  /\ req = [r \in Request |-> "new"]

\* The requests that s holds in a set of states.
Of(s, states) == {r \in Request : to[r] = s /\ req[r] \in states}
Settle(rs, result) == [r \in Request |-> IF r \in rs THEN result ELSE req[r]]

\* gRPC and gateway listen in the constructor, and serve under the kernel's context.
ListensEarly(s) == kind[s] \in {"grpc", "gateway"}

-----------------------------------------------------------------------------
(* The serving goroutine, started by GoRecover. *)

\* A server that was shut down before refuses to serve and closes its listener, and
\* with it the connections nobody has accepted.  Of a port in use nobody is told.
Serves(s, ifTaken) ==
  /\ serve[s] = "spawn"
  /\ \/ /\ stop[s] \in {"none", "drain"}
        /\ serve' = [serve EXCEPT ![s] = IF s \in config.taken THEN ifTaken ELSE "serving"]
        /\ UNCHANGED req
     \/ /\ stop[s] \in {"wait", "done"}
        /\ serve' = [serve EXCEPT ![s] = "closed"]
        /\ req' = Settle(Of(s, {"conn"}), "lost")
  /\ UNCHANGED <<config, state, stop, clock>>

\* ListenAndServe; on an error the goroutine panics and is recovered.
RunChi(s) == kind[s] = "chi" /\ Serves(s, "closed")
RunHTTPServer(s) == kind[s] = "gorilla" /\ Serves(s, "closed")

\* done is whether the kernel's context, given to Start, is done.  Serve(nil) of a
\* gRPC server without a listener panics with the mutex of the server locked.
StartGRPC(s, done) == kind[s] = "grpc" /\ ~done /\ Serves(s, "broken")
StartGateway(s, done) == kind[s] = "gateway" /\ ~done /\ Serves(s, "closed")

\* GoRecover does not run the function if the context is done: the listener stays
\* open without anybody who accepts.
NotStarted(s, done) ==
  /\ ListensEarly(s) /\ done
  /\ serve[s] = "spawn" /\ serve' = [serve EXCEPT ![s] = "skipped"]
  /\ UNCHANGED <<config, state, stop, clock, req>>

Serving(s, done) ==
  \/ RunChi(s) \/ RunHTTPServer(s)
  \/ StartGRPC(s, done) \/ StartGateway(s, done) \/ NotStarted(s, done)

-----------------------------------------------------------------------------
(* Requests. *)

\* A connection is made as long as there is a listener, served or not.
Connect(r) ==
  LET s == to[r] IN
  /\ req[r] = "new"
  /\ \/ serve[s] = "serving" /\ stop[s] \in {"none", "drain"}
     \/ serve[s] \in {"spawn", "skipped"} /\ ListensEarly(s) /\ s \notin config.taken
  /\ req' = [req EXCEPT ![r] = "conn"]
  /\ UNCHANGED <<config, serve, state, stop, clock>>

\* A request is read from the connection, also from one that a shutdown under way,
\* or one that ran out of time, has left open.  DrainMiddleware lets it pass
\* to the handler in every state but draining.
Begin(r) ==
  LET s == to[r] IN
  /\ req[r] = "conn" /\ serve[s] = "serving"
  /\ req' = [req EXCEPT ![r] = IF state[s] = "draining" THEN "refused" ELSE "running"]
  /\ UNCHANGED <<config, serve, state, stop, clock>>

\* The handler of r runs, also on a connection that was cut off under it.
Handling(r) == req[r] \in {"running", "cut"}

\* The handler returns or its panic is recovered: the client, if it is still there,
\* has an answer.
Answer(r, result) ==
  /\ Handling(r)
  /\ req' = [req EXCEPT ![r] = result]
  /\ UNCHANGED <<config, serve, state, stop, clock>>

\* A shutdown closes connections without a request; so may the client.
Drop(r) ==
  /\ req[r] = "conn" /\ serve[to[r]] = "serving" /\ stop[to[r]] \in {"wait", "done"}
  /\ req' = [req EXCEPT ![r] = "lost"]
  /\ UNCHANGED <<config, serve, state, stop, clock>>

-----------------------------------------------------------------------------
(* The shutdown function. *)

\* Shutdown and GracefulStop have nothing to wait for.
Quiescent(s) == serve[s] = "serving" => Of(s, {"conn", "running"}) = {}

\* mutant: the time for shutdown is counted after the draining
DeadlineAfterDraining(s) == Timeout + IF kind[s] = "chi" THEN config.draining ELSE 0

\* WithTimeout comes before the draining.
Deadline(s) == Timeout

StopCall(s) ==
  /\ stop[s] = "none"
  /\ stop' = [stop EXCEPT ![s] = IF kind[s] = "chi" THEN "drain" ELSE "wait"]
  /\ state' = [state EXCEPT ![s] = IF kind[s] = "chi" THEN "draining" ELSE @]
  /\ UNCHANGED <<config, serve, clock, req>>

\* mutant: the state is shutdown before the connections are closed
StopDrainedShut(s) ==
  /\ stop[s] = "drain" /\ clock[s] >= config.draining
  /\ stop' = [stop EXCEPT ![s] = "wait"]
  /\ state' = [state EXCEPT ![s] = "shutdown"]
  /\ UNCHANGED <<config, serve, clock, req>>

\* time.After(TimeForDraining); srv.Shutdown closes the listener.
StopDrained(s) ==
  /\ stop[s] = "drain" /\ clock[s] >= config.draining
  /\ stop' = [stop EXCEPT ![s] = "wait"]
  /\ UNCHANGED <<config, serve, state, clock, req>>

StopReturns(s) ==
  /\ stop[s] = "wait"
  /\ stop' = [stop EXCEPT ![s] = "done"]
  /\ state' = [state EXCEPT ![s] = IF kind[s] = "chi" THEN "shutdown" ELSE @]
  /\ UNCHANGED <<config, serve, clock>>

\* mutant: Close instead of Shutdown
StopAtOnce(s) ==
  /\ StopReturns(s)
  /\ UNCHANGED req

StopClean(s) ==
  /\ StopReturns(s) /\ Quiescent(s)
  /\ UNCHANGED req

StopTimeout(s) == StopReturns(s) /\ ~Quiescent(s) /\ clock[s] >= Deadline(s)

\* mutant: the context of Shutdown has no deadline
WithoutDeadline(s) == FALSE

\* Out of time, chi and gorilla log the error and leave connections and handlers to
\* themselves, ...
TimeoutHTTP(s) ==
  /\ ~ListensEarly(s) /\ StopTimeout(s)
  /\ UNCHANGED req

CutAll(s) ==
  req' = [r \in Request |-> CASE r \in Of(s, {"conn"}) -> "lost"
                              [] r \in Of(s, {"running"}) -> "cut"
                              [] OTHER -> req[r]]

\* ... while gRPC's Stop and the gateway's Close cut the connections that are left;
\* their handlers go on.
TimeoutGRPC(s) == kind[s] = "grpc" /\ StopTimeout(s) /\ CutAll(s)
TimeoutGateway(s) == kind[s] = "gateway" /\ StopTimeout(s) /\ CutAll(s)

Stopping(s) ==
  \/ StopDrained(s) \/ StopClean(s)
  \/ TimeoutHTTP(s) \/ TimeoutGRPC(s) \/ TimeoutGateway(s)

\* The shutdown function is about to take a step whatever the requests do.
Due(s) ==
  \/ stop[s] = "drain" /\ clock[s] >= config.draining
  \/ stop[s] = "wait" /\ (Quiescent(s) \/ clock[s] >= Deadline(s))

\* Time passes for a shutdown function that waits.
TickStop(s) ==
  /\ stop[s] \in {"drain", "wait"} /\ ~Due(s)
  /\ clock' = [clock EXCEPT ![s] = @ + 1]
  /\ UNCHANGED <<config, serve, state, stop, req>>
=============================================================================
