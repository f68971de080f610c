------------------------------- MODULE Service -------------------------------
(***************************************************************************)
(* A service as the kernel takes it down: servers whose handlers use a     *)
(* ClickHouse connection, goroutines that reconnect it, and the walk of    *)
(* Kernel.Stop along the shutdown hooks, servers first and the database    *)
(* last.  Module Kernel has the order of the hooks; here their effects.    *)
(***************************************************************************)
EXTENDS Servers, ClickhouseConnection, Sequences

CONSTANT Order    \* the servers, in the order of their hooks

ASSUME ServiceAssumption ==
  /\ Order \in Seq(Server) /\ Order # <<>>
  /\ \A s \in Server : \E i \in 1..Len(Order) : Order[i] = s
  /\ \A i, j \in 1..Len(Order) : Order[i] = Order[j] => i = j
  /\ \A c \in Config : c.reconnect \subseteq Worker   \* who calls Reconnect

VARIABLES kernelDone,  \* the kernel's context is cancelled
          at,          \* the hook Kernel.Stop has called last, 0 before the first
          exited,      \* RunKernel has returned and the process is gone
          using        \* using[r]: the handle the handler of r got from GetDB

vars == <<serverVars, dbVars, kernelDone, at, exited, using>>

TypeOK ==
  /\ ServersTypeOK /\ DbTypeOK
  /\ {kernelDone, exited} \subseteq BOOLEAN
  /\ at \in 0..Len(Order)
  /\ using \in [Request -> 0..MaxHandles]

Init ==
  /\ ServersInit /\ DbInit
  /\ kernelDone = FALSE /\ exited = FALSE
  /\ at = 0
  /\ using = [r \in Request |-> 0]

-----------------------------------------------------------------------------
(* Handlers. *)

\* GetDB reads c.conn without c.mu.
GetDB(r) ==
  /\ Handling(r) /\ using[r] = 0
  /\ using' = [using EXCEPT ![r] = conn]
  /\ UNCHANGED <<serverVars, dbVars>>

\* A query on a closed handle fails.
Query(r) ==
  /\ using[r] # 0
  /\ Answer(r, IF using[r] \in open THEN "done" ELSE "failed")
  /\ using' = [using EXCEPT ![r] = 0]
  /\ UNCHANGED dbVars

Handler(r) ==
  \/ GetDB(r) \/ Query(r)
  \/ using[r] = 0 /\ Answer(r, "done") /\ UNCHANGED <<dbVars, using>>

-----------------------------------------------------------------------------
(* Kernel.Stop. *)

\* mutant: the hooks are called without waiting for each other
CallAnyServer ==
  /\ at < Len(Order)
  /\ at' = at + 1
  /\ StopCall(Order[at + 1])
  /\ UNCHANGED <<dbVars, exited>>

\* The next hook is called when the one before has returned.
CallServer ==
  /\ at < Len(Order)
  /\ at > 0 => stop[Order[at]] = "done"
  /\ at' = at + 1
  /\ StopCall(Order[at + 1])
  /\ UNCHANGED <<dbVars, exited>>

CallDatabase ==
  /\ at = Len(Order) /\ stop[Order[at]] = "done"
  /\ ShutdownRead \/ ShutdownClose
  /\ UNCHANGED <<serverVars, at, exited>>

\* The last hook has returned: the end of the process cuts what still runs.
Exit ==
  /\ dbStop = "done"
  /\ exited' = TRUE
  /\ req' = [r \in Request |-> CASE req[r] = "running" -> "cut"
                                 [] req[r] = "conn" -> "lost"
                                 [] OTHER -> req[r]]
  /\ UNCHANGED <<config, serve, state, stop, clock, dbVars, at>>

MainStep ==
  /\ \/ CallServer \/ CallDatabase \/ Exit
     \/ \E s \in Server : Stopping(s) /\ UNCHANGED <<dbVars, at, exited>>
  /\ UNCHANGED <<kernelDone, using>>

Tick ==
  /\ \E s \in Server : TickStop(s)
  /\ UNCHANGED <<dbVars, kernelDone, at, exited, using>>

\* A signal; a failed execution function begins the walk without one.
Cancel ==
  /\ ~kernelDone /\ kernelDone' = TRUE
  /\ UNCHANGED <<serverVars, dbVars, at, exited, using>>

-----------------------------------------------------------------------------
Environment ==
  \/ \E s \in Server :
       Serving(s, kernelDone) /\ UNCHANGED <<dbVars, kernelDone, at, exited, using>>
  \/ \E r \in Request :
       /\ Connect(r) \/ Begin(r) \/ Drop(r)
       /\ UNCHANGED <<dbVars, kernelDone, at, exited, using>>
  \/ \E r \in Request : Handler(r) /\ UNCHANGED <<kernelDone, at, exited>>
  \/ \E w \in config.reconnect :
       Reconnect(w) /\ UNCHANGED <<serverVars, kernelDone, at, exited, using>>

Next == ~exited /\ (MainStep \/ Tick \/ Cancel \/ Environment)

Spec == Init /\ [][Next]_vars

\* Time passes, and the main goroutine runs; it is not promised that it gets past
\* the mutex of a gRPC server that Serve(nil) has left locked.
Fairness ==
  /\ WF_vars(~exited /\ Tick)
  /\ WF_vars(~exited /\ MainStep /\ \A s \in Server : serve[s] = "broken" => stop'[s] = stop[s])

FairSpec == Spec /\ Fairness

-----------------------------------------------------------------------------
(* Properties. *)

Enters(r) == req[r] = "conn" /\ req'[r] = "running"
Leaves(r, result) == Handling(r) /\ req[r] # result /\ req'[r] = result

\* The shutdown function of s has come back without the requests of s.
GaveUp(s) == stop[s] = "done" /\ clock[s] = Grace(s)

\* From the moment a chi server drains (chi.go:192) no request enters a handler,
\* on whatever connection it comes, except after a Shutdown that ran out of time:
\* then the state is no longer draining (chi.go:205) and connections that
\* were left open pass the middleware.
DrainHolds ==
  [][\A r \in Request : Enters(r) /\ kind[to[r]] = "chi" =>
       stop[to[r]] = "none" \/ GaveUp(to[r])]_vars

\* A request whose handler runs is cut off, by a forced stop or by the end of the
\* process, only after the shutdown of its server has waited for the full
\* time: the larger one of draining and timeout, for the deadline starts before
\* the draining (chi.go:188); "the last requests are served for 5 seconds"
\* (gorilla.go:64).
GraceKept ==
  [][\A r \in Request : Leaves(r, "cut") => clock[to[r]] = Grace(to[r])]_vars

\* The handles in use: the current one, those a Reconnect is about to install or
\* to close, and those that an aborted NewClickhouseConnection has forgotten
\* (clickhouse.go:93).  Every one of them is open, unless Shutdown has closed it, and
\* nothing else is: a Reconnect leaves no old handle behind, and the handle GetDB
\* returns works until Shutdown, however Reconnects and Shutdown overlap.
HandlesAccounted ==
  LET held == {mine[w] : w \in {w \in Worker : rpc[w] # "idle"}}
      shut == IF dbStop = "done" THEN {last} ELSE {}
  IN  open = ({conn} \cup held \cup leaked) \ shut

\* A query fails on a closed handle only if a Reconnect has replaced the handle
\* since GetDB (clickhouse.go:115 closes it without waiting for its users), or if the
\* shutdown of the request's server ran out of time before the database was closed:
\* its handlers go on, those of a forced stop (grpc.go:77) too.
QueryFailsLate ==
  [][\A r \in Request : Leaves(r, "failed") => using[r] # conn \/ GaveUp(to[r])]_vars

\* Once the first hook is called the process comes to its end, even if no handler
\* ever returns, unless a gRPC server had no listener (grpc.go:44).
ShutdownEnds == at > 0 ~> (exited \/ \E s \in Server : serve[s] = "broken")
=============================================================================
