------------------------- MODULE ClickhouseConnection -------------------------
(***************************************************************************)
(* database/clickhouse/clickhouse.go: a Connection whose handle (a sql.DB) *)
(* Reconnect replaces, used through GetDB by whoever asks, closed by the   *)
(* function Shutdown returns.  Handles are numbered in the order of OpenDB. *)
(***************************************************************************)
EXTENDS Naturals

CONSTANTS Worker,      \* goroutines that call Reconnect
          MaxHandles   \* bound: handles opened

ASSUME ClickhouseAssumption == MaxHandles \in Nat \ {0}

VARIABLES conn,    \* c.conn
          made,    \* number of handles made so far
          open,    \* the handles that are not closed
          leaked,  \* handles nobody refers to any more
          rpc,     \* rpc[w]: where Reconnect of w is
          mine,    \* mine[w]: the handle w is to install, then the one to close
          dbStop,  \* where the shutdown function is
          last     \* the handle it has read from c.conn

dbVars == <<conn, made, open, leaked, rpc, mine, dbStop, last>>

Handle == 1..MaxHandles

DbTypeOK ==
  /\ conn \in Handle /\ made \in Handle
  /\ open \subseteq 1..made /\ leaked \subseteq open
  /\ rpc \in [Worker -> {"idle", "ping", "close"}]
  /\ mine \in [Worker -> 0..MaxHandles]
  /\ dbStop \in {"none", "close", "done"}
  /\ last \in 0..MaxHandles

\* NewClickhouseConnection has returned a Connection.
DbInit ==
  /\ conn = 1 /\ made = 1 /\ open = {1} /\ leaked = {}
  /\ rpc = [w \in Worker |-> "idle"] /\ mine = [w \in Worker |-> 0]
  /\ dbStop = "none" /\ last = 0

\* NewClickhouseConnection up to the ping.
OpenDB(w) ==
  /\ rpc[w] = "idle" /\ made < MaxHandles
  /\ made' = made + 1
  /\ open' = open \cup {made'}
  /\ mine' = [mine EXCEPT ![w] = made']
  /\ rpc' = [rpc EXCEPT ![w] = "ping"]
  /\ UNCHANGED <<conn, leaked, dbStop, last>>

\* The ping fails and the context ends during the pause: the error is returned,
\* the handle is not closed.
PingAborted(w) ==
  /\ rpc[w] = "ping"
  /\ leaked' = leaked \cup {mine[w]}
  /\ rpc' = [rpc EXCEPT ![w] = "idle"]
  /\ mine' = [mine EXCEPT ![w] = 0]
  /\ UNCHANGED <<conn, made, open, dbStop, last>>

\* The ping succeeds, or fails and the pause passes; the handle is replaced
\* under c.mu.
Swap(w) ==
  /\ rpc[w] = "ping"
  /\ conn' = mine[w]
  /\ mine' = [mine EXCEPT ![w] = conn]
  /\ rpc' = [rpc EXCEPT ![w] = "close"]
  /\ UNCHANGED <<made, open, leaked, dbStop, last>>

\* mutant: the current handle is closed
CloseCurrent(w) ==
  /\ rpc[w] = "close"
  /\ open' = open \ {conn}
  /\ rpc' = [rpc EXCEPT ![w] = "idle"]
  /\ mine' = [mine EXCEPT ![w] = 0]
  /\ UNCHANGED <<conn, made, leaked, dbStop, last>>

\* old.Close(), which does not wait for those who use the handle.
CloseOld(w) ==
  /\ rpc[w] = "close"
  /\ open' = open \ {mine[w]}
  /\ rpc' = [rpc EXCEPT ![w] = "idle"]
  /\ mine' = [mine EXCEPT ![w] = 0]
  /\ UNCHANGED <<conn, made, leaked, dbStop, last>>

Reconnect(w) == OpenDB(w) \/ PingAborted(w) \/ Swap(w) \/ CloseOld(w)

\* disconnectFromDB reads c.conn without c.mu, ...
ShutdownRead ==
  /\ dbStop = "none" /\ dbStop' = "close"
  /\ last' = conn
  /\ UNCHANGED <<conn, made, open, leaked, rpc, mine>>

\* ... and closes what it has read.
ShutdownClose ==
  /\ dbStop = "close" /\ dbStop' = "done"
  /\ open' = open \ {last}
  /\ UNCHANGED <<conn, made, leaked, rpc, mine, last>>
=============================================================================
