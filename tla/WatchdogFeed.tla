----------------------------- MODULE WatchdogFeed -----------------------------
(* Elect implements LeaderFeed: Redis, the clock and the calls are hidden. *)
EXTENDS WatchdogLeader

Phase(n) ==
  CASE pc[n] = "send" -> "announce"
    [] pc[n] = "finalSend" -> "farewell"
    [] pc[n] = "returned" -> "ended"
    [] OTHER -> "idle"

Feed == INSTANCE LeaderFeed WITH phase <- [n \in Node |-> Phase(n)]

\* Every behaviour of the election is a behaviour of LeaderFeed: each change of
\* leadership (watchdog_leader.go:74, :84, :91, :99) is sent before another one
\* can happen, and only a done context lets send (line 64) leave one out.
FeedRefined == Feed!FeedSpec
=============================================================================
