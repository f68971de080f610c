------------------------------ MODULE RedisLocker ------------------------------
(***************************************************************************)
(* locker/redis_locker.go: the election lock, one Redis key with a TTL,    *)
(* driven by three scripts that Redis executes atomically.  Each election  *)
(* goroutine has its own lock value (a uuid), so the model writes the node *)
(* itself where Redis stores the value.                                    *)
(*                                                                         *)
(* A call of Lock, Unlock or ExtendLockTTL is an Eval round trip: request, *)
(* execution, reply.  The link may drop between any two of these: the      *)
(* reply is lost (the client retries, or gives up with an error), and a    *)
(* request whose call gave up may still be executed later.                 *)
(***************************************************************************)
EXTENDS Naturals

CONSTANTS Node,        \* the election goroutines, one per process
          NoNode,      \* the key does not exist
          Expiration,  \* Config.Expiration, in ticks of the model's clock
          Lossy        \* bound: the nodes whose link to Redis may fail

ASSUME LockerAssumption ==
  /\ NoNode \notin Node
  /\ Expiration \in Nat \ {0}
  /\ Lossy \subseteq Node

VARIABLES owner,   \* Redis: whose value the key holds
          ttl,     \* Redis: ticks until the key expires, 0 when it is absent
          link,    \* link[n]: node n reaches Redis
          call,    \* call[n]: the script of the Eval call n waits for
          reply,   \* reply[n]: its result on the way back
          stray    \* stray[n]: a request n gave up on, still travelling

lockerVars == <<owner, ttl, link, call, reply, stray>>

Op == {"lock", "unlock", "extend"}

LockerTypeOK ==
  /\ owner \in Node \cup {NoNode}
  /\ ttl \in 0..Expiration
  /\ (owner = NoNode) <=> (ttl = 0)
  /\ link \in [Node -> BOOLEAN]
  /\ call \in [Node -> Op \cup {"none"}]
  /\ reply \in [Node -> {"none", "ok", "no"}]
  /\ stray \in [Node -> Op \cup {"none"}]

LockerInit ==
  /\ owner = NoNode
  /\ ttl = 0
  /\ link = [n \in Node |-> TRUE]
  /\ call = [n \in Node |-> "none"]
  /\ reply = [n \in Node |-> "none"]
  /\ stray = [n \in Node |-> "none"]

-----------------------------------------------------------------------------
(* The scripts, with the result the caller sees as their last argument.    *)

\* SET key value NX PX ttl
lockScript(n, r) ==
  \/ owner = NoNode /\ owner' = n /\ ttl' = Expiration /\ r = "ok"
  \/ owner # NoNode /\ UNCHANGED <<owner, ttl>> /\ r = "no"

\* mutant: DEL without comparing the value
unlockAnyScript(n, r) ==
  /\ owner' = NoNode /\ ttl' = 0
  /\ r = IF owner # NoNode THEN "ok" ELSE "no"

\* if GET key == value then DEL key
unlockScript(n, r) ==
  \/ owner = n /\ owner' = NoNode /\ ttl' = 0 /\ r = "ok"
  \/ owner # n /\ UNCHANGED <<owner, ttl>> /\ r = "no"

\* mutant: PEXPIRE without comparing the value
extendAnyScript(n, r) ==
  \/ owner # NoNode /\ ttl' = Expiration /\ UNCHANGED owner /\ r = "ok"
  \/ owner = NoNode /\ UNCHANGED <<owner, ttl>> /\ r = "no"

\* if GET key == value then PEXPIRE key ttl
extendTTLScript(n, r) ==
  \/ owner = n /\ ttl' = Expiration /\ UNCHANGED owner /\ r = "ok"
  \/ owner # n /\ UNCHANGED <<owner, ttl>> /\ r = "no"

Eval(op, n, r) ==
  \/ op = "lock"   /\ lockScript(n, r)
  \/ op = "unlock" /\ unlockScript(n, r)
  \/ op = "extend" /\ extendTTLScript(n, r)

-----------------------------------------------------------------------------
(* The round trip. *)

\* Redis executes the request of n's pending call.  After a lost reply the
\* client retries, so one call may be executed more than once.
Execute(n) ==
  /\ call[n] # "none" /\ reply[n] = "none" /\ link[n]
  /\ \E r \in {"ok", "no"} :
       Eval(call[n], n, r) /\ reply' = [reply EXCEPT ![n] = r]
  /\ UNCHANGED <<link, call, stray>>

\* The request of a call that already returned an error is executed late.
ExecuteStray(n) ==
  /\ stray[n] # "none"
  /\ \E r \in {"ok", "no"} : Eval(stray[n], n, r)
  /\ stray' = [stray EXCEPT ![n] = "none"]
  /\ UNCHANGED <<link, call, reply>>

\* n loses Redis; a reply on its way is lost with the connection.
LinkDown(n) ==
  /\ n \in Lossy /\ link[n]
  /\ link' = [link EXCEPT ![n] = FALSE]
  /\ reply' = [reply EXCEPT ![n] = "none"]
  /\ UNCHANGED <<owner, ttl, call, stray>>

LinkUp(n) ==
  /\ ~link[n]
  /\ link' = [link EXCEPT ![n] = TRUE]
  /\ UNCHANGED <<owner, ttl, call, reply, stray>>

\* The caller's side: n starts a call, and gets its result back.
Begin(n, op) == call' = [call EXCEPT ![n] = op] /\ UNCHANGED <<reply, stray>>

Return(n, r) ==
  /\ call[n] # "none" /\ reply[n] = r /\ r # "none"
  /\ call' = [call EXCEPT ![n] = "none"]
  /\ reply' = [reply EXCEPT ![n] = "none"]
  /\ UNCHANGED stray

\* The call gives up with an error, its request possibly still on the wire.
ReturnErr(n) ==
  /\ call[n] # "none" /\ reply[n] = "none"
  /\ stray' \in {stray, [stray EXCEPT ![n] = call[n]]}
  /\ call' = [call EXCEPT ![n] = "none"]
  /\ UNCHANGED reply

\* mutant: the value stays when the time is over
ExpireKeepsValue == ttl' = (IF ttl > 0 THEN ttl - 1 ELSE 0) /\ UNCHANGED owner

\* One tick of time for the key: PX counts down, at zero the key is gone.
Expire ==
  /\ ttl' = IF ttl > 0 THEN ttl - 1 ELSE 0
  /\ owner' = IF ttl > 1 THEN owner ELSE NoNode

=============================================================================
