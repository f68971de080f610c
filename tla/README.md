# Verification of service-pkg

TLA+ specifications of `service-pkg`, a Go toolkit for the runtime of a service:
leader election over Redis, a kernel that starts and stops the process, a job
scheduler, a readiness barrier, storages, servers and database connections.
TLC checks the modules on small instances, TLAPS proves every safety property of
the passing runs for every value of the constants. `PROJECT.json` lists the runs, the mutants that show
each property can fail, and the source lines behind every definition.

    tlc -workers 2 -config MCWatchdogTimely.cfg MCWatchdog    # one run
    tlapm WatchdogLeader_proofs.tla                           # the proofs of one module

Paths below are relative to `src/`.

## 1. The system

### Parts, state, operations

| Part | State | Operations |
|---|---|---|
| Redis locker (`locker/redis_locker.go`) | one Redis key with a TTL; the value is the caller's uuid | `Lock`, `Unlock`, `ExtendLockTTL`, each an atomic script behind an `Eval` round trip |
| Watchdog (`watchdog/watchdog_leader.go`) | per process: `isLeader`, a ticker with jitter, the watcher channel, a context | `Elect` (one goroutine), `Stop` |
| Leader supervisors (`kernel/kernel.go:116-218`) | per supervisor: `Working`, `mu`, a context; the application's `Start`/`Stop` | `RegisterWatchdogsLeadership`, `StartWatchdogsLeadership`, the first half of `Kernel.Stop` |
| Kernel life cycle (`kernel/kernel.go`) | signal channel of capacity 1, context, linked list of hooks | `RunKernel`, `Start`, `Run`, `RegisterShutdown`, `RegisterRecovers`, `Stop` |
| Job scheduler (`scheduler/scheduler.go`) | `started`, the jobs with context, ticker and wait group, the rate channel | `Add`, `Start`, `Stop`, the goroutines of `run`/`exec` |
| Readiness barrier (`readiness_barrier/readiness_barrier.go`) | atomic `running` and `readinessFlag`, `runCancel`, the signals channel | `Start`, `Stop`, `SendSignalCtx`, `IsReady`, the listener |
| B-tree storage (`database/in_memory_storage/btree/`) | a map from keys to items with a timestamp, behind an RW lock | `Upsert(Many)`, `Delete(Many)`, `Reset`, `PurgeExpiredAt`, reads |
| Bitmap storage (`database/in_memory_storage/bitmap/`) | a set of keys behind an RW lock, its dump in Redis | `UpsertMany`, `RemoveMany`, `Clear`, `Warm`, `Replicate`, `Recover`, the background goroutine |
| Task supervisor, cron (`scheduler/`) | lists of things to start | start and stop them in a row |
| HTTP (chi, gorilla), gRPC and gateway servers (`server/`) | listener, serving goroutine, connections and running handlers; chi also the state of draining | constructor, `DrainMiddleware`, the shutdown function |
| ClickHouse connection (`database/clickhouse/`) | the current `sql.DB`, a mutex | `NewClickhouseConnection`, `Reconnect`, `GetDB`, `Shutdown` |
| PostgreSQL (`database/postgres`), Redis (`redis/`) clients | a client of a library | configure it |
| Helpers (`utils/`) | none | `GoRecover`, slice and context functions |

### How they interact

Each process runs an election goroutine per supervisor. The goroutines of all
processes share nothing but the Redis key. A goroutine tells its own kernel about
changes over the watcher channel; a goroutine of `StartWatchdogsLeadership` turns
them into calls of the application's `Start` and `Stop`, typically of a scheduler.
`Kernel.Stop`, which runs in the main goroutine, stops the same supervisors under
the same mutex and then runs the shutdown hooks (servers, schedulers, databases).
Signals, panics of the execution function and errors all end in `Kernel.Stop`, by
way of a channel of capacity one. Nearly every goroutine is started by `GoRecover`,
which does not run the function at all if its context is already done; several of
the behaviours below come from that line.

### What is hard

* Exclusion of leaders rests on time alone: no fencing, a TTL, a ticker, a client
  that retries. A request whose call gave up may be executed late.
* `select` has no order: a tick and a done context may both be ready.
* Callbacks are called from two goroutines; a mutex is held across them; a panic
  in them leaves it locked.
* `Start` and `Stop` of scheduler and barrier do their work in several steps after
  the flag is switched, so overlapping calls see half-made states.
* A shutdown function waits for requests against a deadline; what is still running
  afterwards meets the hooks behind it, which close what it uses.
* Channels of capacity one and eight, a rate channel, wait groups: lost, surplus
  or blocked entries show up only in particular orders.

`PROJECT.json` ("hazards") has one entry for each, with its line and the
properties that cover it, or the reason why none does.

## 2. Modules

```
RedisLocker --> WatchdogLeader --> WatchdogFeed --> MCWatchdog
                                        |   +--> WatchdogLeader_proofs
                                        |
                                        +-- implements --> LeaderFeed --> Leadership
Kernel      JobScheduler      ReadinessBarrier      BitmapStorage
ByteKeyBTree --> MCByteKeyBTree
Servers ----------------+
ClickhouseConnection ---+--> Service --> MCService
```

The theorems about `M` are in `M_proofs`, which extends `M`, for `Leadership`, `Kernel`,
`JobScheduler`, `ReadinessBarrier`, `BitmapStorage`, `ByteKeyBTree` and `Service`.

**RedisLocker.** The three scripts as actions on `owner` and `ttl`, with their result
as a parameter, and the round trip: `Begin`, `Execute` (perhaps repeatedly: a retry
after a lost reply), `Return`, `ReturnErr`. A call that gives up may leave its request
on the wire (`stray`), to be executed at any later time. `Expire` is one tick of the
PX clock. A node stands for its uuid.

**WatchdogLeader.** One action per step of `Elect`. `Spawn`/`SpawnCancelled` are
`GoRecover`'s look at the context; `SelectTick` and `SelectDone` the two cases;
`SelectTickCancelled` the tick case taken on a done context, where the client fails
without sending; `RenewalDone` and `UnlockDone` the return of a call together with the
assignment of `isLeader`; `Send`, `FinalSend` the channel. `Tick` is a common clock: it
runs down the TTL and the tickers, sets `ticker.C`, and measures in `age` how long a
due renewal has been waiting. `MaxBusy` bounds that age; everything about timing is
stated in terms of `MaxBusy` and `Expiration`. The branch in which a stopped watchdog
that does not lead turns in its loop changes nothing and is no step.

**LeaderFeed** is what the channel promises, with neither Redis nor time: each change
of leadership is announced before the next, only a done context may drop one, and the
channel is closed after the last. **WatchdogFeed** maps `pc` to `phase` and states that
`Elect` implements it.

**Leadership** puts the kernel's supervisors on top of `LeaderFeed` instead of the
full election, which the refinement justifies. `lpc` is the goroutine of
`StartWatchdogsLeadership`, `at`/`inStop` the walk of `Kernel.Stop`. A callback is an
interval between two actions; `active` is what the application does, `Working` what the
kernel believes.

**Kernel**: `main` is the goroutine of `RunKernel`, `waiter` the signal goroutine of
`Start`; `RegisterShutdown` can come from any goroutine. `registered` and `executed` are
history variables. Of the supervisors the module knows that `Kernel.Stop` passes them
(`StopSupervisors`) or, with `FaultySupervisor`, does not: it waits for ever for a mutex that
a panicking callback left locked or inside a callback that does not return, or it crashes
(`StopSupervisorsFails`). `Faulty` hooks may panic or not return.

**Servers**: `serve[s]` is the goroutine that serves, `stop[s]` the shutdown function, `state[s]`
`PreShutdownState.State`, `req[r]` a request from the connection to the answer. The four kinds
share the steps and differ in three places, each an action of its own: how the goroutine
starts (`RunChi`, `RunHTTPServer`, `StartGRPC`, `StartGateway`, and `NotStarted` where
`GoRecover` finds the kernel's context done), what happens when time runs out (`TimeoutHTTP`
leaves connections open, `TimeoutGRPC` and `TimeoutGateway` close them), and the draining, which
only chi has. `clock[s]` counts from the call of the shutdown function, because the code makes
the deadline before it drains. Time does not pass while the shutdown function has a step to
take: it is prompt, requests and handlers are not. A chi server without `PreShutdownState`
takes the steps of gorilla. A forced `Stop` or `Close` takes the connection from a handler, not the
goroutine: the request is `cut`, but its handler goes on (`Handling`), may still ask for the database
and ends at its own time.

**ClickhouseConnection**: handles are numbered in the order of `OpenDB`. `Reconnect` is four steps
(open and ping, give up, replace under the mutex, close the old handle), `Shutdown` two: it
reads `c.conn` without the mutex and closes what it has read.

**Service** composes both with the walk of `Kernel.Stop` along the hooks, servers first and the
database last, the order in which their priorities have to be chosen. Handlers call `GetDB`
and query later. `Exit` is the end of the process, which cuts what still runs.

**JobScheduler**: the k-th pass of `Start` over a job makes context k and goroutine k.
Each goroutine reads the newest context when it enters a `select` and keeps that one while it waits
there, as `run` and `exec` do. `Start` releases `s.mu`
before it visits the jobs, `Stop` holds it. `serial` is history: it stays true while no
call began during another one.

**ReadinessBarrier**: `Start` and `Stop` as the swap of `running` followed by their later
steps; senders that passed the check of `running` send later. `serial` is as in the scheduler;
`latest` is the last signal that was sent.

**ByteKeyBTree**: every operation is one critical section and one action, except
`PurgeExpiredAt`, which collects under the read lock (`PurgeCollect`) and deletes under the
write lock (`PurgeDelete`). Times are ticks, the tree holds whole seconds as the code does
(`Unix` rounds down). `wrote`, `fresh` and `balance` are history: the exact time of an item,
the keys written between the two sections, the sum of all results.

**BitmapStorage**: Replicate is bytes, then SET; Recover is GET, then Clear, then
ReadFromBuffer; Warm is a check, a callback, then UpsertMany. Each is a step that
interleaves with the writes, the background goroutine and other callers. Redis may be
unreachable, the dump may expire, a SET whose call gave up, or an earlier attempt of one that
succeeded, may arrive late (`stray`), ReadFromBuffer may fail after the Clear (`ReadFails`), and the
process may crash between any two steps. `orderly`, `synced`, `pristine` are history.

Definitions marked `mutant` are faulty variants used to show that a property has
something to say; no specification uses them.

## 3. What is checked

Distinct states are those TLC reports.

| Run | Instance | States | Checked |
|---|---|---|---|
| `watchdog_timely` | 2 nodes, Expiration 3, MaxBusy 1, both links may fail, both may be stopped | 739 k | `MutualExclusion`, `LeaseInv`, `OnlyOwnerReleases`, `FeedRefined` |
| `watchdog_live` | 2 nodes, Expiration 3, MaxBusy 2 (too slow on purpose), one link may fail, one node may be stopped | 207 k | `StaleLeaderStepsDown`, `LeaderEmerges` |
| `leadership` | one supervisor, channel of 2, Start may panic, the watchdog may be stopped separately | 4.5 k | `CallbacksPaired`, `SettledAgreement`, `LossStopsWork`, `ShutdownCompletes` |
| `kernel` | 3 hooks, 2 priorities, 2 signals, one hook and the supervisors may panic or not return | 28 k | `HooksInOrder`, `KernelEnds` |
| `scheduler` | 2 jobs, 2 callers, rate 1, 2 passes of Start | 444 k | `RateLimit`, `TokensAccounted`, `StopWaited`, `OneRunner` |
| `btree` | 3 keys, 2 purging goroutines, times 0, 1, 1.5 s, ttl 0 or half a second, limit none or 1 | 217 k | `ResultsAddUp`, `PurgeTakesOld`, `PurgeOverlooksNone` |
| `bitmap` | 2 keys, 2 workers and the background goroutine, restarts | 294 k | `DumpNeverEmpty`, `DumpCurrent`, `RecoverRestores`, `DumpCatchesUp` |
| `barrier` | 2 callers, 1 sender, channel of 1, 2 passes of Start | 113 k | `OneListener`, `StoppedNotReady`, `SignalsTakeEffect`, `StopReturns` |
| `service` | five pairs of servers, 2 requests, up to 2 goroutines that reconnect, 3 handles, timeout 2, draining 1 or 3 | 315 k | `HandlesAccounted`, `DrainHolds`, `GraceKept`, `QueryFailsLate`, `ShutdownEnds` |

Each of these also checks the module's `TypeOK` (not `watchdog_live`, which asks only
questions of liveness).

What they show:

* **Exclusion needs a timely renewal, and how timely.** With `Timely` (from a due tick
  to the return to the select takes less than half of the expiration) two processes
  never both lead, although links fail, replies are lost and late requests arrive. The
  bound is sharp: with Expiration 4 and MaxBusy 2 TLC finds two leaders. The
  configuration of `redis/` (dial 10 s, read 3 s, 5 retries, up to 2 s between them)
  allows a single call to take longer than half of the default expiration of 30 s, so in
  a bad network the assumption is the operator's to keep.
* **However slow they are**, nobody deletes another's key, a stale leader learns it,
  and a leader emerges when links stay up.
* **The channel is a faithful record of leadership** until the context is done.
* **Callbacks never overlap and are paired**; a supervisor that has caught up works
  exactly if its process leads; a loss stops the work unless a shutdown intervenes.
* **Hooks** run once each, by priority and then order of registration. A cancelled kernel
  comes to its end, by its last hook, a crash or a kill, on three conditions, which `KernelEnds`
  names. The callbacks of the supervisors come back: after a panic of `Start` the mutex stays
  locked and `Kernel.Stop` waits at `kernel.go:209` for ever. The hooks come back: one that
  registers a hook, for instance, waits for the lock its caller holds. And the recovery of a
  failing execution function is not `Blocked`, which takes two signals (see below). The model
  takes all three, so none of them is assumed away; the property says that nothing else
  keeps the kernel.
* **A shutdown is bounded, and how.** The shutdown function of a chi server takes at most the
  larger of draining and timeout, not their sum (`chi.go:188`): if draining is the longer one,
  `Shutdown` starts with an expired context and gives up at once when anything is open. Running
  requests do get that whole time before they are cut. While the server drains nothing enters
  a handler; but after a shutdown that gave up the state is no longer draining, and a
  connection left open gets its request into a handler while the next hooks run.
* **The process ends** even if no handler ever returns. The exception is a gRPC server whose
  port was in use: the error is only logged (`grpc.go:44`), `Serve(nil)` panics inside grpc-go
  while it holds the server's mutex, and neither `GracefulStop` nor `Stop` need return.
* **Handles of the database**: however Reconnects and Shutdown overlap, every open handle has an
  owner, with one exception in the code (`clickhouse.go:93` forgets the handle of an aborted
  attempt), and the current one is open until Shutdown. A Reconnect that overlaps Shutdown leaves
  its new handle open. A query can fail on a closed handle for two reasons only: a Reconnect since
  `GetDB`, or a server that gave up on the request before the database was closed.
* **Tokens** of the rate limit are neither lost nor duplicated, whatever calls overlap. `Stop` of
  scheduler and barrier leaves nothing behind, and the flag of the barrier follows the last
  signal, **if calls of `Start` and `Stop` do not overlap** (`serial`). `OneListener`,
  `StoppedNotReady`, `SignalsTakeEffect`, `StopReturns`, `StopWaited` and `OneRunner` all carry this
  condition. Overlapping calls are part of the models and break them: see
  below for the barrier, and in the scheduler a `Stop` between two jobs of a `Start`
  (`StopPanics`).
* **One purge** may take an item early by less than a second (both sides are rounded down),
  overlooks none that has reached its ttl as long as its limit lasts, and loses a fresh item exactly
  when it was written between the two critical sections (`PurgeTakesOld`, `PurgeOverlooksNone`).
  Nothing follows for many purges: with a limit, smaller keys that are written and expire again
  and again can keep a larger one waiting.
* **The dump** is never empty although Recover passes through an empty bitmap: the refusal
  of an empty bitmap (`bitmam_redis_replicator.go:39`) is what protects it. The price is that
  an emptied storage is never replicated, so Recover can bring old keys back. Overlapping
  Replicates may leave older bytes; the next tick repairs it (`DumpCatchesUp`). Recover after a
  restart brings back exactly the dump, unless a SET of the process before was still on its way:
  that one may change the dump under the Recover, and `RecoverRestores` excludes it.

### Disagreements between promise and code

Three runs state what the repository says and expect TLC to refute it.

* `watchdog_stop`: `README.md:5` promises a safe stop. A stopped watchdog that is not the
  leader never leaves its loop (`watchdog_leader.go:81`): it spins, and `close(watcher)` is
  not reached.
* `leadership_stopped`: after the log line "Supervisor %s has been stopped"
  (`kernel.go:216`) its work may be running or may start: the loop may hold an
  announcement it took before, or have cleared `Working` without calling `Stop`.
* `scheduler_stop`: "Stop … waits for their completion" (`scheduler.go:112`). If the parent
  context ends before a goroutine begins, `GoRecover` skips `run` and its `wg.Done`: `Stop`
  waits for ever.

Four more are in the models, each behind an exception that a property of a passing run names. Without
the exception TLC refutes the property.

* *Two listeners* (`serial` in the properties of the barrier): "we do not let it start a second time
  while it is started" (`readiness_barrier.go:44`), and `README.md:11` promises a safe life cycle. A
  `Stop` between the swap of `running` (line 45) and the publication of `runCancel` (lines 50-52)
  cancels nothing and waits for nobody; the interrupted `Start` then makes its listener, which may
  make the stopped barrier ready, and the next `Start` makes a second one.
* *A panic that is not recovered* (`Blocked` in `KernelEnds`): `README.md:8` lists the recovery of
  panics. After a first signal nobody receives from `kernel.sig` any more; a second one that
  comes before `signal.Stop` stays in it. If the execution function then panics, `RegisterRecovers`
  blocks at `kernel.go:237`, and `Kernel.Stop`, deferred behind it, never runs.
* *A purge of fresh keys* (`fresh` in `PurgeTakesOld`): keys "whose last write is older than now -
  ttl" are removed (`btree_bytes.go:305`). So is a key written between the two critical
  sections; and the rounding alone removes items early by less than a second.
* *ReadFromBuffer replaces* (`pristine` in `RecoverRestores`): `contract.go:31` says that it adds to
  the bitmap. Keys upserted between Recover's `Clear` and its `ReadFromBuffer` are lost.

### Bounds, and why they are enough

The safety properties do not rest on these bounds, since section 4 proves them without;
for these the instances only have to be large enough to show a mistake before a proof
is tried. For liveness the bounds are what there is.

* Two nodes: exclusion and the takeover of a key need a holder and a rival; a third
  node would be another rival with the same steps. The theorems hold for any set.
* Expiration 3 is the least for which the renewal interval is at least a tick; it is a
  clock with three ticks per lease. Expiration 5 with MaxBusy 2 (11.2 million states)
  was also explored without error; the theorems cover the rest.
* Channels of capacity 1 (8 and 4 in the code) are full after one entry, so blocking
  and dropping happen at once; `Leadership` has 2 so that announcements can queue.
* One supervisor: the goroutines of different supervisors share only `kernelDone` and
  the walk of `Kernel.Stop`, which visits them in order and each under its own mutex.
* Two passes of `Start` let an old goroutine meet a new context. Two callers let calls
  overlap. Rate 1 with two jobs makes the token scarce.
* Two signals: one that is received and one that stays. Three hooks over two
  priorities: an insertion before, between and after, with a tie.
* B-tree: seconds of two ticks make rounding visible; a limit of 1 among 3 keys makes the
  walk stop early; two purgers can collect the same key. Bitmap: two keys give four values,
  so that an older, a newer and an empty one differ; two workers let Recover meet Warm.
* Service: the five configurations have each kind of server with requests, draining below and
  above the timeout, two requests on one server and on two, a port in use for gRPC and for
  gorilla, and no, one or two goroutines that reconnect; three handles let two
  Reconnects overlap. Two servers: a request left behind by the first meets the hook of
  the second and of the database.
* `CHECK_DEADLOCK FALSE` in the kernel, leadership, scheduler, barrier and service runs, because
  the process, or the bounded number of starts, really ends. The watchdog runs check
  deadlock: time always passes.
* Symmetry is used in `watchdog_timely` (nodes) and `btree` (purgers), which have no
  liveness property.

### Fairness

* *Watchdog*: weak fairness of the clock, each goroutine, the execution of a request by a
  reachable Redis, and the reader. Strong fairness of the return of a call, because the
  client's retries are bounded however often the link flaps. Nothing for links or late
  requests: no link has to come back, which is why `LeaderEmerges` assumes that they do.
* *Leadership*: weak fairness of the loop, of callbacks returning and of a pending send;
  strong fairness of `Kernel.Stop` at a mutex, which `sync.Mutex` gives (a waiter is
  handed the lock after a millisecond).
* *Kernel*: weak fairness of both goroutines. A hook outside `Faulty` returns because its only step is
  to return; a faulty hook or supervisor that does not return is a step into a state with no way on.
* *Scheduler*: weak fairness of callers and goroutines; strong fairness of the done case of
  a `select` (Go picks among ready cases at random) and of leaving `exec`'s select.
* *Bitmap*: weak fairness of a call under way and of the background replication (a ticker
  that keeps firing); none for Redis, the application or late requests.
* *Barrier*: weak fairness of callers and listener, strong fairness of its done case.
* *Service*: weak fairness of the clock and of the main goroutine. None for handlers,
  connections, serving goroutines or Reconnects.

Nothing obliges a caller, a signal, a cancellation or a failure to happen.

## 4. What is proved

Every invariant, every action property and the refinement of a passing run is a theorem.
The proofs use nothing but the named assumptions on the constants, which TLC evaluates in
the runs. Each inductive invariant below was first checked by TLC on the instance of the
run.

| Module | Theorems (of `Spec`) | Constants |
|---|---|---|
| `WatchdogLeader_proofs` | `TypeCorrect`, `LeaseKept` and `Exclusion` (both under `Timely`), `OnlyOwnersRelease`, `FeedIsRefined` | any nodes, `Expiration >= 3`, any `MaxBusy`, `Cap > 0` |
| `Leadership_proofs` | `TypeCorrect`, `CallbacksArePaired`, `SettledSupervisorsAgree` | any number of supervisors, `Cap > 0`, any set that may panic or be stopped |
| `Kernel_proofs` | `TypeCorrect`, `HooksRunInOrder` | finitely many hooks, any natural priorities, signals, faulty hooks |
| `JobScheduler_proofs` | `TypeCorrect`, `TokensAreAccounted`, `RateIsLimited`, `StopHasWaited`, `OneRunnerPerJob` (the last two if calls do not overlap) | finitely many jobs, any callers, `Rate > 0`, any number of starts |
| `ReadinessBarrier_proofs` | `TypeCorrect`, `OneListenerAtATime`, `StoppedIsNotReady`, `SignalsDoTakeEffect` (the last three if calls of `Start` and `Stop` do not overlap) | any callers and senders, `Cap > 0`, any number of starts |
| `ByteKeyBTree_proofs` | `TypeCorrect`, `ResultsDoAddUp`, `PurgeTakesOnlyOld`, `PurgeOverlooksNoKey` | a finite set of keys, any times, ttls, limits and purgers, `PerSecond > 0` |
| `BitmapStorage_proofs` | `TypeCorrect`, `DumpIsNeverEmpty`, `DumpIsCurrent`, `RecoverBringsBackDump` | any keys and workers, with or without restarts |
| `Service_proofs` | `TypeCorrect`, `HandlesAreAccounted`, `DrainingHolds`, `GraceIsKept`, `QueriesFailLate` | any servers, requests, configurations and reconnecting goroutines, any order of the servers' hooks, the database behind them |

### The election

`MutualExclusion` is not inductive: nothing in it says that the leader's key will still
exist at the next renewal. The strengthening is `Lease`: whoever leads, or has a
successful `Lock` reply on the way, owns the key, and the key's remaining life exceeds
`NextRenewal`, the longest time until its next renewal is executed. That time has four
cases:

| The goroutine | `NextRenewal` |
|---|---|
| waits for its ticker | `timer + MaxBusy` |
| has a due tick that is not executed yet | `MaxBusy - age` |
| is executed, but the next tick is already due | `2*MaxBusy - age` |
| is executed, no tick due | `MaxBusy + max(timer, MaxBusy - age)` |

Each tick of the clock takes one from both sides; a renewal resets the left side to
`Expiration`, and `RenewalFits` shows that this is enough: the interval is at most
`13*Expiration/30`, less than half, and `2*MaxBusy < Expiration`. Other nodes cannot
touch the key (`EvalOther`): their `Lock` finds it present, their `Unlock` and `Extend`
compare the value. Own late requests can only hurt by an `Unlock`, and `Control` says
that one is on the wire only when the goroutine is on its way out. The module has one
lemma per effect of a script (`EvalType`, `EvalOther`, `EvalOwn`), a frame lemma for
nodes that do not move, and per action one step for each conjunct it can disturb.

`FeedIsRefined` needs no timing. It is a step simulation: the initial states map to
initial states, and each step to one of `LeaderFeed` or to a stutter (`FeedStutter`,
`GoroutineFeeds`). Its invariant adds to `Control` that an `Unlock` is only called with
the context done (`Resigning`), because `LeaderFeed` lets a leader resign for good only
then.

### The supervisors

`CallbacksPaired` speaks of `active`, the work itself, while the code decides by
`Working`; `WorkingInv` says how they are related at each point of the loop and of
`Kernel.Stop`, and `MutexInv` that the mutex is held exactly through a callback, so that
the two goroutines are never both in one. `SettledAgreement` only speaks of supervisors
with nothing to handle. The invariant has to say what the others *will* do: `Told` is the
last announcement in the channel, or the one being handled, or else the present work.
While the supervisor is followed, `Told` equals `isLeader` between two sends and differs
from it during one (`AgreementInv`).

### Kernel hooks

`RegisterShutdown` walks the list to the first hook of a larger priority. `RegisterIndex`
finds what that insertion does (the first position whose priority is larger, by the least
element of a set of positions), `InsertProperties` where each element of the new list comes
from. On these rest `KnownInv` (list and executed hooks are registered ones, as many as
there are, and names are unique) and `OrderInv` (both lists are sorted, and what ran is
before what waits). The last one is where the late registrations come in: a hook may be
registered after the list was run, and then it need not fit behind the executed ones.

### Scheduler and barrier

Two invariants each. The first holds for any overlap of calls: a wait group counts exactly
the goroutines that still have to call `Done` (in the scheduler also those that `GoRecover`
skipped and that never will), and a number of a context that was not yet made has no
goroutine. With the token count it gives the rate limit. The second, `SerialInv`, holds as
long as calls do not overlap: what each point of a `Start` or `Stop` has left behind. Here
the wait group is what carries the argument, since `Stop` only sees a counter of zero; that
this means no goroutine is the first invariant (`WaitedFor`).

`SignalsTakeEffect` of the barrier speaks of the last signal when none is under way. Its invariant
follows that signal on its way: while the channel is not empty, the last one in it is `latest`
(`LastInv`); when it is empty, `latest` is in the hands of the one listener, or the flag shows it, or a
`Stop` is about to take both back (`EffectInv`). One listener (`OneListener`) is what makes this true:
two could apply their signals in either order.

### Storages

B-tree: `DoomedInv` is what a purge may still rely on between its two sections, with the
keys written meanwhile (`fresh`) excepted; it is made by the ascent (`AscendLimits`: the
limit smallest old keys, or all of them), kept by every write and used by the deletion.
`UnixOrder` bounds the error of rounding to seconds. `ResultsAddUp` goes by cardinalities.

Bitmap: types need that a goroutine between two steps of Replicate or Recover holds bytes
(`HoldsBytes`); then `DumpNeverEmpty` is inductive, since it covers the dump, the wire and the
goroutines. `DumpCurrent` needs `WriterCurrent`: one writer at a time, which carries the
present bitmap. `RecoverRestores` compares bitmap and dump; between them are goroutines that
hold bytes and the wire, so the invariant is `OneSet`: as long as the application has written
nothing since the start of the process, one set of keys (or nothing) is in all four places.

### The service

`HandlesInv` tells the handles of the connection apart: the current one, those held by
Reconnects and the forgotten ones differ, and Shutdown has read one that was current.
`StopInv` relates `stop`, `state` and `clock`; `RequestInv` says that handlers run only on
a server that serves and that one which finished early has no request left; `WalkInv`, that
the hooks before the current one are done and those behind it not begun. The action properties
follow: `QueriesFailLate` from the walk, because the database is only closed when every server
is done, and a request still handled then belongs to one that used up its time. For handlers whose connection
was cut this is `CutInv`: their server has used up its deadline, and that stays so (`GaveUpStays`).
`GraceIsKept` is the step in which they are cut (`CutAtGrace`).

### What stays with TLC

Liveness: `StaleLeaderStepsDown`, `LeaderEmerges`, `LossStopsWork`, `ShutdownCompletes`,
`KernelEnds`, `DumpCatchesUp`, `StopReturns` of the barrier and `ShutdownEnds`. They need fairness and
`ENABLED`, which this prover does not handle. The three disagreements are counterexamples of
TLC. The refinement is proved for the safety part, which is what `LeaderFeed` states.

## 5. What is left out

* **Time skew** between the processes' clocks and Redis: one clock. A skew would enter
  like a larger `MaxBusy`.
* **Loss of the Redis data** (a restart without persistence, a failover): the lock is
  lost and `MutualExclusion` with it; the code has no answer to it.
* **Start may panic, Stop does not** in `Leadership`; the effect of a panicking `Stop` is the
  same locked mutex.
* **Stop modes of jobs**: both give the function a context with the job's deadline; the
  model has a function that returns.
* **Inside the libraries**: what `Shutdown`, `GracefulStop`, `sql.DB.Close` do is modelled from how the
  code uses them. The forced `Stop` and `Close` after a deadline are assumed to return (grpc-go may
  wait for handlers there, depending on its version), except on a server that panicked while it
  began to serve. An accept error of a running server, and the way of a gateway request on to a
  gRPC server, are left out.
* Logging, configuration, routing, other middlewares, Swagger, key prefixes, the tables of
  `NeedReconnect` and `NeedWait`: no state, no property sees them.
* Cron, PostgreSQL, the Redis client: thin layers over libraries, no state of their own. The task
  supervisor calls its schedulers in a row. `SortedDifference` and `Distinct` are pure.

## 6. Plan

Every part with state of its own is modelled, and every safety property that a run checks is
proved. What could still be added:

1. The composition of `Leadership` with `JobScheduler`: how long the jobs of a former leader may go
   on after another process leads.
2. The converse of the timing condition as a statement of its own: that `Timely` is not only
   sufficient but, with Expiration 4 and MaxBusy 2, also needed.
3. The two hazards without a property: the order of `Unlock` and announcement
   (`watchdog_leader.go:83`), which belongs to item 1, and `Warm`, which needs a model of the source it
   reads from.
