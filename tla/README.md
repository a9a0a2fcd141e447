# rlock: a verification project

TLA+ models of [rlock](../src/README.md), a distributed lock over Redis written in
Rust: the Lua scripts, the client-side lease, the renewal and release of guards, the
Tokio and the std::thread manager with their release queues and shutdown, the connection
pool, the options and the public methods. TLC checks the models on small
instances; TLAPS proves the theorems for every value of the constants. Paths below are
relative to the repository; `guard.rs` and `manager.rs` without a directory are those of
`src/src/async_lock/`.

## The system

| Part | Code | State | Operations | Correct when |
|---|---|---|---|---|
| Lua scripts, keyspace | `scripts.rs` | per key: a string (mutex owner) or a sorted set (readers with positive, writers with negated expiry as score), and the key's expiry | acquire, renew, release for a mutex, a reader, a writer | owners that conflict never hold the same key; a release or renewal touches its own owner only; several keys all or none |
| Targets, dispatch | `lock_request.rs`, `*/operations.rs` | none | choose the script; `SET NX PX` for one mutex key | as the scripts |
| Lease | `lease.rs` | Active, Lost or Released; start and TTL; a watch channel | new, state, remaining, renew, lose, release, wait_until_inactive | Active is conservative: it ends before Redis lets go; never Active again; a wait for its end misses nothing and ends |
| Async guard | `async_lock/guard.rs` | lease, stop channel, sender of the release queue | renewal task, release, drop | the lease ends before a release is sent; renewal wakes in time |
| Async acquisition | `async_lock/guard.rs` | result channel, `accepted` handshake | `acquire_internal`, `supervise_acquisition` | a lock is always in somebody's hands, whoever leaves, and never released under a caller who has it |
| Async manager | `async_lock/manager.rs` | admission, `ShutdownState`, release queue, worker, watcher, coordinator | admit, queue, shutdown | shutdown ends, with one verdict, after the releases queued before it |
| Sync guard, worker | `sync_lock/guard.rs` | as async, with threads and an atomic `canceled` | as async | as async |
| Sync manager | `sync_lock/manager.rs` | `release_tx`, `is_shutdown`, result and condition variables | admit, shutdown, wait_retry, cancel | as async; no lost wake-up |
| Connection pool | `sync_lock/pool.rs` | idle connections | checkout, run, checkin | at most the limit idle; a failed connection never comes back |
| Options, keys | `options.rs`, `lock_keys.rs` | none | build, validate | the ranges the rest relies on |
| Public types | `*/lock.rs`, `*/rw_lock.rs`, `*/multi_key_*.rs` | none | 48 methods that forward to `acquire_internal` | each asks for the lock, TTL and number of attempts its name, arguments and guard type promise |
| Errors, key names | `errors.rs`, `functions.rs` | none | text | no behaviour |

An acquisition sends a script, over and over, until one succeeds; its guard then owns a
lease. A renewal task sends renewals and moves the lease on. The guard releases by a
command of its own, or, when dropped, by the manager's queue. All parts meet in Redis, where
commands of the same client may arrive late, in another order, or never.

What makes it hard: a reply that comes after its deadline; a command that is executed after
its sender gave up; two clocks of different resolution; readers of different TTLs in one key;
several keys; callers that leave while a guard is on its way to them; a bounded queue that is
full; a worker that fails while shutdown waits for it. `PROJECT.json` lists these as hazards,
each at its line, with the properties that cover it.

## Modules

| Module | What it is |
|---|---|
| `RedisStore` | the keyspace and every script as one atomic operator |
| `LeaseProtocol` | EXTENDS `RedisStore`: acquisition loop, lease, renewal task, guard, and the commands between them |
| `MCLeaseProtocol` | instances of it |
| `RedisStoreProofs` | lemmas about the scripts: what one execution does to one key |
| `LeaseProtocolProofs` | its inductive invariant, refinement and theorems |
| `AbstractLease` | what the crate promises without Redis, commands or time |
| `LeaseRefinement` | the mapping under which `LeaseProtocol` implements it |
| `LeaseWatch`, `MCLeaseWatch`, `LeaseWatchProofs` | waiting for the end of a lease: the watch channel and `wait_until_inactive` |
| `AsyncManager`, `MCAsyncManager`, `AsyncManagerProofs` | the Tokio manager, its acquisitions and guards, the release queue and shutdown |
| `SyncManager` | the std::thread manager: admission, release thread, shutdown, retry waits |
| `SyncAcquire`, `MCSyncAcquire`, `SyncAcquireProofs` | EXTENDS it with the acquisitions, worker threads and guards that use it |
| `ConnectionPool`, `MCConnectionPool` | the sync pool and what travels on its connections |
| `ConnectionPoolProofs` | its inductive invariant and theorems |
| `LockApi`, `MCLockApi`, `LockApiProofs` | EXTENDS `RedisStore`: what the public methods ask for, and their guards |
| `AcquireOptions` | the builder, its checks, the effective TTL and interval |
| `LockKeys` | validation of lists of keys |
| `MCArguments` | both, as the arguments of one acquisition |
| `ArgumentsProofs` | each lets through what fits, and only that |

Operators introduced by a comment `Mistake:` are plausible bugs of the definition that
follows. No action uses them; they stand for it when a property's power is tested.

### RedisStore

A script is atomic, so it is an operator on `db`, with its reply. A key is a record: `str`
(the mutex owner), `zset` (holders with their scores), `pexpire`. The loops over `KEYS`
become sets of keys: `lost`, `taken` or `blocked` are the keys at which a script would stop,
`Reached` the ones it has come to by then, which matters where the first loop of a
read-write script has purged them already. `RwPreflight` is the type and range preflight of
`scripts.rs:23-44`. The reply `err` stands for a script error (WRONGTYPE, range); only
read-write scripts and the mutex renewal, whose `GET` fails on a sorted set, can give it.

Time is counted in ticks, `Ms` of them to a millisecond. `now` is Redis' clock, a whole
millisecond. Redis drops a key strictly after its expiry, while the scripts purge a holder
at its expiry. `MaxExact` stands for 2^53 - 1.

### LeaseProtocol

| State | Code |
|---|---|
| `clock` | `Instant`; `now` is `clock` rounded down to a millisecond |
| `net` | commands sent and not yet executed |
| `sup`, `attempt` | position and `attempt_start` in `supervise_acquisition` / `acquire_loop` |
| `lease` | `LeaseData` without `ttl`, which is the same at every renewal |
| `ren`, `renTime` | position of the renewal task; when it wakes, or `start` of the renewal on its way |
| `guard` | position of the guard: offered in the result channel, held, releasing, gone |

A command in `net` is executed at any later time, in any order, or never; its reply reaches
the client or not (`ServeAcquire`, `ServeRenew`, `ServeRelease`). An error may come at any
time, executed or not (`AcquireFailed`, `RenewFailed`, `ReleaseFailed`). A crash is a client
that takes no more steps. The lease turns Lost in `Tick`, when its deadline comes: every
reader of a lease calls `refresh` first, so no step can tell the difference. Instants nobody
reads any more are set to 0, which only joins states that behave alike. The retry timer may
fire at any time, and deadlines, shutdown and cancellation are choices of the steps where the
code looks at them; `AsyncManager` has their exact conditions.

Sync and async clients share this module. They differ in what they do after an error:
`AcquireFailed` allows both, cleaning up or not.

### AsyncManager

Here Redis is one lock that may lapse at any time, and the subject is who is responsible
for it. `caller` runs `acquire_internal` and then owns the guard; `sup` runs
`supervise_acquisition`; `result` is the oneshot channel between them with the `accepted`
handshake; `queue`, `worker` and `coord` are the release channel, its worker and the task
that sends the shutdown barrier; `shut` are calls of `shutdown`. A section under the admission
mutex is one action. Two reads without it are two: `CheckGuard` and `AcceptGuard`, between
which shutdown may begin.

The bounded Tokio channel is external: `try_send` succeeds when there is a receiver and a free
slot; a waiting `send` is given the next slot freed, ahead of `try_send`; the receiver drops
what it holds when it goes; a slot may be filled after the receiver has gone (`PushBarrier`),
in which case only the watcher can end shutdown. A failed command has been applied when it
fails, or never is: late execution is `LeaseProtocol`'s. `fallback` records the owners for which the
code logs that only the TTL is left; `owed` is a history variable, the releases in the queue
when shutdown sealed it.

### AbstractLease and LeaseRefinement

An owner's lease is `none`, `held`, in `doubt` or `over`. `Grant` needs that no owner it excludes holds;
`Weaken` lets any leases grow doubtful or end. The mapping: a lease is held while it is `Honoured`,
in doubt when the client still calls it Active but Redis' clock may have reached its end (see the
disagreement below), over when Lost or Released.

### LeaseWatch

`LeaseProtocol` has the lease turn Lost by itself; here nobody knows before somebody looks.
`Refresh` is the first thing every operation does under the mutex, `version` counts the sends on
the watch channel, `seen` is what a receiver has looked at. A wait is four steps, as in the code: subscribe, look at
the state, read what remains and sleep, wake by a change or by the timer. `Lease::release` is two, for it
sends after unlocking. `Cap` is the longest single sleep.

### SyncManager and SyncAcquire

As in `AsyncManager`, Redis is one lock that may lapse, and the question is in whose hands it is. What
differs is the machinery. `coord` is the call of shutdown that took the sender and sends the
barrier itself, blocking; the others sleep on `shutdown_done` until `TellResult`. `wait` is a
thread's way through `wait_retry`: it locks `retry_lock`, checks the two flags, and `RetryEnter` gives the lock back and
sleeps in one step, as a condition variable does. Cancellation and shutdown set their flag first and take the lock
to notify. `sealed` is both `release_tx = None` and `is_shutdown`, which change together under a lock that
readers of `is_shutdown` do not take.

In `SyncAcquire`, `caller` runs `acquire_internal`, `work` the loop and the hand-over, `chan` the
result channel with `accepted`. An acquisition without a timeout has no worker thread: its caller
runs the same loop and takes the result directly (`ReturnInline`). A guard whose renewal thread cannot be spawned
is dropped (`SpawnFails`).

### ConnectionPool

A connection is the sequence of commands whose replies have not been read, with a count of the replies that have
arrived; a thread reads the first one, whoever sent the command. `IoFails` is a timeout, which leaves the
reply on its way, or a closed connection, which alone is noticed by `is_open`. `idle` is the stack behind the mutex;
`PopNone` and `Connect` are apart because the mutex is not held while connecting.

### LockApi

Twelve tables give each of the 48 methods its target, options, `once` and guard type as the code
has them. An owner is a call: its API, method and number. `ApiAssumption` gives the constants of `RedisStore`
the values that follow from the tables (`ApiOwners`, `ApiRole`, `ApiKeySeq`, `ApiTtl`), and so does the cfg. A call, its guard and the guard's renewals run over `RedisStore` with a command and its reply in one step;
a renewal may come an instant too late. The properties are stated from
what the guard types and method names say, never from the tables.

### AcquireOptions and LockKeys

Durations are counted in fractions of a millisecond, `PerMs` of them. Setters may be called in any order
and number; `Build` answers by the first check that fails; `UseDefault` is `AcquireOptions::new`,
which no check sees. `AsU64` wraps at `Word`. `LockKeys` is the loop of `validate`, called by
`LockKeys::new` or by an acquisition, of a debug build (which panics) or a release build (which does not look).

## Runs

| Run | Instance | Shows |
|---|---|---|
| `mutex_lease` | one-key mutex with renewal, two-key mutex; 6 ticks | exclusion up to the client's own deadline, renewal in time, no key taken from another owner |
| `rw_lease` | two readers of different TTLs, a writer; 5 ticks | leases backed by Redis, keys that outlive their holders |
| `multi_rw_lease` | two-key writer with renewal, reader of one of its keys; 7 ticks, exact range 9 | all or nothing, final release, the range check, and `AbstractSpec`, the refinement |
| `rw_conservative` | as `multi_rw_lease`, exact range out of reach | a violation, see below |
| `manager_safety` | two acquisitions, two shutdown calls, one slot | no lock left to nobody, none released under its holder, what shutdown promises, one verdict |
| `shutdown_ends` | an acquisition and a shutdown call, and one more of either; one slot | shutdown and waiting callers end although Redis may never answer an acquisition; supervisors and worker end if it does |
| `sync_safety` | two acquisitions, one with a deadline and one `try_`; two shutdown calls, one slot | no lock left to nobody, none released under its holder, the barrier, one verdict and nobody left asleep, no panic, a thread for every release, no lost wake-up |
| `sync_ends` | two acquisitions, one with a deadline and both retrying; one shutdown call | deadlines and retry waits end although Redis may never answer; shutdown, loops, worker threads and the release thread end if it does |
| `pool` | three threads with two commands each, three connections, two idle | own replies only, no reuse after a failure |
| `lock_api` | any of 24 blocking methods and any of 24 async ones, on overlapping keys; two attempts each | every method gives the exclusion, TTL and number of attempts it promises |
| `lease_watch` | two waits, one renewal, a TTL longer than one sleep, five ticks | no change is missed though no timer fires; with timers no sleep outlasts the lease; what is told is final |
| `arguments` | all lists of up to four of three keys; durations at and beside every limit, any sequence of setters | duplicates and empty lists are found, and only they; built and default options fit, and nothing else is refused |

Readers that renew and a mutex that meets a read-write lock on its key occur in `lock_api`, where every
target meets every other; under late and lost commands they are covered by the theorems, which hold for all roles.

*Bounds.* A millisecond is two ticks, so that a client acts both at the beginning and inside
a millisecond of Redis: the smallest resolution at which the two clocks differ. TTLs are one or two
milliseconds, and `MaxClock` allows a lease to be taken, renewed or lost, to expire, and another
owner to follow. `MaxExact = 9` lies inside the expiries of that run, elsewhere beyond them.
Two owners suffice for every conflict; `rw_lease` has the third for a mix of readers and a
writer. The number of attempts, renewals and releases is bounded by time only. In
`AsyncManager` nothing is bounded but the constants; `Buffer = 1` is a queue that a single dropped
guard fills; so it is in `SyncAcquire`. `pool` opens three connections for two idle places, so that one is
returned to a full pool. In `lock_api` time and attempts allow one lock to expire under a
retrying call; its default and given TTLs differ, so that a method that swaps them is seen, and a renewed lease
outlasts the one it renews. In `lease_watch` the clock runs past a renewed lease. In `arguments` u64 wraps just above the
limit on the TTL, and options are built after one list of keys only, for neither looks at the other. The
liveness runs are smaller than the safety runs. `shutdown_ends` has a second acquisition or a second call of shutdown,
not both (`Second`, which bars no fair step). `sync_ends` has one call; that a second one, which only waits for the
first, is woken is part of `OneVerdict` in `sync_safety`. `manager_safety`,
`sync_safety` and `pool` use symmetry, the liveness runs do not. In every instance
the system may stop (time ends, everybody is done), so deadlock is not checked.

*The disagreement.* `lease.rs:9` says that Active is "within its last confirmed, conservative
deadline". For a mutex it is: `mutex_lease` checks `ActiveIsBacked`. A read-write lease is
dated by Redis' clock rounded down (`scripts.rs:25`), and its holder is purged at
that expiry, so Redis may let go up to a millisecond before a client that took it late in a
millisecond: `rw_conservative` finds it. `LeaseBacked` and `Exclusion` are therefore stated with a margin,
`Grace`: none for a mutex, less than a millisecond for a reader or writer.

## Fairness

`LeaseProtocol` has none: everything it states is safety, and Redis and network owe nothing.
The code promises no progress of an acquisition (README: readers can starve a writer).

`AsyncManager!FairSpec` assumes that the runtime polls tasks that can run: the worker, its
watcher, the coordinator, callers of shutdown, and callers of acquire that shutdown has woken. The worker's
step includes the answer to its release command; the connection manager has a response
timeout, so there always is one. `SupervisorsEnd` and `WorkerFinishes` have a premise of their own, `Answers`: the
same for acquisition commands, and that supervisors and callers with a guard in hand take their next step. Nothing is
assumed of deadlines, of retry timers, or of the owner of a guard.

`SyncAcquire!FairSpec` assumes that threads run, that `recv_timeout` returns after its timeout, and that a
mutex which others take again and again is given to a waiting thread in the end: strong fairness for
the steps that lock `retry_lock` and for the blocking send, whose place others may take first. The
retry timer is not trusted, since `retry_interval` may be of any length. `DeadlineEnds` and `WaitsEnd` need no more;
the other properties have the premise `Answers`: Redis answers or the
connection's timeout ends a command, that callers go on with what they have received, and that the release
thread runs. An owner may keep its guard for ever.

`LeaseWatch!FairSpec` assumes polling and that a call of `Lease::release` completes, not that timers fire:
a change of the lease alone wakes its waiters. `WaitEnds` has the premise `Timers`: time passes and timers fire.

## Proofs

Every safety property that a passing run checks is also a theorem, for every value of the constants. Each component's proofs are
in a module of their own.

| Theorems | Statement, beside `Inductive` and `TypeCorrect` |
|---|---|
| `LeaseProtocolProofs`: `LeaseBackedSafe` | `Spec => []LeaseBacked`: while a client relies on its lease, Redis honours it on every key |
| `ExclusionSafe` | `Spec => []Exclusion`: two conflicting owners never both rely on their leases |
| `WriterAloneSafe` | `Spec => []WriterAlone` |
| `KeysOutlive` | `Spec => []KeyOutlivesHolders` |
| `Refines` | `Spec => AbstractSpec`: the protocol implements `AbstractLease` |
| `WakesInTimeSafe` | `Spec => []WakesInTime`: a renewal task wakes before its lease runs out |
| `NeverRevivesSafe` | `Spec => NeverRevives`: a lease that is over is not Active again |
| `GuardMeansServedSafe` | `Spec => []GuardMeansServed`: no acquisition of a guard's owner is on its way |
| `NoForeignRemovalSafe` | `Spec => NoForeignRemoval`: no command takes another owner's living key |
| `ReleasedMeansGoneSafe` | `Spec => []ReleasedMeansGone`: a release that was answered is final |
| `MutexActiveIsBacked` | `Spec => []ActiveIsBacked`, if every lock is a mutex: Active needs no margin |
| `AllOrNothingSafe` | `Spec => []AllOrNothing`: an owner holds all of its keys or none |
| `LeaseWatchProofs`: `ToldIsFinalSafe` | `Spec => []ToldIsFinal`: what a wait reports stays true |
| `WaitsAreWoken` | `Spec => []NeverForgotten`: whoever sleeps has a message to see or a timer set within the lease |
| `AsyncManagerProofs`, `SyncAcquireProofs`: `NothingLeaks` | `Spec => []NoLeak`: a lock in Redis is in somebody's hands |
| `HolderSafe` | `Spec => []NoReleaseUnderHolder` |
| `DrainsBeforeCompletion` | `Spec => []BarrierDrains`: shutdown returns after every release queued before it |
| `VerdictsAgree` | `Spec => []OneVerdict`: all calls of shutdown get the same answer |
| `ThreadServesGuards` (sync) | `Spec => []ThreadOutlivesGuards`: a guard finds the release thread alive |
| `WakeupsArrive` (sync) | `Spec => []NoLostWakeup`: nobody sleeps through its cancellation or shutdown |
| `ConnectionPoolProofs`: `OwnReplySafe` | `Spec => []OwnReply`: a thread reads the reply to its own command |
| `FailedIsGoneSafe` | `Spec => []FailedIsGone` |
| `LockApiProofs`: `GuardsExcludeSafe` | `Spec => []GuardsExclude`: guards that exclude each other are never live together |
| `TtlAsAskedSafe` | `Spec => []TtlAsAsked`: a live guard is honoured on the keys and for the TTL that were asked for |
| `AttemptsAsPromisedSafe` | `Spec => []AttemptsAsPromised` |
| `NoneIsContentionSafe` | `Spec => NoneIsContention`: None is returned only in the face of a lock it must wait for |
| `ArgumentsProofs`: `BuildRightSafe` | `Spec => []BuildRight`: options in use fit, nothing else is refused |
| `VerdictSafe` | `KeysSpec => []VerdictRight`: validated lists have no duplicates, nothing else is refused |
| `ValidatedKeysFit` | `KeysSpec => []AcceptedFits`: they are as `StoreAssumption` says |

Assumed are the named ASSUMEs of each module only: `StoreAssumption` and `LeaseAssumption`, the ranges that
`options.rs` and `lock_keys.rs` validate; `ApiAssumption`, by which `LockApi` defines its owners; of the managers, that
the queue has a size, that a call is in one of the sets its arguments put it in, and that names differ.

### The scripts: `RedisStoreProofs`

*One key at a time.* Whatever script runs and whatever it replies, it moves each key by
`UseMove` (acquire, renew: leave it, purge it, take it or join it when it may) or `ReleaseMove`
(leave it, or remove its own owner). `AcquireMoves`, `RenewMoves` and `ReleaseMoves` show it
script by script; everything after that argues about moves. A move keeps a key proper (`KeyOK`: string or
sorted set, a writer alone, expiry after every holder's). A renewal renews what its owner holds
only (`RenewOnlyHeld`), a release leaves its owner nothing (`ReleaseLeavesNone`), and no script changes what another
owner holds, or until when (`UseMoveHolds`, `ReleaseMoveHolds`: `SameHold`). A string
has one owner, a key is not both string and sorted set, and a living writer is alone: two owners that hold
one key are both readers (`OneHolds`).

### The lease: `LeaseProtocolProofs`

*The invariant.* `LeaseBacked` is not inductive: it says nothing of a confirmation that is
still on its way to the client, nor of a release still on its way to Redis. `Claim(o, s)` is an instant
from which `o` counts its lease, or will once it reads a reply already received: the lease's start, a confirmed attempt,
a confirmed renewal. `Backed` says that every claim is recorded in Redis until its margin: a successful script
records its owner for its TTL (`GrantMoveRecords`), and no move but the owner's own release
removes a record that is current (`UseMoveKeeps`, `ReleaseMoveKeeps`).
It needs three companions: `Unreleased`, no release is on its way while an owner
may still claim; `Phases`, lease, renewal and guard begin only when the acquisition
ends; `Instants`, no claim lies in the future. `TimeOK` ties the two clocks, from which the margin follows.

*Exclusion.* Two honoured owners of one key both hold it (`HonouredHolds`), so `OneHolds` applies.

*Refinement.* A step that starts or extends one lease is a `Grant`, for exclusion in the next state says that
nobody the owner excludes holds (`GrantStep`); all other steps weaken leases or leave them alone (`WeakenStep`).
It needs `IInv` before and after the step, and `Begun`: where there is a guard a lease has begun.

*After release.* Only an acquisition could give a key back to an owner whose release was executed, and where
a guard exists none is in flight. `Served` is the strengthening: an acquisition in flight is the one the loop waits for,
or was given up for good.

*All or none.* An owner's keys must also show the same instant, or one would expire before the other: `Uniform` says
that each key of an owner mirrors its hold on the others, a mutex by its expiry, a reader or writer by its very entry.
A refused script only purges, and purges nothing that lives (`PurgedSameHold`).

### Waiting: `LeaseWatchProofs`

`EndUnseen`: a wait that has found the lease Active has not seen the send of its end,
because it subscribed before it looked. `TimersInTime`: its timer ends within the lease it read, and a lease is only
prolonged. Together they leave no state in which a wait is forgotten; that time and the runtime do
the rest is `WokenByChange` and `WaitEnds`, which TLC checks.

### The managers: `AsyncManagerProofs` and `SyncAcquireProofs`

*Whose lock.* `NoLeak` is not inductive, as it does not say that hands never let go at the same time.
`Handover` ties caller, supervisor (or worker thread) and result channel to each other: which positions they can be
in together. `Disposed`: a release is queued or executed only of a guard that is gone. `Unserved`: before it
succeeds, an attempt has left nothing in Redis. `Kept` is `NoLeak` with an
answered handshake counted as the end of the supervisor, which is what makes it inductive: from then on the caller alone
is responsible.

*Order of the queue.* `Ahead`: every release owed to shutdown is executed now, or is in the queue ahead of the
barrier. `OneBarrier` and, in the async manager, `Slots` (a granted slot counts) keep it so.

*Stages of shutdown.* `Stages` and `Verdicts` say how far the one call that sends the barrier, or the
coordinator, has come, what that implies of the queue, and that no result is changed once it is set. In the sync manager
`Senders` adds that whoever may still drop a guard has a sender, which keeps the release thread alive.

*Wake-ups.* `Waits` is a second invariant of `SyncAcquire`: a thread has `retry_lock` from its look at the flags
until it sleeps, so whoever sets a flag after that look notifies after the thread is asleep. The run's
mutant, a cancellation that does not lock, breaks exactly this step.

### The methods: `LockApiProofs`

`TablesKeep` checks the twelve tables against what names and guard types say, `OwnerKeeps` carries it over to the constants of
`RedisStore`. The invariant has three parts. `CallsOK`: every call has its own number, hence its own owner, and
has sent nothing that its timeout or `once` forbids. `Backed`: a guard whose lease runs is recorded on all its keys to
its end. `Entered`: whoever is in Redis is a call that came, on keys of its own, and only writers have negative
scores. `CallStep` shows that a call's command disturbs no other call. `NoneIsContention` rests on `Entered`: the owner a
script was refused for is another call, which is no reader if the refused one is (`RefusedBy`).

### The pool and the arguments

`ConnectionPoolProofs`, for any number of threads, connections and commands: a connection is in one
place only (idle, or with one thread), an idle or ready connection has no reply pending, and a
thread that has sent a command finds on its connection that command alone.

`ArgumentsProofs`, for durations of any length and precision and lists of any length: the lemmas are about rounding.
`PassedFits` and `RefusedUnfit` compare the checks of build with `Fits` and `Unfit`, which are stated without them, and
`DefaultFits` does it for the default options. The invariant of `validate`'s loop is that the set
holds what it has passed, without duplicates.

### What is only model-checked

The liveness properties: `WokenByChange`, `WaitEnds`, and those of `shutdown_ends` and `sync_ends`. Fairness is out of the
prover's reach. What no run repeats is proved: `TypeOK` but for `SyncAcquire`'s, which includes that no call panics, `WriterAlone`,
`NeverRevives`, `GuardMeansServed`, `NeverForgotten`, `AcceptedFits`.

## Plan

Every component with state is modelled, and every safety property proved. What is left:

1. The safety half of the liveness of both managers, as `NeverForgotten` is of `LeaseWatch`: in no state does a call of
   shutdown, a waiting caller or the release thread wait for a step that nobody will take.
2. That the async manager and the sync one implement one abstract account of locks and shutdown.

## Not modelled

- Redis failover and jumps of Redis' clock: the crate promises nothing there (README, Lease
  state and release).
- Parsing of script arguments (`TTL_PREFLIGHT`): the client only sends whole milliseconds.
- Connection set-up, errors' text, key names, `lib.rs`: no state.
- A Tokio runtime that is shut down while tasks run, and poisoned mutexes: the code unwraps them.
- Tests and their proxy: read for the behaviours they expect.
