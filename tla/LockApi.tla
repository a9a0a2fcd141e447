--------------------------------- MODULE LockApi ---------------------------------
(***************************************************************************)
(* The public methods of the two RLock types and their guards, down to     *)
(* Redis.  Twelve groups of near-identical methods (src/src/async_lock and *)
(* src/src/sync_lock, *lock.rs) each pass a LockTarget, the options and    *)
(* `once` to acquire_internal and wrap what comes back in a guard type.    *)
(* This module says which, and runs the calls over RedisStore.             *)
(*                                                                         *)
(* A command and its reply are one step here; late replies, the timing of  *)
(* renewals and shutdown are in LeaseProtocol, AsyncManager, SyncAcquire.  *)
(***************************************************************************)
EXTENDS RedisStore

CONSTANTS
  SingleKey,    \* the key given to the methods for one key
  KeyList,      \* the keys given to the methods for several
  DefaultTtl,   \* AcquireOptions::default().ttl(), in ticks
  GivenTtl,     \* the TTL a caller asks for where a method takes options
  CallApi,      \* bound: the API of each call, in their order
  MaxAttempts,  \* bound: attempts of one call
  MaxNow        \* bound: time stops here
-------------------------------------------------------------------------------
(* What each method passes to acquire_internal, and how it wraps the result. *)

Request(target, options, once, guard) ==
  [target |-> target, options |-> options, once |-> once, guard |-> guard]

\* `once` = false: acquire_internal tries again while the lock is taken.
Retrying(target, options, guard) == Request(target, options, FALSE, guard)

\* `once` = true: it returns None where the lock is taken.
Once(target, options, guard) == Request(target, options, TRUE, guard)

AsyncMutex ==
  [acquire_mutex                  |-> Retrying("single", "default", "RLockGuard"),
   acquire_mutex_with_options     |-> Retrying("single", "given", "RLockGuard"),
   try_acquire_mutex              |-> Once("single", "default", "RLockGuard"),
   try_acquire_mutex_with_options |-> Once("single", "given", "RLockGuard")]

AsyncMultiKeyMutex ==
  [acquire_multi_key_mutex                  |-> Retrying("multiple", "default", "RMultiKeyLockGuard"),
   acquire_multi_key_mutex_with_options     |-> Retrying("multiple", "given", "RMultiKeyLockGuard"),
   try_acquire_multi_key_mutex              |-> Once("multiple", "default", "RMultiKeyLockGuard"),
   try_acquire_multi_key_mutex_with_options |-> Once("multiple", "given", "RMultiKeyLockGuard")]

\* Mistake: the body of acquire_write, copied.
AsyncReadAsWrite ==
  [acquire_read                  |-> Retrying("read", "default", "RReadLockGuard"),
   acquire_read_with_options     |-> Retrying("read", "given", "RReadLockGuard"),
   try_acquire_read              |-> Once("write", "default", "RReadLockGuard"),
   try_acquire_read_with_options |-> Once("write", "given", "RReadLockGuard")]

AsyncRead ==
  [acquire_read                  |-> Retrying("read", "default", "RReadLockGuard"),
   acquire_read_with_options     |-> Retrying("read", "given", "RReadLockGuard"),
   try_acquire_read              |-> Once("read", "default", "RReadLockGuard"),
   try_acquire_read_with_options |-> Once("read", "given", "RReadLockGuard")]

AsyncWrite ==
  [acquire_write                  |-> Retrying("write", "default", "RWriteLockGuard"),
   acquire_write_with_options     |-> Retrying("write", "given", "RWriteLockGuard"),
   try_acquire_write              |-> Once("write", "default", "RWriteLockGuard"),
   try_acquire_write_with_options |-> Once("write", "given", "RWriteLockGuard")]

AsyncMultiKeyRead ==
  [acquire_multi_key_read                  |-> Retrying("read", "default", "RMultiKeyReadLockGuard"),
   acquire_multi_key_read_with_options     |-> Retrying("read", "given", "RMultiKeyReadLockGuard"),
   try_acquire_multi_key_read              |-> Once("read", "default", "RMultiKeyReadLockGuard"),
   try_acquire_multi_key_read_with_options |-> Once("read", "given", "RMultiKeyReadLockGuard")]

\* Mistake: MultipleRead in the two methods that retry.
AsyncMultiKeyWriteAsRead ==
  [acquire_multi_key_write                  |-> Retrying("read", "default", "RMultiKeyWriteLockGuard"),
   acquire_multi_key_write_with_options     |-> Retrying("read", "given", "RMultiKeyWriteLockGuard"),
   try_acquire_multi_key_write              |-> Once("write", "default", "RMultiKeyWriteLockGuard"),
   try_acquire_multi_key_write_with_options |-> Once("write", "given", "RMultiKeyWriteLockGuard")]

AsyncMultiKeyWrite ==
  [acquire_multi_key_write                  |-> Retrying("write", "default", "RMultiKeyWriteLockGuard"),
   acquire_multi_key_write_with_options     |-> Retrying("write", "given", "RMultiKeyWriteLockGuard"),
   try_acquire_multi_key_write              |-> Once("write", "default", "RMultiKeyWriteLockGuard"),
   try_acquire_multi_key_write_with_options |-> Once("write", "given", "RMultiKeyWriteLockGuard")]

SyncMutex ==
  [acquire_mutex                  |-> Retrying("single", "default", "RLockGuard"),
   acquire_mutex_with_options     |-> Retrying("single", "given", "RLockGuard"),
   try_acquire_mutex              |-> Once("single", "default", "RLockGuard"),
   try_acquire_mutex_with_options |-> Once("single", "given", "RLockGuard")]

\* Mistake: the options of the caller are left behind.
SyncMultiKeyMutexDefault ==
  [acquire_multi_key_mutex                  |-> Retrying("multiple", "default", "RMultiKeyLockGuard"),
   acquire_multi_key_mutex_with_options     |-> Retrying("multiple", "default", "RMultiKeyLockGuard"),
   try_acquire_multi_key_mutex              |-> Once("multiple", "default", "RMultiKeyLockGuard"),
   try_acquire_multi_key_mutex_with_options |-> Once("multiple", "default", "RMultiKeyLockGuard")]

SyncMultiKeyMutex ==
  [acquire_multi_key_mutex                  |-> Retrying("multiple", "default", "RMultiKeyLockGuard"),
   acquire_multi_key_mutex_with_options     |-> Retrying("multiple", "given", "RMultiKeyLockGuard"),
   try_acquire_multi_key_mutex              |-> Once("multiple", "default", "RMultiKeyLockGuard"),
   try_acquire_multi_key_mutex_with_options |-> Once("multiple", "given", "RMultiKeyLockGuard")]

\* In the sync files the retrying methods of readers and writers come first.
SyncRwRetrying ==
  [acquire_read               |-> Retrying("read", "default", "RReadLockGuard"),
   acquire_read_with_options  |-> Retrying("read", "given", "RReadLockGuard"),
   acquire_write              |-> Retrying("write", "default", "RWriteLockGuard"),
   acquire_write_with_options |-> Retrying("write", "given", "RWriteLockGuard")]

SyncRwOnce ==
  [try_acquire_read               |-> Once("read", "default", "RReadLockGuard"),
   try_acquire_read_with_options  |-> Once("read", "given", "RReadLockGuard"),
   try_acquire_write              |-> Once("write", "default", "RWriteLockGuard"),
   try_acquire_write_with_options |-> Once("write", "given", "RWriteLockGuard")]

\* Mistake: `once` is true where the body of try_acquire was copied.
SyncMultiKeyRwOnceOnly ==
  [acquire_multi_key_read               |-> Retrying("read", "default", "RMultiKeyReadLockGuard"),
   acquire_multi_key_read_with_options  |-> Retrying("read", "given", "RMultiKeyReadLockGuard"),
   acquire_multi_key_write              |-> Once("write", "default", "RMultiKeyWriteLockGuard"),
   acquire_multi_key_write_with_options |-> Once("write", "given", "RMultiKeyWriteLockGuard")]

SyncMultiKeyRwRetrying ==
  [acquire_multi_key_read               |-> Retrying("read", "default", "RMultiKeyReadLockGuard"),
   acquire_multi_key_read_with_options  |-> Retrying("read", "given", "RMultiKeyReadLockGuard"),
   acquire_multi_key_write              |-> Retrying("write", "default", "RMultiKeyWriteLockGuard"),
   acquire_multi_key_write_with_options |-> Retrying("write", "given", "RMultiKeyWriteLockGuard")]

SyncMultiKeyRwOnce ==
  [try_acquire_multi_key_read               |-> Once("read", "default", "RMultiKeyReadLockGuard"),
   try_acquire_multi_key_read_with_options  |-> Once("read", "given", "RMultiKeyReadLockGuard"),
   try_acquire_multi_key_write              |-> Once("write", "default", "RMultiKeyWriteLockGuard"),
   try_acquire_multi_key_write_with_options |-> Once("write", "given", "RMultiKeyWriteLockGuard")]

\* The tables name different methods.
Merge(tables) ==
  [m \in UNION {DOMAIN t : t \in tables} |-> (CHOOSE t \in tables : m \in DOMAIN t)[m]]

Api ==
  [async |-> Merge({AsyncMutex, AsyncMultiKeyMutex, AsyncRead, AsyncWrite,
                    AsyncMultiKeyRead, AsyncMultiKeyWrite}),
   sync  |-> Merge({SyncMutex, SyncMultiKeyMutex, SyncRwRetrying, SyncRwOnce,
                    SyncMultiKeyRwRetrying, SyncMultiKeyRwOnce})]
-------------------------------------------------------------------------------
(* Signatures *)

\* The methods that take AcquireOptions.
TakesOptions ==
  {"acquire_mutex_with_options", "try_acquire_mutex_with_options",
   "acquire_multi_key_mutex_with_options", "try_acquire_multi_key_mutex_with_options",
   "acquire_read_with_options", "try_acquire_read_with_options",
   "acquire_write_with_options", "try_acquire_write_with_options",
   "acquire_multi_key_read_with_options", "try_acquire_multi_key_read_with_options",
   "acquire_multi_key_write_with_options", "try_acquire_multi_key_write_with_options"}

\* The methods that return Result<Option<_>, AcquireError>; the others expect a
\* guard ("retrying acquisition returns a guard").
ReturnsOption ==
  {"try_acquire_mutex", "try_acquire_mutex_with_options",
   "try_acquire_multi_key_mutex", "try_acquire_multi_key_mutex_with_options",
   "try_acquire_read", "try_acquire_read_with_options",
   "try_acquire_write", "try_acquire_write_with_options",
   "try_acquire_multi_key_read", "try_acquire_multi_key_read_with_options",
   "try_acquire_multi_key_write", "try_acquire_multi_key_write_with_options"}

MultiKeyGuards == {"RMultiKeyLockGuard", "RMultiKeyReadLockGuard", "RMultiKeyWriteLockGuard"}
SharedGuards == {"RReadLockGuard", "RMultiKeyReadLockGuard"}
-------------------------------------------------------------------------------
(* Calls.  Each has a UUID of its own: the method and the call's number. *)

MaxCalls == Len(CallApi)
RequestOf(o) == Api[o.api][o.method]
GuardOf(o) == RequestOf(o).guard

\* What RedisStore's constants are here.
ApiOwners ==
  UNION {[api : {CallApi[n]}, method : DOMAIN Api[CallApi[n]], n : {n}] : n \in 1..MaxCalls}
ApiRole == [o \in ApiOwners |-> RequestOf(o).target]
ApiKeySeq ==
  [o \in ApiOwners |-> IF GuardOf(o) \in MultiKeyGuards THEN KeyList ELSE <<SingleKey>>]
ApiTtl ==
  [o \in ApiOwners |-> IF RequestOf(o).options = "given" THEN GivenTtl ELSE DefaultTtl]

ASSUME ApiAssumption ==
  /\ Owners = ApiOwners
  /\ Role = ApiRole
  /\ KeySeq = ApiKeySeq
  /\ Ttl = ApiTtl
  /\ CallApi \in Seq({"async", "sync"})

VARIABLE calls  \* the calls so far: owner, status, attempts sent, start of the lease

vars == <<now, db, calls>>

Init ==
  /\ now = 0
  /\ db = [k \in Keys |-> NoKey]
  /\ calls = <<>>

Become(i, status) == calls' = [calls EXCEPT ![i].status = status]
Sent(i, status) == calls' = [calls EXCEPT ![i].status = status, ![i].sent = @ + 1]

\* acquire_internal up to its first command: a zero timeout has elapsed at once.
Start(o, timeout) ==
  calls' = Append(calls, [owner |-> o, timeout |-> timeout,
                          status |-> IF timeout = "zero" THEN "timeout" ELSE "waiting",
                          sent |-> 0, since |-> now])

\* The default options have no lock_timeout.
Call(o) ==
  /\ Len(calls) < MaxCalls
  /\ o.n = Len(calls) + 1
  /\ \E timeout \in {"none", "zero", "later"} :
       /\ timeout # "none" => RequestOf(o).options = "given"
       /\ Start(o, timeout)
  /\ UNCHANGED <<now, db>>

Attempt(i) ==
  LET o == calls[i].owner IN
  /\ calls[i].status = "waiting"
  /\ calls[i].sent < MaxAttempts
  /\ \E reply \in {"ok", "no", "err"} :
       /\ AcquireLock(o, reply)
       /\ \/ /\ reply = "ok"
             /\ calls' = [calls EXCEPT ![i].status = "held", ![i].sent = @ + 1,
                                       ![i].since = now]
          \/ reply = "err" /\ Sent(i, "error")
          \/ reply = "no" /\ ~RequestOf(o).once /\ Sent(i, "waiting")
          \/ reply = "no" /\ RequestOf(o).once /\ o.method \in ReturnsOption /\ Sent(i, "none")
          \/ reply = "no" /\ RequestOf(o).once /\ o.method \notin ReturnsOption /\ Sent(i, "panic")
  /\ UNCHANGED now

Deadline(i) ==
  /\ calls[i].status = "waiting"
  /\ calls[i].timeout = "later"
  /\ Become(i, "timeout")
  /\ UNCHANGED <<now, db>>
-------------------------------------------------------------------------------
(* Guards.  All twelve types forward to GuardData. *)

Unreleased == {"held", "lost", "unconfirmed"}

\* The renewal task of a guard, with the target and the TTL of its request; when it
\* runs is LeaseProtocol's matter.  The lease may end while the command is on its
\* way.  A guard whose lease is lost can be released.
Renew(i) ==
  LET ends == calls[i].since + Ttl[calls[i].owner] IN
  /\ calls[i].status = "held"
  /\ now <= ends
  /\ \E reply \in {"ok", "no"} :
       /\ RenewLock(calls[i].owner, reply)
       /\ IF reply = "ok" /\ now < ends
          THEN calls' = [calls EXCEPT ![i].since = now]
          ELSE Become(i, "lost")
  /\ UNCHANGED now

\* guard.release(), again where it has failed; once it has succeeded it does
\* nothing any more.
Release(i) ==
  /\ calls[i].status \in Unreleased
  /\ \E reply \in {"ok", "no"} : ReleaseLock(calls[i].owner, reply)
  /\ Become(i, "released")
  /\ UNCHANGED now

\* The command is lost, or executed without an answer.
ReleaseFails(i) ==
  /\ calls[i].status \in Unreleased
  /\ \/ \E reply \in {"ok", "no"} : ReleaseLock(calls[i].owner, reply)
     \/ UNCHANGED db
  /\ Become(i, "unconfirmed")
  /\ UNCHANGED now

\* Dropping a released guard does nothing.
Drop(i) ==
  /\ calls[i].status \in Unreleased
  /\ Become(i, "dropped")
  /\ UNCHANGED <<now, db>>

\* The release manager, if the queue had room.
Background(i) ==
  /\ calls[i].status = "dropped"
  /\ \E reply \in {"ok", "no"} : ReleaseLock(calls[i].owner, reply)
  /\ Become(i, "gone")
  /\ UNCHANGED now

Tick ==
  /\ now + Ms <= MaxNow
  /\ now' = now + Ms
  /\ db' = ExpireKeys(now')
  /\ UNCHANGED calls

Next ==
  \/ \E o \in Owners : Call(o)
  \/ \E i \in DOMAIN calls :
       \/ Attempt(i) \/ Deadline(i) \/ Renew(i)
       \/ Release(i) \/ ReleaseFails(i) \/ Drop(i) \/ Background(i)
  \/ Tick

Spec == Init /\ [][Next]_vars
-------------------------------------------------------------------------------
(* Correctness *)

AskedTtl(c) == IF c.owner.method \in TakesOptions THEN GivenTtl ELSE DefaultTtl

\* The caller has a guard, and the TTL it asked for has not run out.
Live(c) == c.status = "held" /\ now < c.since + AskedTtl(c)

KeysAsked(c) ==
  IF GuardOf(c.owner) \in MultiKeyGuards
  THEN {KeyList[j] : j \in DOMAIN KeyList} ELSE {SingleKey}

\* Two guards that must not be live together.
Excludes(c, d) ==
  /\ KeysAsked(c) \cap KeysAsked(d) # {}
  /\ ~ (GuardOf(c.owner) \in SharedGuards /\ GuardOf(d.owner) \in SharedGuards)

\* What the guard types promise holds in whatever way the guards were obtained:
\* a write or mutex guard excludes every other on its keys (rw_lock.rs:168).
GuardsExclude ==
  \A i, j \in DOMAIN calls :
    i # j /\ Live(calls[i]) /\ Live(calls[j]) => ~Excludes(calls[i], calls[j])

\* A guard is backed by Redis on every key for the TTL that its caller asked
\* for, be it the default or the options given (options.rs:129).
TtlAsAsked ==
  \A i \in DOMAIN calls :
    Live(calls[i]) => \A k \in KeysAsked(calls[i]) : Holds(calls[i].owner, k)

\* try_acquire attempts once, a zero timeout sends no command at all, and a method
\* that retries never panics at expect("retrying acquisition returns a guard")
\* (lock.rs:86, lock.rs:115, lock.rs:131).
AttemptsAsPromised ==
  \A i \in DOMAIN calls :
    /\ calls[i].timeout = "zero" => calls[i].sent = 0
    /\ calls[i].owner.method \in ReturnsOption => calls[i].sent <= 1
    /\ calls[i].status # "panic"

\* An entry of the owner is still in Redis, live or not.
Recorded(o, k) == db[k].str = o \/ \E e \in db[k].zset : e.owner = o

\* Ok(None) is contention (lock.rs:123): some other call that this lock excludes
\* still has an entry on a key of it.  In particular readers never refuse each
\* other.
NoneIsContention ==
  [][\A i \in DOMAIN calls :
       calls[i].status = "waiting" /\ calls'[i].status = "none" =>
         \E j \in DOMAIN calls \ {i} :
           /\ Excludes(calls[i], calls[j])
           /\ \E k \in KeysAsked(calls[i]) : Recorded(calls[j].owner, k)]_vars
===============================================================================
