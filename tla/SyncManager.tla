------------------------------ MODULE SyncManager ------------------------------
(***************************************************************************)
(* The std::thread manager (src/src/sync_lock/manager.rs): admission, the  *)
(* bounded release channel and its thread, shutdown behind a barrier, and  *)
(* the retry waits on a condition variable.  SyncAcquire composes it with  *)
(* the acquisitions and guards that use it.                                *)
(*                                                                         *)
(* release_tx and is_shutdown change together under release_tx's mutex, so *)
(* they are one flag, sealed; readers of is_shutdown take no lock.         *)
(***************************************************************************)
EXTENDS Naturals, Sequences, FiniteSets

CONSTANTS
  Owners,    \* acquisitions
  Callers,   \* calls of shutdown
  None,
  Buffer     \* RECYCLE_CHANNEL_BUFFER

ASSUME SyncManagerAssumption ==
  /\ None \notin Owners \cup Callers
  /\ Buffer \in Nat \ {0}
  /\ Owners \cap {"idle", "panicked", "ended", "barrier"} = {}

VARIABLES
  sealed,     \* release_tx is None and is_shutdown
  senders,    \* owners that have a clone of the sender
  queue,      \* the release channel
  worker,     \* the release thread; the owner it releases
  coord,      \* the call of shutdown that has taken the sender
  result,     \* shutdown_result
  shut,       \* calls of shutdown
  retryLock,  \* the owner whose thread is inside retry_lock
  wait,       \* where each owner stands in wait_retry
  canceled,   \* owners whose acquisition has been canceled
  holder,     \* the owner Redis has
  fallback,   \* owners whose release failed or found no queue: the TTL is left
  owed        \* history: releases queued when shutdown sealed admission

closing == <<sealed, coord, result, shut, owed>>
channel == <<queue, worker>>
waiting == <<retryLock, wait, canceled>>
redis == <<holder, fallback>>

ShutStates == {"idle", "notify", "send", "ack", "acked", "lost", "tell",
               "check", "asleep", "returned", "panicked"}
WaitStates == {"off", "lock", "check", "enter", "asleep"}

ManagerTypeOK ==
  /\ sealed \in BOOLEAN
  /\ senders \in SUBSET Owners
  /\ queue \in Seq(Owners \cup {"barrier"}) /\ Len(queue) <= Buffer
  /\ worker \in Owners \cup {"idle", "panicked", "ended"}
  /\ coord \in Callers \cup {None}
  /\ result \in {"none", "complete", "failed"}
  /\ shut \in [Callers -> ShutStates]
  /\ retryLock \in Owners \cup {None}
  /\ wait \in [Owners -> WaitStates]
  /\ canceled \in SUBSET Owners
  /\ holder \in Owners \cup {None}
  /\ fallback \in SUBSET Owners
  /\ owed \in SUBSET Owners

ManagerInit ==
  /\ sealed = FALSE
  /\ senders = {}
  /\ queue = <<>>
  /\ worker = "idle"
  /\ coord = None
  /\ result = "none"
  /\ shut = [c \in Callers |-> "idle"]
  /\ retryLock = None
  /\ wait = [o \in Owners |-> "off"]
  /\ canceled = {}
  /\ holder = None
  /\ fallback = {}
  /\ owed = {}

Queued(x) == \E i \in DOMAIN queue : queue[i] = x
Receiving == worker \in Owners \cup {"idle"}

CanQueue == Receiving /\ Len(queue) < Buffer

\* GuardData::drop with the lock still taken: its sender goes, and without a
\* place in the queue the TTL is left.
QueueRelease(o) ==
  /\ senders' = senders \ {o}
  /\ IF CanQueue
     THEN queue' = Append(queue, o) /\ UNCHANGED fallback
     ELSE fallback' = fallback \cup {o} /\ UNCHANGED queue

\* release_lock on the spot: Redis removes the lock of its owner and no other,
\* or it fails, applied or not.
Released(o) == IF holder = o THEN None ELSE holder
ReleaseNow(o) ==
  \/ holder' = Released(o) /\ UNCHANGED fallback
  \/ holder' \in {holder, Released(o)} /\ fallback' = fallback \cup {o}
-------------------------------------------------------------------------------
(* wait_retry and cancel_acquisition *)

\* notify_all on retry_wake: a thread that wakes locks again and looks again.
WakeRetries == [o \in Owners |-> IF wait[o] = "asleep" THEN "lock" ELSE wait[o]]

RetryLock(o) ==
  /\ wait[o] = "lock"
  /\ retryLock = None
  /\ retryLock' = o
  /\ wait' = [wait EXCEPT ![o] = "check"]
  /\ UNCHANGED <<closing, senders, channel, canceled, redis>>

\* The condition of wait_timeout_while, evaluated inside the lock ...
RetryCheck(o) ==
  /\ wait[o] = "check"
  /\ IF sealed \/ o \in canceled
     THEN wait' = [wait EXCEPT ![o] = "off"] /\ retryLock' = None
     ELSE wait' = [wait EXCEPT ![o] = "enter"] /\ UNCHANGED retryLock
  /\ UNCHANGED <<closing, senders, channel, canceled, redis>>

\* Mistake: the thread sleeps with the lock held.
RetryEnterLocked(o) ==
  /\ wait[o] = "enter"
  /\ wait' = [wait EXCEPT ![o] = "asleep"]
  /\ UNCHANGED <<closing, senders, channel, retryLock, canceled, redis>>

\* ... and the wait, which gives up the lock.
RetryEnter(o) ==
  /\ wait[o] = "enter"
  /\ wait' = [wait EXCEPT ![o] = "asleep"]
  /\ retryLock' = None
  /\ UNCHANGED <<closing, senders, channel, canceled, redis>>

\* The retry interval has passed.
RetryTimer(o) ==
  /\ wait[o] = "asleep"
  /\ retryLock = None
  /\ wait' = [wait EXCEPT ![o] = "off"]
  /\ UNCHANGED <<closing, senders, channel, retryLock, canceled, redis>>

\* Mistake: the flag is set and nobody is told.
CancelSilently(o) == canceled' = canceled \cup {o} /\ UNCHANGED <<retryLock, wait>>

\* Mistake: retry_lock is not taken.
CancelUnlocked(o) ==
  /\ canceled' = canceled \cup {o}
  /\ wait' = WakeRetries
  /\ UNCHANGED retryLock

\* cancel_acquisition, one critical section.
CancelAcquisition(o) ==
  /\ retryLock = None
  /\ canceled' = canceled \cup {o}
  /\ wait' = WakeRetries
  /\ UNCHANGED retryLock
-------------------------------------------------------------------------------
(* The release thread *)

\* Mistake: the barrier ends the thread.
TakeAndStop ==
  /\ worker = "idle"
  /\ queue # <<>>
  /\ queue' = Tail(queue)
  /\ worker' = IF Head(queue) = "barrier" THEN "ended" ELSE Head(queue)
  /\ shut' = IF Head(queue) = "barrier" THEN [shut EXCEPT ![coord] = "acked"] ELSE shut
  /\ UNCHANGED <<sealed, coord, result, owed, senders, waiting, redis>>

Take ==
  /\ worker = "idle"
  /\ queue # <<>>
  /\ queue' = Tail(queue)
  /\ IF Head(queue) = "barrier"
     THEN shut' = [shut EXCEPT ![coord] = "acked"] /\ UNCHANGED worker
     ELSE worker' = Head(queue) /\ UNCHANGED shut
  /\ UNCHANGED <<sealed, coord, result, owed, senders, waiting, redis>>

\* A failure is logged.
FinishRelease ==
  /\ worker \in Owners
  /\ ReleaseNow(worker)
  /\ worker' = "idle"
  /\ owed' = owed \ {worker}
  /\ UNCHANGED <<sealed, coord, result, shut, senders, queue, waiting>>

\* Nobody watches the thread: admission goes on, and the receiver goes with
\* what it holds.
ThreadPanics ==
  /\ Receiving
  /\ worker' = "panicked"
  /\ queue' = <<>>
  /\ fallback' = fallback \cup {o \in Owners : Queued(o) \/ worker = o}
  /\ holder' \in {holder} \cup (IF worker \in Owners THEN {Released(worker)} ELSE {})
  /\ UNCHANGED <<closing, senders, waiting>>

\* recv fails once the last sender is gone and the channel is empty.
ThreadEnds ==
  /\ worker = "idle"
  /\ queue = <<>>
  /\ sealed /\ coord = None /\ senders = {}
  /\ worker' = "ended"
  /\ UNCHANGED <<closing, senders, queue, waiting, redis>>
-------------------------------------------------------------------------------
(* shutdown *)

Seal(c) ==
  /\ shut[c] = "idle"
  /\ shut' = [shut EXCEPT ![c] = "notify"]
  /\ sealed' = TRUE
  /\ IF sealed
     THEN UNCHANGED <<coord, owed>>
     ELSE coord' = c /\ owed' = {o \in Owners : Queued(o) \/ worker = o}
  /\ UNCHANGED <<result, senders, channel, waiting, redis>>

\* Mistake: retry_lock is not taken.
NotifyRetriesUnlocked(c) ==
  /\ shut[c] = "notify"
  /\ shut' = [shut EXCEPT ![c] = IF coord = c THEN "send" ELSE "check"]
  /\ wait' = WakeRetries
  /\ UNCHANGED <<sealed, coord, result, owed, senders, channel, retryLock, canceled, redis>>

NotifyRetries(c) ==
  /\ shut[c] = "notify"
  /\ retryLock = None
  /\ shut' = [shut EXCEPT ![c] = IF coord = c THEN "send" ELSE "check"]
  /\ wait' = WakeRetries
  /\ UNCHANGED <<sealed, coord, result, owed, senders, channel, retryLock, canceled, redis>>

\* Mistake: try_send, and a full queue is taken for a drained one.
SendBarrierTrying(c) ==
  /\ shut[c] = "send"
  /\ Receiving
  /\ queue' = IF CanQueue THEN Append(queue, "barrier") ELSE queue
  /\ shut' = [shut EXCEPT ![c] = IF CanQueue THEN "ack" ELSE "acked"]
  /\ UNCHANGED <<sealed, coord, result, owed, senders, worker, waiting, redis>>

\* A blocking send: it waits for a place, which others may take first.
SendBarrier(c) ==
  /\ shut[c] = "send"
  /\ CanQueue
  /\ queue' = Append(queue, "barrier")
  /\ shut' = [shut EXCEPT ![c] = "ack"]
  /\ UNCHANGED <<sealed, coord, result, owed, senders, worker, waiting, redis>>

\* Mistake: try_send again and again, whatever its error.
BarrierLostOnceSent(c) ==
  /\ shut[c] = "ack"
  /\ ~Receiving
  /\ shut' = [shut EXCEPT ![c] = "lost"]
  /\ UNCHANGED <<sealed, coord, result, owed, senders, channel, waiting, redis>>

\* The receiver is gone, before the barrier was sent or with the barrier in it.
BarrierLost(c) ==
  /\ shut[c] \in {"send", "ack"}
  /\ ~Receiving
  /\ shut' = [shut EXCEPT ![c] = "lost"]
  /\ UNCHANGED <<sealed, coord, result, owed, senders, channel, waiting, redis>>

StoreResult(c) ==
  /\ shut[c] \in {"acked", "lost"}
  /\ shut' = [shut EXCEPT ![c] = "tell"]
  /\ result' = IF shut[c] = "acked" THEN "complete" ELSE "failed"
  /\ UNCHANGED <<sealed, coord, owed, senders, channel, waiting, redis>>

\* Mistake: notify without the calls that already wait.
TellOne(c) ==
  /\ shut[c] = "tell"
  /\ shut' = [shut EXCEPT ![c] = "check"]
  /\ coord' = None
  /\ UNCHANGED <<sealed, result, owed, senders, channel, waiting, redis>>

\* Mistake: the sender is kept where the next call would look for it.
TellKeepingSender(c) ==
  /\ shut[c] = "tell"
  /\ shut' = [d \in Callers |-> IF d = c \/ shut[d] = "asleep" THEN "check" ELSE shut[d]]
  /\ UNCHANGED <<sealed, coord, result, owed, senders, channel, waiting, redis>>

\* notify_all on shutdown_done; then the sender is dropped.
TellResult(c) ==
  /\ shut[c] = "tell"
  /\ shut' = [d \in Callers |-> IF d = c \/ shut[d] = "asleep" THEN "check" ELSE shut[d]]
  /\ coord' = None
  /\ UNCHANGED <<sealed, result, owed, senders, channel, waiting, redis>>

\* Under shutdown_result's mutex: the end, or the wait.
CheckResult(c) ==
  /\ shut[c] = "check"
  /\ shut' = [shut EXCEPT ![c] =
       CASE result = "none" -> "asleep"
         [] result = "complete" -> "returned"
         [] result = "failed" -> "panicked"]
  /\ UNCHANGED <<sealed, coord, result, owed, senders, channel, waiting, redis>>
-------------------------------------------------------------------------------
RetryStep(o) == RetryLock(o) \/ RetryCheck(o) \/ RetryEnter(o)
ThreadStep == Take \/ FinishRelease \/ ThreadEnds
ShutdownStep(c) ==
  \/ NotifyRetries(c) \/ SendBarrier(c) \/ BarrierLost(c)
  \/ StoreResult(c) \/ TellResult(c) \/ CheckResult(c)

ManagerStep ==
  \/ ThreadStep \/ ThreadPanics
  \/ \E c \in Callers : Seal(c) \/ ShutdownStep(c)
  \/ \E o \in Owners : RetryStep(o) \/ RetryTimer(o)
===============================================================================
