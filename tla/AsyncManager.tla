------------------------------ MODULE AsyncManager ------------------------------
(***************************************************************************)
(* The Tokio manager (src/src/async_lock/manager.rs) with the acquisitions *)
(* it admits and their guards (async_lock/guard.rs): who is responsible    *)
(* for a lock while its acquisition is handed over, cancelled, rejected or *)
(* dropped, and how shutdown ends.                                         *)
(*                                                                         *)
(* The tasks are: per acquisition its caller (acquire_internal, then the   *)
(* owner of the guard) and its supervisor; the release worker, its watcher *)
(* and the coordinator of shutdown; the callers of shutdown.  They share   *)
(* the admission mutex, the watched ShutdownState and the release queue.   *)
(*                                                                         *)
(* All acquisitions compete for one mutex.  What Redis does over time is   *)
(* LeaseProtocol's matter: here a lock may lapse, a deadline pass or a     *)
(* lease run out at any moment, and a command that failed has been applied *)
(* by then or never will be.                                               *)
(***************************************************************************)
EXTENDS Naturals, Sequences

CONSTANTS
  Owners,    \* acquisitions
  Callers,   \* calls of shutdown
  None,      \* the lock is free
  Buffer     \* RECYCLE_CHANNEL_BUFFER

ASSUME ManagerAssumption ==
  /\ None \notin Owners
  /\ Buffer \in Nat \ {0}
  /\ Owners \cap {"idle", "panicked", "reported", "ended", "barrier"} = {}

VARIABLES
  admission,  \* whether RLockInner::admission holds the sender
  shutdown,   \* the watched ShutdownState
  queue,      \* the release channel
  worker,     \* the release worker and its watcher; the owner it releases
  coord,      \* the task that sends the barrier
  shut,       \* calls of shutdown
  caller,     \* who called acquire, and then has the guard
  sup,        \* supervise_acquisition
  result,     \* the result channel, and what became of the guard sent on it
  tasks,      \* owners whose explicit release is being executed
  holder,     \* the owner Redis has
  fallback,   \* owners whose release failed or found no queue: the TTL is left
  owed        \* history: releases queued when shutdown sealed admission

vars == <<admission, shutdown, queue, worker, coord, shut,
          caller, sup, result, tasks, holder, fallback, owed>>
manager == <<admission, shutdown, coord, shut, owed>>
channel == <<queue, worker>>
redis == <<holder, fallback>>

ShutdownState == {"Open", "Closing", "Completed", "Failed"}
CoordStates == {"none", "start", "waiting", "granted", "acking", "acked",
                "failed", "done"}
ShutStates == {"idle", "waiting", "returned", "panicked", "cancelled"}
CallerStates == {"idle", "waiting", "got", "checked", "holding", "releasing",
                 "unreleased", "done"}
SupStates == {"none", "loop", "sent", "wait", "ok", "err", "offered", "clean",
              "release", "done"}
ResultStates == {"none", "other", "guard", "taken", "accepted", "dropped"}

TypeOK ==
  /\ admission \in BOOLEAN
  /\ shutdown \in ShutdownState
  /\ queue \in Seq(Owners \cup {"barrier"}) /\ Len(queue) <= Buffer
  /\ worker \in Owners \cup {"idle", "panicked", "reported", "ended"}
  /\ coord \in CoordStates
  /\ shut \in [Callers -> ShutStates]
  /\ caller \in [Owners -> CallerStates]
  /\ sup \in [Owners -> SupStates]
  /\ result \in [Owners -> ResultStates]
  /\ tasks \in SUBSET Owners
  /\ holder \in Owners \cup {None}
  /\ fallback \in SUBSET Owners
  /\ owed \in SUBSET Owners

Init ==
  /\ admission = TRUE
  /\ shutdown = "Open"
  /\ queue = <<>>
  /\ worker = "idle"
  /\ coord = "none"
  /\ shut = [c \in Callers |-> "idle"]
  /\ caller = [o \in Owners |-> "idle"]
  /\ sup = [o \in Owners |-> "none"]
  /\ result = [o \in Owners |-> "none"]
  /\ tasks = {}
  /\ holder = None
  /\ fallback = {}
  /\ owed = {}

IsOpen == shutdown = "Open"
Queued(x) == \E i \in DOMAIN queue : queue[i] = x
Receiving == worker \in Owners \cup {"idle"}

\* A slot granted to the waiting barrier is taken.
Room == Len(queue) + (IF coord = "granted" THEN 1 ELSE 0) < Buffer

\* try_send finds a receiver and a free slot.
CanQueue == Receiving /\ Room

\* release_lock: Redis removes the lock of its owner, and only its own.
Released(o) == IF holder = o THEN None ELSE holder
-------------------------------------------------------------------------------
(* acquire_internal *)

Admit(o) ==
  /\ caller[o] = "idle"
  /\ admission /\ IsOpen
  /\ caller' = [caller EXCEPT ![o] = "waiting"]
  /\ sup' = [sup EXCEPT ![o] = "loop"]
  /\ UNCHANGED <<manager, channel, result, tasks, redis>>

Refuse(o) ==
  /\ caller[o] = "idle"
  /\ ~(admission /\ IsOpen)
  /\ caller' = [caller EXCEPT ![o] = "done"]
  /\ UNCHANGED <<manager, channel, sup, result, tasks, redis>>

\* A guard that no caller has claimed is dropped: GuardData::drop tries the
\* queue, and `accepted` goes with it.
DropUnclaimed(o) ==
  /\ result' = [result EXCEPT ![o] = "dropped"]
  /\ queue' = IF CanQueue THEN Append(queue, o) ELSE queue

\* The caller's select! ends without a guard, and closes the result channel.
LeaveWaiting(o) ==
  /\ caller[o] = "waiting"
  /\ caller' = [caller EXCEPT ![o] = "done"]
  /\ IF result[o] = "guard" THEN DropUnclaimed(o) ELSE UNCHANGED <<result, queue>>
  /\ UNCHANGED <<manager, worker, sup, tasks, redis>>

\* Mistake: shutdown is noticed by the supervisor alone.
CallerShutdownBySupervisor(o) == ~IsOpen /\ result[o] = "other" /\ LeaveWaiting(o)

CallerShutdown(o) == ~IsOpen /\ LeaveWaiting(o)

\* The deadline, the caller's cancellation, or a result without a guard.
CallerLeaves(o) == LeaveWaiting(o)

\* The select! is biased: it looks at shutdown first.
ReceiveGuard(o) ==
  /\ caller[o] = "waiting"
  /\ IsOpen
  /\ result[o] = "guard"
  /\ caller' = [caller EXCEPT ![o] = "got"]
  /\ result' = [result EXCEPT ![o] = "taken"]
  /\ UNCHANGED <<manager, channel, sup, tasks, redis>>

\* Shutdown is checked once more, then the lease; shutdown may begin after that.
CheckGuard(o) ==
  /\ caller[o] = "got"
  /\ IsOpen
  /\ caller' = [caller EXCEPT ![o] = "checked"]
  /\ UNCHANGED <<manager, channel, sup, result, tasks, redis>>

\* The deadline has passed, shutdown has begun or the lease has run out.
RejectGuard(o) ==
  /\ caller[o] \in {"got", "checked"}
  /\ caller' = [caller EXCEPT ![o] = "done"]
  /\ DropUnclaimed(o)
  /\ UNCHANGED <<manager, worker, sup, tasks, redis>>

AcceptGuard(o) ==
  /\ caller[o] = "checked"
  /\ caller' = [caller EXCEPT ![o] = "holding"]
  /\ result' = [result EXCEPT ![o] = "accepted"]
  /\ UNCHANGED <<manager, channel, sup, tasks, redis>>
-------------------------------------------------------------------------------
(* The claimed guard *)

ReleaseGuard(o) ==
  /\ caller[o] \in {"holding", "unreleased"}
  /\ caller' = [caller EXCEPT ![o] = "releasing"]
  /\ tasks' = tasks \cup {o}
  /\ UNCHANGED <<manager, channel, sup, result, redis>>

\* The wait is cancelled; the task goes on.
CancelRelease(o) ==
  /\ caller[o] = "releasing"
  /\ caller' = [caller EXCEPT ![o] = "unreleased"]
  /\ UNCHANGED <<manager, channel, sup, result, tasks, redis>>

\* The spawned task sends its result to the wait, if there still is one.
ReleaseTask(o) ==
  /\ o \in tasks
  /\ tasks' = tasks \ {o}
  /\ \E ok \in BOOLEAN :
       /\ holder' \in {Released(o)} \cup (IF ok THEN {} ELSE {holder})
       /\ caller' = IF caller[o] # "releasing" THEN caller
                    ELSE [caller EXCEPT ![o] = IF ok THEN "done" ELSE "unreleased"]
  /\ UNCHANGED <<manager, channel, sup, result, fallback>>

DropGuard(o) ==
  /\ caller[o] \in {"holding", "releasing", "unreleased"}
  /\ caller' = [caller EXCEPT ![o] = "done"]
  /\ IF CanQueue
     THEN queue' = Append(queue, o) /\ UNCHANGED fallback
     ELSE fallback' = fallback \cup {o} /\ UNCHANGED queue
  /\ UNCHANGED <<manager, worker, sup, result, tasks, holder>>
-------------------------------------------------------------------------------
(* supervise_acquisition *)

\* A result without a guard; the send fails once the caller has left.
SendOther(o) ==
  result' = IF caller[o] = "waiting" THEN [result EXCEPT ![o] = "other"] ELSE result

\* Between attempts: the caller has left, shutdown, the deadline; or it was a
\* try_acquire.
SupEnd(o) ==
  /\ sup[o] \in {"loop", "wait"}
  /\ sup' = [sup EXCEPT ![o] = "done"]
  /\ SendOther(o)
  /\ UNCHANGED <<manager, channel, caller, tasks, redis>>

\* Mistake: it goes on without looking who still waits.
StartAttemptUnchecked(o) ==
  /\ sup[o] = "loop"
  /\ sup' = [sup EXCEPT ![o] = "sent"]
  /\ UNCHANGED <<manager, channel, caller, result, tasks, redis>>

StartAttempt(o) ==
  /\ sup[o] = "loop"
  /\ caller[o] = "waiting"
  /\ IsOpen
  /\ sup' = [sup EXCEPT ![o] = "sent"]
  /\ UNCHANGED <<manager, channel, caller, result, tasks, redis>>

\* acquire_lock: acquired, contention, or an error that tells nothing.
ServeAcquire(o) ==
  /\ sup[o] = "sent"
  /\ \/ holder = None /\ holder' = o /\ sup' = [sup EXCEPT ![o] = "ok"]
     \/ holder # None /\ UNCHANGED holder /\ sup' = [sup EXCEPT ![o] = "wait"]
     \/ /\ holder' \in {holder, IF holder = None THEN o ELSE holder}
        /\ sup' = [sup EXCEPT ![o] = "err"]
  /\ UNCHANGED <<manager, channel, caller, result, tasks, fallback>>

Retry(o) ==
  /\ sup[o] = "wait"
  /\ sup' = [sup EXCEPT ![o] = "loop"]
  /\ UNCHANGED <<manager, channel, caller, result, tasks, redis>>

\* An error, or acquired but rejected: sealed, too late, the lease run out.
RejectAcquired(o) ==
  /\ sup[o] \in {"ok", "err"}
  /\ sup' = [sup EXCEPT ![o] = "clean"]
  /\ SendOther(o)
  /\ UNCHANGED <<manager, channel, caller, tasks, redis>>

\* Under the admission lock: Handoff::Sent, or Handoff::Abandoned.
HandOff(o) ==
  /\ sup[o] = "ok"
  /\ admission /\ IsOpen
  /\ IF caller[o] = "waiting"
     THEN /\ sup' = [sup EXCEPT ![o] = "offered"]
          /\ result' = [result EXCEPT ![o] = "guard"]
     ELSE sup' = [sup EXCEPT ![o] = "release"] /\ UNCHANGED result
  /\ UNCHANGED <<manager, channel, caller, tasks, redis>>

Accepted(o) ==
  /\ sup[o] = "offered"
  /\ result[o] = "accepted"
  /\ sup' = [sup EXCEPT ![o] = "done"]
  /\ UNCHANGED <<manager, channel, caller, result, tasks, redis>>

\* Mistake: the dropped guard is trusted to release itself.
NotAcceptedForgotten(o) ==
  /\ sup[o] = "offered"
  /\ result[o] = "dropped"
  /\ sup' = [sup EXCEPT ![o] = "done"]
  /\ UNCHANGED <<manager, channel, caller, result, tasks, redis>>

\* Mistake: does not wait for the answer of a caller that has received it.
NotAcceptedYet(o) ==
  /\ sup[o] = "offered"
  /\ result[o] \in {"taken", "dropped"}
  /\ sup' = [sup EXCEPT ![o] = "clean"]
  /\ UNCHANGED <<manager, channel, caller, result, tasks, redis>>

\* `accepted` was dropped with the guard.
NotAccepted(o) ==
  /\ sup[o] = "offered"
  /\ result[o] = "dropped"
  /\ sup' = [sup EXCEPT ![o] = "clean"]
  /\ UNCHANGED <<manager, channel, caller, result, tasks, redis>>

\* clean_abandoned only logs a failure.
CleanAbandoned(o) ==
  /\ sup[o] = "clean"
  /\ sup' = [sup EXCEPT ![o] = "done"]
  /\ \/ holder' = Released(o) /\ UNCHANGED fallback
     \/ holder' \in {holder, Released(o)} /\ fallback' = fallback \cup {o}
  /\ UNCHANGED <<manager, channel, caller, result, tasks>>

\* Handoff::Abandoned: the supervisor releases the guard itself.  If that
\* fails, the guard is dropped and tries the queue.
ReleaseAbandoned(o) ==
  /\ sup[o] = "release"
  /\ sup' = [sup EXCEPT ![o] = "done"]
  /\ \/ holder' = Released(o) /\ UNCHANGED <<queue, fallback>>
     \/ /\ holder' \in {holder, Released(o)}
        /\ IF CanQueue
           THEN queue' = Append(queue, o) /\ UNCHANGED fallback
           ELSE fallback' = fallback \cup {o} /\ UNCHANGED queue
  /\ UNCHANGED <<manager, worker, caller, result, tasks>>

\* The TTL: no renewal came in time.
Lapse ==
  /\ holder # None
  /\ holder' = None
  /\ UNCHANGED <<manager, channel, caller, sup, result, tasks, fallback>>
-------------------------------------------------------------------------------
(* The release worker and its watcher *)

\* Mistake: releases are spawned, and the barrier does not wait for them.
TakeAhead ==
  /\ Receiving
  /\ queue # <<>>
  /\ worker = "idle" \/ Head(queue) = "barrier"
  /\ queue' = Tail(queue)
  /\ IF Head(queue) = "barrier"
     THEN coord' = "acked" /\ UNCHANGED worker
     ELSE /\ worker' = Head(queue)
          /\ coord' = IF coord = "waiting" THEN "granted" ELSE coord
  /\ UNCHANGED <<admission, shutdown, shut, owed, caller, sup, result, tasks, redis>>

\* A freed slot goes to the barrier that waits for it.
Take ==
  /\ worker = "idle"
  /\ queue # <<>>
  /\ queue' = Tail(queue)
  /\ IF Head(queue) = "barrier"
     THEN coord' = "acked" /\ UNCHANGED worker
     ELSE /\ worker' = Head(queue)
          /\ coord' = IF coord = "waiting" THEN "granted" ELSE coord
  /\ UNCHANGED <<admission, shutdown, shut, owed, caller, sup, result, tasks, redis>>

\* A failure is logged.
FinishRelease ==
  /\ worker \in Owners
  /\ worker' = "idle"
  /\ owed' = owed \ {worker}
  /\ \/ holder' = Released(worker) /\ UNCHANGED fallback
     \/ holder' \in {holder, Released(worker)} /\ fallback' = fallback \cup {worker}
  /\ UNCHANGED <<admission, shutdown, coord, shut, queue, caller, sup, result, tasks>>

\* The task ends unexpectedly, and the receiver goes with what it holds.
WorkerPanics ==
  /\ Receiving
  /\ worker' = "panicked"
  /\ queue' = <<>>
  /\ fallback' = fallback \cup {o \in Owners : Queued(o) \/ worker = o}
  /\ \/ UNCHANGED holder
     \/ worker \in Owners /\ holder' = Released(worker)
  /\ UNCHANGED <<manager, caller, sup, result, tasks>>

\* Whoever has a clone of the sender: the supervisor, and every guard.
HasSender(o) ==
  \/ sup[o] \notin {"none", "done"}
  \/ result[o] \in {"guard", "taken"}
  \/ caller[o] \in {"holding", "releasing", "unreleased"}

\* The last sender is gone and the queue has drained.
WorkerEnds ==
  /\ worker = "idle"
  /\ queue = <<>>
  /\ ~admission
  /\ coord = "done"
  /\ \A o \in Owners : ~HasSender(o)
  /\ worker' = "ended"
  /\ UNCHANGED <<manager, queue, caller, sup, result, tasks, redis>>

\* Mistake: a failure in Closing is left to the coordinator.
WatchOpenOnly ==
  /\ worker = "panicked"
  /\ worker' = "reported"
  /\ shutdown' = IF IsOpen THEN "Failed" ELSE shutdown
  /\ UNCHANGED <<admission, coord, shut, owed, queue, caller, sup, result, tasks, redis>>

\* Mistake: the state is set, whatever it was.
WatchAlways ==
  /\ worker = "panicked"
  /\ worker' = "reported"
  /\ shutdown' = "Failed"
  /\ UNCHANGED <<admission, coord, shut, owed, queue, caller, sup, result, tasks, redis>>

WatchWorker ==
  /\ worker = "panicked"
  /\ worker' = "reported"
  /\ shutdown' = IF shutdown = "Completed" THEN shutdown ELSE "Failed"
  /\ UNCHANGED <<admission, coord, shut, owed, queue, caller, sup, result, tasks, redis>>
-------------------------------------------------------------------------------
(* Shutdown *)

\* Mistake: the sender is cloned and stays.
ShutdownCallCloning(c) ==
  /\ shut[c] = "idle"
  /\ shut' = [shut EXCEPT ![c] = "waiting"]
  /\ shutdown' = IF IsOpen THEN "Closing" ELSE shutdown
  /\ coord' = IF coord = "none" THEN "start" ELSE coord
  /\ owed' = IF coord = "none" THEN {o \in Owners : Queued(o) \/ worker = o} ELSE owed
  /\ UNCHANGED <<admission, channel, caller, sup, result, tasks, redis>>

\* The first call seals admission and starts the coordinator, under the lock.
ShutdownCall(c) ==
  /\ shut[c] = "idle"
  /\ shut' = [shut EXCEPT ![c] = "waiting"]
  /\ IF admission
     THEN /\ admission' = FALSE
          /\ shutdown' = IF IsOpen THEN "Closing" ELSE shutdown
          /\ coord' = "start"
          /\ owed' = {o \in Owners : Queued(o) \/ worker = o}
     ELSE UNCHANGED <<admission, shutdown, coord, owed>>
  /\ UNCHANGED <<channel, caller, sup, result, tasks, redis>>

ShutdownEnd(c) ==
  /\ shut[c] = "waiting"
  /\ shutdown \in {"Completed", "Failed"}
  /\ shut' = [shut EXCEPT ![c] = IF shutdown = "Completed" THEN "returned" ELSE "panicked"]
  /\ UNCHANGED <<admission, shutdown, coord, owed, channel, caller, sup, result, tasks, redis>>

CancelShutdown(c) ==
  /\ shut[c] = "waiting"
  /\ shut' = [shut EXCEPT ![c] = "cancelled"]
  /\ UNCHANGED <<admission, shutdown, coord, owed, channel, caller, sup, result, tasks, redis>>

\* Sender::send reserves a slot, waiting for one if there is none, ...
ReserveBarrier ==
  /\ coord = "start"
  /\ coord' = IF ~Receiving THEN "failed" ELSE IF Room THEN "granted" ELSE "waiting"
  /\ UNCHANGED <<admission, shutdown, shut, owed, channel, caller, sup, result, tasks, redis>>

\* ... and fills it, although the receiver may have gone in between: then the
\* barrier is neither served nor dropped, for this task holds a sender itself.
PushBarrier ==
  /\ coord = "granted"
  /\ coord' = "acking"
  /\ queue' = Append(queue, "barrier")
  /\ UNCHANGED <<admission, shutdown, shut, owed, worker, caller, sup, result, tasks, redis>>

\* The receiver has gone, with the barrier or before it had a slot.
BarrierFails ==
  /\ ~Receiving
  /\ coord = "waiting" \/ (coord = "acking" /\ ~Queued("barrier"))
  /\ coord' = "failed"
  /\ UNCHANGED <<admission, shutdown, shut, owed, channel, caller, sup, result, tasks, redis>>

CompleteShutdown ==
  /\ coord \in {"acked", "failed"}
  /\ coord' = "done"
  /\ shutdown' = IF shutdown = "Failed" \/ coord = "failed" THEN "Failed" ELSE "Completed"
  /\ UNCHANGED <<admission, shut, owed, channel, caller, sup, result, tasks, redis>>
-------------------------------------------------------------------------------
CallerStep(o) ==
  \/ Admit(o) \/ Refuse(o) \/ CallerShutdown(o) \/ CallerLeaves(o)
  \/ ReceiveGuard(o) \/ CheckGuard(o) \/ RejectGuard(o) \/ AcceptGuard(o)

GuardStep(o) == ReleaseGuard(o) \/ CancelRelease(o) \/ ReleaseTask(o) \/ DropGuard(o)

SupervisorStep(o) ==
  \/ SupEnd(o) \/ StartAttempt(o) \/ ServeAcquire(o) \/ Retry(o)
  \/ RejectAcquired(o) \/ HandOff(o) \/ Accepted(o) \/ NotAccepted(o)
  \/ CleanAbandoned(o) \/ ReleaseAbandoned(o)

WorkerStep == Take \/ FinishRelease \/ WorkerEnds

CoordinatorStep == ReserveBarrier \/ PushBarrier \/ BarrierFails \/ CompleteShutdown

Next ==
  \/ \E o \in Owners : CallerStep(o) \/ GuardStep(o) \/ SupervisorStep(o)
  \/ \E c \in Callers : ShutdownCall(c) \/ ShutdownEnd(c) \/ CancelShutdown(c)
  \/ WorkerStep \/ WorkerPanics \/ WatchWorker \/ CoordinatorStep \/ Lapse

Spec == Init /\ [][Next]_vars

\* The runtime polls the tasks that can run.  The worker gets an answer or a
\* timeout from Redis for every release.
Fairness ==
  /\ WF_vars(WorkerStep)
  /\ WF_vars(WatchWorker)
  /\ WF_vars(CoordinatorStep)
  /\ \A c \in Callers : WF_vars(ShutdownEnd(c))
  /\ \A o \in Owners : WF_vars(CallerShutdown(o))

FairSpec == Spec /\ Fairness

\* Every acquisition gets an answer or a timeout, and a caller goes on with the
\* guard it has received.
Answers ==
  \A o \in Owners : /\ WF_vars(SupervisorStep(o))
                    /\ WF_vars(~IsOpen /\ SupEnd(o))
                    /\ WF_vars(RejectGuard(o) \/ AcceptGuard(o))
-------------------------------------------------------------------------------
(* Correctness *)

\* A lock that Redis has is in somebody's hands, or its release has failed and
\* only the TTL is left: nothing is lost between caller, channel and supervisor,
\* also when the queue is full (guard.rs:252-357).
NoLeak ==
  \A o \in Owners : holder = o =>
    \/ sup[o] \notin {"none", "done"}
    \/ caller[o] \in {"holding", "releasing", "unreleased"}
    \/ Queued(o) \/ worker = o
    \/ o \in fallback

\* Nobody releases the lock under a caller that has been given the guard and
\* has not released it (the accepted handshake, guard.rs:320-324).
NoReleaseUnderHolder ==
  \A o \in Owners : caller[o] = "holding" =>
    ~Queued(o) /\ worker # o /\ sup[o] \notin {"clean", "release"} /\ o \notin tasks

\* shutdown() that completes has seen the end of every release queued before it
\* (the barrier, manager.rs:176-179).
BarrierDrains == shutdown = "Completed" => owed = {}

\* The calls of shutdown agree: no call returns where another panics, though
\* coordinator and watcher decide independently (manager.rs:103-112, 180-191).
OneVerdict ==
  \A c, d \in Callers : ~(shut[c] = "returned" /\ shut[d] = "panicked")

\* A call of shutdown ends, whatever the queue, the worker and the other
\* callers do (manager.rs:195-207).
ShutdownEnds == \A c \in Callers : (shut[c] = "waiting") ~> (shut[c] # "waiting")

\* Shutdown and the worker's failure wake a caller that waits for a lock, even
\* if Redis never answers its acquisition (guard.rs:231).
WaitersEnd == \A o \in Owners : (caller[o] = "waiting" /\ ~IsOpen) ~> (caller[o] # "waiting")

\* After shutdown every supervisor ends if Redis answers: retries stop, an
\* unclaimed lock is cleaned up (README, Shutdown).
SupervisorsEnd == Answers => \A o \in Owners : (~IsOpen /\ sup[o] # "none") ~> (sup[o] = "done")

\* The worker finishes if Redis answers, once shutdown has begun and no guard is
\* left (README, Shutdown), unless it has failed.
WorkerFinishes ==
  Answers => (~IsOpen /\ \A o \in Owners : caller[o] \in {"idle", "done"})
    ~> (worker \in {"ended", "panicked", "reported"})
===============================================================================
