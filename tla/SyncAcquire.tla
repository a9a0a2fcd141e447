------------------------------ MODULE SyncAcquire ------------------------------
(***************************************************************************)
(* Acquisitions and guards over SyncManager (src/src/sync_lock/guard.rs).  *)
(*                                                                         *)
(* With a lock timeout the acquisition loop runs on a worker thread, and   *)
(* the caller waits for its result until the deadline; without one the     *)
(* caller runs the loop itself.  The loop is the same.                     *)
(*                                                                         *)
(* All acquisitions compete for one lock.  What Redis does over time is    *)
(* LeaseProtocol's matter: here a lock may lapse, a deadline pass or a     *)
(* lease run out at any moment, and a command that failed has been applied *)
(* by then or never will be.                                               *)
(***************************************************************************)
EXTENDS SyncManager

CONSTANTS
  Timed,  \* acquisitions with a lock timeout
  Once    \* try_acquire: one attempt

ASSUME SyncAcquireAssumption == Timed \in SUBSET Owners /\ Once \in SUBSET Owners

VARIABLES
  caller,  \* who called acquire_internal, and then has the guard
  work,    \* acquire_loop and the hand-over, by whichever thread runs it
  chan     \* the result channel, and what became of the guard sent on it

vars == <<closing, senders, channel, waiting, redis, caller, work, chan>>

CallerStates == {"idle", "waiting", "got", "checked", "claimed", "holding",
                 "releasing", "unreleased", "empty", "panicked", "done"}
WorkStates == {"off", "loop", "sent", "ok", "no", "clean",
               "granted", "offered", "done"}
ChanStates == {"empty", "none", "error", "guard", "accepted", "dropped"}

Init ==
  /\ ManagerInit
  /\ caller = [o \in Owners |-> "idle"]
  /\ work = [o \in Owners |-> "off"]
  /\ chan = [o \in Owners |-> "empty"]

UnchangedManager == UNCHANGED <<closing, worker, waiting>>
-------------------------------------------------------------------------------
(* The caller of acquire_internal *)

Admit(o) ==
  /\ caller[o] = "idle"
  /\ ~sealed
  /\ caller' = [caller EXCEPT ![o] = "waiting"]
  /\ work' = [work EXCEPT ![o] = "loop"]
  /\ senders' = senders \cup {o}
  /\ UnchangedManager
  /\ UNCHANGED <<queue, redis, chan>>

\* Admission is sealed, the timeout is zero or no thread can be spawned.
Refuse(o) ==
  /\ caller[o] = "idle"
  /\ sealed \/ o \in Timed
  /\ caller' = [caller EXCEPT ![o] = "done"]
  /\ UnchangedManager
  /\ UNCHANGED <<senders, queue, redis, work, chan>>

Receive(o) ==
  /\ caller[o] = "waiting"
  /\ chan[o] \in {"none", "error", "guard"}
  /\ caller' = [caller EXCEPT ![o] = "got"]
  /\ UnchangedManager
  /\ UNCHANGED <<senders, queue, redis, work, chan>>

\* The result is dropped: a guard in it tries the queue, and `accepted` goes
\* with it.
DropResult(o) ==
  IF chan[o] = "guard"
  THEN /\ chan' = [chan EXCEPT ![o] = "dropped"]
       /\ senders' = senders \ {o}
       /\ queue' = IF CanQueue THEN Append(queue, o) ELSE queue
  ELSE UNCHANGED <<chan, senders, queue>>

\* The deadline, before a result or with it in hand.  The receiver goes too, so
\* a guard the worker sends from now on comes back to it.
TimesOut(o) ==
  /\ o \in Timed
  /\ caller[o] \in {"waiting", "got"}
  /\ CancelAcquisition(o)
  /\ DropResult(o)
  /\ caller' = [caller EXCEPT ![o] = "done"]
  /\ UNCHANGED <<closing, worker, redis, work>>

\* Shutdown has begun, or the lease has run out; an error is passed on.
RejectResult(o) ==
  /\ caller[o] = "got"
  /\ sealed \/ chan[o] \in {"guard", "error"}
  /\ DropResult(o)
  /\ caller' = [caller EXCEPT ![o] = "done"]
  /\ UnchangedManager
  /\ UNCHANGED <<redis, work>>

\* What a call that returned no guard becomes: try_acquire returns None, but a
\* retrying method expects a guard.
WithoutGuard(o) == IF o \in Once THEN "empty" ELSE "panicked"

\* The checks are passed; shutdown may begin before `accepted` is sent.
PassResult(o) ==
  /\ caller[o] = "got"
  /\ ~sealed /\ chan[o] \in {"guard", "none"}
  /\ caller' = [caller EXCEPT ![o] = IF chan[o] = "guard" THEN "checked" ELSE WithoutGuard(o)]
  /\ UnchangedManager
  /\ UNCHANGED <<senders, queue, redis, work, chan>>

AcceptGuard(o) ==
  /\ caller[o] = "checked"
  /\ caller' = [caller EXCEPT ![o] = "claimed"]
  /\ chan' = [chan EXCEPT ![o] = "accepted"]
  /\ UnchangedManager
  /\ UNCHANGED <<senders, queue, redis, work>>

\* The lease is looked at once more, whoever ran the loop.
ReturnGuard(o) ==
  /\ caller[o] = "claimed"
  /\ caller' = [caller EXCEPT ![o] = "holding"]
  /\ UnchangedManager
  /\ UNCHANGED <<senders, queue, redis, work, chan>>

ReturnExpired(o) ==
  /\ caller[o] = "claimed"
  /\ caller' = [caller EXCEPT ![o] = "done"]
  /\ QueueRelease(o)
  /\ UnchangedManager
  /\ UNCHANGED <<holder, work, chan>>
-------------------------------------------------------------------------------
(* The claimed guard *)

\* release blocks its thread.
ReleaseGuard(o) ==
  /\ caller[o] \in {"holding", "unreleased"}
  /\ caller' = [caller EXCEPT ![o] = "releasing"]
  /\ UnchangedManager
  /\ UNCHANGED <<senders, queue, redis, work, chan>>

ReleaseEnds(o) ==
  /\ caller[o] = "releasing"
  /\ \/ /\ holder' = Released(o)
        /\ caller' = [caller EXCEPT ![o] = "done"]
        /\ senders' = senders \ {o}
     \/ /\ holder' \in {holder, Released(o)}
        /\ caller' = [caller EXCEPT ![o] = "unreleased"]
        /\ UNCHANGED senders
  /\ UnchangedManager
  /\ UNCHANGED <<queue, fallback, work, chan>>

DropGuard(o) ==
  /\ caller[o] \in {"holding", "unreleased"}
  /\ caller' = [caller EXCEPT ![o] = "done"]
  /\ QueueRelease(o)
  /\ UnchangedManager
  /\ UNCHANGED <<holder, work, chan>>
-------------------------------------------------------------------------------
(* acquire_loop, and the worker thread around it *)

\* The end of the loop without a guard: a worker sends the outcome, if there is
\* still somebody to receive it.
Finish(o, outcome) ==
  /\ work' = [work EXCEPT ![o] = "done"]
  /\ IF o \in Timed
     THEN /\ chan' = IF caller[o] = "waiting" THEN [chan EXCEPT ![o] = outcome] ELSE chan
          /\ UNCHANGED caller
     ELSE /\ caller' = [caller EXCEPT ![o] = IF outcome = "none" THEN WithoutGuard(o) ELSE "done"]
          /\ UNCHANGED chan

Looping(o) == work[o] = "loop" /\ wait[o] = "off"

\* Canceled, past the deadline, or shutdown.
LoopEnds(o) ==
  /\ Looping(o)
  /\ o \in canceled \cup Timed \/ sealed
  /\ Finish(o, "error")
  /\ senders' = senders \ {o}
  /\ UnchangedManager
  /\ UNCHANGED <<queue, redis>>

Attempt(o) ==
  /\ Looping(o)
  /\ o \notin canceled /\ ~sealed
  /\ work' = [work EXCEPT ![o] = "sent"]
  /\ UnchangedManager
  /\ UNCHANGED <<senders, queue, redis, caller, chan>>

ServeAcquire(o) ==
  /\ work[o] = "sent"
  /\ holder' = IF holder = None THEN o ELSE holder
  /\ work' = [work EXCEPT ![o] = IF holder = None THEN "ok" ELSE "no"]
  /\ UnchangedManager
  /\ UNCHANGED <<senders, queue, fallback, caller, chan>>

\* No connection could be checked out, or Redis refuses the command.
AttemptFails(o) ==
  /\ work[o] = "sent"
  /\ Finish(o, "error")
  /\ senders' = senders \ {o}
  /\ UnchangedManager
  /\ UNCHANGED <<queue, redis>>

\* Mistake: an I/O error is taken for a refusal.
AttemptInDoubtForgotten(o) ==
  /\ work[o] = "sent"
  /\ holder' \in {holder, IF holder = None THEN o ELSE holder}
  /\ Finish(o, "error")
  /\ senders' = senders \ {o}
  /\ UnchangedManager
  /\ UNCHANGED <<queue, fallback>>

\* An I/O error leaves open what Redis did.
AttemptInDoubt(o) ==
  /\ work[o] = "sent"
  /\ holder' \in {holder, IF holder = None THEN o ELSE holder}
  /\ Finish(o, "error")
  /\ QueueRelease(o)
  /\ UnchangedManager

\* Acquired, but shutdown has begun, it is too late or the lease has run out.
RejectAcquired(o) ==
  /\ work[o] = "ok"
  /\ work' = [work EXCEPT ![o] = "clean"]
  /\ UnchangedManager
  /\ UNCHANGED <<senders, queue, redis, caller, chan>>

\* release_lock, for a late or an unclaimed acquisition; a failure is logged.
Clean(o) ==
  /\ work[o] = "clean"
  /\ ReleaseNow(o)
  /\ Finish(o, "error")
  /\ senders' = senders \ {o}
  /\ UnchangedManager
  /\ UNCHANGED queue

Grant(o) ==
  /\ work[o] = "ok"
  /\ ~sealed /\ o \notin canceled
  /\ work' = [work EXCEPT ![o] = "granted"]
  /\ UnchangedManager
  /\ UNCHANGED <<senders, queue, redis, caller, chan>>

\* GuardData::new cannot spawn the renewal thread, and drops the guard.
SpawnFails(o) ==
  /\ work[o] = "granted"
  /\ Finish(o, "error")
  /\ QueueRelease(o)
  /\ UnchangedManager
  /\ UNCHANGED holder

ReturnInline(o) ==
  /\ work[o] = "granted"
  /\ o \notin Timed
  /\ work' = [work EXCEPT ![o] = "done"]
  /\ caller' = [caller EXCEPT ![o] = "claimed"]
  /\ UnchangedManager
  /\ UNCHANGED <<senders, queue, redis, chan>>

Offer(o) ==
  /\ work[o] = "granted"
  /\ o \in Timed
  /\ caller[o] = "waiting"
  /\ work' = [work EXCEPT ![o] = "offered"]
  /\ chan' = [chan EXCEPT ![o] = "guard"]
  /\ UnchangedManager
  /\ UNCHANGED <<senders, queue, redis, caller>>

\* The send returns the guard, which is dropped, and the worker cleans up.
OfferFails(o) ==
  /\ work[o] = "granted"
  /\ o \in Timed
  /\ caller[o] # "waiting"
  /\ work' = [work EXCEPT ![o] = "clean"]
  /\ senders' = senders \ {o}
  /\ queue' = IF CanQueue THEN Append(queue, o) ELSE queue
  /\ UnchangedManager
  /\ UNCHANGED <<redis, caller, chan>>

Accepted(o) ==
  /\ work[o] = "offered"
  /\ chan[o] = "accepted"
  /\ work' = [work EXCEPT ![o] = "done"]
  /\ UnchangedManager
  /\ UNCHANGED <<senders, queue, redis, caller, chan>>

\* Mistake: a guard that has been received but not accepted is cleaned up.
NotAcceptedYet(o) ==
  /\ work[o] = "offered"
  /\ chan[o] = "dropped" \/ caller[o] \in {"got", "checked"}
  /\ work' = [work EXCEPT ![o] = "clean"]
  /\ UnchangedManager
  /\ UNCHANGED <<senders, queue, redis, caller, chan>>

NotAccepted(o) ==
  /\ work[o] = "offered"
  /\ chan[o] = "dropped"
  /\ work' = [work EXCEPT ![o] = "clean"]
  /\ UnchangedManager
  /\ UNCHANGED <<senders, queue, redis, caller, chan>>

\* Contention: shutdown, the deadline or a single attempt end the loop.
GiveUp(o) ==
  /\ work[o] = "no"
  /\ sealed \/ o \in Timed \cup Once
  /\ \/ (sealed \/ o \in Timed) /\ Finish(o, "error")
     \/ ~sealed /\ o \in Once /\ Finish(o, "none")
  /\ senders' = senders \ {o}
  /\ UnchangedManager
  /\ UNCHANGED <<queue, redis>>

\* Mistake: the attempts of a retrying method are bounded.
RetryOrNone(o) ==
  /\ work[o] = "no"
  /\ ~sealed
  /\ Finish(o, "none")
  /\ senders' = senders \ {o}
  /\ UnchangedManager
  /\ UNCHANGED <<queue, redis>>

WaitRetry(o) ==
  /\ work[o] = "no"
  /\ ~sealed /\ o \notin Once
  /\ work' = [work EXCEPT ![o] = "loop"]
  /\ wait' = [wait EXCEPT ![o] = "lock"]
  /\ UNCHANGED <<closing, senders, channel, retryLock, canceled, redis, caller, chan>>

\* The TTL: no renewal came in time.
Lapse ==
  /\ holder # None
  /\ holder' = None
  /\ UnchangedManager
  /\ UNCHANGED <<senders, queue, fallback, caller, work, chan>>
-------------------------------------------------------------------------------
CallerStep(o) ==
  \/ Admit(o) \/ Refuse(o) \/ Receive(o) \/ TimesOut(o) \/ RejectResult(o)
  \/ PassResult(o) \/ AcceptGuard(o) \/ ReturnGuard(o) \/ ReturnExpired(o)

GuardStep(o) == ReleaseGuard(o) \/ ReleaseEnds(o) \/ DropGuard(o)

AttemptStep(o) ==
  \/ LoopEnds(o) \/ Attempt(o) \/ ServeAcquire(o) \/ AttemptFails(o)
  \/ AttemptInDoubt(o) \/ RejectAcquired(o) \/ Clean(o) \/ Grant(o) \/ GiveUp(o)

HandOverStep(o) ==
  \/ SpawnFails(o) \/ ReturnInline(o) \/ Offer(o) \/ OfferFails(o)
  \/ Accepted(o) \/ NotAccepted(o)

WorkStep(o) == AttemptStep(o) \/ HandOverStep(o) \/ WaitRetry(o)

Next ==
  \/ ManagerStep /\ UNCHANGED <<caller, work, chan>>
  \/ \E o \in Owners : CallerStep(o) \/ GuardStep(o) \/ WorkStep(o)
  \/ Lapse

Spec == Init /\ [][Next]_vars

Composed(step) == step /\ UNCHANGED <<caller, work, chan>>

\* The threads run, recv_timeout ends, and a critical section that others leave
\* again and again is entered at last.  The retry timer is not trusted:
\* retry_interval may be as long as the user likes.
Fairness ==
  /\ \A c \in Callers : SF_vars(Composed(ShutdownStep(c)))
  /\ \A o \in Owners : /\ SF_vars(Composed(RetryStep(o)))
                       /\ SF_vars(TimesOut(o))

FairSpec == Spec /\ Fairness

\* Redis answers every command, or its connection times out, and a caller goes on
\* with what it has received.
Answers ==
  /\ WF_vars(Composed(ThreadStep))
  /\ \A o \in Owners : /\ WF_vars(WorkStep(o))
                       /\ WF_vars(Looping(o) /\ LoopEnds(o) /\ (sealed \/ o \in canceled))
                       /\ WF_vars(PassResult(o) \/ RejectResult(o) \/ AcceptGuard(o))
                       /\ WF_vars(ReturnGuard(o) \/ ReturnExpired(o))
-------------------------------------------------------------------------------
(* Correctness *)

\* Types, and no panic: a retrying method finds a guard at its expect("retrying
\* acquisition returns a guard"); only try_acquire is told that there is none
\* (lock.rs:115).
TypeOK ==
  /\ ManagerTypeOK
  /\ caller \in [Owners -> CallerStates \ {"panicked"}]
  /\ work \in [Owners -> WorkStates]
  /\ chan \in [Owners -> ChanStates]

Guarded == {"claimed", "holding", "releasing", "unreleased"}

\* A lock that Redis has is in somebody's hands, or its release has failed and
\* only the TTL is left: nothing is lost between the caller, its worker thread
\* and the channel between them (guard.rs:160-206).
NoLeak ==
  \A o \in Owners : holder = o =>
    work[o] \notin {"off", "done"} \/ caller[o] \in Guarded
    \/ Queued(o) \/ worker = o \/ o \in fallback

\* Nobody releases the lock under a caller that has been given the guard and has
\* not released it (the accepted handshake, guard.rs:164-169).
NoReleaseUnderHolder ==
  \A o \in Owners : caller[o] \in {"claimed", "holding"} =>
    ~Queued(o) /\ worker # o /\ work[o] # "clean" /\ chan[o] # "dropped"

\* shutdown() that completes has seen the end of every release queued before it
\* (the barrier, manager.rs:164-170).
BarrierDrains == result = "complete" => owed = {}

\* The calls of shutdown agree, and with the release thread: a call that returned
\* has had its barrier executed, and the one that waited for it leaves none
\* asleep (manager.rs:169-179).
OneVerdict ==
  \A c, d \in Callers :
    /\ shut[c] = "returned" =>
         shut[d] # "panicked" /\ ~Queued("barrier") /\ shut[d] \notin {"send", "ack", "lost"}
    /\ sealed /\ coord = None => shut[d] # "asleep"

\* The release thread is there for every guard, also for one that was created
\* after shutdown had returned (guard.rs:257-276, manager.rs:134).
ThreadOutlivesGuards ==
  \A o \in Owners : caller[o] \in Guarded \/ work[o] = "granted" \/ chan[o] = "guard" =>
    worker # "ended"

\* No wakeup is lost: a thread that sleeps between attempts has not been canceled,
\* and if shutdown has begun, a call has still to wake it (manager.rs:160-163,
\* 190-206).
NoLostWakeup ==
  \A o \in Owners : wait[o] = "asleep" =>
    o \notin canceled /\ (sealed => \E c \in Callers : shut[c] = "notify")

\* A call of shutdown ends if Redis answers, however full the queue, and wakes the
\* others that wait for its result (manager.rs:164-174).
ShutdownEnds ==
  Answers => \A c \in Callers : (shut[c] # "idle") ~> (shut[c] \in {"returned", "panicked"})

\* A call with a deadline ends by its timer alone, even if its worker thread is
\* stuck in Redis, which need not answer, or asleep (guard.rs:173-200).
DeadlineEnds == \A o \in Timed : (caller[o] = "waiting") ~> (caller[o] # "waiting")

\* A retry wait ends when its acquisition is canceled or shutdown begins, without
\* its timer (manager.rs:160-163, 190-206).
WaitsEnd ==
  \A o \in Owners : (wait[o] # "off" /\ (sealed \/ o \in canceled)) ~> (wait[o] = "off")

\* After shutdown, or for a caller that has left, the loop and its worker thread
\* end if Redis answers, and what they acquired is cleaned up (guard.rs:160-171,
\* 231-291).
WorkEnds ==
  Answers => \A o \in Owners : (work[o] # "off" /\ (sealed \/ o \in canceled)) ~> (work[o] = "done")

\* The release thread ends if Redis answers, once shutdown has been called and no
\* guard is left, unless it has failed (manager.rs:134).
ThreadFinishes ==
  Answers => (sealed /\ \A o \in Owners : caller[o] \in {"idle", "done", "empty", "panicked"})
    ~> (worker \in {"ended", "panicked"})
===============================================================================
