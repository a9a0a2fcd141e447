--------------------------- MODULE SyncAcquireProofs ---------------------------
(***************************************************************************)
(* What SyncAcquire, over SyncManager, guarantees for any number of        *)
(* acquisitions and calls of shutdown, a release queue of any size and     *)
(* whichever acquisitions have a timeout or a single attempt: no lock is   *)
(* lost between its caller, its worker thread and the release thread, none *)
(* is released under a caller that holds it, shutdown completes after      *)
(* everything queued before it, all its calls agree, and the release       *)
(* thread outlives every guard.                                            *)
(*                                                                         *)
(* The invariant has three parts.  Handover, Disposed, Unserved, Kept and  *)
(* Senders say of one acquisition who is responsible for its lock;         *)
(* Emptied, OneBarrier and Ahead say what is in the queue and in which     *)
(* order; Stages and Verdicts say how far shutdown is.                     *)
(***************************************************************************)
EXTENDS SyncAcquire, SequenceTheorems, TLAPS

\* How the caller, the loop and the result channel of an acquisition stand to
\* each other.
Handover ==
  \A o \in Owners :
    /\ caller[o] = "idle" => work[o] = "off"
    /\ work[o] = "off" => caller[o] \in {"idle", "done"} /\ chan[o] = "empty"
    /\ work[o] \in {"loop", "sent", "ok", "no", "granted"} =>
         chan[o] = "empty" /\ (caller[o] = "waiting" \/ (o \in Timed /\ caller[o] = "done"))
    /\ work[o] = "clean" =>
         /\ chan[o] \in {"empty", "dropped"}
         /\ caller[o] = "waiting" \/ (o \in Timed /\ caller[o] = "done")
    /\ work[o] = "offered" => chan[o] \in {"guard", "accepted", "dropped"}
    /\ chan[o] # "empty" => o \in Timed
    /\ chan[o] = "none" => o \in Once /\ work[o] = "done"
    /\ chan[o] = "error" => work[o] = "done" /\ caller[o] \in {"waiting", "got", "done"}
    /\ chan[o] = "guard" => work[o] = "offered" /\ caller[o] \in {"waiting", "got", "checked"}
    /\ chan[o] = "dropped" => caller[o] = "done"
    /\ chan[o] = "accepted" => work[o] \in {"offered", "done"} /\ caller[o] \in Guarded \cup {"done"}
    /\ caller[o] = "got" => chan[o] \in {"none", "error", "guard"}
    /\ caller[o] = "checked" => chan[o] = "guard"
    /\ caller[o] \in Guarded =>
         IF o \in Timed THEN chan[o] = "accepted" ELSE work[o] = "done" /\ chan[o] = "empty"

\* A release is queued or executed only of a guard that is gone, or that its
\* caller will not see.
Disposed ==
  \A o \in Owners : Queued(o) \/ worker = o =>
    /\ caller[o] \notin Guarded
    /\ chan[o] # "guard"
    /\ work[o] \in {"offered", "clean", "done"}

\* Unless the last attempt acquired it, Redis has no lock of this owner.
Unserved == \A o \in Owners : work[o] \in {"off", "loop", "sent", "no"} => holder # o

\* NoLeak, with an answered hand-over counted as the end of the loop.
Kept ==
  \A o \in Owners : holder = o =>
    \/ work[o] \notin {"off", "done"} /\ ~(work[o] = "offered" /\ chan[o] = "accepted")
    \/ caller[o] \in Guarded
    \/ Queued(o) \/ worker = o
    \/ o \in fallback

\* A loop that may still acquire and a guard that may still be dropped have a
\* sender, and the release thread ends only without senders.
Senders ==
  /\ \A o \in Owners :
       caller[o] \in Guarded \/ work[o] \in {"loop", "sent", "ok", "no", "granted"} \/ chan[o] = "guard"
         => o \in senders
  /\ worker = "ended" => sealed /\ coord = None /\ senders = {}

Emptied == ~Receiving => queue = <<>>

\* There is one barrier, in the queue only while the call that has sent it awaits
\* its acknowledgement.
OneBarrier ==
  /\ Queued("barrier") => coord \in Callers /\ shut[coord] = "ack"
  /\ \A i, j \in DOMAIN queue : queue[i] = "barrier" /\ queue[j] = "barrier" => i = j

\* What is owed is ahead of the barrier.
Ahead ==
  Receiving => \A o \in owed :
    \/ worker = o
    \/ /\ coord \in Callers /\ shut[coord] \in {"notify", "send", "ack"}
       /\ \E i \in DOMAIN queue :
            queue[i] = o /\ \A j \in DOMAIN queue : queue[j] = "barrier" => i < j

\* One call has the sender, and it alone goes from the barrier to the result.
Stages ==
  /\ ~sealed => /\ coord = None /\ result = "none" /\ owed = {}
                /\ \A c \in Callers : shut[c] = "idle"
  /\ coord \in Callers => shut[coord] \in {"notify", "send", "ack", "acked", "lost", "tell"}
  /\ \A c \in Callers : shut[c] \in {"send", "ack", "acked", "lost", "tell"} => coord = c
  /\ \A c \in Callers : shut[c] = "acked" => owed = {}
  /\ sealed => (result = "none" <=> coord \in Callers /\ shut[coord] # "tell")
  /\ result = "complete" => owed = {}

Verdicts ==
  \A c \in Callers : /\ shut[c] = "returned" => result = "complete"
                     /\ shut[c] = "panicked" => result = "failed"
                     /\ shut[c] = "asleep" => coord # None

IInv ==
  /\ TypeOK
  /\ Handover
  /\ Disposed
  /\ Unserved
  /\ Kept
  /\ Senders
  /\ Emptied
  /\ OneBarrier
  /\ Ahead
  /\ Stages
  /\ Verdicts
-------------------------------------------------------------------------------
(* The release channel *)

\* What joins the queue is its last element, the others keep their places.
LEMMA Joins ==
  ASSUME ManagerTypeOK, NEW x \in Owners \cup {"barrier"}, queue' = Append(queue, x)
  PROVE  /\ queue' \in Seq(Owners \cup {"barrier"}) /\ Len(queue') = Len(queue) + 1
         /\ DOMAIN queue = 1..Len(queue) /\ DOMAIN queue' = 1..(Len(queue) + 1)
         /\ \A i \in 1..Len(queue) : queue'[i] = queue[i]
         /\ queue'[Len(queue) + 1] = x
         /\ \A y : Queued(y)' <=> Queued(y) \/ y = x
  <1>1. /\ queue' \in Seq(Owners \cup {"barrier"}) /\ Len(queue') = Len(queue) + 1
        /\ Len(queue) \in Nat
        /\ DOMAIN queue = 1..Len(queue) /\ DOMAIN queue' = 1..(Len(queue) + 1)
        /\ \A i \in 1..Len(queue) : queue'[i] = queue[i]
        /\ queue'[Len(queue) + 1] = x
    BY DEF ManagerTypeOK
  <1>2. ASSUME NEW y PROVE Queued(y)' <=> Queued(y) \/ y = x
    BY <1>1 DEF Queued
  <1> QED
    BY <1>1, <1>2

\* What leaves the queue is its first element, the others move up.
LEMMA Leaves ==
  ASSUME ManagerTypeOK, queue # <<>>, queue' = Tail(queue)
  PROVE  /\ queue' \in Seq(Owners \cup {"barrier"}) /\ Len(queue') = Len(queue) - 1
         /\ Len(queue) \in Nat \ {0}
         /\ DOMAIN queue = 1..Len(queue) /\ DOMAIN queue' = 1..(Len(queue) - 1)
         /\ \A i \in 1..(Len(queue) - 1) : queue'[i] = queue[i + 1]
         /\ Head(queue) = queue[1] /\ Head(queue) \in Owners \cup {"barrier"}
         /\ \A y : Queued(y) <=> Queued(y)' \/ y = Head(queue)
  <1>1. /\ queue' \in Seq(Owners \cup {"barrier"}) /\ Len(queue') = Len(queue) - 1
        /\ Len(queue) \in Nat \ {0}
        /\ DOMAIN queue = 1..Len(queue) /\ DOMAIN queue' = 1..(Len(queue) - 1)
        /\ \A i \in 1..(Len(queue) - 1) : queue'[i] = queue[i + 1]
        /\ Head(queue) = queue[1] /\ Head(queue) \in Owners \cup {"barrier"}
    BY HeadTailProperties DEF ManagerTypeOK
  <1>2. ASSUME NEW y PROVE Queued(y) <=> Queued(y)' \/ y = Head(queue)
    <2>1. ASSUME Queued(y) PROVE Queued(y)' \/ y = Head(queue)
      <3>1. PICK i \in 1..Len(queue) : queue[i] = y
        BY <1>1, <2>1 DEF Queued
      <3>2. CASE i = 1
        BY <1>1, <3>1, <3>2
      <3>3. CASE i # 1
        <4>1. i - 1 \in 1..(Len(queue) - 1) /\ queue'[i - 1] = y
          BY <1>1, <3>1, <3>3
        <4> QED
          BY <1>1, <4>1 DEF Queued
      <3> QED
        BY <3>2, <3>3
    <2>2. ASSUME Queued(y)' PROVE Queued(y)
      <3>1. PICK i \in 1..(Len(queue) - 1) : queue'[i] = y
        BY <1>1, <2>2 DEF Queued
      <3>2. i + 1 \in 1..Len(queue) /\ queue[i + 1] = y
        BY <1>1, <3>1
      <3> QED
        BY <1>1, <3>2 DEF Queued
    <2>3. ASSUME y = Head(queue) PROVE Queued(y)
      BY <1>1, <2>3 DEF Queued
    <2> QED
      BY <2>1, <2>2, <2>3
  <1> QED
    BY <1>1, <1>2

\* A queue that nobody touches holds the same elements.
LEMMA Stays ==
  ASSUME queue' = queue
  PROVE  \A y : Queued(y)' <=> Queued(y)
  BY DEF Queued

\* A dropped guard joins the queue if it finds a receiver and a free slot
\* (GuardData::drop).
LEMMA Dropped ==
  ASSUME ManagerTypeOK, NEW o \in Owners,
         queue' = IF CanQueue THEN Append(queue, o) ELSE queue
  PROVE  /\ queue' \in Seq(Owners \cup {"barrier"}) /\ Len(queue') <= Buffer
         /\ \A y : Queued(y)' <=> Queued(y) \/ (CanQueue /\ y = o)
  <1>1. CASE CanQueue
    <2>1. queue' = Append(queue, o)
      BY <1>1
    <2>2. Len(queue) \in Nat /\ Len(queue) < Buffer
      BY <1>1, SyncManagerAssumption DEF CanQueue, ManagerTypeOK
    <2> QED
      BY <1>1, <2>1, <2>2, Joins, SyncManagerAssumption
  <1>2. CASE ~CanQueue
    BY <1>2, Stays DEF ManagerTypeOK
  <1> QED
    BY <1>1, <1>2

\* The invariant holds before the first step.
LEMMA InitIInv == Init => IInv
  <1> SUFFICES ASSUME Init PROVE IInv
    OBVIOUS
  <1> USE DEF Init, ManagerInit
  <1>1. TypeOK
    <2>1. queue \in Seq(Owners \cup {"barrier"}) /\ Len(queue) <= Buffer
      BY SyncManagerAssumption
    <2>2. ManagerTypeOK
      BY <2>1 DEF ManagerTypeOK, ShutStates, WaitStates
    <2> QED
      BY <2>2 DEF TypeOK, CallerStates, WorkStates, ChanStates
  <1>2. Handover /\ Unserved /\ Senders
    BY SyncManagerAssumption DEF Handover, Unserved, Senders, Guarded
  <1>3. Disposed /\ Kept /\ Emptied /\ OneBarrier /\ Ahead
    BY SyncManagerAssumption DEF Disposed, Kept, Emptied, OneBarrier, Ahead, Queued
  <1>4. Stages /\ Verdicts
    BY SyncManagerAssumption DEF Stages, Verdicts
  <1> QED
    BY <1>1, <1>2, <1>3, <1>4 DEF IInv
-------------------------------------------------------------------------------
(* The steps of an acquisition: caller, guard, loop and hand-over *)

Local == TypeOK /\ Handover /\ Disposed /\ Unserved /\ Kept /\ Senders

Shared == Emptied /\ OneBarrier /\ Ahead /\ Stages /\ Verdicts

\* What the caller does, from its admission to the returned guard, keeps the
\* acquisition accounted for (acquire_internal).
LEMMA CallerStepLocal ==
  ASSUME IInv, NEW o \in Owners, CallerStep(o)
  PROVE  Local'
  <1> USE SyncManagerAssumption, SyncAcquireAssumption
      DEF IInv, Local, TypeOK, ManagerTypeOK, Handover, Disposed, Unserved, Kept, Senders,
          Guarded, UnchangedManager, closing, channel, waiting, redis,
          CallerStates, WorkStates, ChanStates, WaitStates
  <1>1. CASE Admit(o)
    BY <1>1, Stays DEF Admit
  <1>2. CASE Refuse(o)
    BY <1>2, Stays DEF Refuse
  <1>3. CASE Receive(o)
    BY <1>3, Stays DEF Receive
  <1>4. CASE TimesOut(o)
    <2>1. /\ caller[o] \in {"waiting", "got"} /\ (caller[o] = "got" \/ o \in Timed)
          /\ caller' = [caller EXCEPT ![o] = "done"]
          /\ wait' \in [Owners -> WaitStates] /\ canceled' \in SUBSET Owners
          /\ UNCHANGED <<sealed, coord, result, shut, owed, worker, retryLock, redis, work>>
      BY <1>4 DEF TimesOut, CancelAcquisition, WakeRetries
    <2>2. CASE chan[o] = "guard"
      <3>1. /\ queue' \in Seq(Owners \cup {"barrier"}) /\ Len(queue') <= Buffer
            /\ \A y : Queued(y)' <=> Queued(y) \/ (CanQueue /\ y = o)
        BY <1>4, <2>2, Dropped DEF TimesOut, DropResult
      <3>2. chan' = [chan EXCEPT ![o] = "dropped"] /\ senders' = senders \ {o}
        BY <1>4, <2>2 DEF TimesOut, DropResult
      <3> QED
        BY <2>1, <2>2, <3>1, <3>2
    <2>3. CASE chan[o] # "guard"
      <3>1. UNCHANGED <<chan, senders, queue>>
        BY <1>4, <2>3 DEF TimesOut, DropResult
      <3> QED
        BY <2>1, <2>3, <3>1, Stays
    <2> QED
      BY <2>2, <2>3
  <1>5. CASE RejectResult(o)
    <2>1. /\ caller[o] \in {"waiting", "got"} /\ (caller[o] = "got" \/ o \in Timed)
          /\ caller' = [caller EXCEPT ![o] = "done"]
          /\ wait' \in [Owners -> WaitStates] /\ canceled' \in SUBSET Owners
          /\ UNCHANGED <<sealed, coord, result, shut, owed, worker, retryLock, redis, work>>
      BY <1>5 DEF RejectResult, CancelAcquisition, WakeRetries
    <2>2. CASE chan[o] = "guard"
      <3>1. /\ queue' \in Seq(Owners \cup {"barrier"}) /\ Len(queue') <= Buffer
            /\ \A y : Queued(y)' <=> Queued(y) \/ (CanQueue /\ y = o)
        BY <1>5, <2>2, Dropped DEF RejectResult, DropResult
      <3>2. chan' = [chan EXCEPT ![o] = "dropped"] /\ senders' = senders \ {o}
        BY <1>5, <2>2 DEF RejectResult, DropResult
      <3> QED
        BY <2>1, <2>2, <3>1, <3>2
    <2>3. CASE chan[o] # "guard"
      <3>1. UNCHANGED <<chan, senders, queue>>
        BY <1>5, <2>3 DEF RejectResult, DropResult
      <3> QED
        BY <2>1, <2>3, <3>1, Stays
    <2> QED
      BY <2>2, <2>3
  <1>6. CASE PassResult(o)
    BY <1>6, Stays DEF PassResult, WithoutGuard
  <1>7. CASE AcceptGuard(o)
    BY <1>7, Stays DEF AcceptGuard
  <1>8. CASE ReturnGuard(o)
    BY <1>8, Stays DEF ReturnGuard
  <1>9. CASE ReturnExpired(o)
    <2>1. /\ queue' \in Seq(Owners \cup {"barrier"}) /\ Len(queue') <= Buffer
          /\ \A y : Queued(y)' <=> Queued(y) \/ (CanQueue /\ y = o)
      BY <1>9, Dropped DEF ReturnExpired, QueueRelease
    <2>2. /\ caller[o] \in Guarded /\ caller' = [caller EXCEPT ![o] = "done"]
          /\ senders' = senders \ {o}
          /\ fallback' = IF CanQueue THEN fallback ELSE fallback \cup {o}
          /\ UNCHANGED <<closing, worker, waiting, holder, work, chan>>
      BY <1>9 DEF ReturnExpired, QueueRelease
    <2> QED
      BY <2>1, <2>2
  <1> QED
    BY <1>1, <1>2, <1>3, <1>4, <1>5, <1>6, <1>7, <1>8, <1>9 DEF CallerStep

\* What the owner of a returned guard does.
LEMMA GuardStepLocal ==
  ASSUME IInv, NEW o \in Owners, GuardStep(o)
  PROVE  Local'
  <1> USE SyncManagerAssumption, SyncAcquireAssumption
      DEF IInv, Local, TypeOK, ManagerTypeOK, Handover, Disposed, Unserved, Kept, Senders,
          Guarded, UnchangedManager, closing, channel, waiting, redis,
          CallerStates, WorkStates, ChanStates, WaitStates
  <1>1. CASE ReleaseGuard(o)
    BY <1>1, Stays DEF ReleaseGuard
  <1>2. CASE ReleaseEnds(o)
    BY <1>2, Stays DEF ReleaseEnds, Released
  <1>3. CASE DropGuard(o)
    <2>1. /\ queue' \in Seq(Owners \cup {"barrier"}) /\ Len(queue') <= Buffer
          /\ \A y : Queued(y)' <=> Queued(y) \/ (CanQueue /\ y = o)
      BY <1>3, Dropped DEF DropGuard, QueueRelease
    <2>2. /\ caller[o] \in Guarded /\ caller' = [caller EXCEPT ![o] = "done"]
          /\ senders' = senders \ {o}
          /\ fallback' = IF CanQueue THEN fallback ELSE fallback \cup {o}
          /\ UNCHANGED <<closing, worker, waiting, holder, work, chan>>
      BY <1>3 DEF DropGuard, QueueRelease
    <2> QED
      BY <2>1, <2>2
  <1> QED
    BY <1>1, <1>2, <1>3 DEF GuardStep

\* What the loop does, from the first attempt to its end, in doubt or not
\* (acquire_loop).
LEMMA AttemptStepLocal ==
  ASSUME IInv, NEW o \in Owners, AttemptStep(o)
  PROVE  Local'
  <1> USE SyncManagerAssumption, SyncAcquireAssumption
      DEF IInv, Local, TypeOK, ManagerTypeOK, Handover, Disposed, Unserved, Kept, Senders,
          Guarded, UnchangedManager, closing, channel, waiting, redis,
          CallerStates, WorkStates, ChanStates, WaitStates
  <1>1. CASE LoopEnds(o)
    BY <1>1, Stays DEF LoopEnds, Looping, Finish, WithoutGuard
  <1>2. CASE Attempt(o)
    BY <1>2, Stays DEF Attempt, Looping
  <1>3. CASE ServeAcquire(o)
    BY <1>3, Stays DEF ServeAcquire
  <1>4. CASE AttemptFails(o)
    BY <1>4, Stays DEF AttemptFails, Finish, WithoutGuard
  <1>5. CASE AttemptInDoubt(o)
    <2>1. /\ queue' \in Seq(Owners \cup {"barrier"}) /\ Len(queue') <= Buffer
          /\ \A y : Queued(y)' <=> Queued(y) \/ (CanQueue /\ y = o)
      BY <1>5, Dropped DEF AttemptInDoubt, QueueRelease
    <2>2. /\ work[o] = "sent" /\ work' = [work EXCEPT ![o] = "done"]
          /\ holder' \in {holder, o} /\ senders' = senders \ {o}
          /\ fallback' = IF CanQueue THEN fallback ELSE fallback \cup {o}
          /\ UNCHANGED <<closing, worker, waiting>>
      BY <1>5 DEF AttemptInDoubt, QueueRelease, Finish
    <2>3. IF o \in Timed
          THEN /\ chan' = IF caller[o] = "waiting" THEN [chan EXCEPT ![o] = "error"] ELSE chan
               /\ UNCHANGED caller
          ELSE caller' = [caller EXCEPT ![o] = "done"] /\ UNCHANGED chan
      BY <1>5 DEF AttemptInDoubt, Finish
    <2> QED
      BY <2>1, <2>2, <2>3
  <1>6. CASE RejectAcquired(o)
    BY <1>6, Stays DEF RejectAcquired
  <1>7. CASE Clean(o)
    BY <1>7, Stays DEF Clean, Finish, WithoutGuard, ReleaseNow, Released
  <1>8. CASE Grant(o)
    BY <1>8, Stays DEF Grant
  <1>9. CASE GiveUp(o)
    BY <1>9, Stays DEF GiveUp, Finish, WithoutGuard
  <1> QED
    BY <1>1, <1>2, <1>3, <1>4, <1>5, <1>6, <1>7, <1>8, <1>9 DEF AttemptStep

\* How a guard goes from the loop to its caller, or comes back
\* (acquire_internal's worker thread).
LEMMA HandOverStepLocal ==
  ASSUME IInv, NEW o \in Owners, HandOverStep(o)
  PROVE  Local'
  <1> USE SyncManagerAssumption, SyncAcquireAssumption
      DEF IInv, Local, TypeOK, ManagerTypeOK, Handover, Disposed, Unserved, Kept, Senders,
          Guarded, UnchangedManager, closing, channel, waiting, redis,
          CallerStates, WorkStates, ChanStates, WaitStates
  <1>1. CASE SpawnFails(o)
    <2>1. /\ queue' \in Seq(Owners \cup {"barrier"}) /\ Len(queue') <= Buffer
          /\ \A y : Queued(y)' <=> Queued(y) \/ (CanQueue /\ y = o)
      BY <1>1, Dropped DEF SpawnFails, QueueRelease
    <2>2. /\ work[o] = "granted" /\ work' = [work EXCEPT ![o] = "done"]
          /\ holder' = holder /\ senders' = senders \ {o}
          /\ fallback' = IF CanQueue THEN fallback ELSE fallback \cup {o}
          /\ UNCHANGED <<closing, worker, waiting>>
      BY <1>1 DEF SpawnFails, QueueRelease, Finish
    <2>3. IF o \in Timed
          THEN /\ chan' = IF caller[o] = "waiting" THEN [chan EXCEPT ![o] = "error"] ELSE chan
               /\ UNCHANGED caller
          ELSE caller' = [caller EXCEPT ![o] = "done"] /\ UNCHANGED chan
      BY <1>1 DEF SpawnFails, Finish
    <2> QED
      BY <2>1, <2>2, <2>3
  <1>2. CASE ReturnInline(o)
    BY <1>2, Stays DEF ReturnInline
  <1>3. CASE Offer(o)
    BY <1>3, Stays DEF Offer
  <1>4. CASE OfferFails(o)
    <2>1. /\ queue' \in Seq(Owners \cup {"barrier"}) /\ Len(queue') <= Buffer
          /\ \A y : Queued(y)' <=> Queued(y) \/ (CanQueue /\ y = o)
      BY <1>4, Dropped DEF OfferFails
    <2>2. /\ work[o] = "granted" /\ o \in Timed /\ caller[o] # "waiting"
          /\ work' = [work EXCEPT ![o] = "clean"] /\ senders' = senders \ {o}
          /\ UNCHANGED <<closing, worker, waiting, redis, caller, chan>>
      BY <1>4 DEF OfferFails
    <2> QED
      BY <2>1, <2>2
  <1>5. CASE Accepted(o)
    BY <1>5, Stays DEF Accepted
  <1>6. CASE NotAccepted(o)
    BY <1>6, Stays DEF NotAccepted
  <1> QED
    BY <1>1, <1>2, <1>3, <1>4, <1>5, <1>6 DEF HandOverStep
\* The wait before the next attempt changes nothing in anybody's hands.
LEMMA WaitRetryLocal ==
  ASSUME IInv, NEW o \in Owners, WaitRetry(o)
  PROVE  Local'
  BY Stays DEF WaitRetry, IInv, Local, TypeOK, ManagerTypeOK, Handover, Disposed, Unserved, Kept,
     Senders, closing, channel, redis, WorkStates, WaitStates

\* An acquisition touches shutdown in no way but through the queue, which it only
\* extends while there is a receiver.
LEMMA OwnerStepsFrame ==
  ASSUME NEW o \in Owners, CallerStep(o) \/ GuardStep(o) \/ WorkStep(o)
  PROVE  /\ UNCHANGED <<sealed, coord, result, shut, owed, worker>>
         /\ queue' = queue \/ (CanQueue /\ queue' = Append(queue, o))
  <1> USE DEF UnchangedManager, closing, channel, redis, QueueRelease
  <1>1. CASE CallerStep(o)
    BY <1>1 DEF CallerStep, Admit, Refuse, Receive, TimesOut, RejectResult, PassResult,
       AcceptGuard, ReturnGuard, ReturnExpired, DropResult
  <1>2. CASE GuardStep(o)
    BY <1>2 DEF GuardStep, ReleaseGuard, ReleaseEnds, DropGuard
  <1>3. CASE AttemptStep(o)
    BY <1>3 DEF AttemptStep, LoopEnds, Attempt, ServeAcquire, AttemptFails, AttemptInDoubt,
       RejectAcquired, Clean, Grant, GiveUp
  <1>4. CASE HandOverStep(o)
    BY <1>4 DEF HandOverStep, SpawnFails, ReturnInline, Offer, OfferFails, Accepted, NotAccepted
  <1>5. CASE WaitRetry(o)
    BY <1>5 DEF WaitRetry
  <1> QED
    BY <1>1, <1>2, <1>3, <1>4, <1>5 DEF WorkStep

\* A release that joins the queue is behind the barrier or finds none there.
LEMMA OwnerStepsShared ==
  ASSUME IInv, NEW o \in Owners, CallerStep(o) \/ GuardStep(o) \/ WorkStep(o)
  PROVE  Shared'
  <1>1. UNCHANGED <<sealed, coord, result, shut, owed, worker>>
    BY OwnerStepsFrame
  <1>2. Stages' /\ Verdicts'
    BY <1>1 DEF IInv, Stages, Verdicts
  <1>3. CASE queue' = queue
    BY <1>1, <1>2, <1>3 DEF IInv, Shared, Emptied, OneBarrier, Ahead, Queued, Receiving
  <1>4. CASE CanQueue /\ queue' = Append(queue, o)
    <2>1. /\ Len(queue') = Len(queue) + 1 /\ Len(queue) \in Nat
          /\ DOMAIN queue = 1..Len(queue) /\ DOMAIN queue' = 1..(Len(queue) + 1)
          /\ \A i \in 1..Len(queue) : queue'[i] = queue[i]
          /\ queue'[Len(queue) + 1] = o /\ o # "barrier"
          /\ \A y : Queued(y)' <=> Queued(y) \/ y = o
      BY <1>4, Joins, SyncManagerAssumption DEF IInv, TypeOK, ManagerTypeOK
    <2>2. Emptied'
      BY <1>1, <1>4 DEF Emptied, CanQueue, Receiving
    <2>3. OneBarrier'
      BY <1>1, <2>1 DEF IInv, OneBarrier
    <2>4. Ahead'
      BY <1>1, <2>1 DEF IInv, Ahead, Receiving
    <2> QED
      BY <1>2, <2>2, <2>3, <2>4 DEF Shared
  <1> QED
    BY <1>3, <1>4, OwnerStepsFrame
-------------------------------------------------------------------------------
(* The steps of the manager, which leave every acquisition where it is *)

Acquisitions == <<caller, work, chan>>

\* The retry waits change nothing but themselves (wait_retry).
LEMMA RetrySteps ==
  ASSUME IInv, NEW o \in Owners, RetryStep(o) \/ RetryTimer(o), UNCHANGED Acquisitions
  PROVE  IInv'
  <1>1. /\ UNCHANGED <<sealed, coord, result, shut, owed, senders, queue, worker, canceled,
                       holder, fallback, caller, work, chan>>
        /\ wait' \in [Owners -> WaitStates] /\ retryLock' \in Owners \cup {None}
    BY DEF IInv, TypeOK, ManagerTypeOK, Acquisitions, RetryStep, RetryLock, RetryCheck,
       RetryEnter, RetryTimer, closing, channel, redis, WaitStates
  <1>2. \A y : Queued(y)' <=> Queued(y)
    BY <1>1, Stays
  <1> QED
    BY <1>1, <1>2 DEF IInv, TypeOK, ManagerTypeOK, Handover, Disposed, Unserved, Kept, Senders,
       Emptied, OneBarrier, Ahead, Stages, Verdicts, Receiving

\* The release thread takes an owner: it is responsible now.
LEMMA TakeRelease ==
  ASSUME IInv, Take, Head(queue) # "barrier", UNCHANGED Acquisitions
  PROVE  IInv'
  <1>1. /\ worker = "idle" /\ queue # <<>> /\ queue' = Tail(queue)
        /\ worker' = Head(queue)
        /\ UNCHANGED <<sealed, coord, result, shut, owed, senders, retryLock, wait, canceled,
                       holder, fallback, caller, work, chan>>
    BY DEF Take, waiting, redis, Acquisitions
  <1>2. /\ queue' \in Seq(Owners \cup {"barrier"}) /\ Len(queue') = Len(queue) - 1
        /\ Len(queue) \in Nat \ {0}
        /\ DOMAIN queue = 1..Len(queue) /\ DOMAIN queue' = 1..(Len(queue) - 1)
        /\ \A i \in 1..(Len(queue) - 1) : queue'[i] = queue[i + 1]
        /\ Head(queue) = queue[1] /\ Head(queue) \in Owners
        /\ \A y : Queued(y) <=> Queued(y)' \/ y = Head(queue)
    BY <1>1, Leaves DEF IInv, TypeOK
  <1>3. worker \notin Owners /\ Receiving /\ Receiving'
    BY <1>1, <1>2, SyncManagerAssumption DEF Receiving
  <1>4. TypeOK' /\ Emptied'
    BY <1>1, <1>2, <1>3, SyncManagerAssumption DEF IInv, TypeOK, ManagerTypeOK, Emptied
  <1>5. Handover' /\ Disposed' /\ Unserved' /\ Kept' /\ Senders'
    BY <1>1, <1>2, <1>3, SyncManagerAssumption
       DEF IInv, Handover, Disposed, Unserved, Kept, Senders
  <1>6. OneBarrier'
    <2>1. Queued("barrier")' => coord' \in Callers /\ shut'[coord'] = "ack"
      BY <1>1, <1>2 DEF IInv, OneBarrier
    <2>2. ASSUME NEW i \in 1..(Len(queue) - 1), NEW j \in 1..(Len(queue) - 1),
                 queue'[i] = "barrier", queue'[j] = "barrier"
          PROVE  i = j
      <3>1. /\ i + 1 \in 1..Len(queue) /\ queue[i + 1] = "barrier"
            /\ j + 1 \in 1..Len(queue) /\ queue[j + 1] = "barrier"
        BY <1>2, <2>2
      <3>2. i + 1 = j + 1
        BY <1>2, <3>1 DEF IInv, OneBarrier
      <3> QED
        BY <1>2, <3>2
    <2> QED
      BY <1>2, <2>1, <2>2 DEF OneBarrier
  <1>7. Ahead'
    <2> SUFFICES ASSUME NEW o \in owed, worker' # o
                 PROVE  /\ coord' \in Callers /\ shut'[coord'] \in {"notify", "send", "ack"}
                        /\ \E i \in DOMAIN queue' :
                             /\ queue'[i] = o
                             /\ \A j \in DOMAIN queue' : queue'[j] = "barrier" => i < j
      BY <1>1 DEF Ahead
    <2>1. o \in Owners /\ worker # o
      BY <1>3 DEF IInv, TypeOK, ManagerTypeOK
    <2>2. PICK i \in 1..Len(queue) :
               /\ queue[i] = o
               /\ \A j \in 1..Len(queue) : queue[j] = "barrier" => i < j
      BY <1>2, <1>3, <2>1 DEF IInv, Ahead
    <2>3. coord' \in Callers /\ shut'[coord'] \in {"notify", "send", "ack"}
      BY <1>1, <1>3, <2>1 DEF IInv, Ahead
    <2>4. i # 1
      BY <1>1, <1>2, <2>2
    <2>5. i - 1 \in DOMAIN queue' /\ queue'[i - 1] = o
      BY <1>2, <2>2, <2>4
    <2>6. \A j \in DOMAIN queue' : queue'[j] = "barrier" => i - 1 < j
      <3>1. ASSUME NEW j \in 1..(Len(queue) - 1), queue'[j] = "barrier" PROVE i - 1 < j
        <4>1. j + 1 \in 1..Len(queue) /\ queue[j + 1] = "barrier"
          BY <1>2, <3>1
        <4>2. i < j + 1
          BY <2>2, <4>1
        <4> QED
          BY <1>2, <2>2, <4>2
      <3> QED
        BY <1>2, <3>1
    <2> QED
      BY <2>3, <2>5, <2>6
  <1>8. Stages' /\ Verdicts'
    BY <1>1 DEF IInv, Stages, Verdicts
  <1> QED
    BY <1>4, <1>5, <1>6, <1>7, <1>8 DEF IInv
\* The release thread takes the barrier: the only one, awaited by the call that
\* has sent it, and with nothing owed ahead of it or in the thread's hands.
LEMMA TakeBarrier ==
  ASSUME IInv, Take, Head(queue) = "barrier", UNCHANGED Acquisitions
  PROVE  IInv'
  <1>1. /\ worker = "idle" /\ queue # <<>> /\ queue' = Tail(queue)
        /\ shut' = [shut EXCEPT ![coord] = "acked"]
        /\ UNCHANGED <<sealed, coord, result, owed, worker, senders, retryLock, wait, canceled,
                       holder, fallback, caller, work, chan>>
    BY DEF Take, waiting, redis, Acquisitions
  <1>2. /\ queue' \in Seq(Owners \cup {"barrier"}) /\ Len(queue') = Len(queue) - 1
        /\ Len(queue) \in Nat \ {0}
        /\ DOMAIN queue = 1..Len(queue) /\ DOMAIN queue' = 1..(Len(queue) - 1)
        /\ \A i \in 1..(Len(queue) - 1) : queue'[i] = queue[i + 1]
        /\ queue[1] = "barrier" /\ "barrier" \notin Owners
        /\ \A y : Queued(y) <=> Queued(y)' \/ y = "barrier"
    BY <1>1, Leaves, SyncManagerAssumption DEF IInv, TypeOK
  <1>3. coord \in Callers /\ shut[coord] = "ack"
    BY <1>2 DEF IInv, OneBarrier
  <1>4. owed = {}
    <2> SUFFICES ASSUME NEW o \in owed PROVE FALSE
      OBVIOUS
    <2>1. worker # o /\ Receiving
      BY <1>1, SyncManagerAssumption DEF IInv, TypeOK, ManagerTypeOK, Receiving
    <2>2. PICK i \in 1..Len(queue) : \A j \in 1..Len(queue) : queue[j] = "barrier" => i < j
      BY <1>2, <2>1 DEF IInv, Ahead
    <2>3. i < 1
      BY <1>2, <2>2
    <2> QED
      BY <2>3
  <1>5. TypeOK' /\ Emptied'
    BY <1>1, <1>2, <1>3, SyncManagerAssumption
       DEF IInv, TypeOK, ManagerTypeOK, ShutStates, Emptied, Receiving
  <1>6. Handover' /\ Disposed' /\ Unserved' /\ Kept' /\ Senders'
    BY <1>1, <1>2 DEF IInv, Handover, Disposed, Unserved, Kept, Senders
  <1>7. ~Queued("barrier")'
    <2> SUFFICES ASSUME NEW i \in 1..(Len(queue) - 1), queue'[i] = "barrier" PROVE FALSE
      BY <1>2 DEF Queued
    <2>1. i + 1 \in 1..Len(queue) /\ queue[i + 1] = "barrier"
      BY <1>2
    <2>2. i + 1 = 1
      BY <1>2, <2>1 DEF IInv, OneBarrier
    <2> QED
      BY <2>2
  <1>8. OneBarrier'
    BY <1>7 DEF OneBarrier, Queued
  <1>9. Ahead' /\ Stages' /\ Verdicts'
    BY <1>1, <1>3, <1>4 DEF IInv, TypeOK, ManagerTypeOK, Ahead, Stages, Verdicts
  <1> QED
    BY <1>5, <1>6, <1>8, <1>9 DEF IInv
\* The release ends: Redis has removed the lock, or only its TTL is left.
LEMMA FinishStep ==
  ASSUME IInv, FinishRelease, UNCHANGED Acquisitions
  PROVE  IInv'
  <1>1. /\ worker \in Owners /\ worker' = "idle" /\ owed' = owed \ {worker}
        /\ UNCHANGED <<sealed, coord, result, shut, senders, queue, retryLock, wait, canceled,
                       caller, work, chan>>
        /\ \/ holder' = Released(worker) /\ fallback' = fallback
           \/ holder' \in {holder, Released(worker)} /\ fallback' = fallback \cup {worker}
    BY DEF FinishRelease, ReleaseNow, waiting, Acquisitions
  <1>2. \A y : Queued(y)' <=> Queued(y)
    BY <1>1, Stays
  <1>3. TypeOK' /\ Handover' /\ Emptied'
    BY <1>1 DEF IInv, TypeOK, ManagerTypeOK, Handover, Emptied, Receiving, Released
  <1>4. Disposed' /\ Unserved' /\ Kept' /\ Senders'
    BY <1>1, <1>2, SyncManagerAssumption
       DEF IInv, TypeOK, ManagerTypeOK, Disposed, Unserved, Kept, Senders, Released
  <1>5. OneBarrier'
    BY <1>1, <1>2 DEF IInv, OneBarrier
  <1>6. Ahead'
    BY <1>1 DEF IInv, Ahead, Receiving
  <1>7. Stages' /\ Verdicts'
    BY <1>1 DEF IInv, Stages, Verdicts
  <1> QED
    BY <1>3, <1>4, <1>5, <1>6, <1>7 DEF IInv

\* The receiver goes: with everything it held left to the TTL, when the thread
\* panics, or with nothing to do, when the last sender is gone.
LEMMA ThreadGoes ==
  ASSUME IInv, ThreadPanics \/ ThreadEnds, UNCHANGED Acquisitions
  PROVE  IInv'
  <1>1. /\ queue' = <<>> /\ worker' \in {"panicked", "ended"}
        /\ UNCHANGED <<sealed, coord, result, shut, owed, senders, retryLock, wait, canceled,
                       caller, work, chan>>
        /\ fallback' = fallback \cup {o \in Owners : Queued(o) \/ worker = o}
        /\ holder' = holder \/ (worker \in Owners /\ holder' = Released(worker))
        /\ worker' = "ended" => sealed /\ coord = None /\ senders = {}
    <2>1. CASE ThreadPanics
      BY <2>1 DEF ThreadPanics, closing, waiting, Acquisitions
    <2>2. CASE ThreadEnds
      BY <2>2, SyncManagerAssumption
         DEF ThreadEnds, closing, waiting, redis, Acquisitions, Queued
    <2> QED
      BY <2>1, <2>2
  <1>2. \A y : ~Queued(y)'
    BY <1>1 DEF Queued
  <1>3. worker' \notin Owners /\ ~Receiving'
    BY <1>1, SyncManagerAssumption DEF Receiving
  <1>4. TypeOK'
    BY <1>1, SyncManagerAssumption DEF IInv, TypeOK, ManagerTypeOK, Released
  <1>5. Handover' /\ Disposed' /\ Unserved' /\ Kept' /\ Senders'
    BY <1>1, <1>2, <1>3, SyncManagerAssumption
       DEF IInv, Handover, Disposed, Unserved, Kept, Senders, Released
  <1>6. Emptied' /\ OneBarrier' /\ Ahead'
    BY <1>1, <1>2, <1>3 DEF Emptied, OneBarrier, Ahead
  <1>7. Stages' /\ Verdicts'
    BY <1>1 DEF IInv, Stages, Verdicts
  <1> QED
    BY <1>4, <1>5, <1>6, <1>7 DEF IInv
-------------------------------------------------------------------------------
(* The steps of shutdown *)

\* What a call of shutdown does to the channel and to the retry waits, apart from
\* the barrier, concerns no acquisition.
LEMMA ShutdownLocal ==
  ASSUME IInv, NEW c \in Callers, Seal(c) \/ ShutdownStep(c), UNCHANGED Acquisitions
  PROVE  Local'
  <1>1. /\ UNCHANGED <<worker, senders, retryLock, canceled, holder, fallback, caller, work, chan>>
        /\ \/ queue' = queue
           \/ CanQueue /\ queue' = Append(queue, "barrier")
        /\ wait' = wait \/ wait' = WakeRetries
    BY DEF Seal, ShutdownStep, NotifyRetries, SendBarrier, BarrierLost, StoreResult, TellResult,
       CheckResult, channel, waiting, redis, Acquisitions
  <1>2. /\ sealed' \in BOOLEAN /\ coord' \in Callers \cup {None} /\ owed' \in SUBSET Owners
        /\ sealed => sealed' /\ (coord' = None \/ coord' = coord)
    BY DEF IInv, TypeOK, ManagerTypeOK, Seal, ShutdownStep, NotifyRetries, SendBarrier,
       BarrierLost, StoreResult, TellResult, CheckResult  <1>3. shut' \in [Callers -> ShutStates] /\ result' \in {"none", "complete", "failed"}
    BY DEF IInv, TypeOK, ManagerTypeOK, ShutStates, Seal, ShutdownStep, NotifyRetries,
       SendBarrier, BarrierLost, StoreResult, TellResult, CheckResult
  <1>4. wait' \in [Owners -> WaitStates]
    BY <1>1 DEF IInv, TypeOK, ManagerTypeOK, WaitStates, WakeRetries
  <1>5. /\ queue' \in Seq(Owners \cup {"barrier"}) /\ Len(queue') <= Buffer
        /\ \A o \in Owners : Queued(o)' <=> Queued(o)
    <2>1. CASE queue' = queue
      BY <2>1, Stays DEF IInv, TypeOK, ManagerTypeOK
    <2>2. CASE CanQueue /\ queue' = Append(queue, "barrier")
      <3>1. /\ queue' \in Seq(Owners \cup {"barrier"}) /\ Len(queue') = Len(queue) + 1
            /\ \A y : Queued(y)' <=> Queued(y) \/ y = "barrier"
        BY <2>2, Joins DEF IInv, TypeOK
      <3>2. Len(queue) + 1 <= Buffer
        BY <2>2, SyncManagerAssumption DEF CanQueue, IInv, TypeOK, ManagerTypeOK
      <3>3. \A o \in Owners : o # "barrier"
        BY SyncManagerAssumption
      <3> QED
        BY <3>1, <3>2, <3>3
    <2> QED
      BY <1>1, <2>1, <2>2
  <1>6. TypeOK'
    BY <1>1, <1>2, <1>3, <1>4, <1>5 DEF IInv, TypeOK, ManagerTypeOK
  <1>7. Handover' /\ Disposed' /\ Unserved' /\ Kept' /\ Senders'
    BY <1>1, <1>2, <1>5 DEF IInv, Handover, Disposed, Unserved, Kept, Senders
  <1> QED
    BY <1>6, <1>7 DEF Local

\* The first call takes the sender: what is queued or being released now is owed.
LEMMA SealShared ==
  ASSUME IInv, NEW c \in Callers, Seal(c)
  PROVE  Shared'
  <1>1. /\ shut[c] = "idle" /\ shut' = [shut EXCEPT ![c] = "notify"] /\ sealed' = TRUE
        /\ UNCHANGED <<result, queue, worker>>
    BY DEF Seal, channel
  <1>2. \A y : Queued(y)' <=> Queued(y)
    BY <1>1, Stays
  <1>3. CASE sealed
    <2>1. UNCHANGED <<coord, owed>> /\ coord # c
      BY <1>1, <1>3 DEF Seal, IInv, Stages
    <2>2. Emptied' /\ OneBarrier' /\ Ahead'
      BY <1>1, <1>2, <2>1 DEF IInv, TypeOK, ManagerTypeOK, Emptied, OneBarrier, Ahead, Receiving
    <2>3. Stages' /\ Verdicts'
      BY <1>1, <1>3, <2>1 DEF IInv, TypeOK, ManagerTypeOK, Stages, Verdicts
    <2> QED
      BY <2>2, <2>3 DEF Shared
  <1>4. CASE ~sealed
    <2>1. /\ coord' = c /\ owed' = {o \in Owners : Queued(o) \/ worker = o}
          /\ ~Queued("barrier") /\ result = "none"
          /\ \A d \in Callers : shut[d] = "idle"
      BY <1>4, SyncManagerAssumption DEF Seal, IInv, OneBarrier, Stages
    <2>2. \A j \in DOMAIN queue : queue[j] # "barrier"
      BY <2>1 DEF Queued
    <2>3. Emptied' /\ OneBarrier'
      BY <1>1, <1>2, <2>1 DEF IInv, Emptied, OneBarrier, Receiving
    <2>4. Ahead'
      BY <1>1, <2>1, <2>2 DEF IInv, TypeOK, ManagerTypeOK, Ahead, Queued
    <2>5. Stages' /\ Verdicts'
      BY <1>1, <2>1, SyncManagerAssumption DEF IInv, TypeOK, ManagerTypeOK, Stages, Verdicts
    <2> QED
      BY <2>3, <2>4, <2>5 DEF Shared
  <1> QED
    BY <1>3, <1>4

\* The barrier joins the queue behind everything that is owed.
LEMMA SendBarrierShared ==
  ASSUME IInv, NEW c \in Callers, SendBarrier(c)
  PROVE  Shared'
  <1>1. /\ shut[c] = "send" /\ shut' = [shut EXCEPT ![c] = "ack"] /\ Receiving
        /\ queue' = Append(queue, "barrier")
        /\ UNCHANGED <<sealed, coord, result, owed, worker>>
    BY DEF SendBarrier, CanQueue
  <1>2. coord = c /\ shut'[c] = "ack"
    BY <1>1 DEF IInv, TypeOK, ManagerTypeOK, Stages
  <1>3. /\ Len(queue') = Len(queue) + 1 /\ Len(queue) \in Nat
        /\ DOMAIN queue = 1..Len(queue) /\ DOMAIN queue' = 1..(Len(queue) + 1)
        /\ \A i \in 1..Len(queue) : queue'[i] = queue[i]
        /\ queue'[Len(queue) + 1] = "barrier"
    BY <1>1, Joins DEF IInv, TypeOK, ManagerTypeOK
  <1>4. \A i \in 1..Len(queue) : queue[i] # "barrier"
    BY <1>1, <1>2, <1>3 DEF IInv, OneBarrier, Queued
  <1>5. Emptied' /\ OneBarrier'
    BY <1>1, <1>2, <1>3, <1>4 DEF Emptied, OneBarrier, Receiving
  <1>6. Ahead'
    BY <1>1, <1>2, <1>3, <1>4 DEF IInv, Ahead, Receiving
  <1>7. Stages' /\ Verdicts'
    BY <1>1, <1>2 DEF IInv, TypeOK, ManagerTypeOK, Stages, Verdicts
  <1> QED
    BY <1>5, <1>6, <1>7 DEF Shared
\* The other steps of a call go from the barrier to the result, or end in it; the
\* call that has the sender gives it up only after it has stored the result.
LEMMA ResultShared ==
  ASSUME IInv, NEW c \in Callers,
         NotifyRetries(c) \/ BarrierLost(c) \/ StoreResult(c) \/ TellResult(c) \/ CheckResult(c)
  PROVE  Shared'
  <1>1. UNCHANGED <<sealed, owed, queue, worker>>
    BY DEF NotifyRetries, BarrierLost, StoreResult, TellResult, CheckResult, channel
  <1>2. \A y : Queued(y)' <=> Queued(y)
    BY <1>1, Stays
  <1>3. Emptied'
    BY <1>1 DEF IInv, Emptied, Receiving
  <1> USE SyncManagerAssumption DEF IInv, TypeOK, ManagerTypeOK
  <1>4. sealed /\ (coord = c \/ shut[c] \in {"notify", "check"})
    BY DEF NotifyRetries, BarrierLost, StoreResult, TellResult, CheckResult, Stages
  <1>5. CASE NotifyRetries(c)
    <2>1. /\ shut[c] = "notify" /\ UNCHANGED <<coord, result>>
          /\ shut' = [shut EXCEPT ![c] = IF coord = c THEN "send" ELSE "check"]
      BY <1>5 DEF NotifyRetries
    <2>2. OneBarrier' /\ Ahead'
      BY <1>1, <1>2, <2>1 DEF OneBarrier, Ahead, Receiving
    <2>3. Stages' /\ Verdicts'
      BY <1>1, <1>4, <2>1 DEF Stages, Verdicts
    <2> QED
      BY <1>3, <2>2, <2>3 DEF Shared
  <1>6. CASE BarrierLost(c)
    <2>1. /\ shut[c] \in {"send", "ack"} /\ ~Receiving /\ UNCHANGED <<coord, result>>
          /\ shut' = [shut EXCEPT ![c] = "lost"]
      BY <1>6 DEF BarrierLost
    <2>2. ~Queued("barrier") /\ ~Receiving'
      BY <1>1, <2>1 DEF Emptied, Queued, Receiving
    <2>3. OneBarrier' /\ Ahead'
      BY <1>1, <1>2, <2>1, <2>2 DEF OneBarrier, Ahead
    <2>4. Stages' /\ Verdicts'
      BY <1>1, <1>4, <2>1 DEF Stages, Verdicts
    <2> QED
      BY <1>3, <2>3, <2>4 DEF Shared
  <1>7. CASE StoreResult(c)
    <2>1. /\ shut[c] \in {"acked", "lost"} /\ shut' = [shut EXCEPT ![c] = "tell"]
          /\ result' = IF shut[c] = "acked" THEN "complete" ELSE "failed"
          /\ coord' = coord /\ coord = c /\ result = "none"
      BY <1>7, <1>4 DEF StoreResult, Stages
    <2>2. OneBarrier' /\ Ahead'
      BY <1>1, <1>2, <2>1 DEF OneBarrier, Ahead, Receiving
    <2>3. Stages' /\ Verdicts'
      BY <1>1, <1>4, <2>1 DEF Stages, Verdicts
    <2> QED
      BY <1>3, <2>2, <2>3 DEF Shared
  <1>8. CASE TellResult(c)
    <2>1. /\ shut[c] = "tell" /\ coord = c /\ coord' = None /\ result' = result
          /\ shut' = [d \in Callers |-> IF d = c \/ shut[d] = "asleep" THEN "check" ELSE shut[d]]
      BY <1>8 DEF TellResult, Stages
    <2>2. OneBarrier' /\ Ahead'
      BY <1>1, <1>2, <2>1 DEF OneBarrier, Ahead, Receiving
    <2>3. Stages' /\ Verdicts'
      BY <1>1, <1>4, <2>1 DEF Stages, Verdicts
    <2> QED
      BY <1>3, <2>2, <2>3 DEF Shared
  <1>9. CASE CheckResult(c)
    <2>1. /\ shut[c] = "check" /\ UNCHANGED <<coord, result>>
          /\ \/ result = "none" /\ shut' = [shut EXCEPT ![c] = "asleep"]
             \/ result = "complete" /\ shut' = [shut EXCEPT ![c] = "returned"]
             \/ result = "failed" /\ shut' = [shut EXCEPT ![c] = "panicked"]
      BY <1>9 DEF CheckResult
    <2>2. coord # c
      BY <2>1 DEF Stages
    <2>3. OneBarrier' /\ Ahead'
      BY <1>1, <1>2, <2>1, <2>2 DEF OneBarrier, Ahead, Receiving
    <2>4. Stages' /\ Verdicts'
      BY <1>1, <1>4, <2>1, <2>2 DEF Stages, Verdicts
    <2> QED
      BY <1>3, <2>3, <2>4 DEF Shared
  <1> QED
    BY <1>5, <1>6, <1>7, <1>8, <1>9
-------------------------------------------------------------------------------
(* The results *)

\* The TTL only takes a lock away.
LEMMA LapseStep ==
  ASSUME IInv, Lapse
  PROVE  IInv'
  <1>1. /\ holder' = None
        /\ UNCHANGED <<sealed, coord, result, shut, owed, senders, queue, worker, retryLock,
                       wait, canceled, fallback, caller, work, chan>>
    BY DEF Lapse, UnchangedManager, closing, waiting
  <1>2. \A y : Queued(y)' <=> Queued(y)
    BY <1>1, Stays
  <1> QED
    BY <1>1, <1>2, SyncManagerAssumption
       DEF IInv, TypeOK, ManagerTypeOK, Handover, Disposed, Unserved, Kept, Senders, Emptied,
           OneBarrier, Ahead, Stages, Verdicts, Receiving

\* Every step keeps the invariant.
LEMMA NextIInv == IInv /\ [Next]_vars => IInv'
  <1> SUFFICES ASSUME IInv, [Next]_vars PROVE IInv'
    OBVIOUS
  <1>1. ASSUME NEW o \in Owners, CallerStep(o) \/ GuardStep(o) \/ WorkStep(o)
        PROVE  IInv'
    <2>1. Local'
      BY <1>1, CallerStepLocal, GuardStepLocal, AttemptStepLocal, HandOverStepLocal,
         WaitRetryLocal DEF WorkStep
    <2>2. Shared'
      BY <1>1, OwnerStepsShared
    <2> QED
      BY <2>1, <2>2 DEF IInv, Local, Shared
  <1>2. CASE ManagerStep /\ UNCHANGED <<caller, work, chan>>
    <2>1. UNCHANGED Acquisitions
      BY <1>2 DEF Acquisitions
    <2>2. CASE ThreadStep \/ ThreadPanics
      BY <2>1, <2>2, TakeRelease, TakeBarrier, FinishStep, ThreadGoes DEF ThreadStep
    <2>3. ASSUME NEW c \in Callers, Seal(c) \/ ShutdownStep(c)
          PROVE  IInv'
      <3>1. Local'
        BY <2>1, <2>3, ShutdownLocal
      <3>2. Shared'
        BY <2>3, SealShared, SendBarrierShared, ResultShared DEF ShutdownStep
      <3> QED
        BY <3>1, <3>2 DEF IInv, Local, Shared
    <2>4. ASSUME NEW o \in Owners, RetryStep(o) \/ RetryTimer(o)
          PROVE  IInv'
      BY <2>1, <2>4, RetrySteps
    <2> QED
      BY <1>2, <2>2, <2>3, <2>4 DEF ManagerStep
  <1>3. CASE Lapse
    BY <1>3, LapseStep
  <1>4. CASE UNCHANGED vars
    <2>1. \A y : Queued(y)' <=> Queued(y)
      BY <1>4, Stays DEF vars, channel
    <2> QED
      BY <1>4, <2>1
         DEF vars, closing, channel, waiting, redis, IInv, TypeOK, ManagerTypeOK, Handover,
             Disposed, Unserved, Kept, Senders, Emptied, OneBarrier, Ahead, Stages, Verdicts,
             Receiving
  <1> QED
    BY <1>1, <1>2, <1>3, <1>4 DEF Next

\* The inductive invariant of the manager and its acquisitions.
THEOREM Inductive == Spec => []IInv
  BY InitIInv, NextIInv, PTL DEF Spec

\* The states have their types, the queue never outgrows its buffer, and no
\* retrying method is told that there is no guard, so that none panics
\* (lock.rs:115).
THEOREM TypeCorrect == Spec => []TypeOK
  <1>1. IInv => TypeOK
    BY DEF IInv
  <1> QED
    BY <1>1, Inductive, PTL

\* A lock that Redis has is in somebody's hands or left to its TTL: between the
\* caller, its worker thread, the result channel and the release thread none is
\* lost, whatever times out, fails or is sealed (guard.rs:160-206).
THEOREM NothingLeaks == Spec => []NoLeak
  <1>1. IInv => NoLeak
    BY DEF IInv, Kept, NoLeak
  <1> QED
    BY <1>1, Inductive, PTL

\* Neither the worker thread nor the release thread releases the lock of a caller
\* that has been given the guard (the accepted handshake, guard.rs:164-169).
THEOREM HolderSafe == Spec => []NoReleaseUnderHolder
  <1>1. IInv => NoReleaseUnderHolder
    BY DEF IInv, Handover, Disposed, Guarded, NoReleaseUnderHolder
  <1> QED
    BY <1>1, Inductive, PTL

\* shutdown() completes only after the end of every release queued before it
\* (manager.rs:164-170).
THEOREM DrainsBeforeCompletion == Spec => []BarrierDrains
  <1>1. IInv => BarrierDrains
    BY DEF IInv, Stages, BarrierDrains
  <1> QED
    BY <1>1, Inductive, PTL

\* No call of shutdown returns where another panics or is still sending, and the
\* call that had the sender leaves nobody asleep (manager.rs:169-179).
THEOREM VerdictsAgree == Spec => []OneVerdict
  <1>1. IInv => OneVerdict
    <2> SUFFICES ASSUME IInv, NEW c \in Callers, NEW d \in Callers
                 PROVE  /\ shut[c] = "returned" =>
                             /\ shut[d] # "panicked" /\ ~Queued("barrier")
                             /\ shut[d] \notin {"send", "ack", "lost"}
                        /\ sealed /\ coord = None => shut[d] # "asleep"
      BY DEF OneVerdict
    <2>1. CASE shut[c] = "returned"
      <3>1. sealed /\ result = "complete"
        BY <2>1 DEF IInv, Stages, Verdicts
      <3>2. coord \in Callers => shut[coord] = "tell"
        BY <3>1 DEF IInv, Stages
      <3>3. ~Queued("barrier") /\ shut[d] \notin {"send", "ack", "lost"}
        BY <3>2 DEF IInv, OneBarrier, Stages
      <3> QED
        BY <3>1, <3>3 DEF IInv, Verdicts
    <2>2. CASE shut[c] # "returned"
      BY <2>2 DEF IInv, Verdicts
    <2> QED
      BY <2>1, <2>2
  <1> QED
    BY <1>1, Inductive, PTL

\* The release thread is there for every guard, also for one created after
\* shutdown had returned: whoever may still drop a guard has a sender
\* (guard.rs:257-276, manager.rs:134).
THEOREM ThreadServesGuards == Spec => []ThreadOutlivesGuards
  <1>1. IInv => ThreadOutlivesGuards
    BY DEF IInv, Senders, ThreadOutlivesGuards
  <1> QED
    BY <1>1, Inductive, PTL
-------------------------------------------------------------------------------
(* The retry waits *)

\* A thread waits only in its loop, ...
LoopWaits == \A o \in Owners : wait[o] # "off" => work[o] = "loop"

\* ... has retry_lock between looking at the flags and going to sleep, ...
RetryLocked == \A o \in Owners : retryLock = o <=> wait[o] \in {"check", "enter"}

\* ... and therefore whoever sets a flag then has still to notify.
Awake ==
  \A o \in Owners : wait[o] \in {"enter", "asleep"} =>
    o \notin canceled /\ (sealed => \E c \in Callers : shut[c] = "notify")

Waits == LoopWaits /\ RetryLocked /\ Awake

\* Before the first step nobody waits.
LEMMA InitWaits == Init => Waits
  BY SyncManagerAssumption DEF Init, ManagerInit, Waits, LoopWaits, RetryLocked, Awake

\* A step that leaves the waits, their flags and the calls about to notify alone
\* puts nobody to sleep.
LEMMA AwakeFrame ==
  ASSUME Waits, UNCHANGED <<retryLock, wait, canceled>>, sealed' = sealed,
         \A c \in Callers : shut[c] = "notify" => shut'[c] = "notify"
  PROVE  RetryLocked' /\ Awake'
  BY DEF Waits, RetryLocked, Awake

\* The steps of an acquisition: a canceled one is woken with retry_lock held, and
\* a wait begins with taking it (cancel_acquisition, wait_retry).
LEMMA OwnerWaits ==
  ASSUME IInv, Waits, NEW o \in Owners, CallerStep(o) \/ GuardStep(o) \/ WorkStep(o)
  PROVE  Waits'
  <1>1. UNCHANGED <<sealed, shut>>
    BY OwnerStepsFrame
  <1>2. work \in [Owners -> WorkStates] /\ wait \in [Owners -> WaitStates]
    BY DEF IInv, TypeOK, ManagerTypeOK
  <1>3. CASE TimesOut(o)
    <2>1. /\ retryLock = None /\ canceled' = canceled \cup {o} /\ work' = work
          /\ wait' = WakeRetries /\ retryLock' = retryLock
      BY <1>3 DEF TimesOut, CancelAcquisition
    <2>2. \A p \in Owners : wait'[p] \notin {"check", "enter", "asleep"}
      BY <2>1, SyncManagerAssumption DEF Waits, RetryLocked, WakeRetries
    <2>3. \A p \in Owners : wait'[p] # "off" => wait[p] # "off"
      BY <2>1 DEF WakeRetries
    <2> QED
      BY <2>1, <2>2, <2>3, SyncManagerAssumption DEF Waits, LoopWaits, RetryLocked, Awake
  <1>4. CASE WaitRetry(o)
    <2>1. /\ work[o] = "no" /\ work' = [work EXCEPT ![o] = "loop"]
          /\ wait' = [wait EXCEPT ![o] = "lock"]
          /\ UNCHANGED <<retryLock, canceled>>
      BY <1>4 DEF WaitRetry
    <2>2. wait[o] = "off"
      BY <1>2, <2>1 DEF Waits, LoopWaits
    <2> QED
      BY <1>1, <1>2, <2>1, <2>2 DEF Waits, LoopWaits, RetryLocked, Awake
  <1>5. CASE ~TimesOut(o) /\ ~WaitRetry(o)
    <2>1. UNCHANGED <<retryLock, wait, canceled>>
      BY <1>5 DEF CallerStep, Admit, Refuse, Receive, RejectResult, PassResult, AcceptGuard,
         ReturnGuard, ReturnExpired, GuardStep, ReleaseGuard, ReleaseEnds, DropGuard, WorkStep,
         AttemptStep, LoopEnds, Attempt, ServeAcquire, AttemptFails, AttemptInDoubt,
         RejectAcquired, Clean, Grant, GiveUp, HandOverStep, SpawnFails, ReturnInline, Offer,
         OfferFails, Accepted, NotAccepted, UnchangedManager, waiting
    <2>2. \/ work' = work
          \/ /\ work[o] # "loop" \/ wait[o] = "off"
             /\ \E w \in WorkStates : work' = [work EXCEPT ![o] = w]
          \/ work' = [work EXCEPT ![o] = "loop"]
      <3>1. CASE CallerStep(o) \/ GuardStep(o)
        BY <1>5, <3>1 DEF CallerStep, Admit, Refuse, Receive, RejectResult, PassResult,
           AcceptGuard, ReturnGuard, ReturnExpired, GuardStep, ReleaseGuard, ReleaseEnds,
           DropGuard
      <3>2. CASE AttemptStep(o)
        BY <3>2 DEF AttemptStep, LoopEnds, Attempt, ServeAcquire, AttemptFails, AttemptInDoubt,
           RejectAcquired, Clean, Grant, GiveUp, Looping, Finish, WorkStates
      <3>3. CASE HandOverStep(o)
        BY <3>3 DEF HandOverStep, SpawnFails, ReturnInline, Offer, OfferFails, Accepted,
           NotAccepted, Finish, WorkStates
      <3> QED
        BY <1>5, <3>1, <3>2, <3>3 DEF WorkStep
    <2>3. LoopWaits'
      BY <1>2, <2>1, <2>2 DEF Waits, LoopWaits
    <2> QED
      BY <1>1, <2>1, <2>3, AwakeFrame DEF Waits
  <1> QED
    BY <1>3, <1>4, <1>5

\* The steps of a wait: it looks at the flags and goes to sleep with retry_lock
\* held (wait_timeout_while).
LEMMA RetryWaits ==
  ASSUME IInv, Waits, NEW o \in Owners, RetryStep(o) \/ RetryTimer(o), UNCHANGED Acquisitions
  PROVE  Waits'
  <1> USE SyncManagerAssumption
      DEF IInv, TypeOK, ManagerTypeOK, Waits, LoopWaits, RetryLocked, Awake, Acquisitions,
          closing
  <1>1. CASE RetryLock(o)
    BY <1>1 DEF RetryLock
  <1>2. CASE RetryCheck(o)
    BY <1>2 DEF RetryCheck
  <1>3. CASE RetryEnter(o)
    BY <1>3 DEF RetryEnter
  <1>4. CASE RetryTimer(o)
    BY <1>4 DEF RetryTimer
  <1> QED
    BY <1>1, <1>2, <1>3, <1>4 DEF RetryStep

\* The steps of shutdown: the call that sets the flag is about to notify, and it
\* notifies when nobody has retry_lock.
LEMMA ShutdownWaits ==
  ASSUME IInv, Waits, NEW c \in Callers, Seal(c) \/ ShutdownStep(c), UNCHANGED Acquisitions
  PROVE  Waits'
  <1>1. shut \in [Callers -> ShutStates] /\ work' = work
    BY DEF IInv, TypeOK, ManagerTypeOK, Acquisitions
  <1>2. CASE Seal(c)
    <2>1. shut'[c] = "notify" /\ UNCHANGED <<retryLock, wait, canceled>>
      BY <1>1, <1>2 DEF Seal, waiting
    <2> QED
      BY <1>1, <2>1 DEF Waits, LoopWaits, RetryLocked, Awake
  <1>3. CASE NotifyRetries(c)
    <2>1. /\ retryLock = None /\ wait' = WakeRetries /\ UNCHANGED <<retryLock, canceled>>
      BY <1>3 DEF NotifyRetries
    <2>2. \A p \in Owners : wait'[p] \notin {"check", "enter", "asleep"}
      BY <2>1, SyncManagerAssumption DEF Waits, RetryLocked, WakeRetries
    <2>3. \A p \in Owners : wait'[p] # "off" => wait[p] # "off"
      BY <2>1 DEF WakeRetries
    <2> QED
      BY <1>1, <2>1, <2>2, <2>3, SyncManagerAssumption DEF Waits, LoopWaits, RetryLocked, Awake
  <1>4. CASE SendBarrier(c) \/ BarrierLost(c) \/ StoreResult(c) \/ TellResult(c) \/ CheckResult(c)
    <2>1. /\ UNCHANGED <<sealed, retryLock, wait, canceled>>
          /\ \A d \in Callers : shut[d] = "notify" => shut'[d] = "notify"
      BY <1>1, <1>4 DEF SendBarrier, BarrierLost, StoreResult, TellResult, CheckResult, waiting
    <2>2. LoopWaits'
      BY <1>1, <2>1 DEF Waits, LoopWaits
    <2> QED
      BY <2>1, <2>2, AwakeFrame DEF Waits
  <1> QED
    BY <1>2, <1>3, <1>4 DEF ShutdownStep

\* The steps of the release thread, which acknowledges only a call that has
\* notified long ago.
LEMMA ThreadWaits ==
  ASSUME IInv, Waits, ThreadStep \/ ThreadPanics, UNCHANGED Acquisitions
  PROVE  Waits'
  <1>1. UNCHANGED <<sealed, retryLock, wait, canceled, work>>
    BY DEF ThreadStep, Take, FinishRelease, ThreadEnds, ThreadPanics, closing, waiting,
       Acquisitions
  <1>2. LoopWaits'
    BY <1>1 DEF Waits, LoopWaits
  <1>3. \A c \in Callers : shut[c] = "notify" => shut'[c] = "notify"
    <2>1. CASE Take
      <3>1. CASE Head(queue) = "barrier"
        <4>1. shut' = [shut EXCEPT ![coord] = "acked"] /\ queue # <<>>
          BY <2>1, <3>1 DEF Take
        <4>2. Queued("barrier")
          BY <2>1, <3>1, <4>1, Leaves DEF Take, IInv, TypeOK
        <4>3. shut[coord] = "ack"
          BY <4>2 DEF IInv, OneBarrier
        <4> QED
          BY <4>1, <4>3 DEF IInv, TypeOK, ManagerTypeOK
      <3>2. CASE Head(queue) # "barrier"
        BY <2>1, <3>2 DEF Take
      <3> QED
        BY <3>1, <3>2
    <2>2. CASE FinishRelease \/ ThreadEnds \/ ThreadPanics
      BY <2>2 DEF FinishRelease, ThreadEnds, ThreadPanics, closing
    <2> QED
      BY <2>1, <2>2 DEF ThreadStep
  <1> QED
    BY <1>1, <1>2, <1>3, AwakeFrame DEF Waits

\* Every step keeps the invariant of the waits.
LEMMA NextWaits == IInv /\ Waits /\ [Next]_vars => Waits'
  <1> SUFFICES ASSUME IInv, Waits, [Next]_vars PROVE Waits'
    OBVIOUS
  <1>1. ASSUME NEW o \in Owners, CallerStep(o) \/ GuardStep(o) \/ WorkStep(o)
        PROVE  Waits'
    BY <1>1, OwnerWaits
  <1>2. CASE ManagerStep /\ UNCHANGED <<caller, work, chan>>
    BY <1>2, ThreadWaits, ShutdownWaits, RetryWaits DEF ManagerStep, Acquisitions
  <1>3. CASE Lapse \/ UNCHANGED vars
    <2>1. UNCHANGED <<retryLock, wait, canceled, sealed, shut, work>>
      BY <1>3 DEF Lapse, vars, UnchangedManager, closing, waiting
    <2> QED
      BY <2>1 DEF Waits, LoopWaits, RetryLocked, Awake
  <1> QED
    BY <1>1, <1>2, <1>3 DEF Next

\* No thread sleeps between attempts after it has been canceled, nor after shutdown
\* has begun unless a call has still to wake it, although shutdown sets its flag
\* outside retry_lock (manager.rs:160-163, 190-206).
THEOREM WakeupsArrive == Spec => []NoLostWakeup
  <1>1. Waits => NoLostWakeup
    BY DEF Waits, Awake, NoLostWakeup
  <1>2. Spec => []Waits
    BY InitWaits, NextWaits, Inductive, PTL DEF Spec
  <1> QED
    BY <1>1, <1>2, PTL
===============================================================================
