--------------------------- MODULE AsyncManagerProofs --------------------------
(***************************************************************************)
(* What AsyncManager guarantees for any number of acquisitions and calls   *)
(* of shutdown, and a release queue of any size: no lock is lost between   *)
(* its caller, its supervisor and the release worker, none is released     *)
(* under a caller that holds it, and shutdown completes after everything   *)
(* queued before it, with one verdict.                                     *)
(*                                                                         *)
(* The invariant has three parts.  Handover, Disposed, Unserved and Kept   *)
(* say of one acquisition who is responsible for its lock; Slots,          *)
(* OneBarrier and Ahead say what is in the queue and in which order;       *)
(* Stages and Verdicts say how far shutdown is.                            *)
(***************************************************************************)
EXTENDS AsyncManager, SequenceTheorems, TLAPS

Granted == IF coord = "granted" THEN 1 ELSE 0

\* How caller, supervisor and result channel of an acquisition stand to each
\* other.
Handover ==
  \A o \in Owners :
    /\ sup[o] = "none" => result[o] = "none" /\ caller[o] \in {"idle", "done"}
    /\ caller[o] = "idle" => sup[o] = "none"
    /\ sup[o] \in {"loop", "sent", "wait", "ok", "err", "release"} => result[o] = "none"
    /\ sup[o] = "release" => caller[o] = "done"
    /\ sup[o] = "clean" => result[o] \in {"none", "other", "dropped"}
    /\ sup[o] = "offered" => result[o] \in {"guard", "taken", "accepted", "dropped"}
    /\ sup[o] = "done" => result[o] \notin {"guard", "taken"}
    /\ result[o] = "guard" => caller[o] = "waiting"
    /\ result[o] = "taken" <=> caller[o] \in {"got", "checked"}
    /\ result[o] = "dropped" => caller[o] = "done"
    /\ result[o] = "accepted" => caller[o] \in {"holding", "releasing", "unreleased", "done"}
    /\ caller[o] \in {"holding", "releasing", "unreleased"} => result[o] = "accepted"
    /\ o \in tasks => caller[o] \in {"releasing", "unreleased", "done"}

\* A release is queued or executed only of a guard that is gone.
Disposed == \A o \in Owners : Queued(o) \/ worker = o => caller[o] = "done"

\* Before Redis is asked it has no lock of this owner.
Unserved == \A o \in Owners : sup[o] \in {"none", "loop", "sent", "wait"} => holder # o

\* NoLeak, with an answered handshake counted as the end of the supervisor.
Kept ==
  \A o \in Owners : holder = o =>
    \/ sup[o] \notin {"none", "done"} /\ ~(sup[o] = "offered" /\ result[o] = "accepted")
    \/ caller[o] \in {"holding", "releasing", "unreleased"}
    \/ Queued(o) \/ worker = o
    \/ o \in fallback

Slots == Len(queue) + Granted <= Buffer

\* There is one barrier, in the queue only while the coordinator awaits its
\* acknowledgement.
OneBarrier ==
  /\ Queued("barrier") => coord = "acking"
  /\ \A i, j \in DOMAIN queue : queue[i] = "barrier" /\ queue[j] = "barrier" => i = j

\* What is owed is ahead of the barrier.
Ahead ==
  Receiving => \A o \in owed :
    \/ worker = o
    \/ /\ coord \in {"start", "waiting", "granted", "acking"}
       /\ \E i \in DOMAIN queue :
            queue[i] = o /\ \A j \in DOMAIN queue : queue[j] = "barrier" => i < j

Stages ==
  /\ admission <=> coord = "none"
  /\ admission => owed = {} /\ shutdown \in {"Open", "Failed"}
  /\ coord = "acked" => owed = {}
  /\ shutdown = "Completed" => coord = "done" /\ owed = {}

Verdicts ==
  \A c \in Callers : /\ shut[c] = "returned" => shutdown = "Completed"
                     /\ shut[c] = "panicked" => shutdown = "Failed"

IInv ==
  /\ TypeOK
  /\ Handover
  /\ Disposed
  /\ Unserved
  /\ Kept
  /\ Slots
  /\ OneBarrier
  /\ Ahead
  /\ Stages
  /\ Verdicts
-------------------------------------------------------------------------------
(* The release channel *)

\* What joins the queue is its last element, the others keep their places.
LEMMA Joins ==
  ASSUME TypeOK, NEW x \in Owners \cup {"barrier"}, queue' = Append(queue, x)
  PROVE  /\ queue' \in Seq(Owners \cup {"barrier"}) /\ Len(queue') = Len(queue) + 1
         /\ DOMAIN queue = 1..Len(queue) /\ DOMAIN queue' = 1..(Len(queue) + 1)
         /\ \A i \in 1..Len(queue) : queue'[i] = queue[i]
         /\ queue'[Len(queue) + 1] = x
         /\ \A y : Queued(y)' <=> Queued(y) \/ y = x
  <1>1. /\ queue' \in Seq(Owners \cup {"barrier"}) /\ Len(queue') = Len(queue) + 1
        /\ Len(queue) \in Nat
        /\ DOMAIN queue = 1..Len(queue) /\ DOMAIN queue' = 1..(Len(queue) + 1)
        /\ \A i \in 1..Len(queue) : queue'[i] = queue[i]
        /\ queue'[Len(queue) + 1] = x
    BY DEF TypeOK
  <1>2. ASSUME NEW y PROVE Queued(y)' <=> Queued(y) \/ y = x
    BY <1>1 DEF Queued
  <1> QED
    BY <1>1, <1>2

\* What leaves the queue is its first element, the others move up.
LEMMA Leaves ==
  ASSUME TypeOK, queue # <<>>, queue' = Tail(queue)
  PROVE  /\ queue' \in Seq(Owners \cup {"barrier"}) /\ Len(queue') = Len(queue) - 1
         /\ Len(queue) \in Nat \ {0}
         /\ DOMAIN queue = 1..Len(queue) /\ DOMAIN queue' = 1..(Len(queue) - 1)
         /\ \A i \in 1..(Len(queue) - 1) : queue'[i] = queue[i + 1]
         /\ Head(queue) = queue[1] /\ Head(queue) \in Owners \cup {"barrier"}
         /\ \A y : Queued(y) <=> Queued(y)' \/ y = Head(queue)
  <1>1. /\ queue' \in Seq(Owners \cup {"barrier"}) /\ Len(queue') = Len(queue) - 1
        /\ Len(queue) \in Nat \ {0}
        /\ DOMAIN queue = 1..Len(queue) /\ DOMAIN queue' = 1..(Len(queue) - 1)
        /\ \A i \in 1..(Len(queue) - 1) : queue'[i] = queue[i + 1]
        /\ Head(queue) = queue[1] /\ Head(queue) \in Owners \cup {"barrier"}
    BY HeadTailProperties DEF TypeOK
  <1>2. ASSUME NEW y PROVE Queued(y) <=> Queued(y)' \/ y = Head(queue)
    <2>1. ASSUME Queued(y) PROVE Queued(y)' \/ y = Head(queue)
      <3>1. PICK i \in 1..Len(queue) : queue[i] = y
        BY <1>1, <2>1 DEF Queued
      <3>2. CASE i = 1
        BY <1>1, <3>1, <3>2
      <3>3. CASE i # 1
        <4>1. i - 1 \in 1..(Len(queue) - 1) /\ queue'[i - 1] = y
          BY <1>1, <3>1, <3>3
        <4> QED
          BY <1>1, <4>1 DEF Queued
      <3> QED
        BY <3>2, <3>3
    <2>2. ASSUME Queued(y)' PROVE Queued(y)
      <3>1. PICK i \in 1..(Len(queue) - 1) : queue'[i] = y
        BY <1>1, <2>2 DEF Queued
      <3>2. i + 1 \in 1..Len(queue) /\ queue[i + 1] = y
        BY <1>1, <3>1
      <3> QED
        BY <1>1, <3>2 DEF Queued
    <2>3. ASSUME y = Head(queue) PROVE Queued(y)
      BY <1>1, <2>3 DEF Queued
    <2> QED
      BY <2>1, <2>2, <2>3
  <1> QED
    BY <1>1, <1>2

\* A queue that nobody touches holds the same elements.
LEMMA Stays ==
  ASSUME queue' = queue
  PROVE  \A y : Queued(y)' <=> Queued(y)
  BY DEF Queued

\* A dropped guard joins the queue if it finds a receiver and a free slot
\* (GuardData::drop).
LEMMA Dropped ==
  ASSUME TypeOK, NEW o \in Owners,
         queue' = IF CanQueue THEN Append(queue, o) ELSE queue
  PROVE  /\ queue' \in Seq(Owners \cup {"barrier"}) /\ Len(queue') <= Buffer
         /\ \A y : Queued(y)' <=> Queued(y) \/ (CanQueue /\ y = o)
  <1>1. CASE CanQueue
    <2>1. queue' = Append(queue, o)
      BY <1>1
    <2>2. Len(queue) \in Nat /\ Len(queue) < Buffer
      BY <1>1, ManagerAssumption DEF CanQueue, Room, TypeOK
    <2> QED
      BY <1>1, <2>1, <2>2, Joins, ManagerAssumption
  <1>2. CASE ~CanQueue
    BY <1>2, Stays DEF TypeOK
  <1> QED
    BY <1>1, <1>2

\* The invariant holds before the first step.
LEMMA InitIInv == Init => IInv
  BY ManagerAssumption DEF Init, IInv, TypeOK, Handover, Disposed, Unserved, Kept, Slots,
     OneBarrier, Ahead, Stages, Verdicts, Queued, Granted, ShutdownState, CoordStates,
     ShutStates, CallerStates, SupStates, ResultStates
-------------------------------------------------------------------------------
(* The steps of an acquisition: caller, guard and supervisor *)

Local == TypeOK /\ Handover /\ Disposed /\ Unserved /\ Kept

Shared == Slots /\ OneBarrier /\ Ahead /\ Stages /\ Verdicts


\* What the caller does, from its admission to the claimed guard, keeps the
\* acquisition accounted for (acquire_internal).
LEMMA CallerStepLocal ==
  ASSUME IInv, NEW o \in Owners, CallerStep(o)
  PROVE  Local'
  <1> USE ManagerAssumption DEF IInv, Local, TypeOK, Handover, Disposed, Unserved, Kept,
          manager, channel, redis, CallerStates, SupStates, ResultStates
  <1>1. CASE Admit(o)
    BY <1>1, Stays, Joins DEF Admit
  <1>2. CASE Refuse(o)
    BY <1>2, Stays, Joins DEF Refuse
  <1>3. CASE LeaveWaiting(o)
    <2>1. CASE result[o] = "guard"
      <3>1. /\ queue' \in Seq(Owners \cup {"barrier"}) /\ Len(queue') <= Buffer
            /\ \A y : Queued(y)' <=> Queued(y) \/ (CanQueue /\ y = o)
        BY <1>3, <2>1, Dropped DEF LeaveWaiting, DropUnclaimed
      <3>2. /\ result' = [result EXCEPT ![o] = "dropped"]
            /\ caller' = [caller EXCEPT ![o] = "done"]
            /\ UNCHANGED <<manager, worker, sup, tasks, redis>>
        BY <1>3, <2>1 DEF LeaveWaiting, DropUnclaimed
      <3> QED
        BY <1>3, <2>1, <3>1, <3>2
    <2>2. CASE result[o] # "guard"
      BY <1>3, <2>2, Stays DEF LeaveWaiting
    <2> QED
      BY <2>1, <2>2
  <1>4. CASE ReceiveGuard(o)
    BY <1>4, Stays, Joins DEF ReceiveGuard
  <1>5. CASE CheckGuard(o)
    BY <1>5, Stays, Joins DEF CheckGuard
  <1>6. CASE RejectGuard(o)
    <2>1. /\ queue' \in Seq(Owners \cup {"barrier"}) /\ Len(queue') <= Buffer
          /\ \A y : Queued(y)' <=> Queued(y) \/ (CanQueue /\ y = o)
      BY <1>6, Dropped DEF RejectGuard, DropUnclaimed
    <2>2. /\ caller[o] \in {"got", "checked"}
          /\ result' = [result EXCEPT ![o] = "dropped"]
          /\ caller' = [caller EXCEPT ![o] = "done"]
          /\ UNCHANGED <<manager, worker, sup, tasks, redis>>
      BY <1>6 DEF RejectGuard, DropUnclaimed
    <2> QED
      BY <2>1, <2>2
  <1>7. CASE AcceptGuard(o)
    BY <1>7, Stays, Joins DEF AcceptGuard
  <1> QED
    BY <1>1, <1>2, <1>3, <1>4, <1>5, <1>6, <1>7 DEF CallerStep, CallerShutdown, CallerLeaves

\* What the owner of a claimed guard does, and the task of its explicit release.
LEMMA GuardStepLocal ==
  ASSUME IInv, NEW o \in Owners, GuardStep(o)
  PROVE  Local'
  <1> USE ManagerAssumption DEF IInv, Local, TypeOK, Handover, Disposed, Unserved, Kept,
          manager, channel, redis, CallerStates, SupStates, ResultStates
  <1>1. CASE ReleaseGuard(o)
    BY <1>1, Stays, Joins DEF ReleaseGuard
  <1>2. CASE CancelRelease(o)
    BY <1>2, Stays, Joins DEF CancelRelease
  <1>3. CASE ReleaseTask(o)
    BY <1>3, Stays, Joins DEF ReleaseTask, Released
  <1>4. CASE DropGuard(o)
    <2>1. /\ queue' \in Seq(Owners \cup {"barrier"}) /\ Len(queue') <= Buffer
          /\ \A y : Queued(y)' <=> Queued(y) \/ (CanQueue /\ y = o)
      BY <1>4, Dropped DEF DropGuard
    <2>2. /\ caller[o] \in {"holding", "releasing", "unreleased"}
          /\ caller' = [caller EXCEPT ![o] = "done"]
          /\ fallback' = IF CanQueue THEN fallback ELSE fallback \cup {o}
          /\ UNCHANGED <<manager, worker, sup, result, tasks, holder>>
      BY <1>4 DEF DropGuard
    <2> QED
      BY <2>1, <2>2
  <1> QED
    BY <1>1, <1>2, <1>3, <1>4 DEF GuardStep

\* What the supervisor does, from the first attempt to the end of the handshake
\* (supervise_acquisition).
LEMMA SupervisorStepLocal ==
  ASSUME IInv, NEW o \in Owners, SupervisorStep(o)
  PROVE  Local'
  <1> USE ManagerAssumption DEF IInv, Local, TypeOK, Handover, Disposed, Unserved, Kept,
          manager, channel, redis, CallerStates, SupStates, ResultStates
  <1>1. CASE SupEnd(o)
    BY <1>1, Stays, Joins DEF SupEnd, SendOther
  <1>2. CASE StartAttempt(o)
    BY <1>2, Stays, Joins DEF StartAttempt
  <1>3. CASE ServeAcquire(o)
    BY <1>3, Stays, Joins DEF ServeAcquire
  <1>4. CASE Retry(o)
    BY <1>4, Stays, Joins DEF Retry
  <1>5. CASE RejectAcquired(o)
    BY <1>5, Stays, Joins DEF RejectAcquired, SendOther
  <1>6. CASE HandOff(o)
    BY <1>6, Stays, Joins DEF HandOff
  <1>7. CASE Accepted(o)
    BY <1>7, Stays, Joins DEF Accepted
  <1>8. CASE NotAccepted(o)
    BY <1>8, Stays, Joins DEF NotAccepted
  <1>9. CASE CleanAbandoned(o)
    BY <1>9, Stays, Joins DEF CleanAbandoned, Released
  <1>10. CASE ReleaseAbandoned(o)
    <2>1. /\ sup[o] = "release" /\ sup' = [sup EXCEPT ![o] = "done"]
          /\ UNCHANGED <<manager, worker, caller, result, tasks>>
      BY <1>10 DEF ReleaseAbandoned
    <2>2. CASE holder' = Released(o) /\ UNCHANGED <<queue, fallback>>
      BY <2>1, <2>2, Stays DEF Released
    <2>3. CASE /\ holder' \in {holder, Released(o)}
               /\ IF CanQueue
                  THEN queue' = Append(queue, o) /\ UNCHANGED fallback
                  ELSE fallback' = fallback \cup {o} /\ UNCHANGED queue
      <3>1. /\ queue' \in Seq(Owners \cup {"barrier"}) /\ Len(queue') <= Buffer
            /\ \A y : Queued(y)' <=> Queued(y) \/ (CanQueue /\ y = o)
        BY <2>3, Dropped
      <3>2. /\ holder' \in {holder, Released(o)}
            /\ fallback' = IF CanQueue THEN fallback ELSE fallback \cup {o}
        BY <2>3
      <3> QED
        BY <2>1, <3>1, <3>2 DEF Released
    <2> QED
      BY <1>10, <2>2, <2>3 DEF ReleaseAbandoned
  <1> QED
    BY <1>1, <1>2, <1>3, <1>4, <1>5, <1>6, <1>7, <1>8, <1>9, <1>10 DEF SupervisorStep
\* An acquisition touches shutdown in no way but through the queue, which it only
\* extends, and never into the slot granted to the barrier.
LEMMA OwnerStepsFrame ==
  ASSUME NEW o \in Owners, CallerStep(o) \/ GuardStep(o) \/ SupervisorStep(o)
  PROVE  /\ UNCHANGED <<admission, shutdown, coord, shut, owed, worker>>
         /\ queue' = queue \/ (CanQueue /\ queue' = Append(queue, o))
  <1> USE DEF manager, channel, redis
  <1>1. CASE CallerStep(o)
    BY <1>1 DEF CallerStep, Admit, Refuse, CallerShutdown, CallerLeaves, LeaveWaiting,
       ReceiveGuard, CheckGuard, RejectGuard, AcceptGuard, DropUnclaimed
  <1>2. CASE GuardStep(o)
    BY <1>2 DEF GuardStep, ReleaseGuard, CancelRelease, ReleaseTask, DropGuard
  <1>3. CASE SupervisorStep(o)
    BY <1>3 DEF SupervisorStep, SupEnd, StartAttempt, ServeAcquire, Retry, RejectAcquired,
       HandOff, Accepted, NotAccepted, CleanAbandoned, ReleaseAbandoned
  <1> QED
    BY <1>1, <1>2, <1>3

\* A release that joins the queue is behind the barrier or finds none there.
LEMMA OwnerStepsShared ==
  ASSUME IInv, NEW o \in Owners, CallerStep(o) \/ GuardStep(o) \/ SupervisorStep(o)
  PROVE  Shared'
  <1>1. UNCHANGED <<admission, shutdown, coord, shut, owed, worker>>
    BY OwnerStepsFrame
  <1>2. Stages' /\ Verdicts'
    BY <1>1 DEF IInv, Stages, Verdicts
  <1>3. CASE queue' = queue
    BY <1>1, <1>2, <1>3 DEF IInv, Shared, Slots, Granted, OneBarrier, Ahead, Queued, Receiving
  <1>4. CASE CanQueue /\ queue' = Append(queue, o)
    <2>1. /\ Len(queue') = Len(queue) + 1 /\ Len(queue) \in Nat
          /\ DOMAIN queue = 1..Len(queue) /\ DOMAIN queue' = 1..(Len(queue) + 1)
          /\ \A i \in 1..Len(queue) : queue'[i] = queue[i]
          /\ queue'[Len(queue) + 1] = o /\ o # "barrier"
          /\ \A y : Queued(y)' <=> Queued(y) \/ y = o
      BY <1>4, Joins, ManagerAssumption DEF IInv, TypeOK
    <2>2. Slots'
      BY <1>1, <1>4, <2>1, ManagerAssumption DEF IInv, Slots, Granted, CanQueue, Room
    <2>3. OneBarrier'
      BY <1>1, <2>1 DEF IInv, OneBarrier
    <2>4. Ahead'
      BY <1>1, <2>1 DEF IInv, Ahead, Receiving
    <2> QED
      BY <1>2, <2>2, <2>3, <2>4 DEF Shared
  <1> QED
    BY <1>3, <1>4, OwnerStepsFrame
-------------------------------------------------------------------------------
(* The steps of the release worker *)

\* The worker takes an owner: it is responsible now, and a freed slot goes to the
\* barrier that waits for it.
LEMMA TakeRelease ==
  ASSUME IInv, Take, Head(queue) # "barrier"
  PROVE  IInv'
  <1>1. /\ worker = "idle" /\ queue # <<>> /\ queue' = Tail(queue)
        /\ worker' = Head(queue)
        /\ coord' = IF coord = "waiting" THEN "granted" ELSE coord
        /\ UNCHANGED <<admission, shutdown, shut, owed, caller, sup, result, tasks,
                       holder, fallback>>
    BY DEF Take, redis
  <1>2. /\ queue' \in Seq(Owners \cup {"barrier"}) /\ Len(queue') = Len(queue) - 1
        /\ Len(queue) \in Nat \ {0}
        /\ DOMAIN queue = 1..Len(queue) /\ DOMAIN queue' = 1..(Len(queue) - 1)
        /\ \A i \in 1..(Len(queue) - 1) : queue'[i] = queue[i + 1]
        /\ Head(queue) = queue[1] /\ Head(queue) \in Owners
        /\ \A y : Queued(y) <=> Queued(y)' \/ y = Head(queue)
    BY <1>1, Leaves DEF IInv
  <1>3. worker \notin Owners
    BY <1>1, ManagerAssumption
  <1>4. TypeOK' /\ Slots'
    BY <1>1, <1>2, ManagerAssumption DEF IInv, TypeOK, CoordStates, Slots, Granted
  <1>5. Handover' /\ Disposed' /\ Unserved' /\ Kept'
    BY <1>1, <1>2, <1>3 DEF IInv, Handover, Disposed, Unserved, Kept
  <1>6. OneBarrier'
    <2>1. Queued("barrier")' => coord' = "acking"
      BY <1>1, <1>2 DEF IInv, OneBarrier
    <2>2. ASSUME NEW i \in 1..(Len(queue) - 1), NEW j \in 1..(Len(queue) - 1),
                 queue'[i] = "barrier", queue'[j] = "barrier"
          PROVE  i = j
      <3>1. /\ i + 1 \in 1..Len(queue) /\ queue[i + 1] = "barrier"
            /\ j + 1 \in 1..Len(queue) /\ queue[j + 1] = "barrier"
        BY <1>2, <2>2
      <3>2. i + 1 = j + 1
        BY <1>2, <3>1 DEF IInv, OneBarrier
      <3> QED
        BY <1>2, <3>2
    <2> QED
      BY <1>2, <2>1, <2>2 DEF OneBarrier
  <1>7. Ahead'
    <2> SUFFICES ASSUME NEW o \in owed, worker' # o
                 PROVE  /\ coord' \in {"start", "waiting", "granted", "acking"}
                        /\ \E i \in DOMAIN queue' :
                             /\ queue'[i] = o
                             /\ \A j \in DOMAIN queue' : queue'[j] = "barrier" => i < j
      BY <1>1 DEF Ahead
    <2>1. o \in Owners /\ worker # o
      BY <1>3 DEF IInv, TypeOK
    <2>2. PICK i \in 1..Len(queue) :
               /\ queue[i] = o
               /\ \A j \in 1..Len(queue) : queue[j] = "barrier" => i < j
      BY <1>1, <1>2, <2>1 DEF IInv, Ahead, Receiving
    <2>3. coord' \in {"start", "waiting", "granted", "acking"}
      BY <1>1, <2>1 DEF IInv, Ahead, Receiving
    <2>4. i # 1
      BY <1>1, <1>2, <2>2
    <2>5. i - 1 \in DOMAIN queue' /\ queue'[i - 1] = o
      BY <1>2, <2>2, <2>4
    <2>6. \A j \in DOMAIN queue' : queue'[j] = "barrier" => i - 1 < j
      <3>1. ASSUME NEW j \in 1..(Len(queue) - 1), queue'[j] = "barrier" PROVE i - 1 < j
        <4>1. j + 1 \in 1..Len(queue) /\ queue[j + 1] = "barrier"
          BY <1>2, <3>1
        <4>2. i < j + 1
          BY <2>2, <4>1
        <4> QED
          BY <1>2, <2>2, <4>2
      <3> QED
        BY <1>2, <3>1
    <2> QED
      BY <2>3, <2>5, <2>6
  <1>8. Stages' /\ Verdicts'
    BY <1>1 DEF IInv, Stages, Verdicts
  <1> QED
    BY <1>4, <1>5, <1>6, <1>7, <1>8 DEF IInv
\* The worker takes the barrier: the only one, awaited by the coordinator, and
\* with nothing owed ahead of it or in the worker's hands.
LEMMA TakeBarrier ==
  ASSUME IInv, Take, Head(queue) = "barrier"
  PROVE  IInv'
  <1>1. /\ worker = "idle" /\ queue # <<>> /\ queue' = Tail(queue)
        /\ coord' = "acked"
        /\ UNCHANGED <<admission, shutdown, shut, owed, worker, caller, sup, result, tasks,
                       holder, fallback>>
    BY DEF Take, redis
  <1>2. /\ queue' \in Seq(Owners \cup {"barrier"}) /\ Len(queue') = Len(queue) - 1
        /\ Len(queue) \in Nat \ {0}
        /\ DOMAIN queue = 1..Len(queue) /\ DOMAIN queue' = 1..(Len(queue) - 1)
        /\ \A i \in 1..(Len(queue) - 1) : queue'[i] = queue[i + 1]
        /\ queue[1] = "barrier" /\ "barrier" \notin Owners
        /\ \A y : Queued(y) <=> Queued(y)' \/ y = "barrier"
    BY <1>1, Leaves, ManagerAssumption DEF IInv
  <1>3. coord = "acking"
    BY <1>2 DEF IInv, OneBarrier
  <1>4. owed = {}
    <2> SUFFICES ASSUME NEW o \in owed PROVE FALSE
      OBVIOUS
    <2>1. worker # o /\ Receiving
      BY <1>1, ManagerAssumption DEF IInv, TypeOK, Receiving
    <2>2. PICK i \in 1..Len(queue) : \A j \in 1..Len(queue) : queue[j] = "barrier" => i < j
      BY <1>2, <2>1 DEF IInv, Ahead
    <2>3. i < 1
      BY <1>2, <2>2
    <2> QED
      BY <2>3
  <1>5. TypeOK' /\ Slots'
    BY <1>1, <1>2, ManagerAssumption DEF IInv, TypeOK, CoordStates, Slots, Granted
  <1>6. Handover' /\ Disposed' /\ Unserved' /\ Kept'
    BY <1>1, <1>2 DEF IInv, Handover, Disposed, Unserved, Kept
  <1>7. ~Queued("barrier")'
    <2> SUFFICES ASSUME NEW i \in 1..(Len(queue) - 1), queue'[i] = "barrier" PROVE FALSE
      BY <1>2 DEF Queued
    <2>1. i + 1 \in 1..Len(queue) /\ queue[i + 1] = "barrier"
      BY <1>2
    <2>2. i + 1 = 1
      BY <1>2, <2>1 DEF IInv, OneBarrier
    <2> QED
      BY <2>2
  <1>8. OneBarrier'
    BY <1>7 DEF OneBarrier, Queued
  <1>9. Ahead' /\ Stages' /\ Verdicts'
    BY <1>1, <1>3, <1>4 DEF IInv, Ahead, Stages, Verdicts
  <1> QED
    BY <1>5, <1>6, <1>8, <1>9 DEF IInv

\* The release ends: Redis has removed the lock, or only its TTL is left.
LEMMA FinishStep ==
  ASSUME IInv, FinishRelease
  PROVE  IInv'
  <1>1. /\ worker \in Owners /\ worker' = "idle" /\ owed' = owed \ {worker}
        /\ UNCHANGED <<admission, shutdown, coord, shut, queue, caller, sup, result, tasks>>
        /\ \/ holder' = Released(worker) /\ fallback' = fallback
           \/ holder' \in {holder, Released(worker)} /\ fallback' = fallback \cup {worker}
    BY DEF FinishRelease
  <1>2. \A y : Queued(y)' <=> Queued(y)
    BY <1>1, Stays
  <1>3. TypeOK' /\ Handover' /\ Slots'
    BY <1>1 DEF IInv, TypeOK, Handover, Slots, Granted, Released
  <1>4. Disposed' /\ Unserved' /\ Kept'
    BY <1>1, <1>2, ManagerAssumption DEF IInv, TypeOK, Disposed, Unserved, Kept, Released
  <1>5. OneBarrier'
    BY <1>1, <1>2 DEF IInv, OneBarrier
  <1>6. Ahead'
    BY <1>1 DEF IInv, Ahead, Receiving
  <1>7. Stages' /\ Verdicts'
    BY <1>1 DEF IInv, Stages, Verdicts
  <1> QED
    BY <1>3, <1>4, <1>5, <1>6, <1>7 DEF IInv

\* The receiver goes: with everything it held left to the TTL, when the task
\* fails, or with nothing to do, when the last sender is gone.
LEMMA WorkerGoes ==
  ASSUME IInv, WorkerPanics \/ WorkerEnds
  PROVE  IInv'
  <1>1. /\ queue' = <<>> /\ worker' \in {"panicked", "ended"}
        /\ UNCHANGED <<admission, shutdown, coord, shut, owed, caller, sup, result, tasks>>
        /\ fallback' = fallback \cup {o \in Owners : Queued(o) \/ worker = o}
        /\ holder' = holder \/ (worker \in Owners /\ holder' = Released(worker))
    <2>1. CASE WorkerPanics
      BY <2>1 DEF WorkerPanics, manager
    <2>2. CASE WorkerEnds
      BY <2>2, ManagerAssumption DEF WorkerEnds, manager, redis, Queued
    <2> QED
      BY <2>1, <2>2
  <1>2. \A y : ~Queued(y)'
    BY <1>1 DEF Queued
  <1>3. worker' \notin Owners /\ ~Receiving'
    BY <1>1, ManagerAssumption DEF Receiving
  <1>4. TypeOK' /\ Slots'
    BY <1>1, ManagerAssumption DEF IInv, TypeOK, Slots, Granted, Released
  <1>5. Handover' /\ Disposed' /\ Unserved' /\ Kept'
    BY <1>1, <1>2, <1>3, ManagerAssumption
       DEF IInv, TypeOK, Handover, Disposed, Unserved, Kept, Released
  <1>6. OneBarrier' /\ Ahead'
    BY <1>1, <1>2, <1>3 DEF OneBarrier, Ahead
  <1>7. Stages' /\ Verdicts'
    BY <1>1 DEF IInv, Stages, Verdicts
  <1> QED
    BY <1>4, <1>5, <1>6, <1>7 DEF IInv
-------------------------------------------------------------------------------
(* The steps of shutdown, and the TTL *)

\* The watcher and the calls of shutdown agree with the coordinator: whoever
\* decides first decides.
LEMMA ShutdownSteps ==
  ASSUME IInv,
         \/ WatchWorker \/ CompleteShutdown
         \/ \E c \in Callers : ShutdownCall(c) \/ ShutdownEnd(c) \/ CancelShutdown(c)
  PROVE  IInv'
  <1>1. /\ UNCHANGED <<queue, caller, sup, result, tasks, holder, fallback>>
        /\ worker' = worker \/ (worker = "panicked" /\ worker' = "reported")
        /\ \/ coord' = coord
           \/ admission /\ coord' = "start"
           \/ coord \in {"acked", "failed"} /\ coord' = "done"
    BY DEF WatchWorker, CompleteShutdown, ShutdownCall, ShutdownEnd, CancelShutdown,
       channel, redis
  <1>2. \A y : Queued(y)' <=> Queued(y)
    BY <1>1, Stays
  <1>3. TypeOK'
    <2>1. UNCHANGED <<queue, caller, sup, result, tasks, holder, fallback>>
      BY <1>1
    <2>2. coord' \in CoordStates /\ worker' \in Owners \cup {"idle", "panicked", "reported", "ended"}
      BY <1>1 DEF IInv, TypeOK, CoordStates
    <2>3. /\ admission' \in BOOLEAN /\ shutdown' \in ShutdownState
          /\ shut' \in [Callers -> ShutStates] /\ owed' \in SUBSET Owners
      BY DEF IInv, TypeOK, ShutdownState, ShutStates, WatchWorker, CompleteShutdown,
         ShutdownCall, ShutdownEnd, CancelShutdown
    <2> QED
      BY <2>1, <2>2, <2>3 DEF IInv, TypeOK
  <1>4. Handover' /\ Disposed' /\ Unserved' /\ Kept'
    BY <1>1, <1>2, ManagerAssumption DEF IInv, Handover, Disposed, Unserved, Kept
  <1>5. Slots' /\ OneBarrier'
    BY <1>1, <1>2 DEF IInv, Slots, Granted, OneBarrier, Stages
  <1>6. Ahead'
    <2>1. CASE WatchWorker
      BY <2>1, <1>1, ManagerAssumption DEF WatchWorker, Ahead, Receiving
    <2>2. CASE CompleteShutdown
      BY <2>2, <1>1 DEF CompleteShutdown, IInv, Ahead, Receiving, channel
    <2>3. ASSUME NEW c \in Callers, ShutdownCall(c), admission
          PROVE  Ahead'
      <3>1. /\ coord' = "start" /\ owed' = {o \in Owners : Queued(o) \/ worker = o}
            /\ worker' = worker /\ queue' = queue /\ ~Queued("barrier")
        BY <2>3 DEF ShutdownCall, channel, IInv, Stages, OneBarrier
      <3>2. \A j \in DOMAIN queue : queue[j] # "barrier"
        BY <3>1 DEF Queued
      <3> QED
        BY <3>1, <3>2 DEF Ahead, Queued
    <2>4. ASSUME NEW c \in Callers,
                 \/ ShutdownCall(c) /\ ~admission
                 \/ ShutdownEnd(c) \/ CancelShutdown(c)
          PROVE  Ahead'
      BY <2>4 DEF ShutdownCall, ShutdownEnd, CancelShutdown, channel, IInv, Ahead, Receiving
    <2> QED
      BY <2>1, <2>2, <2>3, <2>4
  <1>7. Stages' /\ Verdicts'
    BY DEF IInv, TypeOK, Stages, Verdicts, IsOpen, ShutdownState, ShutStates, WatchWorker,
       CompleteShutdown, ShutdownCall, ShutdownEnd, CancelShutdown
  <1> QED
    BY <1>3, <1>4, <1>5, <1>6, <1>7 DEF IInv
\* The coordinator asks for a slot, fills the one it was granted, or learns that
\* the receiver has gone.
LEMMA CoordinatorSteps ==
  ASSUME IInv, ReserveBarrier \/ PushBarrier \/ BarrierFails
  PROVE  IInv'
  <1>1. UNCHANGED <<admission, shutdown, shut, owed, worker, caller, sup, result, tasks,
                   holder, fallback>>
    BY DEF ReserveBarrier, PushBarrier, BarrierFails, channel, redis
  <1>2. Stages' /\ Verdicts'
    BY <1>1 DEF IInv, Stages, Verdicts, ReserveBarrier, PushBarrier, BarrierFails
  <1>3. CASE ReserveBarrier
    <2>1. /\ queue' = queue /\ coord = "start"
          /\ coord' = IF ~Receiving THEN "failed" ELSE IF Room THEN "granted" ELSE "waiting"
      BY <1>3 DEF ReserveBarrier, channel
    <2>2. \A y : Queued(y)' <=> Queued(y)
      BY <2>1, Stays
    <2>3. TypeOK' /\ Handover' /\ Disposed' /\ Unserved' /\ Kept'
      BY <1>1, <2>1, <2>2
         DEF IInv, TypeOK, CoordStates, Handover, Disposed, Unserved, Kept
    <2>4. Slots'
      BY <2>1, ManagerAssumption DEF IInv, TypeOK, Slots, Granted, Room
    <2>5. OneBarrier' /\ Ahead'
      BY <1>1, <2>1, <2>2 DEF IInv, OneBarrier, Ahead, Receiving
    <2> QED
      BY <1>2, <2>3, <2>4, <2>5 DEF IInv
  <1>4. CASE BarrierFails
    <2>1. /\ queue' = queue /\ coord' = "failed" /\ ~Receiving
          /\ coord = "waiting" \/ (coord = "acking" /\ ~Queued("barrier"))
      BY <1>4 DEF BarrierFails, channel
    <2>2. \A y : Queued(y)' <=> Queued(y)
      BY <2>1, Stays
    <2>3. TypeOK' /\ Handover' /\ Disposed' /\ Unserved' /\ Kept'
      BY <1>1, <2>1, <2>2
         DEF IInv, TypeOK, CoordStates, Handover, Disposed, Unserved, Kept
    <2>4. Slots' /\ OneBarrier' /\ Ahead'
      BY <1>1, <2>1, <2>2
         DEF IInv, Slots, Granted, OneBarrier, Ahead, Receiving
    <2> QED
      BY <1>2, <2>3, <2>4 DEF IInv
  <1>5. CASE PushBarrier
    <2>1. queue' = Append(queue, "barrier") /\ coord = "granted" /\ coord' = "acking"
      BY <1>5 DEF PushBarrier
    <2>2. /\ queue' \in Seq(Owners \cup {"barrier"}) /\ Len(queue') = Len(queue) + 1
          /\ DOMAIN queue = 1..Len(queue) /\ DOMAIN queue' = 1..(Len(queue) + 1)
          /\ \A i \in 1..Len(queue) : queue'[i] = queue[i]
          /\ queue'[Len(queue) + 1] = "barrier" /\ "barrier" \notin Owners
          /\ \A y : Queued(y)' <=> Queued(y) \/ y = "barrier"
          /\ Len(queue) \in Nat
      BY <2>1, Joins, ManagerAssumption DEF IInv, TypeOK
    <2>3. \A i \in 1..Len(queue) : queue[i] # "barrier"
      BY <2>1, <2>2 DEF IInv, OneBarrier, Queued
    <2>4. TypeOK' /\ Slots'
      BY <1>1, <2>1, <2>2, ManagerAssumption DEF IInv, TypeOK, CoordStates, Slots, Granted
    <2>5. Handover' /\ Disposed' /\ Unserved' /\ Kept'
      BY <1>1, <2>2 DEF IInv, Handover, Disposed, Unserved, Kept
    <2>6. OneBarrier'
      BY <2>1, <2>2, <2>3 DEF OneBarrier
    <2>7. Ahead'
      BY <1>1, <2>1, <2>2, <2>3 DEF IInv, Ahead, Receiving
    <2> QED
      BY <1>2, <2>4, <2>5, <2>6, <2>7 DEF IInv
  <1> QED
    BY <1>3, <1>4, <1>5

\* The TTL only takes a lock away.
LEMMA LapseStep ==
  ASSUME IInv, Lapse
  PROVE  IInv'
  <1>1. /\ holder' = None
        /\ UNCHANGED <<admission, shutdown, coord, shut, owed, queue, worker, caller, sup,
                       result, tasks, fallback>>
    BY DEF Lapse, manager, channel
  <1>2. \A y : Queued(y)' <=> Queued(y)
    BY <1>1, Stays
  <1> QED
    BY <1>1, <1>2, ManagerAssumption
       DEF IInv, TypeOK, Handover, Disposed, Unserved, Kept, Slots, Granted, OneBarrier,
           Ahead, Receiving, Stages, Verdicts

\* Every step keeps the invariant.
LEMMA NextIInv == IInv /\ [Next]_vars => IInv'
  <1> SUFFICES ASSUME IInv, [Next]_vars PROVE IInv'
    OBVIOUS
  <1>1. ASSUME NEW o \in Owners, CallerStep(o) \/ GuardStep(o) \/ SupervisorStep(o)
        PROVE  IInv'
    <2>1. Local'
      BY <1>1, CallerStepLocal, GuardStepLocal, SupervisorStepLocal
    <2>2. Shared'
      BY <1>1, OwnerStepsShared
    <2> QED
      BY <2>1, <2>2 DEF IInv, Local, Shared
  <1>2. CASE WorkerStep \/ WorkerPanics
    BY <1>2, TakeRelease, TakeBarrier, FinishStep, WorkerGoes DEF WorkerStep
  <1>3. CASE CoordinatorStep
    BY <1>3, CoordinatorSteps, ShutdownSteps DEF CoordinatorStep
  <1>4. CASE WatchWorker \/ \E c \in Callers : ShutdownCall(c) \/ ShutdownEnd(c) \/ CancelShutdown(c)
    BY <1>4, ShutdownSteps
  <1>5. CASE Lapse
    BY <1>5, LapseStep
  <1>6. CASE UNCHANGED vars
    BY <1>6, Stays DEF vars, IInv, TypeOK, Handover, Disposed, Unserved, Kept, Slots, Granted,
       OneBarrier, Ahead, Receiving, Stages, Verdicts
  <1> QED
    BY <1>1, <1>2, <1>3, <1>4, <1>5, <1>6 DEF Next
-------------------------------------------------------------------------------
(* The results *)

\* The inductive invariant of the manager and its acquisitions.
THEOREM Inductive == Spec => []IInv
  BY InitIInv, NextIInv, PTL DEF Spec

\* The states have their types; the queue never outgrows its buffer, a slot
\* granted to the barrier included (mpsc::channel, manager.rs:79).
THEOREM TypeCorrect == Spec => []TypeOK
  <1>1. IInv => TypeOK
    BY DEF IInv
  <1> QED
    BY <1>1, Inductive, PTL

\* A lock that Redis has is in somebody's hands or left to its TTL: between
\* caller, result channel, supervisor and release worker none is lost, whoever
\* is cancelled, refused, too late or gone (guard.rs:252-357).
THEOREM NothingLeaks == Spec => []NoLeak
  <1>1. IInv => NoLeak
    BY DEF IInv, Kept, NoLeak
  <1> QED
    BY <1>1, Inductive, PTL

\* Neither the supervisor nor the worker releases the lock of a caller that has
\* been given the guard (the accepted handshake, guard.rs:320-324).
THEOREM HolderSafe == Spec => []NoReleaseUnderHolder
  <1>1. IInv => NoReleaseUnderHolder
    BY DEF IInv, Handover, Disposed, NoReleaseUnderHolder
  <1> QED
    BY <1>1, Inductive, PTL

\* shutdown() completes only after the end of every release queued before it, in
\* whatever order slots, barrier and releases meet in the queue
\* (manager.rs:176-179).
THEOREM DrainsBeforeCompletion == Spec => []BarrierDrains
  <1>1. IInv => BarrierDrains
    BY DEF IInv, Stages, BarrierDrains
  <1> QED
    BY <1>1, Inductive, PTL

\* No call of shutdown returns where another panics, although the coordinator and
\* the watcher decide on their own (manager.rs:103-112, 180-191).
THEOREM VerdictsAgree == Spec => []OneVerdict
  <1>1. IInv => OneVerdict
    BY DEF IInv, Verdicts, OneVerdict
  <1> QED
    BY <1>1, Inductive, PTL
===============================================================================
