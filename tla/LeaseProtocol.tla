----------------------------- MODULE LeaseProtocol -----------------------------
(***************************************************************************)
(* One acquisition from its first command to the end of its guard, for     *)
(* several competing owners: the acquisition loop, the lease, the renewal  *)
(* task, release and drop (src/src/lease.rs, async_lock/guard.rs and its   *)
(* twin sync_lock/guard.rs), over the scripts of RedisStore.               *)
(*                                                                         *)
(* A command travels.  Redis executes it once, at any later time, in any   *)
(* order with the others, or never; its reply may be lost.  A client that  *)
(* sees an error cannot tell which happened.  Deadlines, shutdown and a    *)
(* cancelled caller end an acquisition at any of the points where the code *)
(* looks at them.  A crashed client is one that takes no further step.     *)
(*                                                                         *)
(* clock is real time, the client's Instant.  Clients and Redis agree on   *)
(* the length of a tick and Redis' clock never jumps.                      *)
(***************************************************************************)
EXTENDS RedisStore

CONSTANTS
  RenewInterval,  \* effective_renew_interval in ticks, 0 where it is disabled
  RetryInterval,  \* retry_interval in ticks
  MaxClock        \* bound: time stops here

ASSUME LeaseAssumption ==
  /\ RenewInterval \in [Owners -> Nat]
  /\ RetryInterval \in [Owners -> Nat \ {0}]
  /\ MaxClock \in Nat
  /\ \A o \in Owners : RenewInterval[o] # 0 => RenewInterval[o] \in Ms..(Ttl[o] - 1)

VARIABLES
  clock,     \* real time
  net,       \* commands sent and not yet executed
  sup,       \* where the acquisition of each owner stands
  attempt,   \* attempt_start, while an attempt is under way
  lease,     \* LeaseData, without the constant ttl
  ren,       \* where its renewal task stands
  renTime,   \* asleep: wait_start + wait; sent: the start of the renewal
  guard      \* where its guard stands

vars == <<clock, now, db, net, sup, attempt, lease, ren, renTime, guard>>
store == <<now, db>>
acquisition == <<sup, attempt>>
renewal == <<ren, renTime>>

Replies == {"ok", "no", "err"}
SupStates == {"idle", "sent", "done"} \cup Replies
LeaseStates == {"None", "Active", "Lost", "Released"}
RenStates == {"off", "sleep", "armed", "sent", "end"} \cup Replies
GuardStates == {"none", "offered", "held", "releasing", "replied",
                "released", "dropped"}

Command == [op : {"acquire", "renew", "release"}, owner : Owners, start : Nat]
Acquire(o, start) == [op |-> "acquire", owner |-> o, start |-> start]
Renew(o, start) == [op |-> "renew", owner |-> o, start |-> start]
\* Two releases of one owner in flight are one: the second finds nothing, for
\* no acquisition of that owner can execute between them (GuardMeansServed).
Release(o) == [op |-> "release", owner |-> o, start |-> 0]
AcquiresOf(o) == {c \in net : c.op = "acquire" /\ c.owner = o}

\* An instant nobody reads any more is 0: a local variable of a loop that has
\* ended, the start of a lease that is over.
Dead == 0
LeaseOver(state) == [state |-> state, start |-> Dead]

\* Lease::refresh.  Every reader of a lease calls it first, so the lease can as
\* well turn Lost when its deadline comes.
Refresh(t) ==
  [o \in Owners |-> IF lease[o].state = "Active" /\ t >= lease[o].start + Ttl[o]
                   THEN LeaseOver("Lost") ELSE lease[o]]

LeaseState(o) == lease[o].state
Remaining(o) ==
  IF LeaseState(o) = "Active" THEN lease[o].start + Ttl[o] - clock ELSE 0

\* Lease::lose spares a lease that has been released, Lease::release none.
Lose(o) ==
  lease' = [lease EXCEPT ![o] = IF @.state = "Active" THEN LeaseOver("Lost") ELSE @]
EndLease(o) == lease' = [lease EXCEPT ![o] = LeaseOver("Released")]

Init ==
  /\ clock = 0
  /\ now = 0
  /\ db = [k \in Keys |-> NoKey]
  /\ net = {}
  /\ sup = [o \in Owners |-> "idle"]
  /\ attempt = [o \in Owners |-> Dead]
  /\ lease = [o \in Owners |-> LeaseOver("None")]
  /\ ren = [o \in Owners |-> "off"]
  /\ renTime = [o \in Owners |-> Dead]
  /\ guard = [o \in Owners |-> "none"]
-------------------------------------------------------------------------------
(* Time and Redis *)

Tick ==
  /\ clock < MaxClock
  /\ clock' = clock + 1
  /\ now' = IF clock' = now + Ms THEN clock' ELSE now
  /\ db' = ExpireKeys(now')
  /\ lease' = Refresh(clock')
  /\ UNCHANGED <<net, acquisition, renewal, guard>>

\* Redis executes a command; the reply reaches a client that still waits for
\* it, or is lost.
ServeAcquire(o, start) ==
  /\ Acquire(o, start) \in net
  /\ net' = net \ {Acquire(o, start)}
  /\ \E reply \in Replies :
       /\ AcquireLock(o, reply)
       /\ sup' \in {sup, IF sup[o] = "sent" /\ attempt[o] = start
                         THEN [sup EXCEPT ![o] = reply] ELSE sup}
  /\ UNCHANGED <<clock, now, attempt, lease, renewal, guard>>

ServeRenew(o, start) ==
  /\ Renew(o, start) \in net
  /\ net' = net \ {Renew(o, start)}
  /\ \E reply \in Replies :
       /\ RenewLock(o, reply)
       /\ ren' \in {ren, IF ren[o] = "sent" /\ renTime[o] = start
                         THEN [ren EXCEPT ![o] = reply] ELSE ren}
  /\ UNCHANGED <<clock, now, acquisition, lease, renTime, guard>>

\* Whatever a release finds, its reply completes GuardData::release.
ServeRelease(o) ==
  /\ Release(o) \in net
  /\ net' = net \ {Release(o)}
  /\ \E reply \in {"ok", "no"} : ReleaseLock(o, reply)
  /\ guard' \in {guard, IF guard[o] = "releasing"
                        THEN [guard EXCEPT ![o] = "replied"] ELSE guard}
  /\ UNCHANGED <<clock, now, acquisition, lease, renewal>>
-------------------------------------------------------------------------------
(* The acquisition loop.  Its retry timer may fire at any time. *)

StartAttempt(o) ==
  /\ sup[o] \in {"idle", "no"}
  /\ sup' = [sup EXCEPT ![o] = "sent"]
  /\ attempt' = [attempt EXCEPT ![o] = clock]
  /\ net' = net \cup {Acquire(o, clock)}
  /\ UNCHANGED <<clock, store, lease, renewal, guard>>

EndAcquisition(o) ==
  /\ sup' = [sup EXCEPT ![o] = "done"]
  /\ attempt' = [attempt EXCEPT ![o] = Dead]

\* try_acquire, or the deadline, shutdown or the caller's end while waiting.
GiveUp(o) ==
  /\ sup[o] = "no"
  /\ EndAcquisition(o)
  /\ UNCHANGED <<clock, store, net, lease, renewal, guard>>

\* An error.  The async task always cleans up; the sync one only after an I/O
\* error, and only if the release queue has room.
AcquireFailed(o) ==
  /\ sup[o] \in {"sent", "err"}
  /\ EndAcquisition(o)
  /\ net' \in {net, net \cup {Release(o)}}
  /\ UNCHANGED <<clock, store, lease, renewal, guard>>

\* Acquired, but too late, in shutdown or for a caller that is gone.
RejectAcquired(o) ==
  /\ sup[o] = "ok"
  /\ EndAcquisition(o)
  /\ net' = net \cup {Release(o)}
  /\ UNCHANGED <<clock, store, lease, renewal, guard>>

\* Mistake: the lease runs from the reply.
OfferGuardFromReply(o) ==
  /\ sup[o] = "ok"
  /\ EndAcquisition(o)
  /\ lease' = [lease EXCEPT ![o] = [state |-> "Active", start |-> clock]]
  /\ guard' = [guard EXCEPT ![o] = "offered"]
  /\ UNCHANGED <<clock, store, net, renewal>>

\* The lease runs from the start of the attempt, and GuardData::new starts its
\* renewal before the caller sees the guard.
OfferGuard(o) ==
  /\ sup[o] = "ok"
  /\ clock < attempt[o] + Ttl[o]
  /\ EndAcquisition(o)
  /\ lease' = [lease EXCEPT ![o] = [state |-> "Active", start |-> attempt[o]]]
  /\ guard' = [guard EXCEPT ![o] = "offered"]
  /\ IF RenewInterval[o] = 0
     THEN UNCHANGED renewal
     ELSE /\ ren' = [ren EXCEPT ![o] = "sleep"]
          /\ renTime' = [renTime EXCEPT ![o] = attempt[o] + RenewInterval[o]]
  /\ UNCHANGED <<clock, store, net>>

ClaimGuard(o) ==
  /\ guard[o] = "offered"
  /\ LeaseState(o) = "Active"
  /\ guard' = [guard EXCEPT ![o] = "held"]
  /\ UNCHANGED <<clock, store, net, acquisition, lease, renewal>>

\* The caller left, ran out of time or saw the lease expire: the guard is
\* dropped unclaimed, and the acquisition cleans up besides.
DiscardGuard(o) ==
  /\ guard[o] = "offered"
  /\ guard' = [guard EXCEPT ![o] = "dropped"]
  /\ EndLease(o)
  /\ net' = net \cup {Release(o)}
  /\ UNCHANGED <<clock, store, acquisition, renewal>>
-------------------------------------------------------------------------------
(* The renewal task *)

\* The stop message and a lease no longer Active end the task alike: whoever
\* sends the message has ended the lease before.
RenewStop(o) ==
  /\ ren[o] = "sleep"
  /\ LeaseState(o) # "Active"
  /\ ren' = [ren EXCEPT ![o] = "end"]
  /\ renTime' = [renTime EXCEPT ![o] = Dead]
  /\ UNCHANGED <<clock, store, net, acquisition, lease, guard>>

\* The wait is over and the lease was still Active when looked at ...
RenewArm(o) ==
  /\ ren[o] = "sleep"
  /\ clock >= renTime[o]
  /\ LeaseState(o) = "Active"
  /\ ren' = [ren EXCEPT ![o] = "armed"]
  /\ renTime' = [renTime EXCEPT ![o] = Dead]
  /\ UNCHANGED <<clock, store, net, acquisition, lease, guard>>

\* ... which it may no longer be when the command is sent.
RenewSend(o) ==
  /\ ren[o] = "armed"
  /\ ren' = [ren EXCEPT ![o] = "sent"]
  /\ renTime' = [renTime EXCEPT ![o] = clock]
  /\ net' = net \cup {Renew(o, clock)}
  /\ UNCHANGED <<clock, store, acquisition, lease, guard>>

\* Lease::renew: only an Active lease moves on, and not to a deadline already past.
CanRenew(o) == LeaseState(o) = "Active" /\ clock < renTime[o] + Ttl[o]

\* Mistake: the renewed lease runs from the reply.
RenewConfirmedFromReply(o) ==
  /\ ren[o] = "ok"
  /\ CanRenew(o)
  /\ ren' = [ren EXCEPT ![o] = "sleep"]
  /\ renTime' = [renTime EXCEPT ![o] = clock + RenewInterval[o]]
  /\ lease' = [lease EXCEPT ![o].start = clock]
  /\ UNCHANGED <<clock, store, net, acquisition, guard>>

RenewConfirmed(o) ==
  /\ ren[o] = "ok"
  /\ CanRenew(o)
  /\ ren' = [ren EXCEPT ![o] = "sleep"]
  /\ renTime' = [renTime EXCEPT ![o] = @ + RenewInterval[o]]
  /\ lease' = [lease EXCEPT ![o] = [state |-> "Active", start |-> renTime[o]]]
  /\ UNCHANGED <<clock, store, net, acquisition, guard>>

RenewDenied(o) ==
  /\ ren[o] = "no" \/ (ren[o] = "ok" /\ ~CanRenew(o))
  /\ ren' = [ren EXCEPT ![o] = "end"]
  /\ renTime' = [renTime EXCEPT ![o] = Dead]
  /\ Lose(o)
  /\ UNCHANGED <<clock, store, net, acquisition, guard>>

\* Mistake: retry_interval, however little the lease has left.
RetryWaitFull(o) == RetryInterval[o]

\* After an error: retry_interval, but at most half of what the lease has left.
RetryWait(o) ==
  LET half == Remaining(o) \div 2 IN
  IF RetryInterval[o] < half THEN RetryInterval[o] ELSE half

RenewFailed(o) ==
  /\ ren[o] \in {"sent", "err"}
  /\ ren' = [ren EXCEPT ![o] = "sleep"]
  /\ renTime' = [renTime EXCEPT ![o] = clock + RetryWait(o)]
  /\ UNCHANGED <<clock, store, net, acquisition, lease, guard>>
-------------------------------------------------------------------------------
(* The guard *)

\* Mistake: the lease ends when the release has completed.
ReleaseGuardStillActive(o) ==
  /\ guard[o] = "held"
  /\ guard' = [guard EXCEPT ![o] = "releasing"]
  /\ net' = net \cup {Release(o)}
  /\ UNCHANGED <<clock, store, acquisition, lease, renewal>>

\* GuardData::release ends the lease before its command is sent.
ReleaseGuard(o) ==
  /\ guard[o] = "held"
  /\ guard' = [guard EXCEPT ![o] = "releasing"]
  /\ Lose(o)
  /\ net' = net \cup {Release(o)}
  /\ UNCHANGED <<clock, store, acquisition, renewal>>

ReleaseDone(o) ==
  /\ guard[o] = "replied"
  /\ guard' = [guard EXCEPT ![o] = "released"]
  /\ EndLease(o)
  /\ UNCHANGED <<clock, store, net, acquisition, renewal>>

\* An error, or the caller cancelled the wait: the guard can release again.
ReleaseFailed(o) ==
  /\ guard[o] \in {"releasing", "replied"}
  /\ guard' = [guard EXCEPT ![o] = "held"]
  /\ UNCHANGED <<clock, store, net, acquisition, lease, renewal>>

\* Drop queues a release, unless the queue is full or its worker is gone.
DropGuard(o) ==
  /\ guard[o] = "held"
  /\ guard' = [guard EXCEPT ![o] = "dropped"]
  /\ EndLease(o)
  /\ net' \in {net, net \cup {Release(o)}}
  /\ UNCHANGED <<clock, store, acquisition, renewal>>
-------------------------------------------------------------------------------
AcquireStep(o) ==
  \/ StartAttempt(o) \/ GiveUp(o) \/ AcquireFailed(o) \/ RejectAcquired(o)
  \/ OfferGuard(o) \/ ClaimGuard(o) \/ DiscardGuard(o)

RenewStep(o) ==
  \/ RenewStop(o) \/ RenewArm(o) \/ RenewSend(o)
  \/ RenewConfirmed(o) \/ RenewDenied(o) \/ RenewFailed(o)

GuardStep(o) ==
  \/ ReleaseGuard(o) \/ ReleaseDone(o) \/ ReleaseFailed(o) \/ DropGuard(o)

ServeStep(o) ==
  \/ \E start \in 0..MaxClock : ServeAcquire(o, start) \/ ServeRenew(o, start)
  \/ ServeRelease(o)

Next ==
  \/ Tick
  \/ \E o \in Owners : AcquireStep(o) \/ RenewStep(o) \/ GuardStep(o) \/ ServeStep(o)

Spec == Init /\ [][Next]_vars
-------------------------------------------------------------------------------
(* Correctness *)

\* Types, and a key that holds neither a string nor a holder is no key at all:
\* it has no expiry left that a later holder could inherit (scripts.rs:143).
TypeOK ==
  /\ clock \in Nat
  /\ now \in Nat
  /\ db \in [Keys -> KeyValue]
  /\ \A k \in Keys : db[k].str = NoOwner /\ db[k].zset = {} => db[k] = NoKey
  /\ net \in SUBSET Command
  /\ sup \in [Owners -> SupStates]
  /\ attempt \in [Owners -> Nat]
  /\ lease \in [Owners -> [state : LeaseStates, start : Nat]]
  /\ ren \in [Owners -> RenStates]
  /\ renTime \in [Owners -> Nat]
  /\ guard \in [Owners -> GuardStates]

\* Redis' clock is the last whole millisecond, and it is coarser than a
\* client's by less than Ms ticks.  That is the margin by which a read-write
\* lease, dated by Redis' clock, may end before the client's deadline.
Grace(o) == IF IsMutex(o) THEN 0 ELSE Ms - 1

\* The owner may rely on its lease.
Honoured(o) == LeaseState(o) = "Active" /\ clock + Grace(o) < lease[o].start + Ttl[o]

Conflict(o1, o2) ==
  /\ o1 # o2
  /\ KeysOf(o1) \cap KeysOf(o2) # {}
  /\ ~(Role[o1] = "read" /\ Role[o2] = "read")

\* Two owners that exclude each other never both rely on their leases, whatever
\* was lost, late or out of order (the purpose of the crate, lib.rs and README).
Exclusion == \A o1, o2 \in Owners : Conflict(o1, o2) => ~(Honoured(o1) /\ Honoured(o2))

\* The client's deadline is conservative: while it trusts the lease, Redis
\* still honours the owner on every key (Lease::new, Lease::renew, scripts).
LeaseBacked == \A o \in Owners : Honoured(o) => \A k \in KeysOf(o) : Holds(o, k)

\* What lease.rs:9 says without the margin: an Active lease is one that Redis
\* still honours.
ActiveIsBacked ==
  \A o \in Owners : LeaseState(o) = "Active" => \A k \in KeysOf(o) : Holds(o, k)

\* An owner of several keys holds all or none of them, at every moment: taken,
\* renewed, expired and released together (the multi-key scripts).
AllOrNothing ==
  \A o \in Owners : (\E k \in KeysOf(o) : Holds(o, k)) => \A k \in KeysOf(o) : Holds(o, k)

\* A key outlives every holder recorded in it, and no key is left without an
\* expiry: readers of different TTLs share it (PTTL < ttl, scripts.rs:143).
KeyOutlivesHolders ==
  \A k \in Keys :
    /\ Kind(db[k]) # "none" => db[k].pexpire # NoTtl
    /\ \A e \in db[k].zset : e.score <= db[k].pexpire /\ -e.score <= db[k].pexpire

\* A writer's entry is alone in its key, expired or not: whoever joins a key
\* has purged it first, and whoever renews was alone (scripts.rs:133, 219, 248).
WriterAlone == \A k \in Keys : \A e, f \in db[k].zset : e.score < 0 => e = f

\* Once release has returned, Redis holds nothing of the owner, and no command
\* still on its way brings it back (GuardData::release, the renew scripts).
ReleasedMeansGone ==
  \A o \in Owners : guard[o] \in {"replied", "released"} =>
    \A k \in KeysOf(o) : ~Holds(o, k)

\* A guard exists only when no acquisition of its owner is still on its way;
\* one that was given up may execute after its cleanup, and then expires.
GuardMeansServed == \A o \in Owners : guard[o] # "none" => AcquiresOf(o) = {}

\* A sleeping renewal task wakes before its lease runs out, after an error too:
\* RetryWait halves what is left, an interval is shorter than the TTL.
WakesInTime ==
  \A o \in Owners : ren[o] = "sleep" /\ LeaseState(o) = "Active" =>
    renTime[o] < lease[o].start + Ttl[o]

\* A lease that is lost or released never becomes Active again, whatever reply
\* still arrives (Lease::renew, Lease::lose, Lease::release).
NeverRevives ==
  [][\A o \in Owners : LeaseState(o) \in {"Lost", "Released"} =>
       LeaseState(o)' \in {LeaseState(o), "Lost", "Released"}]_vars

\* No command of one owner takes a live key from another: release deletes only
\* what carries its own UUID, renew and acquire only add (scripts.rs:98-121).
NoForeignRemoval ==
  [][\A o \in Owners : ServeStep(o) =>
       \A p \in Owners \ {o} : \A k \in KeysOf(p) : Holds(p, k) => Holds(p, k)']_vars
===============================================================================
