------------------------------- MODULE LeaseWatch -------------------------------
(***************************************************************************)
(* Waiting for the end of a lease: Lease::wait_until_inactive against the  *)
(* tasks that renew, lose and release it (src/src/lease.rs).  A lease has  *)
(* a mutex for its data and a tokio watch channel that carries no value:   *)
(* a receiver only knows whether something was sent since it last looked.  *)
(*                                                                         *)
(* Waiters are the renewal task, which waits anew in each of its rounds,   *)
(* and callers of the guards' wait_until_inactive.                         *)
(***************************************************************************)
EXTENDS Naturals

CONSTANTS
  Waiters,
  Ttl,          \* the lease's TTL
  Cap,          \* the longest single sleep, a day (lease.rs:112)
  MaxRenewals,  \* bound: renewals confirmed
  MaxClock      \* bound: time stops here

ASSUME WatchAssumption ==
  Ttl \in Nat \ {0} /\ Cap \in Nat \ {0} /\ MaxRenewals \in Nat /\ MaxClock \in Nat

VARIABLES
  clock,
  state,     \* LeaseData::state
  expiry,    \* LeaseData::start + ttl
  version,   \* sends on the watch channel so far
  renewals,
  releasing, \* Lease::release: "no", "set" (state written, not yet sent), "done"
  pc,        \* where a wait stands
  seen,      \* the version its receiver has seen
  timer,     \* when its sleep ends
  told       \* what its last wait returned

vars == <<clock, state, expiry, version, renewals, releasing, pc, seen, timer, told>>
lease == <<state, expiry, version>>
others == <<renewals, releasing>>

Init ==
  /\ clock = 0
  /\ state = "Active"
  /\ expiry = Ttl
  /\ version = 0
  /\ renewals = 0
  /\ releasing = "no"
  /\ pc = [w \in Waiters |-> "out"]
  /\ seen = [w \in Waiters |-> 0]
  /\ timer = [w \in Waiters |-> 0]
  /\ told = [w \in Waiters |-> "nothing"]

Goto(w, place) == pc' = [pc EXCEPT ![w] = place]

Overdue == state = "Active" /\ clock >= expiry

\* Lease::refresh: whoever looks at a lease past its deadline declares it lost
\* and tells the others.
Refresh ==
  /\ state' = IF Overdue THEN "Lost" ELSE state
  /\ version' = IF Overdue THEN version + 1 ELSE version
  /\ UNCHANGED expiry
-------------------------------------------------------------------------------
(* wait_until_inactive *)

Subscribe(w) ==
  /\ pc[w] = "out"
  /\ seen' = [seen EXCEPT ![w] = version]
  /\ Goto(w, "check")
  /\ UNCHANGED <<clock, lease, others, timer, told>>

CheckState(w) ==
  /\ pc[w] = "check"
  /\ Refresh
  /\ \/ state' = "Active" /\ Goto(w, "arm") /\ UNCHANGED told
     \/ /\ state' # "Active"
        /\ Goto(w, "out")
        /\ told' = [told EXCEPT ![w] = state']
  /\ UNCHANGED <<clock, others, seen, timer>>

Least(a, b) == IF a <= b THEN a ELSE b

\* Lease::remaining, after its refresh.
Remaining == IF state = "Active" /\ clock < expiry THEN expiry - clock ELSE 0

\* Mistake: the receiver is made where it is waited on.
ArmSubscribing(w) ==
  /\ pc[w] = "arm"
  /\ Refresh
  /\ timer' = [timer EXCEPT ![w] = clock + Least(Remaining, Cap)]
  /\ seen' = [seen EXCEPT ![w] = version']
  /\ Goto(w, "wait")
  /\ UNCHANGED <<clock, others, told>>

\* Mistake: no timer for a lease beyond the timer's range.
ArmInRange(w) ==
  /\ pc[w] = "arm"
  /\ Refresh
  /\ timer' = [timer EXCEPT ![w] = IF Remaining > Cap THEN MaxClock + 1 ELSE clock + Remaining]
  /\ Goto(w, "wait")
  /\ UNCHANGED <<clock, others, seen, told>>

\* The state may have changed since CheckState.  The clock is read twice in a
\* row, for the remaining time and for the sleep; here it is the same instant.
Arm(w) ==
  /\ pc[w] = "arm"
  /\ Refresh
  /\ timer' = [timer EXCEPT ![w] = clock + Least(Remaining, Cap)]
  /\ Goto(w, "wait")
  /\ UNCHANGED <<clock, others, seen, told>>

WakeChanged(w) ==
  /\ pc[w] = "wait"
  /\ seen[w] # version
  /\ seen' = [seen EXCEPT ![w] = version]
  /\ Goto(w, "check")
  /\ UNCHANGED <<clock, lease, others, timer, told>>

WakeTimer(w) ==
  /\ pc[w] = "wait"
  /\ clock >= timer[w]
  /\ Goto(w, "check")
  /\ UNCHANGED <<clock, lease, others, seen, timer, told>>

\* The wait is cancelled: its future is dropped.
Cancel(w) ==
  /\ pc[w] = "wait"
  /\ Goto(w, "out")
  /\ UNCHANGED <<clock, lease, others, seen, timer, told>>
-------------------------------------------------------------------------------
(* The other users of the lease *)

\* lease_state(), by anybody.
Observe ==
  /\ Overdue
  /\ Refresh
  /\ UNCHANGED <<clock, others, pc, seen, timer, told>>

\* Mistake: renew looks at the deadline of the renewal only.
RenewAnyState(start) ==
  /\ renewals < MaxRenewals
  /\ expiry <= start + Ttl
  /\ clock < start + Ttl
  /\ renewals' = renewals + 1
  /\ state' = "Active"
  /\ expiry' = start + Ttl
  /\ version' = version + 1
  /\ UNCHANGED <<clock, releasing, pc, seen, timer, told>>

\* A renewal sent at `start` is confirmed.  Renewals follow each other, so none
\* is older than the one before.
Renew(start) ==
  /\ renewals < MaxRenewals
  /\ expiry <= start + Ttl
  /\ renewals' = renewals + 1
  /\ \/ state # "Active" /\ UNCHANGED lease
     \/ /\ state = "Active"
        /\ Overdue \/ clock >= start + Ttl
        /\ state' = "Lost"
        /\ version' = version + 1
        /\ UNCHANGED expiry
     \/ /\ state = "Active" /\ ~Overdue /\ clock < start + Ttl
        /\ expiry' = start + Ttl
        /\ version' = version + 1
        /\ UNCHANGED state
  /\ UNCHANGED <<clock, releasing, pc, seen, timer, told>>

\* The renewal was denied, or release() has begun.
Lose ==
  /\ state = "Active"
  /\ state' = "Lost"
  /\ version' = version + 1
  /\ UNCHANGED <<clock, expiry, others, pc, seen, timer, told>>

\* Lease::release unlocks the data before it sends.
SetReleased ==
  /\ releasing = "no"
  /\ releasing' = "set"
  /\ state' = "Released"
  /\ UNCHANGED <<clock, expiry, version, renewals, pc, seen, timer, told>>

NotifyReleased ==
  /\ releasing = "set"
  /\ releasing' = "done"
  /\ version' = version + 1
  /\ UNCHANGED <<clock, state, expiry, renewals, pc, seen, timer, told>>

Tick ==
  /\ clock < MaxClock
  /\ clock' = clock + 1
  /\ UNCHANGED <<lease, others, pc, seen, timer, told>>
-------------------------------------------------------------------------------
WaiterStep(w) == CheckState(w) \/ Arm(w) \/ WakeChanged(w)

Next ==
  \/ \E w \in Waiters : Subscribe(w) \/ WaiterStep(w) \/ WakeTimer(w) \/ Cancel(w)
  \/ Observe
  \/ \E start \in 0..clock : Renew(start)
  \/ Lose \/ SetReleased \/ NotifyReleased
  \/ Tick

Spec == Init /\ [][Next]_vars

\* A task that can go on is polled, and a call of Lease::release completes.
\* Timers need not fire.
FairSpec ==
  /\ Spec
  /\ \A w \in Waiters : WF_vars(WaiterStep(w))
  /\ WF_vars(NotifyReleased)

\* Time passes, and timers fire.
Timers == WF_vars(Tick) /\ \A w \in Waiters : WF_vars(WakeTimer(w))
-------------------------------------------------------------------------------
(* Correctness *)

\* Who has been told that the lease is over can rely on it: no renewal makes it
\* Active again (lease.rs:75), and what is told is no later state than the
\* present one.
ToldIsFinal ==
  \A w \in Waiters :
    /\ told[w] # "nothing" => state # "Active"
    /\ told[w] = "Released" => state = "Released"

\* A wait ends when the lease is lost or released, without any timer: no send
\* falls between the look at the state and the wait (lease.rs:104).
WokenByChange ==
  \A w \in Waiters : (pc[w] # "out" /\ state # "Active") ~> pc[w] = "out"

\* If timers fire, a wait ends by the lease's own deadline though nobody touches the
\* lease, "even when renewal is disabled" (async_lock/lock.rs:57), and though the
\* lease is longer than the longest sleep or renewed meanwhile.
WaitEnds == Timers => \A w \in Waiters : pc[w] # "out" ~> pc[w] = "out"
===============================================================================
