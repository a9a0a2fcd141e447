---------------------------- MODULE LeaseWatchProofs ----------------------------
(***************************************************************************)
(* What a wait for the end of a lease can rely on, for any number of       *)
(* waiters, renewals and observers: its answer is final, and wherever it   *)
(* sleeps, either the end of the lease has been sent to it and is waiting  *)
(* to be seen, or its timer ends with the lease at the latest.  That these *)
(* suffice for it to end, given fairness, is left to TLC.                  *)
(***************************************************************************)
EXTENDS LeaseWatch, TLAPS

WatchTypeOK ==
  /\ clock \in Nat
  /\ state \in {"Active", "Lost", "Released"}
  /\ expiry \in Nat
  /\ version \in Nat
  /\ renewals \in Nat
  /\ releasing \in {"no", "set", "done"}
  /\ pc \in [Waiters -> {"out", "check", "arm", "wait"}]
  /\ seen \in [Waiters -> Nat]
  /\ timer \in [Waiters -> Nat]
  /\ told \in [Waiters -> {"nothing", "Lost", "Released"}]

\* Only SetReleased releases the lease, once.
Releases == state = "Released" <=> releasing # "no"

\* A receiver has seen nothing that was not sent.
SeenWasSent == \A w \in Waiters : seen[w] <= version

\* A wait that has found the lease Active has not seen its end: the send that told
\* of it came after it subscribed, or is about to come (lease.rs:104).
EndUnseen ==
  \A w \in Waiters :
    pc[w] \in {"arm", "wait"} /\ state # "Active" /\ releasing # "set" => seen[w] < version

\* A wait sleeps no longer than the lease it saw could last: a renewal only
\* prolongs a lease, whose deadline it then looks at anew (lease.rs:112).
TimersInTime ==
  \A w \in Waiters : pc[w] = "wait" /\ state = "Active" => timer[w] <= expiry

IInv == WatchTypeOK /\ Releases /\ SeenWasSent /\ EndUnseen /\ TimersInTime /\ ToldIsFinal

\* Refresh ends an Active lease whose deadline has come, and sends; it does
\* nothing else (lease.rs, Lease::refresh).
LEMMA Refreshes ==
  ASSUME IInv, Refresh
  PROVE  /\ expiry' = expiry /\ state' \in {"Active", "Lost", "Released"} /\ version' \in Nat
         /\ \/ state' = state /\ version' = version
            \/ state = "Active" /\ state' = "Lost" /\ version' = version + 1
         /\ state' = "Active" => clock < expiry
  BY DEF IInv, WatchTypeOK, Refresh, Overdue

\* Refresh keeps the invariant of a waiter that it leaves alone.
LEMMA RefreshKeeps ==
  ASSUME IInv, Refresh, UNCHANGED <<clock, others>>,
         NEW w \in Waiters, UNCHANGED <<pc[w], seen[w], timer[w], told[w]>>
  PROVE  /\ seen'[w] <= version'
         /\ pc'[w] \in {"arm", "wait"} /\ state' # "Active" /\ releasing' # "set"
              => seen'[w] < version'
         /\ pc'[w] = "wait" /\ state' = "Active" => timer'[w] <= expiry'
         /\ told'[w] # "nothing" => state' # "Active"
         /\ told'[w] = "Released" => state' = "Released"
  <1>1. seen[w] \in Nat /\ version \in Nat
    BY DEF IInv, WatchTypeOK
  <1> QED
    BY <1>1, Refreshes DEF IInv, SeenWasSent, EndUnseen, TimersInTime, ToldIsFinal, others

\* A step that touches the lease not at all keeps the invariant of a waiter that
\* it leaves alone.
LEMMA QuietKeeps ==
  ASSUME IInv, UNCHANGED <<lease, others>>,
         NEW w \in Waiters, UNCHANGED <<pc[w], seen[w], timer[w], told[w]>>
  PROVE  /\ seen'[w] <= version'
         /\ pc'[w] \in {"arm", "wait"} /\ state' # "Active" /\ releasing' # "set"
              => seen'[w] < version'
         /\ pc'[w] = "wait" /\ state' = "Active" => timer'[w] <= expiry'
         /\ told'[w] # "nothing" => state' # "Active"
         /\ told'[w] = "Released" => state' = "Released"
  BY DEF IInv, SeenWasSent, EndUnseen, TimersInTime, ToldIsFinal, lease, others

\* The rounds of a wait keep the invariant.
LEMMA WaiterKeeps ==
  ASSUME IInv, NEW w \in Waiters,
         Subscribe(w) \/ WaiterStep(w) \/ WakeTimer(w) \/ Cancel(w)
  PROVE  IInv'
  <1> USE DEF Goto
  <1>0. /\ WatchTypeOK /\ Releases
        /\ clock \in Nat /\ version \in Nat /\ expiry \in Nat
        /\ seen[w] \in Nat /\ timer[w] \in Nat
    BY DEF IInv, WatchTypeOK
  <1>1. CASE CheckState(w)
    <2>1. /\ Refresh /\ UNCHANGED <<clock, others, seen, timer>>
          /\ pc' \in [Waiters -> {"out", "check", "arm", "wait"}]
          /\ told' \in [Waiters -> {"nothing", "Lost", "Released"}]
          /\ \A v \in Waiters \ {w} : pc'[v] = pc[v] /\ told'[v] = told[v]
          /\ \/ state' = "Active" /\ pc'[w] = "arm" /\ told'[w] = told[w]
             \/ state' # "Active" /\ pc'[w] = "out" /\ told'[w] = state'
      BY <1>0, <1>1, Refreshes DEF CheckState, WatchTypeOK
    <2>2. WatchTypeOK' /\ Releases'
      BY <1>0, <2>1, Refreshes DEF WatchTypeOK, Releases, others
    <2>3. \A v \in Waiters \ {w} : UNCHANGED <<pc[v], seen[v], timer[v], told[v]>>
      BY <2>1
    <2>4. /\ seen'[w] <= version'
          /\ ~(pc'[w] \in {"arm", "wait"} /\ state' # "Active")
          /\ pc'[w] # "wait"
          /\ told'[w] # "nothing" => state' # "Active"
          /\ told'[w] = "Released" => state' = "Released"
      BY <1>0, <2>1, Refreshes DEF IInv, SeenWasSent, ToldIsFinal
    <2> QED
      BY <2>1, <2>2, <2>3, <2>4, RefreshKeeps
         DEF IInv, SeenWasSent, EndUnseen, TimersInTime, ToldIsFinal
  <1>2. CASE Arm(w)
    <2> DEFINE left == Remaining
    <2>1. /\ left \in Nat
          /\ state = "Active" /\ clock < expiry => left = expiry - clock
      BY <1>0 DEF Remaining
    <2> HIDE DEF left
    <2>2. /\ clock + Least(left, Cap) \in Nat
          /\ clock + Least(left, Cap) <= clock + left
      BY <1>0, <2>1, WatchAssumption DEF Least
    <2>3. /\ Refresh /\ UNCHANGED <<clock, others, seen, told>>
          /\ pc[w] = "arm" /\ pc'[w] = "wait" /\ timer'[w] = clock + Least(left, Cap)
          /\ pc' \in [Waiters -> {"out", "check", "arm", "wait"}]
          /\ timer' \in [Waiters -> Nat]
          /\ \A v \in Waiters \ {w} : pc'[v] = pc[v] /\ timer'[v] = timer[v]
      BY <1>0, <1>2, <2>2 DEF Arm, WatchTypeOK, left
    <2>4. WatchTypeOK' /\ Releases'
      BY <1>0, <2>3, Refreshes DEF WatchTypeOK, Releases, others
    <2>5. \A v \in Waiters \ {w} : UNCHANGED <<pc[v], seen[v], timer[v], told[v]>>
      BY <2>3
    <2>6. state' = "Active" => timer'[w] <= expiry'
      <3> SUFFICES ASSUME state' = "Active" PROVE timer'[w] <= expiry'
        OBVIOUS
      <3>1. state = "Active" /\ clock < expiry /\ expiry' = expiry
        BY <2>3, Refreshes
      <3> QED
        BY <1>0, <2>1, <2>2, <2>3, <3>1
    <2>7. /\ seen'[w] <= version'
          /\ state' # "Active" /\ releasing' # "set" => seen'[w] < version'
          /\ told'[w] # "nothing" => state' # "Active"
          /\ told'[w] = "Released" => state' = "Released"
      BY <1>0, <2>3, Refreshes DEF IInv, SeenWasSent, EndUnseen, ToldIsFinal, others
    <2> QED
      BY <2>3, <2>4, <2>5, <2>6, <2>7, RefreshKeeps
         DEF IInv, SeenWasSent, EndUnseen, TimersInTime, ToldIsFinal
  <1>3. CASE Subscribe(w) \/ WakeChanged(w) \/ WakeTimer(w) \/ Cancel(w)
    <2>1. /\ UNCHANGED <<clock, lease, others, timer, told>>
          /\ pc'[w] \in {"out", "check"} /\ seen'[w] \in {seen[w], version}
          /\ pc' \in [Waiters -> {"out", "check", "arm", "wait"}]
          /\ seen' \in [Waiters -> Nat]
          /\ \A v \in Waiters \ {w} : pc'[v] = pc[v] /\ seen'[v] = seen[v]
      BY <1>0, <1>3 DEF Subscribe, WakeChanged, WakeTimer, Cancel, WatchTypeOK
    <2>2. WatchTypeOK' /\ Releases'
      BY <1>0, <2>1 DEF WatchTypeOK, Releases, lease, others
    <2>3. \A v \in Waiters \ {w} : UNCHANGED <<pc[v], seen[v], timer[v], told[v]>>
      BY <2>1
    <2>4. /\ seen'[w] <= version' /\ pc'[w] \notin {"arm", "wait"}
          /\ told'[w] # "nothing" => state' # "Active"
          /\ told'[w] = "Released" => state' = "Released"
      BY <1>0, <2>1 DEF IInv, SeenWasSent, ToldIsFinal, lease
    <2> QED
      BY <2>1, <2>2, <2>3, <2>4, QuietKeeps
         DEF IInv, SeenWasSent, EndUnseen, TimersInTime, ToldIsFinal
  <1> QED
    BY <1>1, <1>2, <1>3 DEF WaiterStep

\* Every end of the lease that is sent is new to whoever waits; a renewal moves its
\* deadline forward only.
LEMMA LeaseKeeps ==
  ASSUME IInv,
         \/ Observe \/ (\E start \in 0..clock : Renew(start))
         \/ Lose \/ SetReleased \/ NotifyReleased \/ Tick
  PROVE  IInv'
  <1>0. /\ WatchTypeOK /\ Releases
        /\ clock \in Nat /\ version \in Nat /\ expiry \in Nat /\ Ttl \in Nat
        /\ \A w \in Waiters : seen[w] \in Nat /\ timer[w] \in Nat
    BY WatchAssumption DEF IInv, WatchTypeOK
  <1>1. CASE Observe
    <2>1. Refresh /\ UNCHANGED <<clock, others, pc, seen, timer, told>>
      BY <1>1 DEF Observe
    <2>2. WatchTypeOK' /\ Releases'
      BY <1>0, <2>1, Refreshes DEF WatchTypeOK, Releases, others
    <2> QED
      BY <2>1, <2>2, RefreshKeeps
         DEF IInv, SeenWasSent, EndUnseen, TimersInTime, ToldIsFinal
  <1>2. ASSUME NEW start \in 0..clock, Renew(start) PROVE IInv'
    <2>1. /\ UNCHANGED <<clock, releasing, pc, seen, timer, told>>
          /\ renewals' = renewals + 1
          /\ \/ UNCHANGED lease
             \/ state = "Active" /\ state' = "Lost" /\ version' = version + 1 /\ expiry' = expiry
             \/ state = "Active" /\ state' = state /\ version' = version + 1
                /\ expiry' = start + Ttl /\ expiry <= start + Ttl
      BY <1>2 DEF Renew
    <2>2. WatchTypeOK' /\ Releases'
      BY <1>0, <2>1 DEF WatchTypeOK, Releases, lease
    <2>3. SeenWasSent' /\ EndUnseen' /\ ToldIsFinal'
      BY <1>0, <2>1 DEF IInv, SeenWasSent, EndUnseen, ToldIsFinal, lease
    <2>4. TimersInTime'
      BY <1>0, <2>1 DEF IInv, TimersInTime, lease
    <2> QED
      BY <2>2, <2>3, <2>4 DEF IInv
  <1>3. CASE Lose \/ SetReleased \/ NotifyReleased
    <2>1. /\ UNCHANGED <<clock, expiry, renewals, pc, seen, timer, told>>
          /\ state' # "Active"
      BY <1>0, <1>3 DEF Lose, SetReleased, NotifyReleased, others, Releases
    <2>2. WatchTypeOK' /\ Releases'
      BY <1>0, <1>3, <2>1 DEF Lose, SetReleased, NotifyReleased, others, WatchTypeOK, Releases
    <2>3. SeenWasSent' /\ EndUnseen' /\ ToldIsFinal'
      BY <1>0, <1>3, <2>1 DEF Lose, SetReleased, NotifyReleased, others,
                              IInv, SeenWasSent, EndUnseen, ToldIsFinal
    <2> QED
      BY <2>1, <2>2, <2>3 DEF IInv, TimersInTime
  <1>4. CASE Tick
    <2>1. clock' = clock + 1 /\ UNCHANGED <<lease, others, pc, seen, timer, told>>
      BY <1>4 DEF Tick
    <2>2. WatchTypeOK' /\ Releases'
      BY <1>0, <2>1 DEF WatchTypeOK, Releases, lease, others
    <2> QED
      BY <2>1, <2>2, QuietKeeps DEF IInv, SeenWasSent, EndUnseen, TimersInTime, ToldIsFinal
  <1> QED
    BY <1>1, <1>2, <1>3, <1>4

\* The invariant holds from the creation of the lease on.
THEOREM Inductive == Spec => []IInv
  <1>1. Init => IInv
    BY WatchAssumption
       DEF Init, IInv, WatchTypeOK, Releases, SeenWasSent, EndUnseen, TimersInTime, ToldIsFinal
  <1>2. IInv /\ UNCHANGED vars => IInv'
    BY DEF vars, lease, others, IInv, WatchTypeOK, Releases, SeenWasSent, EndUnseen,
           TimersInTime, ToldIsFinal
  <1>3. IInv /\ [Next]_vars => IInv'
    BY <1>2, WaiterKeeps, LeaseKeeps DEF Next
  <1> QED
    BY <1>1, <1>3, PTL DEF Spec

\* Who has been told that the lease is over can rely on it: no renewal, whenever it
\* is confirmed, makes the lease Active again (lease.rs:75).
THEOREM ToldIsFinalSafe == Spec => []ToldIsFinal
  <1>1. IInv => ToldIsFinal
    BY DEF IInv
  <1> QED
    BY <1>1, Inductive, PTL

\* While a wait sleeps, its timer ends with an Active lease at the latest, or the
\* end of the lease is being sent, or a send is waiting to be seen.
NeverForgotten ==
  \A w \in Waiters : pc[w] = "wait" =>
    \/ state = "Active" /\ timer[w] <= expiry
    \/ releasing = "set"
    \/ seen[w] # version

\* A wait that sleeps is never forgotten: no end of the lease falls between its look
\* at the state and its sleep (wait_until_inactive, lease.rs:104, lease.rs:112).
THEOREM WaitsAreWoken == Spec => []NeverForgotten
  <1>1. IInv => NeverForgotten
    BY DEF IInv, WatchTypeOK, EndUnseen, TimersInTime, NeverForgotten
  <1> QED
    BY <1>1, Inductive, PTL
===============================================================================
