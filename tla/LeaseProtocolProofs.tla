-------------------------- MODULE LeaseProtocolProofs --------------------------
(***************************************************************************)
(* What LeaseProtocol guarantees for any owners, keys, TTLs and clock      *)
(* resolution: what a script means to a lease, the inductive invariant, the *)
(* theorems that follow from it, and those that need a little more.        *)
(***************************************************************************)
EXTENDS LeaseRefinement, RedisStoreProofs

(* Leases and records *)

TimeOK == now \in Nat /\ clock \in Nat /\ now <= clock /\ clock < now + Ms

\* Owner p is recorded in key v for all of a lease that began at s.
Recorded(p, v, s) ==
  IF IsMutex(p) THEN v.str = p /\ v.pexpire + Ms > s + Ttl[p]
  ELSE \E e \in v.zset : e.owner = p /\ Until(p, e) + Ms > s + Ttl[p]

\* A lease begun at s has not reached its margin.
Current(p, s) == s \in Nat /\ s <= clock /\ clock + Grace(p) < s + Ttl[p]
-------------------------------------------------------------------------------
\* While a lease is current, its holder's entry has not expired.
LEMMA CurrentEntryLives ==
  ASSUME TimeOK, NEW p \in Owners, ~IsMutex(p), NEW s, Current(p, s),
         NEW e \in Holder, Until(p, e) + Ms > s + Ttl[p]
  PROVE  /\ Until(p, e) > now
         /\ LiveScore(p, e.score)
         /\ e.score < -now \/ e.score > now
  <1>1. Ttl[p] \in Nat /\ Ms \in Nat \ {0} /\ e.score \in Int /\ now \in Nat /\ clock \in Nat
    BY StoreAssumption DEF Holder, TimeOK
  <1>2. clock + (Ms - 1) < s + Ttl[p] /\ s \in Nat /\ now <= clock
    BY DEF Current, Grace, TimeOK
  <1>3. CASE Role[p] = "write"
    BY <1>1, <1>2, <1>3 DEF Until, LiveScore
  <1>4. CASE Role[p] # "write"
    BY <1>1, <1>2, <1>4 DEF Until, LiveScore
  <1> QED
    BY <1>3, <1>4

\* No script takes a current lease from its owner, except the owner's release.
LEMMA UseMoveKeeps ==
  ASSUME TimeOK, NEW o \in Owners, NEW p \in Owners, NEW s, Current(p, s),
         NEW v, NEW w, KeyOK(v), UseMove(v, w, o), Recorded(p, v, s)
  PROVE  Recorded(p, w, s)
  <1>0. /\ Ttl[o] \in Nat /\ Ttl[p] \in Nat /\ Ms \in Nat \ {0}
        /\ now \in Nat /\ clock \in Nat /\ s \in Nat /\ s <= clock /\ clock < now + Ms
        /\ p # NoOwner
    BY StoreAssumption DEF TimeOK, Current
  <1>1. CASE IsMutex(o) /\ (v = NoKey \/ v.str = o) /\ w = MutexKey(o)
    <2>1. v.str # NoOwner \/ v.zset # {}
      BY <1>0 DEF Recorded
    <2>2. v # NoKey /\ v.zset = {} /\ v.str = o
      BY <1>0, <1>1, <2>1, StoreAssumption DEF NoKey, KeyOK
    <2>3. p = o
      BY <1>1, <2>2 DEF Recorded
    <2> QED
      BY <1>0, <1>1, <2>3 DEF Recorded, MutexKey, Expiry
  <1>2. CASE v.str = NoOwner
    <2>1. ~IsMutex(p)
      BY <1>0, <1>2 DEF Recorded
    <2>2. PICK e \in v.zset : e.owner = p /\ Until(p, e) + Ms > s + Ttl[p]
      BY <2>1 DEF Recorded
    <2>3. e \in Holder /\ e \in Purge(v).zset
      BY <1>2, <2>1, <2>2, CurrentEntryLives, PurgeFields DEF KeyOK, KeyValue
    <2>4. CASE w = Purge(v)
      BY <2>1, <2>2, <2>3, <2>4 DEF Recorded
    <2>5. CASE w = AddHolder(Purge(v), o) /\ p # o
      <3>1. e \in w.zset
        BY <2>2, <2>3, <2>5, AddHolderFields DEF Others
      <3> QED
        BY <2>1, <2>2, <3>1 DEF Recorded
    <2>6. CASE w = AddHolder(Purge(v), o) /\ p = o
      <3> DEFINE new == [owner |-> o, score |-> Score(o)]
      <3>1. new \in w.zset /\ new.owner = p /\ new.score = Score(o)
        BY <2>6, AddHolderFields
      <3>2. Until(p, new) = now + Ttl[p]
        BY <1>0, <2>6, <3>1 DEF Until, Score, Expiry
      <3>3. Until(p, new) + Ms > s + Ttl[p]
        BY <1>0, <3>2
      <3> HIDE DEF new
      <3> QED
        BY <2>1, <3>1, <3>3 DEF Recorded
    <2> QED
      BY <1>1, <1>2, <2>2, <2>4, <2>5, <2>6 DEF UseMove
  <1> QED
    BY <1>1, <1>2 DEF UseMove

\* A release of another owner leaves the record of p where it is.
LEMMA ReleaseMoveKeeps ==
  ASSUME NEW o \in Owners, NEW p \in Owners, NEW s, p # o,
         NEW v, NEW w, KeyOK(v), ReleaseMove(v, w, o), Recorded(p, v, s)
  PROVE  Recorded(p, w, s)
  <1>0. p # NoOwner
    BY StoreAssumption
  <1>1. CASE v.str = o /\ w = NoKey
    BY <1>0, <1>1, StoreAssumption DEF Recorded, KeyOK
  <1>2. CASE v.str = NoOwner /\ w = IF Others(v, o) = {} THEN NoKey
                                   ELSE [v EXCEPT !.zset = Others(v, o)]
    <2>1. ~IsMutex(p)
      BY <1>0, <1>2 DEF Recorded
    <2>2. PICK e \in v.zset : e.owner = p /\ Until(p, e) + Ms > s + Ttl[p]
      BY <2>1 DEF Recorded
    <2>3. e \in Others(v, o)
      BY <2>2 DEF Others
    <2>4. e \in w.zset
      BY <1>2, <2>3 DEF KeyOK, KeyValue
    <2> QED
      BY <2>1, <2>2, <2>4 DEF Recorded
  <1> QED
    BY <1>1, <1>2 DEF ReleaseMove

\* A script that succeeds records its owner for any lease begun by now.
LEMMA GrantMoveRecords ==
  ASSUME TimeOK, NEW o \in Owners, NEW s \in Nat, s <= clock,
         NEW v, NEW w, GrantMove(v, w, o)
  PROVE  Recorded(o, w, s)
  <1>0. /\ Ttl[o] \in Nat /\ Ms \in Nat \ {0} /\ now \in Nat /\ clock \in Nat
        /\ clock < now + Ms
    BY StoreAssumption DEF TimeOK
  <1>1. CASE IsMutex(o)
    BY <1>0, <1>1 DEF GrantMove, Recorded, MutexKey, Expiry
  <1>2. CASE ~IsMutex(o)
    <2> DEFINE new == [owner |-> o, score |-> Score(o)]
    <2>1. new \in w.zset /\ new.owner = o /\ new.score = Score(o)
      BY <1>2, AddHolderFields DEF GrantMove
    <2>2. Until(o, new) = now + Ttl[o]
      BY <1>0, <2>1 DEF Until, Score, Expiry
    <2>3. Until(o, new) + Ms > s + Ttl[o]
      BY <1>0, <2>2
    <2> HIDE DEF new
    <2> QED
      BY <1>2, <2>1, <2>3 DEF Recorded
  <1> QED
    BY <1>1, <1>2

\* Nor does the passing of time, until the lease's margin is reached.
LEMMA TickKeeps ==
  ASSUME NEW p \in Owners, NEW s \in Nat, NEW t \in Nat,
         NEW v, KeyOK(v), Recorded(p, v, s), t < s + Ttl[p]
  PROVE  ~Expired(v, t)
  <1>0. Ttl[p] \in Nat /\ Ms \in Nat \ {0} /\ v.pexpire \in Int
    BY StoreAssumption DEF KeyOK, KeyValue
  <1>1. CASE IsMutex(p)
    BY <1>0, <1>1 DEF Recorded, Expired
  <1>2. CASE ~IsMutex(p)
    <2>1. PICK e \in v.zset : Until(p, e) + Ms > s + Ttl[p]
      BY <1>2 DEF Recorded
    <2>2. e.score \in Int /\ Until(p, e) <= v.pexpire
      BY <2>1 DEF Until, KeyOK, KeyValue, Holder
    <2>3. Until(p, e) \in Int
      BY <2>2 DEF Until
    <2> QED
      BY <1>0, <2>1, <2>2, <2>3 DEF Expired
  <1> QED
    BY <1>1, <1>2
-------------------------------------------------------------------------------
(* The inductive invariant *)

\* An instant from which owner o counts, or may yet count, its lease.
Claim(o, s) ==
  \/ lease[o].state = "Active" /\ s = lease[o].start
  \/ sup[o] = "ok" /\ s = attempt[o]
  \/ ren[o] = "ok" /\ lease[o].state = "Active" /\ s = renTime[o]

\* Every claim is recorded in Redis until its margin.
Backed ==
  \A o \in Owners : \A s \in Nat :
    Claim(o, s) /\ Current(o, s) => \A k \in KeysOf(o) : Recorded(o, db[k], s)

LeaseInTime ==
  \A o \in Owners : lease[o].state = "Active" => clock < lease[o].start + Ttl[o]

Instants ==
  \A o \in Owners : /\ attempt[o] <= clock
                    /\ lease[o].start <= clock
                    /\ ren[o] \in {"sent"} \cup Replies => renTime[o] <= clock

\* Lease, renewal task and guard begin when the acquisition ends.
Phases ==
  \A o \in Owners : sup[o] # "done" =>
    lease[o].state = "None" /\ ren[o] = "off" /\ guard[o] = "none"

\* Nobody sends a release before the acquisition or the lease is over.
Unreleased ==
  \A o \in Owners : sup[o] # "done" \/ lease[o].state = "Active" => Release(o) \notin net

KeysOK == \A k \in Keys : KeyOK(db[k])

IInv == /\ TypeOK
        /\ TimeOK
        /\ KeysOK
        /\ LeaseInTime
        /\ Instants
        /\ Phases
        /\ Unreleased
        /\ Backed
-------------------------------------------------------------------------------
(* It holds initially and every step keeps it. *)

\* The invariant holds before the first step.
LEMMA InitIInv == Init => IInv
  <1> SUFFICES ASSUME Init PROVE IInv
    OBVIOUS
  <1> USE StoreAssumption DEF Init, LeaseOver, Dead
  <1>1. KeysOK
    BY NoKeyOK DEF KeysOK
  <1>2. TypeOK
    BY <1>1 DEF TypeOK, KeysOK, KeyOK, SupStates, LeaseStates, RenStates, GuardStates
  <1>3. TimeOK
    BY DEF TimeOK
  <1>4. LeaseInTime /\ Phases /\ Unreleased
    BY DEF LeaseInTime, Phases, Unreleased
  <1>5. Instants
    BY DEF Instants, Replies
  <1>6. Backed
    BY DEF Backed, Claim
  <1> QED
    BY <1>1, <1>2, <1>3, <1>4, <1>5, <1>6 DEF IInv

\* Where neither time nor the keyspace moves, no new claim is enough.
LEMMA ClaimsKept ==
  ASSUME Backed, UNCHANGED <<clock, db>>,
         \A o \in Owners : \A s \in Nat : Claim(o, s)' => Claim(o, s)
  PROVE  Backed'
  BY DEF Backed, Current

\* The part of the invariant the scripts need.
LEMMA KeysStore == TypeOK /\ KeysOK => StoreOK
  BY DEF TypeOK, KeysOK, StoreOK

\* The keyspace after a script of owner o.
LEMMA ScriptStore ==
  ASSUME StoreOK, NEW o \in Owners, now' = now,
         db' = [k \in Keys |-> db'[k]],
         \A k \in Keys : UseMove(db[k], db'[k], o) \/ ReleaseMove(db[k], db'[k], o)
  PROVE  /\ KeysOK'
         /\ db' \in [Keys -> KeyValue]
         /\ \A k \in Keys : db'[k].str = NoOwner /\ db'[k].zset = {} => db'[k] = NoKey
  <1>1. \A k \in Keys : KeyOK(db'[k])
    BY UseMoveOK, ReleaseMoveOK DEF StoreOK
  <1>2. KeysOK'
    BY <1>1 DEF KeysOK
  <1>3. \A k \in Keys : db'[k] \in KeyValue
    BY <1>1 DEF KeyOK
  <1>4. db' \in [Keys -> KeyValue]
    BY <1>3
  <1> QED
    BY <1>1, <1>2, <1>4 DEF KeyOK

\* The instants and intervals of one owner are numbers.
LEMMA Numbers ==
  ASSUME TypeOK, NEW o \in Owners
  PROVE  /\ clock \in Nat /\ now \in Nat /\ Ttl[o] \in Nat
         /\ attempt[o] \in Nat /\ lease[o].start \in Nat /\ renTime[o] \in Nat
         /\ RenewInterval[o] \in Nat /\ RetryInterval[o] \in Nat
  BY StoreAssumption, LeaseAssumption DEF TypeOK

\* Time passes: keys and leases expire, no current claim loses its record.
LEMMA TickIInv == IInv /\ Tick => IInv'
  <1> SUFFICES ASSUME IInv, Tick PROVE IInv'
    OBVIOUS
  <1> USE StoreAssumption
  <1>1. TimeOK' /\ clock' = clock + 1 /\ now' >= now
    BY DEF IInv, TimeOK, Tick
  <1>2. \A k \in Keys : db'[k] = IF Expired(db[k], now') THEN NoKey ELSE db[k]
    BY DEF Tick, ExpireKeys
  <1>3. KeysOK'
    BY <1>2, NoKeyOK DEF KeysOK, IInv
  <1>4. \A o \in Owners :
           \/ lease'[o] = lease[o] /\ ~(lease[o].state = "Active" /\ clock' >= lease[o].start + Ttl[o])
           \/ lease'[o].state = "Lost" /\ lease'[o].start = 0 /\ lease[o].state = "Active"
    BY DEF Tick, Refresh, LeaseOver, Dead
  <1>5. TypeOK'
    <2>1. db' \in [Keys -> KeyValue]
      BY <1>3 DEF Tick, ExpireKeys, KeysOK, KeyOK
    <2>2. lease' \in [Owners -> [state : LeaseStates, start : Nat]]
      BY DEF Tick, Refresh, LeaseOver, Dead, IInv, TypeOK, LeaseStates
    <2> QED
      BY <1>1, <1>3, <2>1, <2>2 DEF IInv, TypeOK, Tick, TimeOK, KeysOK, KeyOK,
                                    acquisition, renewal
  <1>6. LeaseInTime'
    <2> SUFFICES ASSUME NEW o \in Owners, lease'[o].state = "Active"
                 PROVE  clock' < lease'[o].start + Ttl[o]
      BY DEF LeaseInTime
    <2>1. lease'[o] = lease[o] /\ ~(clock' >= lease[o].start + Ttl[o])
      BY <1>4, Zenon
    <2>2. lease'[o].start = lease[o].start /\ clock' \in Nat
      BY <1>1, <2>1 DEF TimeOK
    <2> QED
      BY <2>1, <2>2, Numbers DEF IInv
  <1>7. Instants'
    <2> SUFFICES ASSUME NEW o \in Owners
                 PROVE  /\ attempt'[o] <= clock'
                        /\ lease'[o].start <= clock'
                        /\ ren'[o] \in {"sent"} \cup Replies => renTime'[o] <= clock'
      BY DEF Instants
    <2>1. attempt' = attempt /\ ren' = ren /\ renTime' = renTime
      BY DEF Tick, acquisition, renewal
    <2>2. lease'[o].start = 0 \/ lease'[o].start = lease[o].start
      BY <1>4, Zenon
    <2> QED
      BY <1>1, <2>1, <2>2, Numbers DEF IInv, Instants
  <1>8. Phases' /\ Unreleased'
    BY <1>4 DEF IInv, Phases, Unreleased, Tick, acquisition, renewal, Release
  <1>9. Backed'
    <2> SUFFICES ASSUME NEW o \in Owners, NEW s \in Nat, Claim(o, s)', Current(o, s)',
                        NEW k \in KeysOf(o)
                 PROVE  Recorded(o, db'[k], s)
      BY DEF Backed
    <2>1. Claim(o, s)
      BY <1>4 DEF Claim, Tick, acquisition, renewal
    <2>2. s <= clock
      BY <2>1 DEF Claim, IInv, Instants, Replies
    <2>3. Current(o, s) /\ clock' < s + Ttl[o]
      BY <1>1, <2>2 DEF Current, Grace, IInv, TimeOK
    <2>4. k \in Keys /\ KeyOK(db[k]) /\ Recorded(o, db[k], s)
      BY <2>1, <2>3, KeysOfType DEF IInv, Backed, KeysOK
    <2>5. now' \in Nat /\ now' < s + Ttl[o]
      BY <1>1, <2>3 DEF TimeOK
    <2> QED
      BY <1>2, <2>4, <2>5, TickKeeps
  <1> QED
    BY <1>1, <1>3, <1>5, <1>6, <1>7, <1>8, <1>9 DEF IInv

\* The commands of an owner are well typed.
LEMMA CommandType ==
  ASSUME NEW o \in Owners, NEW start \in Nat
  PROVE  /\ Acquire(o, start) \in Command
         /\ Renew(o, start) \in Command
         /\ Release(o) \in Command
  BY DEF Acquire, Renew, Release, Command

\* Acquire and renew commands are no release.
LEMMA ReleaseDistinct ==
  /\ \A p, o : Release(p) = Release(o) => p = o
  /\ \A p, o, start : Release(p) # Acquire(o, start) /\ Release(p) # Renew(o, start)
  BY DEF Acquire, Renew, Release

\* A step that neither sends a release nor reopens a lease keeps Unreleased.
LEMMA UnreleasedKept ==
  ASSUME Unreleased,
         \A p \in Owners : sup'[p] # "done" \/ lease'[p].state = "Active" =>
           /\ sup[p] # "done" \/ lease[p].state = "Active"
           /\ Release(p) \in net' => Release(p) \in net
  PROVE  Unreleased'
  BY DEF Unreleased, Release

\* Whatever ends a guard ends its lease first, and may send a release.
LEMMA GuardEndsIInv ==
  ASSUME IInv, NEW o \in Owners, guard[o] # "none", NEW g \in GuardStates,
         guard' = [guard EXCEPT ![o] = g],
         Lose(o) \/ EndLease(o),
         net' \in {net, net \cup {Release(o)}},
         UNCHANGED <<clock, now, db, sup, attempt, ren, renTime>>
  PROVE  IInv'
  <1>0. TypeOK /\ TimeOK /\ KeysOK /\ LeaseInTime /\ Instants /\ Phases
        /\ Unreleased /\ Backed
    BY DEF IInv
  <1>1. sup[o] = "done"
    BY <1>0 DEF Phases
  <1>2. /\ lease' \in [Owners -> [state : LeaseStates, start : Nat]]
        /\ lease'[o].state # "Active"
        /\ lease'[o].start = 0 \/ lease'[o].start = lease[o].start
        /\ \A p \in Owners \ {o} : lease'[p] = lease[p]
    BY <1>0 DEF TypeOK, Lose, EndLease, LeaseOver, Dead, LeaseStates
  <1>3. TypeOK'
    BY <1>0, <1>2, CommandType DEF TypeOK
  <1>4. TimeOK' /\ KeysOK' /\ LeaseInTime'
    BY <1>0, <1>2 DEF TimeOK, KeysOK, LeaseInTime
  <1>5. Instants'
    BY <1>0, <1>2, Numbers DEF Instants
  <1>6. Phases'
    BY <1>0, <1>1, <1>2 DEF Phases, TypeOK
  <1>7. Unreleased'
    <2>1. \A p \in Owners \ {o} : Release(p) \in net' => Release(p) \in net
      BY ReleaseDistinct
    <2> QED
      BY <1>0, <1>1, <1>2, <2>1, UnreleasedKept
  <1>8. Backed'
    BY <1>0, <1>1, <1>2, ClaimsKept DEF Claim
  <1> QED
    BY <1>3, <1>4, <1>5, <1>6, <1>7, <1>8 DEF IInv

\* The acquisition loop keeps the invariant: OfferGuard dates the lease from the
\* attempt Redis confirmed, so the claim of the reply becomes the lease's.
LEMMA AcquireStepIInv == IInv /\ (\E o \in Owners : AcquireStep(o)) => IInv'
  <1> SUFFICES ASSUME IInv, NEW o \in Owners, AcquireStep(o) PROVE IInv'
    OBVIOUS
  <1> USE DEF store, acquisition, renewal
  <1>0. TypeOK /\ TimeOK /\ KeysOK /\ LeaseInTime /\ Instants /\ Phases
        /\ Unreleased /\ Backed
    BY DEF IInv
  <1>n. clock \in Nat /\ now \in Nat /\ attempt[o] \in Nat
    BY <1>0, Numbers
  <1>1. CASE StartAttempt(o)
    <2> USE <1>1 DEF StartAttempt
    <2>1. TypeOK'
      BY <1>0, CommandType DEF TypeOK, SupStates
    <2>2. TimeOK' /\ KeysOK' /\ LeaseInTime'
      BY <1>0 DEF TimeOK, KeysOK, LeaseInTime
    <2>3. Instants'
      BY <1>0, <1>n DEF Instants, TypeOK
    <2>4. Phases'
      BY <1>0 DEF Phases, TypeOK
    <2>5. Unreleased'
      <3>1. \A p \in Owners : Release(p) \in net' => Release(p) \in net
        BY ReleaseDistinct
      <3> QED
        BY <1>0, <3>1, UnreleasedKept DEF TypeOK
    <2>6. Backed'
      BY <1>0, ClaimsKept DEF Claim, TypeOK
    <2> QED
      BY <2>1, <2>2, <2>3, <2>4, <2>5, <2>6 DEF IInv
  <1>2. CASE GiveUp(o)
    <2> USE <1>2 DEF GiveUp, EndAcquisition, Dead
    <2>1. TypeOK'
      BY <1>0 DEF TypeOK, SupStates
    <2>2. TimeOK' /\ KeysOK' /\ LeaseInTime'
      BY <1>0 DEF TimeOK, KeysOK, LeaseInTime
    <2>3. Instants' /\ Phases'
      BY <1>0, <1>n DEF Instants, Phases, TypeOK
    <2>4. Unreleased'
      BY <1>0, UnreleasedKept DEF TypeOK
    <2>5. Backed'
      BY <1>0, ClaimsKept DEF Claim, TypeOK
    <2> QED
      BY <2>1, <2>2, <2>3, <2>4, <2>5 DEF IInv
  <1>3. CASE AcquireFailed(o) \/ RejectAcquired(o)
    <2> USE <1>3 DEF AcquireFailed, RejectAcquired, EndAcquisition, Dead
    <2>0. sup[o] # "done" /\ sup' = [sup EXCEPT ![o] = "done"]
          /\ attempt' = [attempt EXCEPT ![o] = 0]
          /\ net' \in {net, net \cup {Release(o)}}
          /\ UNCHANGED <<clock, now, db, lease, ren, renTime, guard>>
      OBVIOUS
    <2>1. TypeOK'
      BY <1>0, <2>0, CommandType DEF TypeOK, SupStates
    <2>2. TimeOK' /\ KeysOK' /\ LeaseInTime'
      BY <1>0, <2>0 DEF TimeOK, KeysOK, LeaseInTime
    <2>3. Instants' /\ Phases'
      BY <1>0, <1>n, <2>0 DEF Instants, Phases, TypeOK
    <2>4. Unreleased'
      <3>1. sup'[o] = "done" /\ lease'[o].state = "None"
        BY <1>0, <2>0 DEF Phases, TypeOK
      <3>2. \A p \in Owners \ {o} : Release(p) \in net' => Release(p) \in net
        BY <2>0, ReleaseDistinct
      <3> QED
        BY <1>0, <2>0, <3>1, <3>2, UnreleasedKept DEF TypeOK
    <2>5. Backed'
      BY <1>0, <2>0, ClaimsKept DEF Claim, TypeOK
    <2> QED
      BY <2>1, <2>2, <2>3, <2>4, <2>5 DEF IInv
  <1>4. CASE OfferGuard(o)
    <2>0. /\ sup[o] = "ok" /\ lease[o].state = "None" /\ ren[o] = "off"
          /\ clock < attempt[o] + Ttl[o]
          /\ sup' = [sup EXCEPT ![o] = "done"]
          /\ attempt' = [attempt EXCEPT ![o] = 0]
          /\ guard' = [guard EXCEPT ![o] = "offered"]
          /\ lease' = [lease EXCEPT ![o] = [state |-> "Active", start |-> attempt[o]]]
          /\ ren' \in {ren, [ren EXCEPT ![o] = "sleep"]}
          /\ renTime' \in {renTime, [renTime EXCEPT ![o] = attempt[o] + RenewInterval[o]]}
          /\ UNCHANGED <<clock, now, db, net>>
      BY <1>0, <1>4 DEF Phases, OfferGuard, EndAcquisition, Dead
    <2>1. TypeOK'
      <3>1. attempt[o] + RenewInterval[o] \in Nat
        <4>1. RenewInterval[o] \in Nat
          BY <1>0, Numbers
        <4> QED
          BY <1>n, <4>1
      <3>2. renTime' \in [Owners -> Nat] /\ attempt' \in [Owners -> Nat]
        BY <1>0, <2>0, <3>1 DEF TypeOK
      <3>3. lease' \in [Owners -> [state : LeaseStates, start : Nat]]
        BY <1>0, <1>n, <2>0 DEF TypeOK, LeaseStates
      <3>4. ren' \in [Owners -> RenStates] /\ sup' \in [Owners -> SupStates]
            /\ guard' \in [Owners -> GuardStates]
        BY <1>0, <2>0 DEF TypeOK, RenStates, SupStates, GuardStates
      <3> QED
        BY <1>0, <2>0, <3>2, <3>3, <3>4 DEF TypeOK
    <2>2. TimeOK' /\ KeysOK' /\ LeaseInTime'
      BY <1>0, <2>0 DEF TimeOK, KeysOK, LeaseInTime, TypeOK
    <2>3. Instants'
      <3>1. ren'[o] \notin {"sent"} \cup Replies
        BY <1>0, <2>0 DEF TypeOK, Replies
      <3>2. \A p \in Owners \ {o} : ren'[p] = ren[p] /\ renTime'[p] = renTime[p]
        BY <1>0, <2>0 DEF TypeOK
      <3> QED
        BY <1>0, <1>n, <2>0, <3>1, <3>2 DEF Instants, TypeOK
    <2>4. Phases'
      BY <1>0, <2>0 DEF Phases, TypeOK
    <2>5. Unreleased'
      BY <1>0, <2>0, UnreleasedKept DEF TypeOK
    <2>6. Backed'
      <3>1. \A p \in Owners : \A s \in Nat : Claim(p, s)' => Claim(p, s)
        <4>1. ren'[o] # "ok" /\ sup'[o] = "done" /\ lease'[o].start = attempt[o]
          BY <1>0, <2>0 DEF TypeOK
        <4>2. \A p \in Owners \ {o} : /\ ren'[p] = ren[p] /\ renTime'[p] = renTime[p]
                                     /\ sup'[p] = sup[p] /\ lease'[p] = lease[p]
                                     /\ attempt'[p] = attempt[p]
          BY <1>0, <2>0 DEF TypeOK
        <4> QED
          BY <2>0, <4>1, <4>2 DEF Claim
      <3> QED
        BY <1>0, <2>0, <3>1, ClaimsKept
    <2> QED
      BY <2>1, <2>2, <2>3, <2>4, <2>5, <2>6 DEF IInv
  <1>5. CASE ClaimGuard(o)
    <2> USE <1>5 DEF ClaimGuard
    <2>1. TypeOK' /\ TimeOK' /\ KeysOK' /\ LeaseInTime' /\ Instants' /\ Phases'
      BY <1>0 DEF TypeOK, GuardStates, TimeOK, KeysOK, LeaseInTime, Instants, Phases
    <2>2. Unreleased'
      BY <1>0, UnreleasedKept
    <2>3. Backed'
      BY <1>0, ClaimsKept DEF Claim
    <2> QED
      BY <2>1, <2>2, <2>3 DEF IInv
  <1>6. CASE DiscardGuard(o)
    <2>1. /\ guard[o] # "none" /\ "dropped" \in GuardStates
          /\ guard' = [guard EXCEPT ![o] = "dropped"]
          /\ Lose(o) \/ EndLease(o)
          /\ net' \in {net, net \cup {Release(o)}}
          /\ UNCHANGED <<clock, now, db, sup, attempt, ren, renTime>>
      BY <1>6 DEF DiscardGuard, GuardStates
    <2> QED
      BY <2>1, GuardEndsIInv
  <1> QED
    BY <1>1, <1>2, <1>3, <1>4, <1>5, <1>6 DEF AcquireStep

\* The guard keeps the invariant: it ends the lease before it sends a release.
LEMMA GuardStepIInv == IInv /\ (\E o \in Owners : GuardStep(o)) => IInv'
  <1> SUFFICES ASSUME IInv, NEW o \in Owners, GuardStep(o) PROVE IInv'
    OBVIOUS
  <1> USE DEF store, acquisition, renewal
  <1>0. sup[o] = "done" \/ guard[o] = "none"
    BY DEF IInv, Phases
  <1>1. CASE ReleaseGuard(o)
    <2>1. /\ guard[o] # "none" /\ "releasing" \in GuardStates
          /\ guard' = [guard EXCEPT ![o] = "releasing"]
          /\ Lose(o) \/ EndLease(o)
          /\ net' \in {net, net \cup {Release(o)}}
          /\ UNCHANGED <<clock, now, db, sup, attempt, ren, renTime>>
      BY <1>1 DEF ReleaseGuard, GuardStates
    <2> QED
      BY <2>1, GuardEndsIInv
  <1>2. CASE ReleaseDone(o)
    <2>1. /\ guard[o] # "none" /\ "released" \in GuardStates
          /\ guard' = [guard EXCEPT ![o] = "released"]
          /\ Lose(o) \/ EndLease(o)
          /\ net' \in {net, net \cup {Release(o)}}
          /\ UNCHANGED <<clock, now, db, sup, attempt, ren, renTime>>
      BY <1>2 DEF ReleaseDone, GuardStates
    <2> QED
      BY <2>1, GuardEndsIInv
  <1>3. CASE ReleaseFailed(o)
    <2> USE <1>3 DEF ReleaseFailed, IInv
    <2>1. TypeOK' /\ TimeOK' /\ KeysOK' /\ LeaseInTime' /\ Instants' /\ Phases'
      BY DEF TypeOK, GuardStates, TimeOK, KeysOK, LeaseInTime, Instants, Phases
    <2>2. Unreleased'
      BY UnreleasedKept
    <2>3. Backed'
      BY ClaimsKept DEF Claim
    <2> QED
      BY <2>1, <2>2, <2>3
  <1>4. CASE DropGuard(o)
    <2>1. /\ guard[o] # "none" /\ "dropped" \in GuardStates
          /\ guard' = [guard EXCEPT ![o] = "dropped"]
          /\ Lose(o) \/ EndLease(o)
          /\ net' \in {net, net \cup {Release(o)}}
          /\ UNCHANGED <<clock, now, db, sup, attempt, ren, renTime>>
      BY <1>4 DEF DropGuard, GuardStates
    <2> QED
      BY <2>1, GuardEndsIInv
  <1> QED
    BY <1>1, <1>2, <1>3, <1>4 DEF GuardStep

\* The wait after a failed renewal is a number.
LEMMA RetryWaitType ==
  ASSUME IInv, NEW o \in Owners
  PROVE  RetryWait(o) \in Nat
  <1>1. Remaining(o) \in Nat
    BY Numbers DEF IInv, LeaseInTime, Remaining, LeaseState
  <1>2. Remaining(o) \div 2 \in Nat
    BY <1>1
  <1> QED
    BY <1>2, Numbers DEF IInv, RetryWait

\* A renewal step moves ren, renTime and perhaps the lease of one owner: to
\* its end, or on to an instant it has claimed.
RenewUpdate(o, r, t, l) ==
  /\ r \in RenStates /\ r # "ok" /\ ren[o] # "off"
  /\ t \in Nat /\ (r = "sent" \/ r \in Replies => t <= clock)
  /\ l \in [state : LeaseStates, start : Nat]
  /\ \/ l = lease[o]
     \/ l.state # "Active" /\ l.start = 0
     \/ /\ l.state = "Active" /\ l.start = renTime[o] /\ clock < l.start + Ttl[o]
        /\ ren[o] = "ok" /\ lease[o].state = "Active"
  /\ ren' = [ren EXCEPT ![o] = r]
  /\ renTime' = [renTime EXCEPT ![o] = t]
  /\ lease' = [lease EXCEPT ![o] = l]
  /\ net' \in {net, net \cup {Renew(o, clock)}}
  /\ UNCHANGED <<clock, now, db, sup, attempt, guard>>

\* Such a step keeps the invariant: the lease stays, ends, or moves to an
\* instant that was claimed already.
LEMMA RenewUpdateIInv ==
  ASSUME IInv, NEW o \in Owners, NEW r, NEW t, NEW l, RenewUpdate(o, r, t, l)
  PROVE  IInv'
  <1>0. TypeOK /\ TimeOK /\ KeysOK /\ LeaseInTime /\ Instants /\ Phases
        /\ Unreleased /\ Backed
    BY DEF IInv
  <1>n. clock \in Nat /\ renTime[o] \in Nat
    BY <1>0, Numbers
  <1> USE DEF RenewUpdate
  <1>1. /\ ren'[o] = r /\ renTime'[o] = t /\ lease'[o] = l
        /\ \A p \in Owners \ {o} : /\ ren'[p] = ren[p] /\ renTime'[p] = renTime[p]
                                  /\ lease'[p] = lease[p]
        /\ ren' \in [Owners -> RenStates] /\ renTime' \in [Owners -> Nat]
        /\ lease' \in [Owners -> [state : LeaseStates, start : Nat]]
    BY <1>0 DEF TypeOK
  <1>2. TypeOK'
    BY <1>0, <1>n, <1>1, CommandType DEF TypeOK
  <1>3. TimeOK' /\ KeysOK'
    BY <1>0 DEF TimeOK, KeysOK
  <1>4. LeaseInTime'
    BY <1>0, <1>1 DEF LeaseInTime
  <1>5. Instants'
    <2>1. lease'[o].start <= clock
      BY <1>0, <1>n, <1>1 DEF Instants, Replies
    <2> QED
      BY <1>0, <1>1, <2>1 DEF Instants
  <1>6. Phases'
    BY <1>0, <1>1 DEF Phases
  <1>7. Unreleased'
    <2>1. \A p \in Owners : Release(p) \in net' => Release(p) \in net
      BY ReleaseDistinct
    <2> QED
      BY <1>0, <1>1, <2>1, UnreleasedKept
  <1>8. Backed'
    <2>1. \A p \in Owners : \A s \in Nat : Claim(p, s)' => Claim(p, s)
      BY <1>1 DEF Claim
    <2> QED
      BY <1>0, <2>1, ClaimsKept
  <1> QED
    BY <1>2, <1>3, <1>4, <1>5, <1>6, <1>7, <1>8 DEF IInv

\* What Lease::lose makes of a lease.
LEMMA LostOrSame ==
  ASSUME NEW r \in [state : LeaseStates, start : Nat], NEW l,
         l = IF r.state = "Active" THEN LeaseOver("Lost") ELSE r
  PROVE  /\ l \in [state : LeaseStates, start : Nat]
         /\ l = r \/ (l.state # "Active" /\ l.start = 0)
  <1>1. CASE r.state = "Active"
    BY <1>1 DEF LeaseStates, LeaseOver, Dead
  <1>2. CASE r.state # "Active"
    BY <1>2
  <1> QED
    BY <1>1, <1>2

\* Every step of the renewal task is such a step.
LEMMA RenewStepIInv == IInv /\ (\E o \in Owners : RenewStep(o)) => IInv'
  <1> SUFFICES ASSUME IInv, NEW o \in Owners, RenewStep(o) PROVE IInv'
    OBVIOUS
  <1> USE DEF store, acquisition, renewal
  <1>0. TypeOK
    BY DEF IInv
  <1>n. clock \in Nat /\ renTime[o] \in Nat /\ RenewInterval[o] \in Nat
    BY <1>0, Numbers
  <1>b. lease[o] \in [state : LeaseStates, start : Nat] /\ lease = [lease EXCEPT ![o] = lease[o]]
    BY <1>0 DEF TypeOK
  <1>r. {"end", "armed", "sent", "sleep"} \subseteq RenStates
    BY DEF RenStates
  <1>1. CASE RenewStop(o) \/ RenewArm(o)
    <2>1. PICK r \in {"end", "armed"} :
            /\ ren[o] = "sleep" /\ ren' = [ren EXCEPT ![o] = r]
            /\ renTime' = [renTime EXCEPT ![o] = 0]
            /\ UNCHANGED <<clock, now, db, net, sup, attempt, lease, guard>>
      BY <1>1 DEF RenewStop, RenewArm, Dead
    <2>2. RenewUpdate(o, r, 0, lease[o])
      BY <1>b, <1>r, <2>1 DEF RenewUpdate, Replies
    <2> QED
      BY <2>2, RenewUpdateIInv
  <1>2. CASE RenewSend(o)
    <2>1. /\ ren[o] = "armed" /\ ren' = [ren EXCEPT ![o] = "sent"]
          /\ renTime' = [renTime EXCEPT ![o] = clock]
          /\ net' = net \cup {Renew(o, clock)}
          /\ UNCHANGED <<clock, now, db, sup, attempt, lease, guard>>
      BY <1>2 DEF RenewSend
    <2>2. RenewUpdate(o, "sent", clock, lease[o])
      BY <1>b, <1>n, <1>r, <2>1 DEF RenewUpdate, Replies
    <2> QED
      BY <2>2, RenewUpdateIInv
  <1>3. CASE RenewConfirmed(o)
    <2> DEFINE l == [state |-> "Active", start |-> renTime[o]]
    <2>1. /\ ren[o] = "ok" /\ ren' = [ren EXCEPT ![o] = "sleep"]
          /\ renTime' = [renTime EXCEPT ![o] = renTime[o] + RenewInterval[o]]
          /\ lease' = [lease EXCEPT ![o] = l]
          /\ clock < renTime[o] + Ttl[o] /\ lease[o].state = "Active"
          /\ UNCHANGED <<clock, now, db, net, sup, attempt, guard>>
      BY <1>0, <1>3 DEF RenewConfirmed, CanRenew, LeaseState, TypeOK
    <2>2. l \in [state : LeaseStates, start : Nat] /\ l.state = "Active" /\ l.start = renTime[o]
      BY <1>n DEF LeaseStates
    <2>3. renTime[o] + RenewInterval[o] \in Nat
      BY <1>n
    <2> HIDE DEF l
    <2>4. RenewUpdate(o, "sleep", renTime[o] + RenewInterval[o], l)
      BY <1>r, <2>1, <2>2, <2>3 DEF RenewUpdate, Replies
    <2> QED
      BY <2>4, RenewUpdateIInv
  <1>4. CASE RenewDenied(o)
    <2> DEFINE l == IF lease[o].state = "Active" THEN LeaseOver("Lost") ELSE lease[o]
    <2>1. /\ ren[o] # "off" /\ ren' = [ren EXCEPT ![o] = "end"]
          /\ renTime' = [renTime EXCEPT ![o] = 0]
          /\ lease' = [lease EXCEPT ![o] = l]
          /\ UNCHANGED <<clock, now, db, net, sup, attempt, guard>>
      BY <1>0, <1>4 DEF RenewDenied, Lose, Dead, TypeOK
    <2>2. /\ l \in [state : LeaseStates, start : Nat]
          /\ l = lease[o] \/ (l.state # "Active" /\ l.start = 0)
      BY <1>b, LostOrSame
    <2> HIDE DEF l
    <2>3. RenewUpdate(o, "end", 0, l)
      BY <1>r, <2>1, <2>2 DEF RenewUpdate, Replies
    <2> QED
      BY <2>3, RenewUpdateIInv
  <1>5. CASE RenewFailed(o)
    <2>1. /\ ren[o] # "off" /\ ren' = [ren EXCEPT ![o] = "sleep"]
          /\ renTime' = [renTime EXCEPT ![o] = clock + RetryWait(o)]
          /\ UNCHANGED <<clock, now, db, net, sup, attempt, lease, guard>>
      BY <1>5 DEF RenewFailed
    <2>2. clock + RetryWait(o) \in Nat
      BY <1>n, RetryWaitType
    <2>3. RenewUpdate(o, "sleep", clock + RetryWait(o), lease[o])
      BY <1>b, <1>r, <2>1, <2>2 DEF RenewUpdate, Replies
    <2> QED
      BY <2>3, RenewUpdateIInv
  <1> QED
    BY <1>1, <1>2, <1>3, <1>4, <1>5 DEF RenewStep

\* A script that keeps the current leases of owner p, under an unmoved clock.
Kept(p) ==
  \A s \in Nat : Claim(p, s) /\ Current(p, s) => \A k \in KeysOf(p) : Recorded(p, db'[k], s)

\* If old claims keep their record and new claims have one, all are backed.
LEMMA BackedByKept ==
  ASSUME UNCHANGED clock,
         \A p \in Owners : /\ Kept(p)
                          /\ \A s \in Nat : /\ Claim(p, s)' /\ ~Claim(p, s)
                                           /\ Current(p, s)
                               => \A k \in KeysOf(p) : Recorded(p, db'[k], s)
  PROVE  Backed'
  BY DEF Backed, Kept, Current

\* acquire_lock and renew_lock, of any owner, keep every current claim.
LEMMA UseKeeps ==
  ASSUME IInv, NEW o \in Owners, NEW p \in Owners,
         \A k \in Keys : UseMove(db[k], db'[k], o)
  PROVE  Kept(p)
  <1> SUFFICES ASSUME NEW s \in Nat, Claim(p, s), Current(p, s), NEW k \in KeysOf(p)
               PROVE  Recorded(p, db'[k], s)
    BY DEF Kept
  <1>1. TimeOK /\ k \in Keys /\ KeyOK(db[k]) /\ Recorded(p, db[k], s)
    BY KeysOfType DEF IInv, KeysOK, Backed
  <1> QED
    BY <1>1, UseMoveKeeps

\* release_lock keeps the current claims of every other owner.
LEMMA ReleaseKeeps ==
  ASSUME IInv, NEW o \in Owners, NEW p \in Owners, p # o,
         \A k \in Keys : ReleaseMove(db[k], db'[k], o)
  PROVE  Kept(p)
  <1> SUFFICES ASSUME NEW s \in Nat, Claim(p, s), Current(p, s), NEW k \in KeysOf(p)
               PROVE  Recorded(p, db'[k], s)
    BY DEF Kept
  <1>1. k \in Keys /\ KeyOK(db[k]) /\ Recorded(p, db[k], s)
    BY KeysOfType DEF IInv, KeysOK, Backed
  <1> QED
    BY <1>1, ReleaseMoveKeeps

\* A script that succeeds records the attempt or renewal it answers.
LEMMA Granted ==
  ASSUME IInv, NEW o \in Owners, NEW s \in Nat, Current(o, s),
         \A k \in KeysOf(o) : GrantMove(db[k], db'[k], o)
  PROVE  \A k \in KeysOf(o) : Recorded(o, db'[k], s)
  BY GrantMoveRecords DEF IInv, Current

\* Executing an acquisition, however late, keeps the invariant.
LEMMA ServeAcquireIInv ==
  ASSUME IInv, NEW o \in Owners, NEW start, ServeAcquire(o, start)
  PROVE  IInv'
  <1> USE DEF store, acquisition, renewal
  <1>0. TypeOK /\ TimeOK /\ KeysOK /\ LeaseInTime /\ Instants /\ Phases
        /\ Unreleased /\ Backed /\ StoreOK
    BY KeysStore DEF IInv
  <1>1. PICK reply \in Replies :
          /\ AcquireLock(o, reply)
          /\ sup' \in {sup, IF sup[o] = "sent" /\ attempt[o] = start
                            THEN [sup EXCEPT ![o] = reply] ELSE sup}
    BY DEF ServeAcquire
  <1>2. /\ net' \subseteq net
        /\ UNCHANGED <<clock, now, attempt, lease, ren, renTime, guard>>
    BY DEF ServeAcquire
  <1>3. /\ db' = [k \in Keys |-> db'[k]]
        /\ \A k \in Keys : UseMove(db[k], db'[k], o)
        /\ reply = "ok" => \A k \in KeysOf(o) : GrantMove(db[k], db'[k], o)
    BY <1>0, <1>1, AcquireMoves
  <1>4. \/ sup' = sup
        \/ /\ sup[o] = "sent" /\ sup' \in [Owners -> SupStates] /\ sup'[o] = reply
           /\ \A p \in Owners \ {o} : sup'[p] = sup[p]
    BY <1>0, <1>1 DEF TypeOK, SupStates
  <1>5. TypeOK' /\ KeysOK'
    <2>1. /\ KeysOK' /\ db' \in [Keys -> KeyValue]
          /\ \A k \in Keys : db'[k].str = NoOwner /\ db'[k].zset = {} => db'[k] = NoKey
      BY <1>0, <1>2, <1>3, ScriptStore
    <2> QED
      BY <1>0, <1>2, <1>4, <2>1 DEF TypeOK
  <1>6. TimeOK' /\ LeaseInTime' /\ Instants'
    BY <1>0, <1>2 DEF TimeOK, LeaseInTime, Instants
  <1>7. Phases'
    BY <1>0, <1>2, <1>4 DEF Phases
  <1>8. Unreleased'
    BY <1>0, <1>2, <1>4, UnreleasedKept
  <1>9. Backed'
    <2>1. \A p \in Owners : Kept(p)
      BY <1>3, UseKeeps
    <2>2. ASSUME NEW p \in Owners, NEW s \in Nat, Claim(p, s)', ~Claim(p, s), Current(p, s)
          PROVE  \A k \in KeysOf(p) : Recorded(p, db'[k], s)
      <3>1. p = o /\ reply = "ok"
        BY <1>2, <1>4, <2>2 DEF Claim
      <3> QED
        BY <1>3, <2>2, <3>1, Granted
    <2> QED
      BY <1>2, <2>1, <2>2, BackedByKept
  <1> QED
    BY <1>5, <1>6, <1>7, <1>8, <1>9 DEF IInv

\* Executing a renewal, however late, keeps the invariant.
LEMMA ServeRenewIInv ==
  ASSUME IInv, NEW o \in Owners, NEW start, ServeRenew(o, start)
  PROVE  IInv'
  <1> USE DEF store, acquisition, renewal
  <1>0. TypeOK /\ TimeOK /\ KeysOK /\ LeaseInTime /\ Instants /\ Phases
        /\ Unreleased /\ Backed /\ StoreOK
    BY KeysStore DEF IInv
  <1>1. PICK reply \in Replies :
          /\ RenewLock(o, reply)
          /\ ren' \in {ren, IF ren[o] = "sent" /\ renTime[o] = start
                            THEN [ren EXCEPT ![o] = reply] ELSE ren}
    BY DEF ServeRenew
  <1>2. /\ net' \subseteq net
        /\ UNCHANGED <<clock, now, sup, attempt, lease, renTime, guard>>
    BY DEF ServeRenew
  <1>3. /\ db' = [k \in Keys |-> db'[k]]
        /\ \A k \in Keys : UseMove(db[k], db'[k], o)
        /\ reply = "ok" => \A k \in KeysOf(o) : GrantMove(db[k], db'[k], o)
    BY <1>0, <1>1, RenewMoves
  <1>4. \/ ren' = ren
        \/ /\ ren[o] = "sent" /\ ren' \in [Owners -> RenStates] /\ ren'[o] = reply
           /\ \A p \in Owners \ {o} : ren'[p] = ren[p]
    BY <1>0, <1>1 DEF TypeOK, RenStates
  <1>5. TypeOK' /\ KeysOK'
    <2>1. /\ KeysOK' /\ db' \in [Keys -> KeyValue]
          /\ \A k \in Keys : db'[k].str = NoOwner /\ db'[k].zset = {} => db'[k] = NoKey
      BY <1>0, <1>2, <1>3, ScriptStore
    <2> QED
      BY <1>0, <1>2, <1>4, <2>1 DEF TypeOK
  <1>6. TimeOK' /\ LeaseInTime' /\ Instants'
    BY <1>0, <1>2, <1>4 DEF TimeOK, LeaseInTime, Instants
  <1>7. Phases'
    BY <1>0, <1>2, <1>4 DEF Phases
  <1>8. Unreleased'
    BY <1>0, <1>2, UnreleasedKept
  <1>9. Backed'
    <2>1. \A p \in Owners : Kept(p)
      BY <1>3, UseKeeps
    <2>2. ASSUME NEW p \in Owners, NEW s \in Nat, Claim(p, s)', ~Claim(p, s), Current(p, s)
          PROVE  \A k \in KeysOf(p) : Recorded(p, db'[k], s)
      <3>1. p = o /\ reply = "ok"
        BY <1>2, <1>4, <2>2 DEF Claim
      <3> QED
        BY <1>3, <2>2, <3>1, Granted
    <2> QED
      BY <1>2, <2>1, <2>2, BackedByKept
  <1> QED
    BY <1>5, <1>6, <1>7, <1>8, <1>9 DEF IInv

\* Executing a release keeps the invariant: by Unreleased its owner claims nothing.
LEMMA ServeReleaseIInv ==
  ASSUME IInv, NEW o \in Owners, ServeRelease(o)
  PROVE  IInv'
  <1> USE DEF store, acquisition, renewal
  <1>0. TypeOK /\ TimeOK /\ KeysOK /\ LeaseInTime /\ Instants /\ Phases
        /\ Unreleased /\ Backed /\ StoreOK
    BY KeysStore DEF IInv
  <1>1. PICK reply \in {"ok", "no"} : ReleaseLock(o, reply)
    BY DEF ServeRelease
  <1>2. /\ Release(o) \in net /\ net' \subseteq net
        /\ UNCHANGED <<clock, now, sup, attempt, lease, ren, renTime>>
        /\ guard' \in {guard, IF guard[o] = "releasing"
                              THEN [guard EXCEPT ![o] = "replied"] ELSE guard}
    BY DEF ServeRelease
  <1>3. /\ db' = [k \in Keys |-> db'[k]]
        /\ \A k \in Keys : ReleaseMove(db[k], db'[k], o)
    BY <1>0, <1>1, ReleaseMoves
  <1>4. sup[o] = "done" /\ lease[o].state # "Active"
    BY <1>0, <1>2 DEF Unreleased
  <1>5. TypeOK' /\ KeysOK'
    <2>1. /\ KeysOK' /\ db' \in [Keys -> KeyValue]
          /\ \A k \in Keys : db'[k].str = NoOwner /\ db'[k].zset = {} => db'[k] = NoKey
      BY <1>0, <1>2, <1>3, ScriptStore
    <2>2. guard' \in [Owners -> GuardStates]
      BY <1>0, <1>2 DEF TypeOK, GuardStates
    <2> QED
      BY <1>0, <1>2, <2>1, <2>2 DEF TypeOK
  <1>6. TimeOK' /\ LeaseInTime' /\ Instants'
    BY <1>0, <1>2 DEF TimeOK, LeaseInTime, Instants
  <1>7. Phases'
    BY <1>0, <1>2, <1>4 DEF Phases, TypeOK
  <1>8. Unreleased'
    BY <1>0, <1>2, UnreleasedKept
  <1>9. Backed'
    <2>1. ASSUME NEW p \in Owners PROVE Kept(p)
      <3>1. CASE p = o
        BY <1>4, <3>1 DEF Kept, Claim
      <3>2. CASE p # o
        BY <1>3, <3>2, ReleaseKeeps
      <3> QED
        BY <3>1, <3>2
    <2>2. \A p \in Owners : \A s \in Nat : Claim(p, s)' => Claim(p, s)
      BY <1>2 DEF Claim
    <2> QED
      BY <1>2, <2>1, <2>2, BackedByKept
  <1> QED
    BY <1>5, <1>6, <1>7, <1>8, <1>9 DEF IInv
-------------------------------------------------------------------------------
\* Every step keeps the invariant.
LEMMA NextIInv == IInv /\ [Next]_vars => IInv'
  <1> SUFFICES ASSUME IInv, [Next]_vars PROVE IInv'
    OBVIOUS
  <1>1. CASE Tick
    BY <1>1, TickIInv
  <1>2. ASSUME NEW o \in Owners, AcquireStep(o) PROVE IInv'
    BY <1>2, AcquireStepIInv
  <1>3. ASSUME NEW o \in Owners, RenewStep(o) PROVE IInv'
    BY <1>3, RenewStepIInv
  <1>4. ASSUME NEW o \in Owners, GuardStep(o) PROVE IInv'
    BY <1>4, GuardStepIInv
  <1>5. ASSUME NEW o \in Owners, ServeStep(o) PROVE IInv'
    <2>1. ASSUME NEW start, ServeAcquire(o, start) PROVE IInv'
      BY <2>1, ServeAcquireIInv
    <2>2. ASSUME NEW start, ServeRenew(o, start) PROVE IInv'
      BY <2>2, ServeRenewIInv
    <2>3. CASE ServeRelease(o)
      BY <2>3, ServeReleaseIInv
    <2> QED
      BY <1>5, <2>1, <2>2, <2>3 DEF ServeStep
  <1>6. CASE UNCHANGED vars
    <2>1. UNCHANGED <<clock, now, db, net, sup, attempt, lease, ren, renTime, guard>>
      BY <1>6 DEF vars
    <2>2. TypeOK'
      BY <2>1 DEF IInv, TypeOK
    <2>3. TimeOK' /\ KeysOK' /\ LeaseInTime' /\ Instants'
      BY <2>1 DEF IInv, TimeOK, KeysOK, LeaseInTime, Instants
    <2>4. Phases' /\ Unreleased'
      BY <2>1 DEF IInv, Phases, Unreleased
    <2>5. Backed'
      BY <2>1, ClaimsKept DEF IInv, Claim
    <2> QED
      BY <2>2, <2>3, <2>4, <2>5 DEF IInv
  <1> QED
    BY <1>1, <1>2, <1>3, <1>4, <1>5, <1>6 DEF Next

\* The invariant is inductive, so it holds in every reachable state.
THEOREM Inductive == Spec => []IInv
  BY InitIInv, NextIInv, PTL DEF Spec

\* Every variable keeps its type, and no script leaves behind an empty key that
\* still has an expiry.
THEOREM TypeCorrect == Spec => []TypeOK
  <1>1. IInv => TypeOK
    BY DEF IInv
  <1> QED
    BY Inductive, <1>1, PTL

\* In a Redis key a writer's entry is alone (scripts.rs:133, 219, 248).
THEOREM WriterAloneSafe == Spec => []WriterAlone
  <1>1. IInv => WriterAlone
    BY DEF IInv, KeysOK, KeyOK, WriterAlone
  <1> QED
    BY Inductive, <1>1, PTL

\* A key outlives every holder recorded in it (scripts.rs:143).
THEOREM KeysOutlive == Spec => []KeyOutlivesHolders
  <1>1. IInv => KeyOutlivesHolders
    <2> SUFFICES ASSUME IInv, NEW k \in Keys
                 PROVE  /\ Kind(db[k]) # "none" => db[k].pexpire # NoTtl
                        /\ \A e \in db[k].zset : /\ e.score <= db[k].pexpire
                                                 /\ -e.score <= db[k].pexpire
      BY DEF KeyOutlivesHolders
    <2>1. KeyOK(db[k])
      BY DEF IInv, KeysOK
    <2>2. ASSUME NEW e \in db[k].zset PROVE db[k].pexpire # NoTtl
      <3>1. e.score \in Int /\ db[k].pexpire \in Int
            /\ e.score <= db[k].pexpire /\ -e.score <= db[k].pexpire
        BY <2>1 DEF KeyOK, KeyValue, Holder
      <3> QED
        BY <3>1 DEF NoTtl
    <2> QED
      BY <2>1, <2>2 DEF KeyOK, Kind
  <1> QED
    BY Inductive, <1>1, PTL
-------------------------------------------------------------------------------
(* Mutual exclusion *)

\* What backs a lease that its owner relies on is alive in Redis.
LEMMA HonouredHolds ==
  ASSUME IInv, NEW o \in Owners, Honoured(o), NEW k \in KeysOf(o)
  PROVE  k \in Keys /\ KeyOK(db[k]) /\ HoldsIn(o, db[k])
  <1> DEFINE s == lease[o].start
  <1>1. k \in Keys /\ KeyOK(db[k])
    BY KeysOfType DEF IInv, KeysOK
  <1>2. Current(o, s) /\ Claim(o, s) /\ s \in Nat
    BY Numbers DEF Honoured, LeaseState, Current, Claim, IInv, Instants
  <1>3. Recorded(o, db[k], s)
    BY <1>2 DEF IInv, Backed
  <1> HIDE DEF s
  <1>4. CASE IsMutex(o)
    BY <1>1, <1>3, <1>4 DEF Recorded, HoldsIn
  <1>5. CASE ~IsMutex(o)
    <2>1. PICK e \in db[k].zset : e.owner = o /\ Until(o, e) + Ms > s + Ttl[o]
      BY <1>3, <1>5 DEF Recorded
    <2>2. e \in Holder
      BY <1>1 DEF KeyOK, KeyValue
    <2>3. LiveScore(o, e.score)
      BY <1>2, <1>5, <2>1, <2>2, CurrentEntryLives DEF IInv
    <2> QED
      BY <1>1, <1>5, <2>1, <2>3 DEF HoldsIn
  <1> QED
    BY <1>4, <1>5

\* While a client relies on its lease, Redis honours it on every key: whatever
\* was lost, late or out of order, the client's deadline is the earlier one.
THEOREM LeaseBackedSafe == Spec => []LeaseBacked
  <1>1. IInv => LeaseBacked
    <2> SUFFICES ASSUME IInv, NEW o \in Owners, Honoured(o), NEW k \in KeysOf(o)
                 PROVE  Holds(o, k)
      BY DEF LeaseBacked
    <2> QED
      BY HonouredHolds DEF HoldsIn, Holds
  <1> QED
    BY Inductive, <1>1, PTL

\* Owners that rely on their leases stand in Redis, where nobody can stand
\* beside one it excludes.
LEMMA IInvExclusion == IInv => Exclusion
  <1> SUFFICES ASSUME IInv, NEW p \in Owners, NEW q \in Owners, Conflict(p, q),
                      Honoured(p), Honoured(q)
               PROVE  FALSE
    BY DEF Exclusion
  <1>1. PICK k \in KeysOf(p) : k \in KeysOf(q)
    BY DEF Conflict
  <1>2. KeyOK(db[k]) /\ HoldsIn(p, db[k]) /\ HoldsIn(q, db[k])
    BY <1>1, HonouredHolds
  <1> QED
    BY <1>2, OneHolds DEF Conflict, IInv, TimeOK

\* The same of the state after a step.
LEMMA IInvExclusionNext == IInv' => Exclusion'
  BY IInvExclusion, PTL

\* Two owners that exclude each other never both rely on their leases: the
\* purpose of the crate, for any owners, keys, TTLs and clock resolution.
THEOREM ExclusionSafe == Spec => []Exclusion
  BY Inductive, IInvExclusion, PTL
-------------------------------------------------------------------------------
(* Refinement *)

\* The four phases exclude each other, for they partition the lease's states.
LEMMA PhaseCases ==
  ASSUME NEW o \in Owners, lease[o].state \in LeaseStates
  PROVE  /\ Phase(o) \in Abstract!Phases
         /\ Phase(o) = "none" <=> lease[o].state = "None"
         /\ Phase(o) = "held" <=> Honoured(o)
         /\ Phase(o) = "doubt" <=> lease[o].state = "Active" /\ ~Honoured(o)
         /\ Phase(o) = "over" <=> lease[o].state \in {"Lost", "Released"}
  BY DEF Phase, Honoured, LeaseState, LeaseStates, Abstract!Phases

\* A lease that a step leaves alone, or ends, never gains strength: time alone
\* turns trust into doubt and doubt into loss (Lease::refresh, Lease::lose).
LEMMA WeakerLease ==
  ASSUME TypeOK, TypeOK', NEW o \in Owners, clock' >= clock,
         \/ lease'[o] = lease[o]
         \/ lease[o].state # "None" /\ lease'[o].state \in {"Lost", "Released"}
  PROVE  Phase(o)' \in Abstract!Weaker(Phase(o))
  <1>1. lease[o].state \in LeaseStates /\ lease[o].start \in Nat
        /\ lease'[o].state \in LeaseStates /\ lease'[o].start \in Nat
    BY DEF TypeOK
  <1>2. clock \in Nat /\ clock' \in Nat /\ Ttl[o] \in Nat /\ Grace(o) \in Int
    BY StoreAssumption DEF TypeOK, Grace
  <1>3. CASE lease'[o] = lease[o]
    <2>1. Honoured(o)' => Honoured(o)
      BY <1>1, <1>2, <1>3 DEF Honoured, LeaseState, Grace
    <2> QED
      BY <1>1, <1>3, <2>1, PhaseCases DEF Phase, Abstract!Weaker, LeaseState, Honoured
  <1>4. CASE lease[o].state # "None" /\ lease'[o].state \in {"Lost", "Released"}
    BY <1>1, <1>4 DEF Phase, Abstract!Weaker, LeaseState, Honoured, LeaseStates
  <1> QED
    BY <1>3, <1>4

\* A step that starts no lease and extends none is one of growing doubt.
LEMMA WeakenStep ==
  ASSUME TypeOK, TypeOK', clock' >= clock,
         \A o \in Owners :
           \/ lease'[o] = lease[o]
           \/ lease[o].state # "None" /\ lease'[o].state \in {"Lost", "Released"}
  PROVE  Abstract!Weaken
  <1> DEFINE phase == [o \in Owners |-> Phase(o)]
  <1>1. \A o \in Owners : Phase(o)' \in Abstract!Weaker(Phase(o))
    BY WeakerLease
  <1>2. \A o \in Owners : Phase(o)' \in Abstract!Phases
    <2> SUFFICES ASSUME NEW o \in Owners PROVE Phase(o)' \in Abstract!Phases
      OBVIOUS
    <2>1. lease'[o].state \in LeaseStates
      BY DEF TypeOK
    <2> QED
      BY <2>1 DEF Phase, Abstract!Phases
  <1>3. phase' \in [Owners -> Abstract!Phases]
    BY <1>2
  <1>4. \A o \in Owners : phase'[o] \in Abstract!Weaker(phase[o])
    BY <1>1
  <1> QED
    BY <1>3, <1>4 DEF Abstract!Weaken

\* A step that starts or extends one lease grants it, if the owner can rely on
\* it: exclusion in the next state says that nobody it excludes relies on one.
LEMMA GrantStep ==
  ASSUME IInv, IInv', NEW o \in Owners, UNCHANGED clock,
         \A p \in Owners \ {o} : lease'[p] = lease[p],
         lease[o].state \in {"None", "Active"}, lease'[o].state = "Active"
  PROVE  Abstract!Next
  <1> DEFINE phase == [p \in Owners |-> Phase(p)]
  <1>1. \A p \in Owners : lease[p].state \in LeaseStates /\ lease'[p].state \in LeaseStates
    BY DEF IInv, TypeOK
  <1>2. ASSUME NEW p \in Owners \ {o} PROVE Phase(p)' = Phase(p)
    BY <1>2 DEF Phase, LeaseState, Honoured, Grace
  <1>3. CASE Honoured(o)' /\ ~Honoured(o)
    <2>1. phase[o] \in {"none", "doubt"}
      BY <1>1, <1>3, PhaseCases
    <2>2. ASSUME NEW p \in Owners, Conflict(o, p) PROVE phase[p] # "held"
      <3>1. p \in Owners \ {o} /\ Conflict(o, p)'
        BY <2>2 DEF Conflict
      <3>2. ~Honoured(p)'
        BY <1>3, <3>1, IInvExclusionNext DEF Exclusion
      <3>3. ~Honoured(p)
        BY <3>1, <3>2 DEF Honoured, LeaseState, Grace
      <3> QED
        BY <1>1, <3>3, PhaseCases
    <2>3. phase' = [phase EXCEPT ![o] = "held"]
      <3>1. Phase(o)' = "held"
        BY <1>3 DEF Phase, Honoured, LeaseState
      <3> QED
        BY <1>2, <3>1
    <2> QED
      BY <2>1, <2>2, <2>3 DEF Abstract!Next, Abstract!Grant, Abstract!Free
  <1>4. CASE ~Honoured(o)' /\ lease[o].state = "None"
    <2>1. phase[o] = "none"
      BY <1>1, <1>4, PhaseCases
    <2>2. phase' = [phase EXCEPT ![o] = "doubt"]
      <3>1. Phase(o)' = "doubt"
        BY <1>4 DEF Phase, LeaseState
      <3> QED
        BY <1>2, <3>1
    <2> QED
      BY <2>1, <2>2 DEF Abstract!Next, Abstract!GrantLate
  <1>5. CASE \/ Honoured(o)' /\ Honoured(o)
             \/ ~Honoured(o)' /\ lease[o].state = "Active"
    <2>1. Phase(o)' \in Abstract!Weaker(Phase(o))
      BY <1>5 DEF Phase, LeaseState, Honoured, Abstract!Weaker
    <2>2. \A p \in Owners : Phase(p)' \in Abstract!Weaker(Phase(p))
      <3>1. ASSUME NEW p \in Owners PROVE Phase(p) \in Abstract!Weaker(Phase(p))
        BY DEF Phase, Abstract!Weaker
      <3> QED
        BY <1>2, <2>1, <3>1
    <2>3. \A p \in Owners : Phase(p)' \in Abstract!Phases
      BY DEF Phase, Abstract!Phases
    <2> QED
      BY <2>2, <2>3 DEF Abstract!Next, Abstract!Weaken
  <1> QED
    BY <1>3, <1>4, <1>5

\* A guard exists only where a lease has begun.
Begun == \A o \in Owners : guard[o] # "none" => lease[o].state # "None"

\* Only OfferGuard creates a guard, with its lease; no step takes a lease back.
LEMMA NextBegun == IInv /\ Begun /\ [Next]_vars => Begun'
  <1> SUFFICES ASSUME IInv, Begun, [Next]_vars PROVE Begun'
    OBVIOUS
  <1> USE DEF Begun, IInv, TypeOK
  <1>1. CASE Tick
    BY <1>1 DEF Tick, Refresh, LeaseOver
  <1>2. ASSUME NEW o \in Owners, AcquireStep(o) PROVE Begun'
    BY <1>2 DEF AcquireStep, StartAttempt, GiveUp, AcquireFailed, RejectAcquired,
                OfferGuard, ClaimGuard, DiscardGuard, EndLease, LeaseOver, LeaseState
  <1>3. ASSUME NEW o \in Owners, RenewStep(o) PROVE Begun'
    BY <1>3 DEF RenewStep, RenewStop, RenewArm, RenewSend, RenewConfirmed, RenewDenied,
                RenewFailed, Lose, LeaseOver
  <1>4. ASSUME NEW o \in Owners, GuardStep(o) PROVE Begun'
    BY <1>4 DEF GuardStep, ReleaseGuard, ReleaseDone, ReleaseFailed, DropGuard,
                Lose, EndLease, LeaseOver
  <1>5. ASSUME NEW o \in Owners, ServeStep(o) PROVE Begun'
    BY <1>5 DEF ServeStep, ServeAcquire, ServeRenew, ServeRelease
  <1>6. CASE UNCHANGED vars
    BY <1>6 DEF vars
  <1> QED
    BY <1>1, <1>2, <1>3, <1>4, <1>5, <1>6 DEF Next

\* Every step of the protocol is one of the abstract leases, or leaves them alone.
LEMMA NextRefines ==
  ASSUME IInv, IInv', Begun, [Next]_vars
  PROVE  Abstract!Next
  <1> DEFINE Quiet == \A o \in Owners :
               \/ lease'[o] = lease[o]
               \/ lease[o].state # "None" /\ lease'[o].state \in {"Lost", "Released"}
             Starts(o) ==
               /\ \A p \in Owners \ {o} : lease'[p] = lease[p]
               /\ lease[o].state \in {"None", "Active"}
               /\ lease'[o].state = "Active"
  <1>1. TypeOK /\ TypeOK' /\ clock \in Nat /\ lease \in [Owners -> [state : LeaseStates, start : Nat]]
    BY DEF IInv, TypeOK
  <1>2. CASE clock' >= clock /\ Quiet
    BY <1>1, <1>2, WeakenStep DEF Abstract!Next
  <1>3. ASSUME NEW o \in Owners, UNCHANGED clock, Starts(o) PROVE Abstract!Next
    BY <1>3, GrantStep
  <1>4. CASE Tick
    BY <1>1, <1>2, <1>4 DEF Tick, Refresh, LeaseOver
  <1>5. CASE UNCHANGED <<clock, lease>>
    BY <1>1, <1>2, <1>5
  <1>6. ASSUME NEW o \in Owners, UNCHANGED clock, Lose(o) \/ (EndLease(o) /\ guard[o] # "none")
        PROVE  Abstract!Next
    <2>1. Quiet
      BY <1>1, <1>6 DEF Lose, EndLease, LeaseOver, Begun
    <2> QED
      BY <1>1, <1>2, <1>6, <2>1
  <1> HIDE DEF Quiet
  <1>7. ASSUME NEW o \in Owners, AcquireStep(o) PROVE Abstract!Next
    <2>1. CASE OfferGuard(o)
      <3>1. lease[o].state = "None"
        BY <2>1 DEF OfferGuard, IInv, Phases
      <3>2. UNCHANGED clock /\ Starts(o)
        BY <1>1, <2>1, <3>1 DEF OfferGuard
      <3> QED
        BY <1>3, <3>2
    <2>2. CASE DiscardGuard(o)
      BY <1>6, <2>2 DEF DiscardGuard
    <2> QED
      BY <1>5, <1>7, <2>1, <2>2 DEF AcquireStep, StartAttempt, GiveUp, AcquireFailed,
                                    RejectAcquired, ClaimGuard
  <1>8. ASSUME NEW o \in Owners, RenewStep(o) PROVE Abstract!Next
    <2>1. CASE RenewConfirmed(o)
      <3>1. UNCHANGED clock /\ Starts(o)
        BY <1>1, <2>1 DEF RenewConfirmed, CanRenew, LeaseState
      <3> QED
        BY <1>3, <3>1
    <2>2. CASE RenewDenied(o)
      BY <1>6, <2>2 DEF RenewDenied
    <2> QED
      BY <1>5, <1>8, <2>1, <2>2 DEF RenewStep, RenewStop, RenewArm, RenewSend, RenewFailed
  <1>9. ASSUME NEW o \in Owners, GuardStep(o) PROVE Abstract!Next
    BY <1>5, <1>6, <1>9 DEF GuardStep, ReleaseGuard, ReleaseDone, ReleaseFailed, DropGuard
  <1>10. ASSUME NEW o \in Owners, ServeStep(o) PROVE Abstract!Next
    BY <1>5, <1>10 DEF ServeStep, ServeAcquire, ServeRenew, ServeRelease
  <1>11. CASE UNCHANGED vars
    BY <1>5, <1>11 DEF vars
  <1> QED
    BY <1>4, <1>7, <1>8, <1>9, <1>10, <1>11 DEF Next

\* The protocol implements the abstract leases for any owners, keys, TTLs and
\* clock resolution: nobody comes to rely on a lease beside one it excludes,
\* and no lease that is over comes back.
THEOREM Refines == Spec => AbstractSpec
  <1>1. Init => Abstract!Init
    <2> SUFFICES ASSUME Init, NEW o \in Owners PROVE Phase(o) = "none"
      BY DEF Abstract!Init
    <2>1. lease[o].state = "None"
      BY DEF Init, LeaseOver
    <2> QED
      BY <2>1, PhaseCases DEF LeaseStates
  <1>2. Init => Begun
    BY DEF Init, Begun
  <1>3. IInv /\ IInv' /\ Begun /\ [Next]_vars
        => [Abstract!Next]_([o \in Owners |-> Phase(o)])
    BY NextRefines
  <1> QED
    BY <1>1, <1>2, <1>3, Inductive, NextBegun, PTL DEF Spec, AbstractSpec, Abstract!Spec
-------------------------------------------------------------------------------
(* The lease and its renewal task *)

\* Half of what a lease has left is less than that, and so is the wait.
LEMMA RetryWaitInTime ==
  ASSUME TypeOK, NEW o \in Owners, lease[o].state = "Active",
         clock < lease[o].start + Ttl[o]
  PROVE  clock + RetryWait(o) < lease[o].start + Ttl[o]
  <1> DEFINE left == lease[o].start + Ttl[o] - clock
             half == left \div 2
  <1>1. left \in Nat /\ left > 0
    BY Numbers
  <1>2. Remaining(o) = left
    BY DEF Remaining, LeaseState
  <1> HIDE DEF left
  <1>3. half \in Nat /\ half < left
    BY <1>1
  <1>4. RetryWait(o) = IF RetryInterval[o] < half THEN RetryInterval[o] ELSE half
    BY <1>2 DEF RetryWait
  <1> HIDE DEF half
  <1>5. RetryWait(o) \in Nat /\ RetryWait(o) < left
    BY <1>1, <1>3, <1>4, Numbers
  <1> QED
    BY <1>1, <1>5, Numbers DEF left

\* Every way into the renewal task's sleep sets an instant within the lease.
LEMMA NextWakes == IInv /\ WakesInTime /\ [Next]_vars => WakesInTime'
  <1> SUFFICES ASSUME IInv, WakesInTime, [Next]_vars PROVE WakesInTime'
    OBVIOUS
  <1> USE DEF LeaseState
  <1>1. TypeOK /\ LeaseInTime /\ Phases
    BY DEF IInv
  <1>2. \A o \in Owners : lease[o] \in [state : LeaseStates, start : Nat]
    BY <1>1 DEF TypeOK
  <1>3. CASE Tick
    BY <1>1, <1>3 DEF Tick, Refresh, LeaseOver, WakesInTime, TypeOK, renewal
  <1>4. ASSUME NEW o \in Owners, AcquireStep(o) PROVE WakesInTime'
    <2>1. CASE OfferGuard(o)
      <3>1. ren[o] = "off" /\ \A p \in Owners \ {o} : lease'[p] = lease[p]
        BY <1>1, <2>1 DEF OfferGuard, Phases, TypeOK
      <3>2. lease'[o].start = attempt[o]
        BY <1>1, <2>1 DEF OfferGuard, TypeOK
      <3>3. CASE RenewInterval[o] = 0
        <4>1. ren' = ren /\ renTime' = renTime
          BY <2>1, <3>3 DEF OfferGuard, renewal
        <4> QED
          BY <3>1, <4>1 DEF WakesInTime
      <3>4. CASE RenewInterval[o] # 0
        <4>1. /\ \A p \in Owners \ {o} : ren'[p] = ren[p] /\ renTime'[p] = renTime[p]
              /\ renTime'[o] = attempt[o] + RenewInterval[o]
          BY <1>1, <2>1, <3>4 DEF OfferGuard, TypeOK
        <4>2. RenewInterval[o] < Ttl[o]
          BY <1>1, <3>4, Numbers, LeaseAssumption
        <4>3. renTime'[o] < lease'[o].start + Ttl[o]
          BY <1>1, <3>2, <4>1, <4>2, Numbers
        <4> QED
          BY <3>1, <4>1, <4>3 DEF WakesInTime
      <3> QED
        BY <3>3, <3>4
    <2>2. CASE DiscardGuard(o)
      BY <1>1, <2>2 DEF DiscardGuard, EndLease, LeaseOver, WakesInTime, TypeOK, renewal
    <2> QED
      BY <1>4, <2>1, <2>2 DEF AcquireStep, StartAttempt, GiveUp, AcquireFailed,
                              RejectAcquired, ClaimGuard, WakesInTime, renewal
  <1>5. ASSUME NEW o \in Owners, RenewStep(o) PROVE WakesInTime'
    <2>1. CASE RenewConfirmed(o)
      <3>1. /\ \A p \in Owners \ {o} : /\ lease'[p] = lease[p]
                                      /\ ren'[p] = ren[p] /\ renTime'[p] = renTime[p]
            /\ renTime'[o] = renTime[o] + RenewInterval[o]
            /\ lease'[o].start = renTime[o]
        BY <1>1, <2>1 DEF RenewConfirmed, TypeOK
      <3>2. RenewInterval[o] < Ttl[o]
        <4>1. Ttl[o] \in Nat /\ Ttl[o] > 0 /\ RenewInterval[o] \in Nat
          BY <1>1, Numbers, StoreAssumption
        <4> QED
          BY <4>1, LeaseAssumption
      <3>3. renTime'[o] < lease'[o].start + Ttl[o]
        BY <1>1, <3>1, <3>2, Numbers
      <3> QED
        BY <3>1, <3>3 DEF WakesInTime
    <2>2. CASE RenewFailed(o)
      <3>1. lease[o].state = "Active" => clock + RetryWait(o) < lease[o].start + Ttl[o]
        BY <1>1, RetryWaitInTime DEF LeaseInTime
      <3> QED
        BY <1>1, <2>2, <3>1 DEF RenewFailed, WakesInTime, TypeOK
    <2>3. CASE RenewDenied(o)
      BY <1>1, <2>3 DEF RenewDenied, Lose, LeaseOver, WakesInTime, TypeOK
    <2>4. CASE RenewStop(o) \/ RenewArm(o) \/ RenewSend(o)
      BY <1>1, <2>4 DEF RenewStop, RenewArm, RenewSend, WakesInTime, TypeOK
    <2> QED
      BY <1>5, <2>1, <2>2, <2>3, <2>4 DEF RenewStep
  <1>6. ASSUME NEW o \in Owners, GuardStep(o) PROVE WakesInTime'
    BY <1>1, <1>6 DEF GuardStep, ReleaseGuard, ReleaseDone, ReleaseFailed, DropGuard,
                      Lose, EndLease, LeaseOver, WakesInTime, TypeOK, renewal
  <1>7. ASSUME NEW o \in Owners, ServeStep(o) PROVE WakesInTime'
    BY <1>1, <1>7 DEF ServeStep, ServeAcquire, ServeRenew, ServeRelease, Replies,
                      WakesInTime, TypeOK, renewal
  <1>8. CASE UNCHANGED vars
    BY <1>8 DEF vars, WakesInTime
  <1> QED
    BY <1>3, <1>4, <1>5, <1>6, <1>7, <1>8 DEF Next

\* A sleeping renewal task wakes before its lease runs out, also after errors
\* in any number (guard.rs:96).
THEOREM WakesInTimeSafe == Spec => []WakesInTime
  <1>1. Init => WakesInTime
    BY DEF Init, WakesInTime, LeaseState, LeaseOver
  <1> QED
    BY <1>1, NextWakes, Inductive, PTL DEF Spec

\* Only OfferGuard starts a lease, where none has been; only an Active one moves on.
LEMMA NextNeverRevives ==
  ASSUME IInv, Next, NEW p \in Owners, LeaseState(p) \in {"Lost", "Released"}
  PROVE  LeaseState(p)' \in {LeaseState(p), "Lost", "Released"}
  <1> USE DEF LeaseState
  <1>1. TypeOK /\ Phases
    BY DEF IInv
  <1>2. CASE Tick
    BY <1>2 DEF Tick, Refresh, LeaseOver
  <1>3. ASSUME NEW o \in Owners, AcquireStep(o)
        PROVE  lease'[p].state \in {lease[p].state, "Lost", "Released"}
    BY <1>1, <1>3 DEF AcquireStep, StartAttempt, GiveUp, AcquireFailed, RejectAcquired,
                      OfferGuard, ClaimGuard, DiscardGuard, EndLease, LeaseOver, TypeOK, Phases
  <1>4. ASSUME NEW o \in Owners, RenewStep(o)
        PROVE  lease'[p].state \in {lease[p].state, "Lost", "Released"}
    BY <1>1, <1>4 DEF RenewStep, RenewStop, RenewArm, RenewSend, RenewConfirmed, CanRenew,
                      RenewDenied, RenewFailed, Lose, LeaseOver, TypeOK
  <1>5. ASSUME NEW o \in Owners, GuardStep(o)
        PROVE  lease'[p].state \in {lease[p].state, "Lost", "Released"}
    BY <1>1, <1>5 DEF GuardStep, ReleaseGuard, ReleaseDone, ReleaseFailed, DropGuard,
                      Lose, EndLease, LeaseOver, TypeOK
  <1>6. ASSUME NEW o \in Owners, ServeStep(o) PROVE lease' = lease
    BY <1>6 DEF ServeStep, ServeAcquire, ServeRenew, ServeRelease
  <1> QED
    BY <1>2, <1>3, <1>4, <1>5, <1>6 DEF Next

\* A lease that is lost or released never becomes Active again, whatever reply
\* still arrives (lease.rs:72, lease.rs:89, lease.rs:97).
THEOREM NeverRevivesSafe == Spec => NeverRevives
  <1>1. IInv /\ [Next]_vars =>
          [\A o \in Owners : LeaseState(o) \in {"Lost", "Released"} =>
             LeaseState(o)' \in {LeaseState(o), "Lost", "Released"}]_vars
    BY NextNeverRevives
  <1> QED
    BY <1>1, Inductive, PTL DEF Spec, NeverRevives
-------------------------------------------------------------------------------
(* Commands on their way *)

\* An acquisition in flight is that of the attempt under way, or was given up
\* for good.
Served ==
  \A o \in Owners :
    /\ sup[o] \in {"idle"} \cup Replies => AcquiresOf(o) = {}
    /\ sup[o] = "sent" => AcquiresOf(o) \subseteq {Acquire(o, attempt[o])}
    /\ guard[o] # "none" => AcquiresOf(o) = {}

\* No step but StartAttempt sends an acquisition.
LEMMA FewerAcquires ==
  ASSUME NEW o \in Owners, \A c \in net' : c \in net \/ c.op # "acquire"
  PROVE  AcquiresOf(o)' \subseteq AcquiresOf(o)
  BY DEF AcquiresOf

\* A guard is offered after the reply of the last attempt, and ends the loop.
LEMMA NextServed == IInv /\ Served /\ [Next]_vars => Served'
  <1> SUFFICES ASSUME IInv, Served, [Next]_vars PROVE Served'
    OBVIOUS
  <1>1. TypeOK /\ Phases
    BY DEF IInv
  <1>2. ASSUME \A c \in net' : c \in net \/ c.op # "acquire",
               \A p \in Owners : \/ sup'[p] = sup[p] /\ attempt'[p] = attempt[p]
                                 \/ sup'[p] = "done"
                                 \/ AcquiresOf(p)' = {},
               \A p \in Owners : guard'[p] # "none" =>
                                   guard[p] # "none" \/ AcquiresOf(p) = {}
        PROVE  Served'
    BY <1>2, FewerAcquires DEF Served, Replies, AcquiresOf, Acquire
  <1>3. CASE Tick
    BY <1>2, <1>3 DEF Tick, acquisition
  <1>4. ASSUME NEW o \in Owners, AcquireStep(o) PROVE Served'
    <2>1. CASE StartAttempt(o)
      <3>1. AcquiresOf(o) = {} /\ guard[o] = "none"
        BY <1>1, <2>1 DEF StartAttempt, Served, Phases, Replies
      <3>2. AcquiresOf(o)' \subseteq {Acquire(o, clock)}
        BY <2>1, <3>1 DEF StartAttempt, AcquiresOf, Acquire
      <3>3. ASSUME NEW p \in Owners \ {o} PROVE AcquiresOf(p)' \subseteq AcquiresOf(p)
        BY <2>1 DEF StartAttempt, AcquiresOf, Acquire
      <3>4. /\ sup' = [sup EXCEPT ![o] = "sent"] /\ attempt' = [attempt EXCEPT ![o] = clock]
            /\ guard' = guard
        BY <2>1 DEF StartAttempt
      <3>5. sup'[o] = "sent" /\ attempt'[o] = clock
            /\ \A p \in Owners \ {o} : sup'[p] = sup[p] /\ attempt'[p] = attempt[p]
        BY <1>1, <3>4 DEF TypeOK
      <3>6. Acquire(o, attempt[o])' = Acquire(o, clock)
        BY <3>5 DEF Acquire
      <3>7. ASSUME NEW p \in Owners \ {o}
            PROVE  Acquire(p, attempt[p])' = Acquire(p, attempt[p])
        BY <3>5 DEF Acquire
      <3> QED
        BY <3>1, <3>2, <3>3, <3>4, <3>5, <3>6, <3>7 DEF Served, Replies
    <2>2. CASE OfferGuard(o)
      <3>1. AcquiresOf(o) = {}
        BY <2>2 DEF OfferGuard, Served, Replies
      <3> QED
        BY <1>1, <1>2, <2>2, <3>1 DEF OfferGuard, EndAcquisition, TypeOK
    <2>3. CASE GiveUp(o) \/ AcquireFailed(o) \/ RejectAcquired(o)
      BY <1>1, <1>2, <2>3 DEF GiveUp, AcquireFailed, RejectAcquired, EndAcquisition,
                              Release, TypeOK
    <2>4. CASE ClaimGuard(o) \/ DiscardGuard(o)
      BY <1>1, <1>2, <2>4 DEF ClaimGuard, DiscardGuard, Release, acquisition, TypeOK
    <2> QED
      BY <1>4, <2>1, <2>2, <2>3, <2>4 DEF AcquireStep
  <1>5. ASSUME NEW o \in Owners, RenewStep(o) PROVE Served'
    BY <1>2, <1>5 DEF RenewStep, RenewStop, RenewArm, RenewSend, RenewConfirmed,
                      RenewDenied, RenewFailed, Renew, acquisition
  <1>6. ASSUME NEW o \in Owners, GuardStep(o) PROVE Served'
    BY <1>1, <1>2, <1>6 DEF GuardStep, ReleaseGuard, ReleaseDone, ReleaseFailed, DropGuard,
                            Release, acquisition, TypeOK
  <1>7. ASSUME NEW o \in Owners, ServeStep(o) PROVE Served'
    <2>1. ASSUME NEW start \in 0..MaxClock, ServeAcquire(o, start) PROVE Served'
      <3>1. net' = net \ {Acquire(o, start)} /\ attempt' = attempt /\ guard' = guard
        BY <2>1 DEF ServeAcquire
      <3>2. CASE sup' = sup
        BY <1>2, <3>1, <3>2
      <3>3. CASE sup[o] = "sent" /\ attempt[o] = start /\ sup' # sup
        <4>1. AcquiresOf(o)' = {}
          BY <3>1, <3>3 DEF Served, AcquiresOf
        <4>2. \A p \in Owners \ {o} : sup'[p] = sup[p]
          BY <1>1, <2>1 DEF ServeAcquire, TypeOK
        <4> QED
          BY <1>2, <3>1, <4>1, <4>2
      <3> QED
        BY <2>1, <3>2, <3>3 DEF ServeAcquire
    <2>2. ASSUME NEW start \in 0..MaxClock, ServeRenew(o, start) PROVE Served'
      BY <1>2, <2>2 DEF ServeRenew, acquisition
    <2>3. CASE ServeRelease(o)
      BY <1>1, <1>2, <2>3 DEF ServeRelease, acquisition, TypeOK
    <2> QED
      BY <1>7, <2>1, <2>2, <2>3 DEF ServeStep
  <1>8. CASE UNCHANGED vars
    BY <1>2, <1>8 DEF vars
  <1> QED
    BY <1>3, <1>4, <1>5, <1>6, <1>7, <1>8 DEF Next

\* Nothing is on its way before the first step.
LEMMA InitServed == Init => Served
  BY DEF Init, Served, AcquiresOf

\* A guard exists only when no acquisition of its owner is still on its way
\* (guard.rs:277).
THEOREM GuardMeansServedSafe == Spec => []GuardMeansServed
  <1>1. Served => GuardMeansServed
    BY DEF Served, GuardMeansServed
  <1> QED
    BY <1>1, InitServed, NextServed, Inductive, PTL DEF Spec
-------------------------------------------------------------------------------
(* Other owners *)

\* A command of owner o leaves the holds of the other owners as they are.
LEMMA ServeSameHold ==
  ASSUME IInv, NEW o \in Owners, ServeStep(o), NEW p \in Owners \ {o}, NEW k \in Keys
  PROVE  now' = now /\ SameHold(p, db[k], db'[k])
  <1>1. StoreOK /\ now \in Nat /\ KeyOK(db[k])
    BY KeysStore DEF IInv, StoreOK
  <1>2. ASSUME NEW start \in 0..MaxClock, ServeAcquire(o, start)
        PROVE  now' = now /\ SameHold(p, db[k], db'[k])
    <2>1. PICK reply \in Replies : AcquireLock(o, reply)
      BY <1>2 DEF ServeAcquire
    <2>2. UseMove(db[k], db'[k], o)
      BY <1>1, <2>1, AcquireMoves
    <2> QED
      BY <1>1, <1>2, <2>2, UseMoveHolds DEF ServeAcquire
  <1>3. ASSUME NEW start \in 0..MaxClock, ServeRenew(o, start)
        PROVE  now' = now /\ SameHold(p, db[k], db'[k])
    <2>1. PICK reply \in Replies : RenewLock(o, reply)
      BY <1>3 DEF ServeRenew
    <2>2. UseMove(db[k], db'[k], o)
      BY <1>1, <2>1, RenewMoves
    <2> QED
      BY <1>1, <1>3, <2>2, UseMoveHolds DEF ServeRenew
  <1>4. ASSUME ServeRelease(o)
        PROVE  now' = now /\ SameHold(p, db[k], db'[k])
    <2>1. PICK reply \in {"ok", "no"} : ReleaseLock(o, reply)
      BY <1>4 DEF ServeRelease
    <2>2. ReleaseMove(db[k], db'[k], o)
      BY <1>1, <2>1, ReleaseMoves
    <2> QED
      BY <1>1, <1>4, <2>2, ReleaseMoveHolds DEF ServeRelease
  <1> QED
    BY <1>2, <1>3, <1>4 DEF ServeStep

\* What the execution of a command of owner o means to the other owners.
LEMMA ServeOthers ==
  ASSUME IInv, NEW o \in Owners, ServeStep(o), NEW p \in Owners \ {o}, NEW k \in Keys
  PROVE  now' = now /\ (Holds(p, k)' <=> Holds(p, k))
  <1>1. now' = now /\ SameHold(p, db[k], db'[k])
    BY ServeSameHold
  <1> QED
    BY <1>1, SameHoldHolds, HoldsBoth

\* No command of one owner takes a living key from another (scripts.rs:98).
THEOREM NoForeignRemovalSafe == Spec => NoForeignRemoval
  <1>1. ASSUME IInv, NEW o \in Owners, ServeStep(o), NEW p \in Owners \ {o},
               NEW k \in KeysOf(p), Holds(p, k)
        PROVE  Holds(p, k)'
    BY <1>1, ServeOthers, KeysOfType
  <1>2. IInv /\ [Next]_vars =>
          [\A o \in Owners : ServeStep(o) =>
             \A p \in Owners \ {o} : \A k \in KeysOf(p) : Holds(p, k) => Holds(p, k)']_vars
    BY <1>1
  <1> QED
    BY <1>2, Inductive, PTL DEF Spec, NoForeignRemoval
-------------------------------------------------------------------------------
(* After release *)

\* Time gives nobody a key.
LEMMA TickTakes ==
  ASSUME IInv, Tick, NEW p \in Owners, NEW k \in Keys, Holds(p, k)'
  PROVE  Holds(p, k)
  <1>1. now' >= now /\ now \in Nat /\ now' \in Nat /\ p # NoOwner /\ db[k] \in KeyValue
    BY StoreAssumption DEF IInv, TypeOK, TimeOK, Tick
  <1>2. db'[k] = NoKey \/ db'[k] = db[k]
    BY DEF Tick, ExpireKeys
  <1>3. \A e \in db[k].zset : LiveScore(p, e.score)' => LiveScore(p, e.score)
    BY <1>1 DEF LiveScore, KeyValue, Holder
  <1> QED
    BY <1>1, <1>2, <1>3 DEF Holds, NoKey

\* Only an acquisition of its own could give a key back to an owner whose release
\* was executed, and none is left by then.
LEMMA NextGone == IInv /\ Served /\ ReleasedMeansGone /\ [Next]_vars => ReleasedMeansGone'
  <1> SUFFICES ASSUME IInv, Served, ReleasedMeansGone, [Next]_vars
               PROVE  ReleasedMeansGone'
    OBVIOUS
  <1>1. TypeOK /\ Phases /\ StoreOK
    BY KeysStore DEF IInv
  <1>2. ASSUME UNCHANGED store,
               \A p \in Owners : guard'[p] \in {"replied", "released"} =>
                                   guard[p] \in {"replied", "released"}
        PROVE  ReleasedMeansGone'
    BY <1>2 DEF store, ReleasedMeansGone, Holds, LiveScore
  <1>3. CASE Tick
    BY <1>3, TickTakes, KeysOfType DEF Tick, ReleasedMeansGone
  <1>4. ASSUME NEW o \in Owners, AcquireStep(o) PROVE ReleasedMeansGone'
    BY <1>1, <1>2, <1>4 DEF AcquireStep, StartAttempt, GiveUp, AcquireFailed, RejectAcquired,
                            OfferGuard, ClaimGuard, DiscardGuard, TypeOK
  <1>5. ASSUME NEW o \in Owners, RenewStep(o) PROVE ReleasedMeansGone'
    BY <1>2, <1>5 DEF RenewStep, RenewStop, RenewArm, RenewSend, RenewConfirmed,
                      RenewDenied, RenewFailed
  <1>6. ASSUME NEW o \in Owners, GuardStep(o) PROVE ReleasedMeansGone'
    BY <1>1, <1>2, <1>6 DEF GuardStep, ReleaseGuard, ReleaseDone, ReleaseFailed, DropGuard,
                            TypeOK
  <1>7. ASSUME NEW o \in Owners, ServeStep(o) PROVE ReleasedMeansGone'
    <2>1. ASSUME NEW p \in Owners \ {o}, guard'[p] \in {"replied", "released"},
                 NEW k \in KeysOf(p)
          PROVE  ~Holds(p, k)'
      <3>1. guard[p] = guard'[p]
        BY <1>1, <1>7 DEF ServeStep, ServeAcquire, ServeRenew, ServeRelease, TypeOK
      <3> QED
        BY <1>7, <2>1, <3>1, ServeOthers, KeysOfType DEF ReleasedMeansGone
    <2>2. ASSUME guard'[o] \in {"replied", "released"}, NEW k \in KeysOf(o)
          PROVE  ~Holds(o, k)'
      <3>1. ASSUME NEW start \in 0..MaxClock, ServeAcquire(o, start) PROVE FALSE
        <4>1. guard[o] # "none"
          BY <2>2, <3>1 DEF ServeAcquire
        <4> QED
          BY <3>1, <4>1 DEF ServeAcquire, Served, AcquiresOf, Acquire
      <3>2. ASSUME NEW start \in 0..MaxClock, ServeRenew(o, start) PROVE ~Holds(o, k)'
        <4>1. PICK reply \in Replies : RenewLock(o, reply)
          BY <3>2 DEF ServeRenew
        <4>2. ~Holds(o, k) /\ now' = now
          BY <2>2, <3>2 DEF ServeRenew, ReleasedMeansGone
        <4> QED
          BY <1>1, <2>2, <4>1, <4>2, RenewOnlyHeld, HoldsBoth
      <3>3. ASSUME ServeRelease(o) PROVE ~Holds(o, k)'
        <4>1. PICK reply \in {"ok", "no"} : ReleaseLock(o, reply)
          BY <3>3 DEF ServeRelease
        <4> QED
          BY <1>1, <2>2, <3>3, <4>1, ReleaseLeavesNone, HoldsBoth DEF ServeRelease
      <3> QED
        BY <1>7, <3>1, <3>2, <3>3 DEF ServeStep
    <2> QED
      BY <2>1, <2>2 DEF ReleasedMeansGone
  <1>8. CASE UNCHANGED vars
    BY <1>2, <1>8 DEF vars, store
  <1> QED
    BY <1>3, <1>4, <1>5, <1>6, <1>7, <1>8 DEF Next

\* Once release has returned, Redis holds nothing of the owner, and no command
\* still on its way brings it back (GuardData::release).
THEOREM ReleasedMeansGoneSafe == Spec => []ReleasedMeansGone
  <1>1. Init => ReleasedMeansGone
    BY DEF Init, ReleasedMeansGone
  <1> QED
    BY <1>1, InitServed, NextServed, NextGone, Inductive, PTL DEF Spec
-------------------------------------------------------------------------------
\* Where every lock is a mutex, Active needs no margin: Redis honours the owner to
\* the client's own deadline (lease.rs:9).  A reader or writer may be Active for
\* less than a millisecond more.
THEOREM MutexActiveIsBacked ==
  ASSUME \A o \in Owners : IsMutex(o)
  PROVE  Spec => []ActiveIsBacked
  <1>1. IInv /\ LeaseBacked => ActiveIsBacked
    <2> SUFFICES ASSUME IInv, LeaseBacked, NEW o \in Owners, LeaseState(o) = "Active"
                 PROVE  \A k \in KeysOf(o) : Holds(o, k)
      BY DEF ActiveIsBacked
    <2>1. Grace(o) = 0
      BY DEF Grace
    <2>2. clock \in Nat /\ clock < lease[o].start + Ttl[o]
      BY DEF IInv, TimeOK, LeaseInTime, LeaseState
    <2>3. Honoured(o)
      BY <2>1, <2>2 DEF Honoured
    <2> QED
      BY <2>3 DEF LeaseBacked
  <1> QED
    BY <1>1, Inductive, LeaseBackedSafe, PTL
-------------------------------------------------------------------------------
(* All keys or none *)

\* Value w of one key of p shows whatever hold on p value v of another shows: a
\* mutex with the same expiry, or the same entry.
Mirrors(p, v, w) ==
  IF IsMutex(p) THEN v.str = p => w.str = p /\ w.pexpire = v.pexpire
  ELSE \A e \in v.zset : e.owner = p /\ LiveScore(p, e.score) => e \in w.zset

Uniform == \A p \in Owners : \A j, k \in KeysOf(p) : Mirrors(p, db[j], db[k])

\* A step that changes p's hold on no key keeps its keys alike.
LEMMA SameHoldsUniform ==
  ASSUME NEW p \in Owners, Uniform, now' = now,
         \A k \in KeysOf(p) : SameHold(p, db[k], db'[k])
  PROVE  \A j, k \in KeysOf(p) : Mirrors(p, db[j], db[k])'
  BY DEF Uniform, Mirrors, SameHold, LiveScore

\* So does a command of p that only purges.
LEMMA RefusedUniform ==
  ASSUME NEW p \in Owners, Uniform, StoreOK, now' = now,
         \A k \in Keys : OnlyPurged(db[k], db'[k], p)
  PROVE  \A j, k \in KeysOf(p) : Mirrors(p, db[j], db[k])'
  BY KeysOfType, PurgedSameHold, SameHoldsUniform DEF StoreOK

\* A command that succeeds writes the same hold to every key of its owner
\* (scripts.rs: the second loop, after the last check).
LEMMA GrantUniform ==
  ASSUME NEW o \in Owners, now' = now, \A k \in KeysOf(o) : GrantMove(db[k], db'[k], o)
  PROVE  \A j, k \in KeysOf(o) : Mirrors(o, db[j], db[k])'
  <1>1. CASE IsMutex(o)
    BY <1>1 DEF GrantMove, MutexKey, Mirrors
  <1>2. CASE ~IsMutex(o)
    <2>1. ASSUME NEW k \in KeysOf(o)
          PROVE  db'[k].zset = Others(Purge(db[k]), o) \cup {[owner |-> o, score |-> Score(o)]}
      BY <1>2, AddHolderFields DEF GrantMove
    <2> QED
      BY <1>2, <2>1 DEF Mirrors, Others
  <1> QED
    BY <1>1, <1>2

\* Keys that show the same hold expire together: a holder's entry lies within the
\* expiry of its key, so a key with a living entry is not dropped.
LEMMA TickUniform == IInv /\ Uniform /\ Tick => Uniform'
  <1> SUFFICES ASSUME IInv, Uniform, Tick, NEW p \in Owners,
                      NEW j \in KeysOf(p), NEW k \in KeysOf(p)
               PROVE  Mirrors(p, db[j], db[k])'
    BY DEF Uniform
  <1>1. /\ j \in Keys /\ k \in Keys /\ KeyOK(db[j]) /\ KeyOK(db[k]) /\ p # NoOwner
        /\ now \in Nat /\ now' \in Nat /\ now <= now' /\ Ms \in Nat \ {0}
    BY KeysOfType, StoreAssumption DEF IInv, TypeOK, TimeOK, KeysOK, Tick
  <1>2. /\ db'[j] = IF Expired(db[j], now') THEN NoKey ELSE db[j]
        /\ db'[k] = IF Expired(db[k], now') THEN NoKey ELSE db[k]
    BY <1>1 DEF Tick, ExpireKeys
  <1>3. Mirrors(p, db[j], db[k])
    BY DEF Uniform
  <1>4. CASE IsMutex(p)
    BY <1>1, <1>2, <1>3, <1>4 DEF Mirrors, NoKey, Expired
  <1>5. CASE ~IsMutex(p)
    <2> SUFFICES ASSUME NEW e \in db'[j].zset, e.owner = p, LiveScore(p, e.score)'
                 PROVE  e \in db'[k].zset
      BY <1>5 DEF Mirrors
    <2>1. e \in db[j].zset /\ e.score \in Int
      BY <1>1, <1>2 DEF NoKey, KeyOK, KeyValue, Holder
    <2>2. LiveScore(p, e.score)
      BY <1>1, <2>1 DEF LiveScore
    <2>3. e \in db[k].zset
      BY <1>3, <1>5, <2>1, <2>2 DEF Mirrors
    <2>4. db[k].pexpire \in Int /\ e.score <= db[k].pexpire /\ -e.score <= db[k].pexpire
      BY <1>1, <2>3 DEF KeyOK, KeyValue
    <2>5. db[k].pexpire > now'
      BY <1>1, <2>1, <2>4 DEF LiveScore
    <2>6. ~Expired(db[k], now')
      BY <1>1, <2>4, <2>5 DEF Expired
    <2> QED
      BY <1>2, <2>3, <2>6
  <1> QED
    BY <1>4, <1>5

\* A command leaves the other owners' holds alone; those of its own it grants,
\* leaves or removes on every key.
LEMMA ServeUniform ==
  ASSUME IInv, Uniform, NEW o \in Owners, ServeStep(o)
  PROVE  Uniform'
  <1>1. StoreOK
    BY KeysStore DEF IInv
  <1>2. ASSUME NEW p \in Owners \ {o} PROVE \A j, k \in KeysOf(p) : Mirrors(p, db[j], db[k])'
    <2>1. \A k \in KeysOf(p) : SameHold(p, db[k], db'[k]) /\ now' = now
      BY KeysOfType, ServeSameHold
    <2>2. now' = now
      BY <2>1, KeysOfType
    <2> QED
      BY <2>1, <2>2, SameHoldsUniform
  <1>3. \A j, k \in KeysOf(o) : Mirrors(o, db[j], db[k])'
    <2>1. ASSUME NEW start \in 0..MaxClock, ServeAcquire(o, start)
          PROVE  \A j, k \in KeysOf(o) : Mirrors(o, db[j], db[k])'
      <3>1. now' = now
        BY <2>1 DEF ServeAcquire
      <3>2. PICK reply \in Replies : AcquireLock(o, reply)
        BY <2>1 DEF ServeAcquire
      <3>3. CASE reply = "ok"
        BY <1>1, <3>1, <3>2, <3>3, AcquireMoves, GrantUniform
      <3>4. CASE reply # "ok"
        BY <1>1, <3>1, <3>2, <3>4, AcquireRefused, RefusedUniform
      <3> QED
        BY <3>3, <3>4
    <2>2. ASSUME NEW start \in 0..MaxClock, ServeRenew(o, start)
          PROVE  \A j, k \in KeysOf(o) : Mirrors(o, db[j], db[k])'
      <3>1. now' = now
        BY <2>2 DEF ServeRenew
      <3>2. PICK reply \in Replies : RenewLock(o, reply)
        BY <2>2 DEF ServeRenew
      <3>3. CASE reply = "ok"
        BY <1>1, <3>1, <3>2, <3>3, RenewMoves, GrantUniform
      <3>4. CASE reply # "ok"
        BY <1>1, <3>1, <3>2, <3>4, RenewRefused, RefusedUniform
      <3> QED
        BY <3>3, <3>4
    <2>3. ASSUME ServeRelease(o)
          PROVE  \A j, k \in KeysOf(o) : Mirrors(o, db[j], db[k])'
      <3>1. now' = now
        BY <2>3 DEF ServeRelease
      <3>2. PICK reply \in {"ok", "no"} : ReleaseLock(o, reply)
        BY <2>3 DEF ServeRelease
      <3>3. \A k \in KeysOf(o) : ~HoldsIn(o, db'[k])
        BY <1>1, <3>2, ReleaseLeavesNone
      <3> QED
        BY <3>1, <3>3 DEF HoldsIn, Mirrors, LiveScore
    <2> QED
      BY <2>1, <2>2, <2>3 DEF ServeStep
  <1> QED
    BY <1>2, <1>3 DEF Uniform

\* Only Redis' clock and its commands change a key.
LEMMA NextUniform == IInv /\ Uniform /\ [Next]_vars => Uniform'
  <1> SUFFICES ASSUME IInv, Uniform, [Next]_vars PROVE Uniform'
    OBVIOUS
  <1>1. CASE UNCHANGED store
    BY <1>1 DEF store, Uniform, Mirrors, LiveScore
  <1>2. CASE Tick
    BY <1>2, TickUniform
  <1>3. ASSUME NEW o \in Owners, AcquireStep(o) \/ RenewStep(o) \/ GuardStep(o)
        PROVE  UNCHANGED store
    BY <1>3 DEF AcquireStep, StartAttempt, GiveUp, AcquireFailed, RejectAcquired, OfferGuard,
                ClaimGuard, DiscardGuard, RenewStep, RenewStop, RenewArm, RenewSend,
                RenewConfirmed, RenewDenied, RenewFailed, GuardStep, ReleaseGuard,
                ReleaseDone, ReleaseFailed, DropGuard
  <1>4. ASSUME NEW o \in Owners, ServeStep(o) PROVE Uniform'
    BY <1>4, ServeUniform
  <1>5. CASE UNCHANGED vars
    BY <1>1, <1>5 DEF vars, store
  <1> QED
    BY <1>1, <1>2, <1>3, <1>4, <1>5 DEF Next

\* An owner of several keys holds all or none of them at every moment: taken,
\* renewed, expired and released together (scripts.rs, multi-key scripts).
THEOREM AllOrNothingSafe == Spec => []AllOrNothing
  <1>1. Init => Uniform
    <2> SUFFICES ASSUME Init, NEW p \in Owners, NEW j \in KeysOf(p), NEW k \in KeysOf(p)
                 PROVE  Mirrors(p, db[j], db[k])
      BY DEF Uniform
    <2>1. db[j] = NoKey /\ db[k] = NoKey /\ p # NoOwner
      BY KeysOfType, StoreAssumption DEF Init
    <2> QED
      BY <2>1 DEF Mirrors, NoKey
  <1>2. Uniform => AllOrNothing
    BY DEF Uniform, Mirrors, AllOrNothing, Holds
  <1> QED
    BY <1>1, <1>2, NextUniform, Inductive, PTL DEF Spec
===============================================================================
