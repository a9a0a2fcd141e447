----------------------------- MODULE LockApiProofs -----------------------------
(***************************************************************************)
(* What the names and guard types of the public methods promise holds for  *)
(* any sequence of calls, on any keys and with any TTLs.                   *)
(***************************************************************************)
EXTENDS LockApi, RedisStoreProofs

(* Methods *)

\* What the name and the guard type of method m say of its request r.
Keeps(m, r) ==
  /\ r.target \in Roles
  /\ r.options = "given" <=> m \in TakesOptions
  /\ r.once <=> m \in ReturnsOption
  /\ r.target = "read" <=> r.guard \in SharedGuards

KeepsAll(table) == \A m \in DOMAIN table : Keeps(m, table[m])

\* Every method of both APIs asks for what its name and guard type say (the bodies
\* of the 48 methods of *lock.rs).
LEMMA TablesKeep ==
  /\ KeepsAll(AsyncMutex)
  /\ KeepsAll(AsyncMultiKeyMutex)
  /\ KeepsAll(AsyncRead)
  /\ KeepsAll(AsyncWrite)
  /\ KeepsAll(AsyncMultiKeyRead)
  /\ KeepsAll(AsyncMultiKeyWrite)
  /\ KeepsAll(SyncMutex)
  /\ KeepsAll(SyncMultiKeyMutex)
  /\ KeepsAll(SyncRwRetrying)
  /\ KeepsAll(SyncRwOnce)
  /\ KeepsAll(SyncMultiKeyRwRetrying)
  /\ KeepsAll(SyncMultiKeyRwOnce)
  <1> USE DEF KeepsAll, Keeps, Retrying, Once, Request, Roles, TakesOptions, ReturnsOption,
             SharedGuards
  <1>1. KeepsAll(AsyncMutex)
    BY DEF AsyncMutex
  <1>2. KeepsAll(AsyncMultiKeyMutex)
    BY DEF AsyncMultiKeyMutex
  <1>3. KeepsAll(AsyncRead)
    BY DEF AsyncRead
  <1>4. KeepsAll(AsyncWrite)
    BY DEF AsyncWrite
  <1>5. KeepsAll(AsyncMultiKeyRead)
    BY DEF AsyncMultiKeyRead
  <1>6. KeepsAll(AsyncMultiKeyWrite)
    BY DEF AsyncMultiKeyWrite
  <1>7. KeepsAll(SyncMutex)
    BY DEF SyncMutex
  <1>8. KeepsAll(SyncMultiKeyMutex)
    BY DEF SyncMultiKeyMutex
  <1>9. KeepsAll(SyncRwRetrying)
    BY DEF SyncRwRetrying
  <1>10. KeepsAll(SyncRwOnce)
    BY DEF SyncRwOnce
  <1>11. KeepsAll(SyncMultiKeyRwRetrying)
    BY DEF SyncMultiKeyRwRetrying
  <1>12. KeepsAll(SyncMultiKeyRwOnce)
    BY DEF SyncMultiKeyRwOnce
  <1> QED
    BY <1>1, <1>2, <1>3, <1>4, <1>5, <1>6, <1>7, <1>8, <1>9, <1>10, <1>11, <1>12

\* Tables keep what they say when they are put together.
LEMMA MergeKeeps ==
  ASSUME NEW tables, \A t \in tables : KeepsAll(t)
  PROVE  KeepsAll(Merge(tables))
  <1> SUFFICES ASSUME NEW m \in UNION {DOMAIN t : t \in tables}
               PROVE  Keeps(m, (CHOOSE t \in tables : m \in DOMAIN t)[m])
    BY DEF KeepsAll, Merge
  <1>1. \E t \in tables : m \in DOMAIN t
    OBVIOUS
  <1> QED
    BY <1>1 DEF KeepsAll

\* So does every owner, and RedisStore knows it by its request.
LEMMA OwnerKeeps ==
  ASSUME NEW o \in Owners
  PROVE  /\ Keeps(o.method, RequestOf(o))
         /\ Role[o] = RequestOf(o).target
         /\ KeySeq[o] = IF GuardOf(o) \in MultiKeyGuards THEN KeyList ELSE <<SingleKey>>
         /\ Ttl[o] = IF o.method \in TakesOptions THEN GivenTtl ELSE DefaultTtl
  <1>1. KeepsAll(Api.async) /\ KeepsAll(Api.sync)
    BY TablesKeep, MergeKeeps DEF Api
  <1>2. o.api \in {"async", "sync"} /\ o.method \in DOMAIN Api[o.api]
    <2>1. PICK n \in 1..MaxCalls :
            o \in [api : {CallApi[n]}, method : DOMAIN Api[CallApi[n]], n : {n}]
      BY ApiAssumption DEF ApiOwners
    <2>2. CallApi[n] \in {"async", "sync"}
      BY ApiAssumption DEF MaxCalls
    <2> QED
      BY <2>1, <2>2
  <1>3. Keeps(o.method, RequestOf(o))
    BY <1>1, <1>2 DEF RequestOf, KeepsAll
  <1>4. /\ Role[o] = RequestOf(o).target
        /\ KeySeq[o] = IF GuardOf(o) \in MultiKeyGuards THEN KeyList ELSE <<SingleKey>>
        /\ Ttl[o] = IF RequestOf(o).options = "given" THEN GivenTtl ELSE DefaultTtl
    BY ApiAssumption DEF ApiRole, ApiKeySeq, ApiTtl
  <1> QED
    BY <1>3, <1>4 DEF Keeps

\* So the keys and the TTL that a caller asked for are those of its lease.
LEMMA AskedIsHeld ==
  ASSUME NEW c, c.owner \in Owners
  PROVE  /\ KeysAsked(c) = KeysOf(c.owner)
         /\ AskedTtl(c) = Ttl[c.owner]
         /\ GuardOf(c.owner) \in SharedGuards <=> Role[c.owner] = "read"
  <1> DEFINE o == c.owner
  <1>1. /\ KeySeq[o] = IF GuardOf(o) \in MultiKeyGuards THEN KeyList ELSE <<SingleKey>>
        /\ Ttl[o] = IF o.method \in TakesOptions THEN GivenTtl ELSE DefaultTtl
        /\ GuardOf(o) \in SharedGuards <=> Role[o] = "read"
    BY OwnerKeeps DEF Keeps, GuardOf
  <1>2. KeysAsked(c) = KeysOf(o)
    <2>1. CASE GuardOf(o) \in MultiKeyGuards
      BY <1>1, <2>1 DEF KeysAsked, KeysOf
    <2>2. CASE GuardOf(o) \notin MultiKeyGuards
      <3>1. KeySeq[o] = <<SingleKey>> /\ DOMAIN KeySeq[o] = {1}
        BY <1>1, <2>2
      <3> QED
        BY <2>2, <3>1 DEF KeysAsked, KeysOf
    <2> QED
      BY <2>1, <2>2
  <1> QED
    BY <1>1, <1>2 DEF AskedTtl
-------------------------------------------------------------------------------
(* The inductive invariant *)

\* All but "panic", the status of a method whose expect(...) failed.
Statuses ==
  {"waiting", "timeout", "held", "lost", "unconfirmed", "released", "dropped", "gone",
   "error", "none"}

CallRecord ==
  [owner : Owners, timeout : {"none", "zero", "later"}, status : Statuses,
   sent : Nat, since : Nat]

\* Call number n: its UUID is its own, its lease did not begin in the future, and it
\* has sent no command that its timeout or `once` forbid.
CallOK(n, c) ==
  /\ c \in CallRecord
  /\ c.owner.n = n
  /\ c.since <= now
  /\ c.timeout = "zero" => c.sent = 0 /\ c.status = "timeout"
  /\ RequestOf(c.owner).once =>
       c.sent <= 1 /\ (c.status = "waiting" => c.sent = 0)

\* Key v records owner p until t at least.
RecordedTo(p, v, t) ==
  IF IsMutex(p) THEN v.str = p /\ v.pexpire >= t
  ELSE \E e \in v.zset : e.owner = p /\ Until(p, e) >= t

\* While its lease runs, Redis records a guard on all its keys to the lease's end.
BackedBy(c) ==
  LET ends == c.since + Ttl[c.owner] IN
  c.status = "held" /\ now < ends =>
    \A k \in KeysOf(c.owner) : RecordedTo(c.owner, db[k], ends)

\* Owner p has called, on key k among others, and has got beyond waiting.
Came(p, k) ==
  /\ k \in KeysOf(p)
  /\ \E j \in DOMAIN calls : calls[j].owner = p /\ calls[j].status # "waiting"

\* Nobody is in Redis that did not come; only writers have negative scores.
EnteredIn(k) ==
  /\ db[k].str # NoOwner => Came(db[k].str, k)
  /\ \A e \in db[k].zset : Came(e.owner, k) /\ (e.score < 0 => Role[e.owner] = "write")

CallsOK == calls \in Seq(CallRecord) /\ \A n \in DOMAIN calls : CallOK(n, calls[n])
Backed == \A n \in DOMAIN calls : BackedBy(calls[n])
Entered == \A k \in Keys : EnteredIn(k)

IInv == StoreOK /\ CallsOK /\ Backed /\ Entered
-------------------------------------------------------------------------------
(* Records *)

\* A script that succeeds records its owner for the TTL (PX, PEXPIRE, ZADD).
LEMMA GrantRecords ==
  ASSUME NEW o \in Owners, NEW v, NEW w, GrantMove(v, w, o), now \in Nat
  PROVE  RecordedTo(o, w, now + Ttl[o])
  <1>1. Ttl[o] \in Nat
    BY StoreAssumption
  <1>2. CASE IsMutex(o)
    BY <1>1, <1>2 DEF GrantMove, MutexKey, RecordedTo, Expiry
  <1>3. CASE ~IsMutex(o)
    <2> DEFINE e == [owner |-> o, score |-> Score(o)]
    <2>1. e \in w.zset
      BY <1>3, AddHolderFields DEF GrantMove
    <2>2. Until(o, e) = now + Ttl[o]
      BY <1>1 DEF Until, Score, Expiry
    <2> QED
      BY <1>1, <1>3, <2>1, <2>2 DEF RecordedTo
  <1> QED
    BY <1>2, <1>3

\* What leaves a living hold alone leaves its record.
LEMMA SameHoldRecords ==
  ASSUME NEW p \in Owners, NEW v, NEW w, KeyOK(v), SameHold(p, v, w), now \in Nat,
         NEW t \in Nat, now < t, RecordedTo(p, v, t)
  PROVE  RecordedTo(p, w, t)
  <1>1. CASE IsMutex(p)
    BY <1>1 DEF SameHold, RecordedTo
  <1>2. CASE ~IsMutex(p)
    <2>1. PICK e \in v.zset : e.owner = p /\ Until(p, e) >= t
      BY <1>2 DEF RecordedTo
    <2>2. e.score \in Int
      BY DEF KeyOK, KeyValue, Holder
    <2>3. LiveScore(p, e.score)
      BY <2>1, <2>2 DEF Until, LiveScore
    <2> QED
      BY <1>2, <2>1, <2>3 DEF SameHold, RecordedTo
  <1> QED
    BY <1>1, <1>2

\* Who is recorded beyond now holds the key.
LEMMA RecordedHolds ==
  ASSUME NEW p \in Owners, NEW v, KeyOK(v), now \in Nat, NEW t \in Nat, now < t,
         RecordedTo(p, v, t)
  PROVE  HoldsIn(p, v)
  <1>1. CASE IsMutex(p)
    BY <1>1 DEF HoldsIn, RecordedTo
  <1>2. CASE ~IsMutex(p)
    <2>1. PICK e \in v.zset : e.owner = p /\ Until(p, e) >= t
      BY <1>2 DEF RecordedTo
    <2>2. e.score \in Int
      BY DEF KeyOK, KeyValue, Holder
    <2> QED
      BY <1>2, <2>1, <2>2 DEF Until, LiveScore, HoldsIn
  <1> QED
    BY <1>1, <1>2

\* A key with a record does not expire before it.
LEMMA RecordedStays ==
  ASSUME NEW p \in Owners, NEW v, KeyOK(v), NEW t \in Nat, RecordedTo(p, v, t),
         NEW n \in Nat, n < t
  PROVE  ~Expired(v, n)
  <1>0. Ms \in Nat \ {0} /\ v.pexpire \in Int
    BY StoreAssumption DEF KeyOK, KeyValue
  <1>1. CASE IsMutex(p)
    BY <1>0, <1>1 DEF RecordedTo, Expired
  <1>2. CASE ~IsMutex(p)
    <2>1. PICK e \in v.zset : e.owner = p /\ Until(p, e) >= t
      BY <1>2 DEF RecordedTo
    <2>2. e.score \in Int /\ e.score <= v.pexpire /\ -e.score <= v.pexpire
      BY DEF KeyOK, KeyValue, Holder
    <2>3. v.pexpire >= t
      BY <1>0, <2>1, <2>2 DEF Until
    <2> QED
      BY <1>0, <2>3 DEF Expired
  <1> QED
    BY <1>1, <1>2
-------------------------------------------------------------------------------
(* The invariant holds *)

\* Nothing is recorded, and nobody has called.
LEMMA InitIInv == Init => IInv
  <1> SUFFICES ASSUME Init PROVE IInv
    OBVIOUS
  <1>1. StoreOK
    BY NoKeyOK DEF Init, StoreOK, KeyOK
  <1>2. CallsOK /\ Backed
    BY DEF Init, CallsOK, Backed
  <1>3. Entered
    BY DEF Init, Entered, EnteredIn, NoKey
  <1> QED
    BY <1>1, <1>2, <1>3 DEF IInv

\* What is in key k was there before.
Leaves(k) == db'[k].str \in {db[k].str, NoOwner} /\ db'[k].zset \subseteq db[k].zset

\* What a step of call i, of owner o, may do to key k.
KeyStep(o, k) ==
  /\ KeyOK(db'[k])
  /\ Joins(o, k)
  /\ \A p \in Owners \ {o} : SameHold(p, db[k], db'[k])

\* A call that changes only itself and its owner's records keeps the invariant: it
\* disturbs no other guard (every UUID is another).
LEMMA CallStep ==
  ASSUME IInv, now' = now, NEW i \in DOMAIN calls, NEW c,
         calls' = [calls EXCEPT ![i] = c],
         c.owner = calls[i].owner, CallOK(i, c),
         db' = [k \in Keys |-> db'[k]],
         \A k \in Keys : KeyStep(c.owner, k),
         c.status # "waiting" \/ \A k \in Keys : Leaves(k),
         calls[i].status # "waiting" => c.status # "waiting",
         c.status = "held" /\ now < c.since + Ttl[c.owner] =>
           \A k \in KeysOf(c.owner) : RecordedTo(c.owner, db'[k], c.since + Ttl[c.owner])
  PROVE  IInv'
  <1> DEFINE o == c.owner
  <1>0. /\ calls \in Seq(CallRecord) /\ c \in CallRecord /\ o \in Owners
        /\ calls' \in Seq(CallRecord) /\ DOMAIN calls' = DOMAIN calls
        /\ calls'[i] = c
        /\ \A n \in DOMAIN calls \ {i} : calls'[n] = calls[n]
    BY DEF IInv, CallsOK, CallOK, CallRecord
  <1>1. StoreOK'
    BY DEF IInv, StoreOK, KeyStep, KeyOK
  <1>2. CallsOK'
    BY <1>0 DEF IInv, CallsOK, CallOK
  <1>3. Backed'
    <2> SUFFICES ASSUME NEW n \in DOMAIN calls, calls'[n].status = "held",
                        now < calls'[n].since + Ttl[calls'[n].owner],
                        NEW k \in KeysOf(calls'[n].owner)
                 PROVE  RecordedTo(calls'[n].owner, db'[k],
                                   calls'[n].since + Ttl[calls'[n].owner])
      BY <1>0 DEF Backed, BackedBy, RecordedTo
    <2>1. CASE n = i
      BY <1>0, <2>1
    <2>2. CASE n # i
      <3> DEFINE p == calls[n].owner
                 t == calls[n].since + Ttl[p]
      <3>1. calls'[n] = calls[n] /\ calls[n] \in CallRecord /\ p \in Owners
        <4>1. calls'[n] = calls[n] /\ calls[n] \in CallRecord
          BY <1>0, <2>2
        <4> QED
          BY <4>1 DEF CallRecord
      <3>2. p # o
        <4>1. CallOK(n, calls[n])
          BY DEF IInv, CallsOK
        <4> QED
          BY <2>2, <4>1 DEF CallOK
      <3>3. k \in Keys /\ KeyOK(db[k]) /\ now \in Nat /\ t \in Nat
        BY <3>1, KeysOfType, StoreAssumption DEF IInv, StoreOK, CallRecord
      <3>4. RecordedTo(p, db[k], t)
        BY <3>1 DEF IInv, Backed, BackedBy
      <3>5. SameHold(p, db[k], db'[k])
        BY <3>1, <3>2, <3>3 DEF KeyStep
      <3> QED
        BY <3>1, <3>3, <3>4, <3>5, SameHoldRecords
    <2> QED
      BY <2>1, <2>2
  <1>4. Entered'
    <2> SUFFICES ASSUME NEW k \in Keys PROVE EnteredIn(k)'
      BY DEF Entered
    <2>1. ASSUME NEW p, Came(p, k) PROVE Came(p, k)'
      BY <1>0, <2>1 DEF Came
    <2>2. ASSUME c.status # "waiting", k \in KeysOf(o) PROVE Came(o, k)'
      BY <1>0, <2>2 DEF Came
    <2>3. EnteredIn(k) /\ Joins(o, k)
      BY DEF IInv, Entered, KeyStep
    <2>4. CASE Leaves(k)
      BY <2>1, <2>3, <2>4 DEF Leaves, EnteredIn
    <2>5. CASE c.status # "waiting"
      <3>1. ASSUME NEW p, p = db'[k].str, p # NoOwner PROVE Came(p, k)'
        <4>1. CASE p = db[k].str
          BY <2>1, <2>3, <3>1, <4>1 DEF EnteredIn
        <4>2. CASE k \in KeysOf(o) /\ p = o
          BY <2>2, <2>5, <4>2
        <4> QED
          BY <2>3, <3>1, <4>1, <4>2 DEF Joins
      <3>2. ASSUME NEW e \in db'[k].zset
            PROVE  Came(e.owner, k)' /\ (e.score < 0 => Role[e.owner] = "write")
        <4>1. CASE e \in db[k].zset
          BY <2>1, <2>3, <4>1 DEF EnteredIn
        <4>2. CASE k \in KeysOf(o) /\ e = [owner |-> o, score |-> Score(o)]
          <5>1. Came(e.owner, k)'
            BY <2>2, <2>5, <4>2
          <5>2. Role[o] # "write" => Score(o) >= 0
            BY <1>0, ExpiryType DEF Score, IInv, StoreOK
          <5>3. Score(o) \in Int
            BY <1>0, ExpiryType DEF IInv, StoreOK
          <5> QED
            BY <4>2, <5>1, <5>2, <5>3
        <4> QED
          BY <2>3, <4>1, <4>2 DEF Joins
      <3> QED
        BY <3>1, <3>2 DEF EnteredIn, Came
    <2> QED
      BY <2>4, <2>5
  <1> QED
    BY <1>1, <1>2, <1>3, <1>4 DEF IInv

\* acquire_lock and renew_lock touch their own keys, and no other owner's hold.
LEMMA UseKeyStep ==
  ASSUME StoreOK, NEW o \in Owners, NEW reply, AcquireLock(o, reply) \/ RenewLock(o, reply)
  PROVE  db' = [k \in Keys |-> db'[k]] /\ \A k \in Keys : KeyStep(o, k)
  <1>1. db' = [k \in Keys |-> db'[k]] /\ \A k \in Keys : UseMove(db[k], db'[k], o)
    BY AcquireMoves, RenewMoves
  <1>2. now \in Nat /\ \A k \in Keys : KeyOK(db[k])
    BY DEF StoreOK
  <1>3. ASSUME NEW k \in Keys PROVE KeyStep(o, k)
    <2>1. KeyOK(db'[k])
      BY <1>1, <1>2, UseMoveOK
    <2>2. Joins(o, k)
      BY UseJoins
    <2>3. \A p \in Owners \ {o} : SameHold(p, db[k], db'[k])
      BY <1>1, <1>2, UseMoveHolds
    <2> QED
      BY <2>1, <2>2, <2>3 DEF KeyStep
  <1> QED
    BY <1>1, <1>3

\* release_lock likewise, and it adds nobody.
LEMMA ReleaseKeyStep ==
  ASSUME StoreOK, NEW o \in Owners, NEW reply, ReleaseLock(o, reply)
  PROVE  db' = [k \in Keys |-> db'[k]] /\ \A k \in Keys : KeyStep(o, k)
  <1>1. db' = [k \in Keys |-> db'[k]] /\ \A k \in Keys : ReleaseMove(db[k], db'[k], o)
    BY ReleaseMoves
  <1>2. \A k \in Keys : KeyOK(db[k])
    BY DEF StoreOK
  <1>3. ASSUME NEW k \in Keys PROVE KeyStep(o, k)
    <2>1. KeyOK(db'[k])
      BY <1>1, <1>2, ReleaseMoveOK
    <2>2. Joins(o, k)
      <3>1. KeyOK(db[k]) /\ ReleaseMove(db[k], db'[k], o)
        BY <1>1, <1>2
      <3>2. CASE db[k].str = NoOwner /\ db'[k] = [db[k] EXCEPT !.zset = Others(db[k], o)]
        BY <3>1, <3>2 DEF KeyOK, KeyValue, Others, Joins
      <3>3. CASE db'[k] = NoKey
        BY <3>3 DEF NoKey, Joins
      <3>4. CASE db'[k] = db[k]
        BY <3>4 DEF Joins
      <3> QED
        BY <3>1, <3>2, <3>3, <3>4 DEF ReleaseMove
    <2>3. \A p \in Owners \ {o} : SameHold(p, db[k], db'[k])
      BY <1>1, <1>2, ReleaseMoveHolds
    <2> QED
      BY <2>1, <2>2, <2>3 DEF KeyStep
  <1> QED
    BY <1>1, <1>3

\* A step that sends no command.
LEMMA IdleKeyStep ==
  ASSUME StoreOK, NEW o \in Owners, UNCHANGED db
  PROVE  db' = [k \in Keys |-> db'[k]] /\ \A k \in Keys : KeyStep(o, k)
  BY DEF StoreOK, KeyStep, Joins, SameHold

\* A call that ends, or whose guard does, keeps the invariant.
LEMMA BecomeStep ==
  ASSUME IInv, now' = now, NEW i \in DOMAIN calls, NEW s \in Statuses \ {"waiting", "held"},
         calls[i].status # "timeout", Become(i, s),
         db' = [k \in Keys |-> db'[k]],
         \A k \in Keys : KeyStep(calls[i].owner, k)
  PROVE  IInv'
  <1> DEFINE c == [calls[i] EXCEPT !.status = s]
  <1>1. calls[i] \in CallRecord /\ CallOK(i, calls[i])
    BY DEF IInv, CallsOK, CallOK
  <1>2. /\ c \in CallRecord /\ c.owner = calls[i].owner /\ c.since = calls[i].since
        /\ c.status = s /\ c.sent = calls[i].sent /\ c.timeout = calls[i].timeout
    BY <1>1 DEF CallRecord
  <1>3. calls' = [calls EXCEPT ![i] = c]
    BY DEF Become
  <1> HIDE DEF c
  <1>4. CallOK(i, c)
    BY <1>1, <1>2 DEF CallOK
  <1>5. IInv'
    BY <1>2, <1>3, <1>4, CallStep
  <1> QED
    BY <1>5

\* Numbering: a new call has a UUID no earlier call has.
LEMMA CallIInv ==
  ASSUME IInv, NEW o \in Owners, Call(o)
  PROVE  IInv'
  <1>1. PICK timeout \in {"none", "zero", "later"} :
          /\ timeout # "none" => RequestOf(o).options = "given"
          /\ Start(o, timeout)
    BY DEF Call
  <1>2. now' = now /\ db' = db /\ o.n = Len(calls) + 1 /\ calls \in Seq(CallRecord)
        /\ now \in Nat
    BY DEF Call, IInv, CallsOK, StoreOK
  <1> DEFINE c == [owner |-> o, timeout |-> timeout,
                   status |-> IF timeout = "zero" THEN "timeout" ELSE "waiting",
                   sent |-> 0, since |-> now]
  <1>3. c \in CallRecord /\ calls' = Append(calls, c)
    BY <1>1, <1>2 DEF CallRecord, Statuses, Start
  <1>4. CallOK(Len(calls) + 1, c)
    BY <1>2, <1>3 DEF CallOK
  <1>5. c.status # "held"
    OBVIOUS
  <1> HIDE DEF c
  <1>6. /\ calls' \in Seq(CallRecord) /\ DOMAIN calls' = DOMAIN calls \cup {Len(calls) + 1}
        /\ calls'[Len(calls) + 1] = c
        /\ \A n \in DOMAIN calls : calls'[n] = calls[n]
    BY <1>2, <1>3
  <1>7. StoreOK'
    BY <1>2 DEF IInv, StoreOK, KeyOK
  <1>8. CallsOK'
    BY <1>2, <1>4, <1>6 DEF IInv, CallsOK, CallOK
  <1>9. Backed'
    BY <1>2, <1>5, <1>6 DEF IInv, Backed, BackedBy, RecordedTo
  <1>10. Entered'
    BY <1>2, <1>6 DEF IInv, Entered, EnteredIn, Came
  <1> QED
    BY <1>7, <1>8, <1>9, <1>10 DEF IInv

AfterSend(c, s) == [c EXCEPT !.status = s, !.sent = @ + 1]
AfterGrant(c, t) == [c EXCEPT !.status = "held", !.sent = @ + 1, !.since = t]

\* A call after one more command, as a record.
LEMMA SentFields ==
  ASSUME NEW c \in CallRecord, NEW s, NEW t
  PROVE  /\ AfterSend(c, s) =
              [owner |-> c.owner, timeout |-> c.timeout, status |-> s,
               sent |-> c.sent + 1, since |-> c.since]
         /\ AfterGrant(c, t) =
              [owner |-> c.owner, timeout |-> c.timeout, status |-> "held",
               sent |-> c.sent + 1, since |-> t]
  <1> DEFINE Rec(status, sent, since) ==
               [owner |-> c.owner, timeout |-> c.timeout, status |-> status,
                sent |-> sent, since |-> since]
  <1>1. c = Rec(c.status, c.sent, c.since)
    BY DEF CallRecord
  <1>2. AfterSend(c, s) = Rec(s, c.sent + 1, c.since)
    <2>1. [c EXCEPT !.status = s] = Rec(s, c.sent, c.since)
      BY <1>1
    <2>2. [Rec(s, c.sent, c.since) EXCEPT !.sent = c.sent + 1] = Rec(s, c.sent + 1, c.since)
      OBVIOUS
    <2> HIDE DEF Rec
    <2> QED
      BY <2>1, <2>2, Zenon DEF AfterSend
  <1>3. AfterGrant(c, t) = Rec("held", c.sent + 1, t)
    <2>1. [c EXCEPT !.status = "held"] = Rec("held", c.sent, c.since)
      BY <1>1
    <2>2. [Rec("held", c.sent, c.since) EXCEPT !.sent = c.sent + 1] =
            Rec("held", c.sent + 1, c.since)
      OBVIOUS
    <2>3. [Rec("held", c.sent + 1, c.since) EXCEPT !.since = t] = Rec("held", c.sent + 1, t)
      OBVIOUS
    <2> HIDE DEF Rec
    <2> QED
      BY <2>1, <2>2, <2>3, Zenon DEF AfterGrant
  <1> QED
    BY <1>2, <1>3, Zenon

\* An attempt: a reply "ok" makes a guard backed for the whole TTL, any other reply
\* leaves Redis without a trace of the call.
LEMMA AttemptIInv ==
  ASSUME IInv, NEW i \in DOMAIN calls, Attempt(i)
  PROVE  IInv'
  <1> DEFINE o == calls[i].owner
             C(s, since) == [owner |-> o, timeout |-> calls[i].timeout, status |-> s,
                             sent |-> calls[i].sent + 1, since |-> since]
  <1>1. /\ calls[i] \in CallRecord /\ CallOK(i, calls[i]) /\ o \in Owners /\ StoreOK
        /\ now \in Nat
    BY DEF IInv, CallsOK, CallOK, CallRecord, StoreOK
  <1>2. calls[i].status = "waiting" /\ now' = now
    BY DEF Attempt
  <1>3. PICK reply \in {"ok", "no", "err"} :
          /\ AcquireLock(o, reply)
          /\ \/ /\ reply = "ok"
                /\ calls' = [calls EXCEPT ![i].status = "held", ![i].sent = @ + 1,
                                          ![i].since = now]
             \/ reply = "err" /\ Sent(i, "error")
             \/ reply = "no" /\ ~RequestOf(o).once /\ Sent(i, "waiting")
             \/ reply = "no" /\ RequestOf(o).once /\ o.method \in ReturnsOption /\ Sent(i, "none")
             \/ reply = "no" /\ RequestOf(o).once /\ o.method \notin ReturnsOption /\ Sent(i, "panic")
    BY DEF Attempt
  <1>4. RequestOf(o).once <=> o.method \in ReturnsOption
    BY <1>1, OwnerKeeps DEF Keeps
  <1>5. db' = [k \in Keys |-> db'[k]] /\ \A k \in Keys : KeyStep(o, k)
    BY <1>1, <1>3, UseKeyStep
  <1>6. ASSUME NEW s \in Statuses, NEW since \in {calls[i].since, now},
               s = "waiting" => ~RequestOf(o).once
        PROVE  /\ CallOK(i, C(s, since)) /\ C(s, since).owner = o
               /\ C(s, since).status = s /\ C(s, since).since = since
    <2>1. C(s, since) \in CallRecord
      BY <1>1 DEF CallRecord
    <2> QED
      BY <1>1, <1>2, <1>6, <2>1 DEF CallOK
  <1>7. ASSUME NEW s, Sent(i, s) PROVE calls' = [calls EXCEPT ![i] = C(s, calls[i].since)]
    <2>1. AfterSend(calls[i], s) = C(s, calls[i].since)
      BY <1>1, SentFields, Zenon
    <2>2. calls' = [calls EXCEPT ![i] = AfterSend(calls[i], s)]
      BY <1>7 DEF Sent, AfterSend
    <2> QED
      BY <2>1, <2>2, Zenon
  <1>8. CASE reply = "ok"
    <2>1. AfterGrant(calls[i], now) = C("held", now)
      BY <1>1, SentFields, Zenon
    <2>2. calls' = [calls EXCEPT ![i] = C("held", now)]
      <3>1. calls' = [calls EXCEPT ![i] = AfterGrant(calls[i], now)]
        BY <1>3, <1>8 DEF AfterGrant
      <3> QED
        BY <2>1, <3>1, Zenon
    <2>3. \A k \in KeysOf(o) : GrantMove(db[k], db'[k], o)
      BY <1>1, <1>3, <1>8, AcquireMoves
    <2>4. \A k \in KeysOf(o) : RecordedTo(o, db'[k], now + Ttl[o])
      BY <1>1, <2>3, GrantRecords
    <2>5. /\ CallOK(i, C("held", now)) /\ C("held", now).owner = o
          /\ C("held", now).status = "held" /\ C("held", now).since = now
      BY <1>6 DEF Statuses
    <2> HIDE DEF C
    <2> QED
      BY <1>2, <1>5, <2>2, <2>4, <2>5, CallStep
  <1>9. CASE reply # "ok"
    <2>1. \A k \in Keys : Leaves(k)
      BY <1>1, <1>3, <1>9, AcquireRefused, PurgedJoins DEF Leaves, StoreOK
    <2>2. PICK s \in {"error", "waiting", "none"} :
            Sent(i, s) /\ (s = "waiting" => ~RequestOf(o).once)
      BY <1>3, <1>4, <1>9
    <2>3. /\ CallOK(i, C(s, calls[i].since)) /\ C(s, calls[i].since).owner = o
          /\ C(s, calls[i].since).status = s
          /\ calls' = [calls EXCEPT ![i] = C(s, calls[i].since)]
      BY <1>6, <1>7, <2>2 DEF Statuses
    <2> HIDE DEF C
    <2> QED
      BY <1>2, <1>5, <2>1, <2>2, <2>3, CallStep
  <1> QED
    BY <1>8, <1>9

\* A renewal backs the guard for another TTL, or the guard is lost.
LEMMA RenewIInv ==
  ASSUME IInv, NEW i \in DOMAIN calls, Renew(i)
  PROVE  IInv'
  <1> DEFINE o == calls[i].owner
             c == [calls[i] EXCEPT !.since = now]
  <1>1. /\ calls[i] \in CallRecord /\ CallOK(i, calls[i]) /\ o \in Owners /\ StoreOK
        /\ now \in Nat
    BY DEF IInv, CallsOK, CallOK, CallRecord, StoreOK
  <1>2. calls[i].status = "held" /\ now' = now
    BY DEF Renew
  <1>3. PICK reply \in {"ok", "no"} :
          /\ RenewLock(o, reply)
          /\ \/ reply = "ok" /\ calls' = [calls EXCEPT ![i].since = now]
             \/ Become(i, "lost")
    BY DEF Renew
  <1>4. db' = [k \in Keys |-> db'[k]] /\ \A k \in Keys : KeyStep(o, k)
    BY <1>1, <1>3, UseKeyStep
  <1>5. CASE reply = "ok" /\ calls' = [calls EXCEPT ![i].since = now]
    <2>1. calls' = [calls EXCEPT ![i] = c]
      BY <1>5
    <2>2. /\ c \in CallRecord /\ c.owner = o /\ c.status = "held" /\ c.since = now
          /\ c.sent = calls[i].sent /\ c.timeout = calls[i].timeout
      BY <1>1, <1>2 DEF CallRecord
    <2>3. \A k \in KeysOf(o) : GrantMove(db[k], db'[k], o)
      BY <1>1, <1>3, <1>5, RenewMoves
    <2>4. \A k \in KeysOf(o) : RecordedTo(o, db'[k], now + Ttl[o])
      BY <1>1, <2>3, GrantRecords
    <2> HIDE DEF c
    <2>5. CallOK(i, c)
      BY <1>1, <1>2, <2>2 DEF CallOK
    <2> QED
      BY <1>2, <1>4, <2>1, <2>2, <2>4, <2>5, CallStep
  <1>6. CASE Become(i, "lost")
    BY <1>2, <1>4, <1>6, BecomeStep DEF Statuses
  <1> QED
    BY <1>3, <1>5, <1>6

\* Releasing, dropping and giving up end this call's part only.
LEMMA EndIInv ==
  ASSUME IInv, NEW i \in DOMAIN calls,
         Deadline(i) \/ Release(i) \/ ReleaseFails(i) \/ Drop(i) \/ Background(i)
  PROVE  IInv'
  <1> DEFINE o == calls[i].owner
  <1>1. o \in Owners /\ StoreOK
    BY DEF IInv, CallsOK, CallOK, CallRecord
  <1>2. ASSUME NEW s \in Statuses \ {"waiting", "held"}, Become(i, s), now' = now,
               calls[i].status # "timeout",
               UNCHANGED db \/ \E reply \in {"ok", "no"} : ReleaseLock(o, reply)
        PROVE  IInv'
    <2>1. db' = [k \in Keys |-> db'[k]] /\ \A k \in Keys : KeyStep(o, k)
      BY <1>1, <1>2, IdleKeyStep, ReleaseKeyStep
    <2> QED
      BY <1>2, <2>1, BecomeStep
  <1>3. CASE Deadline(i)
    BY <1>2, <1>3 DEF Deadline, Statuses
  <1>4. CASE Release(i)
    BY <1>2, <1>4 DEF Release, Unreleased, Statuses
  <1>5. CASE ReleaseFails(i)
    BY <1>2, <1>5 DEF ReleaseFails, Unreleased, Statuses
  <1>6. CASE Drop(i)
    BY <1>2, <1>6 DEF Drop, Unreleased, Statuses
  <1>7. CASE Background(i)
    BY <1>2, <1>7 DEF Background, Statuses
  <1> QED
    BY <1>3, <1>4, <1>5, <1>6, <1>7

\* Redis drops no key before the lease of a guard on it has run out.
LEMMA TickIInv ==
  ASSUME IInv, Tick
  PROVE  IInv'
  <1>1. now \in Nat /\ now' \in Nat /\ now' > now /\ calls' = calls
    BY StoreAssumption DEF IInv, StoreOK, Tick
  <1>2. db' = [k \in Keys |-> IF Expired(db[k], now') THEN NoKey ELSE db[k]]
    BY DEF Tick, ExpireKeys
  <1>3. StoreOK'
    <2>1. \A k \in Keys : KeyOK(db'[k])
      BY <1>2, NoKeyOK DEF IInv, StoreOK
    <2> QED
      BY <1>1, <1>2, <2>1 DEF StoreOK, KeyOK
  <1>4. CallsOK'
    <2>1. ASSUME NEW n \in DOMAIN calls PROVE CallOK(n, calls[n])'
      <3>1. CallOK(n, calls[n]) /\ calls[n].since \in Nat
        BY DEF IInv, CallsOK, CallOK, CallRecord
      <3> QED
        BY <1>1, <3>1 DEF CallOK
    <2> QED
      BY <1>1, <2>1 DEF IInv, CallsOK
  <1>5. Backed'
    <2> SUFFICES ASSUME NEW n \in DOMAIN calls, calls[n].status = "held",
                        now' < calls[n].since + Ttl[calls[n].owner],
                        NEW k \in KeysOf(calls[n].owner)
                 PROVE  RecordedTo(calls[n].owner, db'[k],
                                   calls[n].since + Ttl[calls[n].owner])
      BY <1>1 DEF Backed, BackedBy, RecordedTo
    <2> DEFINE p == calls[n].owner
               t == calls[n].since + Ttl[p]
    <2>1. p \in Owners /\ calls[n].since \in Nat
      BY DEF IInv, CallsOK, CallOK, CallRecord
    <2>2. k \in Keys /\ KeyOK(db[k]) /\ t \in Nat
      BY <2>1, KeysOfType, StoreAssumption DEF IInv, StoreOK
    <2>3. RecordedTo(p, db[k], t)
      BY <1>1, <2>1, <2>2 DEF IInv, Backed, BackedBy
    <2>4. ~Expired(db[k], now')
      BY <1>1, <2>1, <2>2, <2>3, RecordedStays
    <2> QED
      BY <1>2, <2>2, <2>3, <2>4
  <1>6. Entered'
    BY <1>1, <1>2 DEF IInv, Entered, EnteredIn, Came, NoKey
  <1> QED
    BY <1>3, <1>4, <1>5, <1>6 DEF IInv

\* The invariant holds throughout, whatever is called in whatever order.
THEOREM Inductive == Spec => []IInv
  <1>1. IInv /\ [Next]_vars => IInv'
    <2> SUFFICES ASSUME IInv, [Next]_vars PROVE IInv'
      OBVIOUS
    <2>1. CASE UNCHANGED vars
      BY <2>1 DEF vars, IInv, StoreOK, KeyOK, CallsOK, CallOK, Backed, BackedBy, RecordedTo,
                  Entered, EnteredIn, Came
    <2> QED
      BY <2>1, CallIInv, AttemptIInv, RenewIInv, EndIInv, TickIInv DEF Next
  <1> QED
    BY <1>1, InitIInv, PTL DEF Spec
-------------------------------------------------------------------------------
(* What the callers are promised *)

\* A guard whose TTL has not run out is one that Redis still honours.
LEMMA LiveHolds ==
  ASSUME IInv, NEW n \in DOMAIN calls, Live(calls[n]), NEW k \in KeysAsked(calls[n])
  PROVE  k \in Keys /\ calls[n].owner \in Owners /\ HoldsIn(calls[n].owner, db[k])
  <1> DEFINE p == calls[n].owner
             t == calls[n].since + Ttl[p]
  <1>1. p \in Owners /\ calls[n].since \in Nat /\ now \in Nat
    BY DEF IInv, CallsOK, CallOK, CallRecord, StoreOK
  <1>2. k \in KeysOf(p) /\ calls[n].status = "held" /\ now < t
    BY <1>1, AskedIsHeld DEF Live
  <1>3. k \in Keys /\ KeyOK(db[k]) /\ t \in Nat
    BY <1>1, <1>2, KeysOfType, StoreAssumption DEF IInv, StoreOK
  <1>4. RecordedTo(p, db[k], t)
    BY <1>2 DEF IInv, Backed, BackedBy
  <1> QED
    BY <1>1, <1>2, <1>3, <1>4, RecordedHolds

\* Guards that exclude each other are never live together, whatever methods of
\* either API returned them (rw_lock.rs:168).
THEOREM GuardsExcludeSafe == Spec => []GuardsExclude
  <1>1. IInv => GuardsExclude
    <2> SUFFICES ASSUME IInv, NEW i \in DOMAIN calls, NEW j \in DOMAIN calls, i # j,
                        Live(calls[i]), Live(calls[j]), Excludes(calls[i], calls[j])
                 PROVE  FALSE
      BY DEF GuardsExclude
    <2>1. PICK k : k \in KeysAsked(calls[i]) \cap KeysAsked(calls[j])
      BY DEF Excludes
    <2> DEFINE p == calls[i].owner
               q == calls[j].owner
    <2>2. /\ k \in Keys /\ p \in Owners /\ q \in Owners
          /\ HoldsIn(p, db[k]) /\ HoldsIn(q, db[k])
      BY <2>1, LiveHolds
    <2>3. p # q
      <3>1. CallOK(i, calls[i]) /\ CallOK(j, calls[j])
        BY DEF IInv, CallsOK
      <3> QED
        BY <3>1 DEF CallOK
    <2>4. KeyOK(db[k]) /\ now \in Nat
      BY <2>2 DEF IInv, StoreOK
    <2>5. Role[p] = "read" /\ Role[q] = "read"
      BY <2>2, <2>3, <2>4, OneHolds
    <2> QED
      BY <2>2, <2>5, AskedIsHeld DEF Excludes
  <1> QED
    BY <1>1, Inductive, PTL

\* A guard is backed on all keys that were asked for, for the TTL that was asked
\* for (options.rs:129).
THEOREM TtlAsAskedSafe == Spec => []TtlAsAsked
  <1>1. IInv => TtlAsAsked
    BY LiveHolds DEF TtlAsAsked, Holds, HoldsIn
  <1> QED
    BY <1>1, Inductive, PTL

\* No method sends a command its caller excluded, and expect(...) never fails
\* (lock.rs:86, lock.rs:115, lock.rs:131).
THEOREM AttemptsAsPromisedSafe == Spec => []AttemptsAsPromised
  <1>1. IInv => AttemptsAsPromised
    <2> SUFFICES ASSUME IInv, NEW i \in DOMAIN calls
                 PROVE  /\ calls[i].timeout = "zero" => calls[i].sent = 0
                        /\ calls[i].owner.method \in ReturnsOption => calls[i].sent <= 1
                        /\ calls[i].status # "panic"
      BY DEF AttemptsAsPromised
    <2>1. CallOK(i, calls[i])
      BY DEF IInv, CallsOK
    <2>2. calls[i].owner \in Owners /\ calls[i].status # "panic"
      BY <2>1 DEF CallOK, CallRecord, Statuses
    <2>3. RequestOf(calls[i].owner).once <=> calls[i].owner.method \in ReturnsOption
      BY <2>2, OwnerKeeps DEF Keeps
    <2> QED
      BY <2>1, <2>2, <2>3 DEF CallOK
  <1> QED
    BY <1>1, Inductive, PTL

\* A refusal has a cause: an owner that the refused one must not join is on one of its
\* keys.
LEMMA RefusedBy ==
  ASSUME StoreOK, NEW o \in Owners, AcquireLock(o, "no"), Entered
  PROVE  \E k \in KeysOf(o), p \in Owners :
           /\ Recorded(p, k)
           /\ Came(p, k)
           /\ Role[o] = "read" => Role[p] # "read"
  <1>0. o # NoOwner /\ Role[o] \in Roles /\ \A k \in KeysOf(o) : k \in Keys
    BY KeysOfType, StoreAssumption
  <1>1. ASSUME NEW k \in KeysOf(o), Kind(db[k]) # "none", Role[o] # "read"
        PROVE  \E p \in Owners : Recorded(p, k) /\ Came(p, k)
    <2>1. db[k] \in KeyValue /\ EnteredIn(k)
      BY <1>0 DEF StoreOK, Entered
    <2>2. CASE db[k].str # NoOwner
      BY <2>1, <2>2 DEF KeyValue, Recorded, EnteredIn
    <2>3. CASE db[k].zset # {}
      BY <2>1, <2>3 DEF KeyValue, Holder, Recorded, EnteredIn
    <2> QED
      BY <1>1, <2>2, <2>3 DEF Kind
  <1>2. ASSUME NEW k \in KeysOf(o), RwPreflight(o), NEW e \in Purge(db[k]).zset,
               Role[o] = "read" => e.score < 0
        PROVE  \E p \in Owners : /\ Recorded(p, k)
                                 /\ Came(p, k)
                                 /\ Role[o] = "read" => Role[p] # "read"
    <2>1. KeyOK(db[k]) /\ db[k] \in KeyValue /\ EnteredIn(k) /\ db[k].str = NoOwner
      BY <1>0, <1>2 DEF StoreOK, Entered, RwPreflight, Kind
    <2>2. e \in db[k].zset
      BY <2>1, PurgeFields
    <2>3. e.owner \in Owners
      BY <2>1, <2>2 DEF KeyValue, Holder
    <2> QED
      BY <1>2, <2>1, <2>2, <2>3 DEF Recorded, EnteredIn
  <1>3. CASE Role[o] = "single" /\ SetNx(o, "no")
    <2>1. Kind(db[KeySeq[o][1]]) # "none"
      BY <1>3 DEF SetNx
    <2>2. KeySeq[o][1] \in KeysOf(o)
      <3>1. KeySeq[o] \in Seq(Keys) /\ Len(KeySeq[o]) = 1
        BY <1>3, StoreAssumption
      <3>2. DOMAIN KeySeq[o] = {1}
        BY <3>1
      <3> QED
        BY <3>2 DEF KeysOf
    <2> QED
      BY <1>1, <1>3, <2>1, <2>2
  <1>4. CASE Role[o] = "multiple" /\ AcquireMutex(o, "no")
    <2>1. \E k \in KeysOf(o) : Kind(db[k]) # "none"
      BY <1>4 DEF AcquireMutex
    <2> QED
      BY <1>1, <1>4, <2>1
  <1>5. CASE Role[o] = "read" /\ AcquireRead(o, "no")
    <2>1. /\ RwPreflight(o)
          /\ {k \in KeysOf(o) : \E e \in Purge(db[k]).zset : e.score < 0} # {}
      BY <1>5 DEF AcquireRead, RwScript
    <2> QED
      BY <1>2, <2>1
  <1>6. CASE Role[o] = "write" /\ AcquireWrite(o, "no")
    <2>1. RwPreflight(o) /\ {k \in KeysOf(o) : Purge(db[k]).zset # {}} # {}
      BY <1>6 DEF AcquireWrite, RwScript
    <2> QED
      BY <1>2, <1>6, <2>1
  <1> QED
    BY <1>3, <1>4, <1>5, <1>6 DEF AcquireLock

\* Ok(None) has a cause: another call, whose guard would exclude this one's, has an
\* entry on one of its keys (lock.rs:123).
THEOREM NoneIsContentionSafe == Spec => NoneIsContention
  <1> DEFINE Blocked(i) ==
        \E j \in DOMAIN calls \ {i} :
          /\ Excludes(calls[i], calls[j])
          /\ \E k \in KeysAsked(calls[i]) : Recorded(calls[j].owner, k)
  <1>1. ASSUME IInv, [Next]_vars, NEW i \in DOMAIN calls,
               calls[i].status = "waiting", calls'[i].status = "none"
        PROVE  Blocked(i)
    <2>0. /\ calls \in Seq(CallRecord) /\ calls[i] \in CallRecord /\ StoreOK /\ Entered
          /\ calls[i].owner \in Owners
      BY <1>1 DEF IInv, CallsOK, CallOK, CallRecord
    <2>1. Attempt(i)
      <3>1. CASE UNCHANGED calls
        BY <1>1, <3>1
      <3>2. ASSUME NEW o \in Owners, Call(o) PROVE FALSE
        BY <1>1, <2>0, <3>2 DEF Call, Start
      <3>3. ASSUME NEW j \in DOMAIN calls, j # i,
                   \/ Attempt(j) \/ Deadline(j) \/ Renew(j)
                   \/ Release(j) \/ ReleaseFails(j) \/ Drop(j) \/ Background(j)
            PROVE  FALSE
        <4>1. calls'[i] = calls[i]
          BY <2>0, <3>3 DEF Attempt, Sent, Become, Deadline, Renew, Release, ReleaseFails, Drop,
                            Background
        <4> QED
          BY <1>1, <4>1
      <3>4. CASE Deadline(i)
        <4>1. calls'[i].status = "timeout"
          BY <2>0, <3>4 DEF Deadline, Become, CallRecord
        <4> QED
          BY <1>1, <4>1
      <3>5. CASE Renew(i) \/ Release(i) \/ ReleaseFails(i) \/ Drop(i) \/ Background(i)
        BY <1>1, <3>5 DEF Renew, Release, ReleaseFails, Drop, Background, Unreleased
      <3> QED
        BY <1>1, <3>1, <3>2, <3>3, <3>4, <3>5 DEF Next, Tick, vars
    <2>2. AcquireLock(calls[i].owner, "no")
      <3>1. PICK reply \in {"ok", "no", "err"} :
              /\ AcquireLock(calls[i].owner, reply)
              /\ reply = "ok" => calls' = [calls EXCEPT ![i].status = "held", ![i].sent = @ + 1,
                                                        ![i].since = now]
              /\ reply = "err" => Sent(i, "error")
        BY <2>1 DEF Attempt
      <3>2. reply # "err"
        BY <1>1, <2>0, <3>1 DEF Sent, CallRecord
      <3>3. reply # "ok"
        BY <1>1, <2>0, <3>1 DEF CallRecord
      <3> QED
        BY <3>1, <3>2, <3>3
    <2>3. PICK k \in KeysOf(calls[i].owner), p \in Owners :
            /\ Recorded(p, k)
            /\ Came(p, k)
            /\ Role[calls[i].owner] = "read" => Role[p] # "read"
      BY <2>0, <2>2, RefusedBy
    <2>4. PICK j \in DOMAIN calls : calls[j].owner = p /\ calls[j].status # "waiting"
      BY <2>3 DEF Came
    <2>5. j # i /\ k \in KeysOf(p)
      BY <1>1, <2>3, <2>4 DEF Came
    <2>6. k \in KeysAsked(calls[i]) /\ k \in KeysAsked(calls[j])
      BY <2>0, <2>3, <2>4, <2>5, AskedIsHeld
    <2>7. Excludes(calls[i], calls[j])
      BY <2>0, <2>3, <2>4, <2>6, AskedIsHeld DEF Excludes
    <2> QED
      BY <2>3, <2>4, <2>5, <2>6, <2>7
  <1>2. IInv /\ [Next]_vars =>
          [\A i \in DOMAIN calls :
             calls[i].status = "waiting" /\ calls'[i].status = "none" => Blocked(i)]_vars
    BY <1>1
  <1> QED
    BY <1>2, Inductive, PTL DEF Spec, NoneIsContention
===============================================================================
