---------------------------- MODULE RedisStoreProofs ----------------------------
(***************************************************************************)
(* What one execution of a script does to each key, for any owners, keys,  *)
(* TTLs and states of the keyspace that are proper.                        *)
(***************************************************************************)
EXTENDS RedisStore, TLAPS

(* One key *)

MutexKey(o) == [str |-> o, zset |-> {}, pexpire |-> Expiry(o)]

KeyOK(v) ==
  /\ v \in KeyValue
  /\ v.str = NoOwner \/ v.zset = {}
  /\ v.str = NoOwner /\ v.zset = {} => v = NoKey
  /\ \A e, f \in v.zset : e.score < 0 => e = f
  /\ \A e \in v.zset : e.score <= v.pexpire /\ -e.score <= v.pexpire
  /\ v.str # NoOwner => v.pexpire # NoTtl

\* The others in a key, as a reader or a writer must find them to be written.
Joinable(v, o) ==
  IF Role[o] = "write" THEN \A e \in v.zset : e.owner = o
                       ELSE \A e \in v.zset : e.score >= 0

\* What an acquisition or a renewal of owner o may make of a key v ...
UseMove(v, w, o) ==
  \/ w = v
  \/ IsMutex(o) /\ (v = NoKey \/ v.str = o) /\ w = MutexKey(o)
  \/ v.str = NoOwner /\ w = Purge(v)
  \/ ~IsMutex(o) /\ v.str = NoOwner /\ Joinable(Purge(v), o) /\ w = AddHolder(Purge(v), o)

\* ... and what it makes of every key of o if it succeeds.
GrantMove(v, w, o) ==
  IF IsMutex(o) THEN w = MutexKey(o) ELSE w = AddHolder(Purge(v), o)

Others(v, o) == {e \in v.zset : e.owner # o}

ReleaseMove(v, w, o) ==
  \/ w = v
  \/ v.str = o /\ w = NoKey
  \/ v.str = NoOwner /\ w = IF Others(v, o) = {} THEN NoKey
                            ELSE [v EXCEPT !.zset = Others(v, o)]

-------------------------------------------------------------------------------
\* A key that does not exist is a proper key.
LEMMA NoKeyOK == KeyOK(NoKey)
  BY DEF KeyOK, NoKey, KeyValue, NoTtl

\* The expiry a script writes is ahead of Redis' clock (PX ttl, ttl >= 1 ms).
LEMMA ExpiryType ==
  ASSUME NEW o \in Owners, now \in Nat
  PROVE  Expiry(o) \in Nat /\ Expiry(o) > now /\ Score(o) \in Int
  BY StoreAssumption DEF Expiry, Score

\* SET key uuid PX ttl leaves a proper mutex key.
LEMMA MutexKeyOK ==
  ASSUME NEW o \in Owners, now \in Nat
  PROVE  KeyOK(MutexKey(o))
  BY ExpiryType, StoreAssumption DEF KeyOK, KeyValue, MutexKey, NoTtl

\* ZREMRANGEBYSCORE leaves a proper key.
LEMMA PurgeOK ==
  ASSUME NEW v, KeyOK(v)
  PROVE  KeyOK(Purge(v))
  <1> DEFINE live == {e \in v.zset : e.score < -now \/ e.score > now}
  <1>1. CASE live = {}
    BY <1>1, NoKeyOK DEF Purge
  <1>2. CASE live # {}
    <2>1. Purge(v) = [v EXCEPT !.zset = live]
      BY <1>2 DEF Purge
    <2>2. live \in SUBSET Holder /\ live \subseteq v.zset
      BY DEF KeyOK, KeyValue
    <2> HIDE DEF live
    <2>3. Purge(v) \in KeyValue /\ Purge(v).zset = live
          /\ Purge(v).str = v.str /\ Purge(v).pexpire = v.pexpire
      BY <2>1, <2>2 DEF KeyOK, KeyValue
    <2> QED
      BY <1>2, <2>2, <2>3 DEF KeyOK
  <1> QED
    BY <1>1, <1>2

\* A purged key has no string; what remains of its holders is alive.
LEMMA PurgeFields ==
  ASSUME NEW v, KeyOK(v), v.str = NoOwner
  PROVE  /\ Purge(v).str = NoOwner
         /\ Purge(v).zset = {e \in v.zset : e.score < -now \/ e.score > now}
  BY DEF Purge, NoKey, KeyOK, KeyValue

\* The fields of a key after ZADD and PEXPIRE.
LEMMA AddHolderFields ==
  ASSUME NEW v, NEW o
  PROVE  /\ AddHolder(v, o) = [str |-> NoOwner, zset |-> AddHolder(v, o).zset,
                               pexpire |-> AddHolder(v, o).pexpire]
         /\ AddHolder(v, o).str = NoOwner
         /\ AddHolder(v, o).zset = Others(v, o) \cup {[owner |-> o, score |-> Score(o)]}
         /\ AddHolder(v, o).pexpire =
              IF Role[o] = "write" \/ v.pexpire - now < Ttl[o] THEN Expiry(o) ELSE v.pexpire
  BY DEF AddHolder, Others

\* ZADD and PEXPIRE on a key the script may join leave a proper key: a writer
\* stays alone, and the key outlives its new holder and the old ones.
LEMMA AddHolderOK ==
  ASSUME NEW o \in Owners, NEW v, KeyOK(v), Joinable(v, o), now \in Nat
  PROVE  KeyOK(AddHolder(v, o))
  <1> DEFINE new == [owner |-> o, score |-> Score(o)]
             w == AddHolder(v, o)
  <1>1. new \in Holder /\ new.score = Score(o)
    BY ExpiryType DEF Holder
  <1>2. w.zset = Others(v, o) \cup {new}
    BY AddHolderFields
  <1>3. Others(v, o) \subseteq v.zset /\ Others(v, o) \in SUBSET Holder
    BY DEF Others, KeyOK, KeyValue
  <1>4. w.pexpire \in Int /\ Ttl[o] \in Nat /\ v.pexpire \in Int
    BY AddHolderFields, ExpiryType, StoreAssumption DEF KeyOK, KeyValue
  <1>5. w \in KeyValue
    <2>1. w.zset \in SUBSET Holder
      BY <1>1, <1>2, <1>3
    <2> QED
      BY <1>4, <2>1, AddHolderFields DEF KeyValue
  <1>6. w.str = NoOwner /\ w.zset # {}
    BY <1>2, AddHolderFields
  <1>7. CASE Role[o] = "write"
    <2>1. w.zset = {new}
      BY <1>2, <1>7 DEF Others, Joinable
    <2>2. new.score = -Expiry(o) /\ w.pexpire = Expiry(o)
      BY <1>1, <1>7, AddHolderFields DEF Score
    <2>3. \A e \in w.zset : e = new /\ e.score <= w.pexpire /\ -e.score <= w.pexpire
      BY <2>1, <2>2, ExpiryType
    <2> QED
      BY <1>5, <1>6, <2>3 DEF KeyOK
  <1>8. CASE Role[o] # "write"
    <2>1. new.score = Expiry(o) /\ Expiry(o) >= 0 /\ Expiry(o) \in Nat
      BY <1>1, <1>8, ExpiryType DEF Score
    <2>2. \A e \in Others(v, o) : /\ e.score \in Int
                                  /\ e.score >= 0
                                  /\ e.score <= v.pexpire /\ -e.score <= v.pexpire
      BY <1>3, <1>8 DEF Joinable, KeyOK, Holder
    <2>3. w.pexpire >= v.pexpire /\ w.pexpire >= Expiry(o)
      BY <1>4, <1>8, AddHolderFields DEF Expiry
    <2>4. \A e \in w.zset : e.score \in Int /\ e.score >= 0
                            /\ e.score <= w.pexpire /\ -e.score <= w.pexpire
      BY <1>2, <1>4, <2>1, <2>2, <2>3
    <2> QED
      BY <1>5, <1>6, <2>4 DEF KeyOK
  <1> QED
    BY <1>7, <1>8
-------------------------------------------------------------------------------
(* One script moves every key of its owner as UseMove or ReleaseMove says. *)

StoreOK == now \in Nat /\ db \in [Keys -> KeyValue] /\ \A k \in Keys : KeyOK(db[k])

\* An acquisition names at least one key, and only keys.
LEMMA KeysOfType == \A o \in Owners : KeysOf(o) \subseteq Keys /\ KeysOf(o) # {}
  <1> SUFFICES ASSUME NEW o \in Owners PROVE KeysOf(o) \subseteq Keys /\ KeysOf(o) # {}
    OBVIOUS
  <1>1. KeySeq[o] \in Seq(Keys) /\ KeySeq[o] # <<>>
    BY StoreAssumption
  <1>2. 1 \in DOMAIN KeySeq[o] /\ \A i \in DOMAIN KeySeq[o] : KeySeq[o][i] \in Keys
    BY <1>1
  <1>3. KeySeq[o][1] \in KeysOf(o)
    BY <1>2 DEF KeysOf
  <1>4. KeysOf(o) \subseteq Keys
    BY <1>2, Zenon DEF KeysOf
  <1> QED
    BY <1>3, <1>4

\* A mutex script that writes grants every key of its owner and no other key.
LEMMA SetMutexMoves ==
  ASSUME NEW o \in Owners, IsMutex(o), SetMutex(o), StoreOK,
         \A k \in KeysOf(o) : db[k] = NoKey \/ db[k].str = o
  PROVE  /\ db' = [k \in Keys |-> db'[k]]
         /\ \A k \in Keys : UseMove(db[k], db'[k], o)
         /\ \A k \in KeysOf(o) : GrantMove(db[k], db'[k], o)
  BY KeysOfType DEF SetMutex, UseMove, GrantMove, MutexKey

\* A read-write script purges, or grants every key of its owner.
LEMMA RwScriptMoves ==
  ASSUME NEW o \in Owners, ~IsMutex(o), NEW blocked, NEW reply,
         RwScript(o, blocked, reply), StoreOK,
         blocked = {} => \A k \in KeysOf(o) :
                           db[k].str = NoOwner => Joinable(Purge(db[k]), o)
  PROVE  /\ db' = [k \in Keys |-> db'[k]]
         /\ \A k \in Keys : UseMove(db[k], db'[k], o)
         /\ reply = "ok" => \A k \in KeysOf(o) : GrantMove(db[k], db'[k], o)
  <1>1. CASE ~RwPreflight(o) /\ reply = "err" /\ UNCHANGED db
    BY <1>1 DEF StoreOK, UseMove
  <1>2. ASSUME RwPreflight(o) PROVE \A k \in KeysOf(o) : db[k].str = NoOwner
    BY <1>2 DEF RwPreflight, Kind
  <1>3. CASE /\ RwPreflight(o) /\ blocked # {} /\ reply = "no"
             /\ db' = [k \in Keys |-> IF k \in Reached(o, blocked)
                                      THEN Purge(db[k]) ELSE db[k]]
    <2>1. Reached(o, blocked) \subseteq KeysOf(o)
      BY DEF Reached, KeysOf
    <2> QED
      BY <1>2, <1>3, <2>1 DEF UseMove
  <1>4. CASE /\ RwPreflight(o) /\ blocked = {} /\ reply = "ok"
             /\ db' = [k \in Keys |-> IF k \in KeysOf(o)
                                      THEN AddHolder(Purge(db[k]), o) ELSE db[k]]
    BY <1>2, <1>4, KeysOfType DEF UseMove, GrantMove
  <1> QED
    BY <1>1, <1>3, <1>4 DEF RwScript

\* acquire_lock takes no key that another owner holds; "ok" means every key.
LEMMA AcquireMoves ==
  ASSUME NEW o \in Owners, NEW reply, AcquireLock(o, reply), StoreOK
  PROVE  /\ db' = [k \in Keys |-> db'[k]]
         /\ \A k \in Keys : UseMove(db[k], db'[k], o)
         /\ reply = "ok" => \A k \in KeysOf(o) : GrantMove(db[k], db'[k], o)
  <1> USE KeysOfType
  <1>0. ASSUME NEW k \in Keys, Kind(db[k]) = "none" PROVE db[k] = NoKey
    BY <1>0 DEF Kind, StoreOK, KeyOK
  <1>1. CASE Role[o] = "single" /\ SetNx(o, reply)
    <2>1. KeysOf(o) = {KeySeq[o][1]}
      <3>1. KeySeq[o] \in Seq(Keys) /\ Len(KeySeq[o]) = 1
        BY <1>1, StoreAssumption
      <3>2. DOMAIN KeySeq[o] = {1}
        BY <3>1
      <3> QED
        BY <3>2 DEF KeysOf
    <2>2. CASE reply = "no" /\ UNCHANGED db
      BY <2>2 DEF UseMove, StoreOK
    <2>3. CASE Kind(db[KeySeq[o][1]]) = "none" /\ reply = "ok" /\ SetMutex(o)
      BY <1>0, <1>1, <2>1, <2>3, SetMutexMoves DEF IsMutex
    <2> QED
      BY <1>1, <2>2, <2>3 DEF SetNx
  <1>2. CASE Role[o] = "multiple" /\ AcquireMutex(o, reply)
    <2>1. CASE reply = "no" /\ UNCHANGED db
      BY <2>1 DEF UseMove, StoreOK
    <2>2. CASE {k \in KeysOf(o) : Kind(db[k]) # "none"} = {} /\ SetMutex(o)
      BY <1>0, <1>2, <2>2, SetMutexMoves DEF IsMutex
    <2> QED
      BY <1>2, <2>1, <2>2 DEF AcquireMutex
  <1>3. CASE Role[o] = "read" /\ AcquireRead(o, reply)
    <2> DEFINE blocked == {k \in KeysOf(o) : \E e \in Purge(db[k]).zset : e.score < 0}
    <2>1. ASSUME blocked = {}, NEW k \in KeysOf(o) PROVE Joinable(Purge(db[k]), o)
      <3>1. \A e \in Purge(db[k]).zset : e.score \in Int /\ ~(e.score < 0)
        BY <2>1, PurgeOK DEF StoreOK, KeyOK, KeyValue, Holder
      <3> QED
        BY <1>3, <3>1 DEF Joinable
    <2> QED
      BY <1>3, <2>1, RwScriptMoves DEF AcquireRead, IsMutex
  <1>4. CASE Role[o] = "write" /\ AcquireWrite(o, reply)
    <2> DEFINE blocked == {k \in KeysOf(o) : Purge(db[k]).zset # {}}
    <2>1. ASSUME blocked = {}, NEW k \in KeysOf(o) PROVE Joinable(Purge(db[k]), o)
      BY <1>4, <2>1 DEF Joinable
    <2> QED
      BY <1>4, <2>1, RwScriptMoves DEF AcquireWrite, IsMutex
  <1> QED
    BY <1>1, <1>2, <1>3, <1>4 DEF AcquireLock

\* renew_lock likewise: it prolongs its own keys only; "ok" means every key.
LEMMA RenewMoves ==
  ASSUME NEW o \in Owners, NEW reply, RenewLock(o, reply), StoreOK
  PROVE  /\ db' = [k \in Keys |-> db'[k]]
         /\ \A k \in Keys : UseMove(db[k], db'[k], o)
         /\ reply = "ok" => \A k \in KeysOf(o) : GrantMove(db[k], db'[k], o)
  <1> USE KeysOfType
  <1>1. CASE IsMutex(o) /\ RenewMutex(o, reply)
    <2> DEFINE lost == {k \in KeysOf(o) : db[k].str # o}
    <2>1. CASE lost # {} /\ reply # "ok" /\ UNCHANGED db
      BY <2>1 DEF UseMove, StoreOK
    <2>2. CASE /\ lost = {}
               /\ db' = [k \in Keys |-> IF k \in KeysOf(o)
                                        THEN [db[k] EXCEPT !.pexpire = Expiry(o)]
                                        ELSE db[k]]
      <3>1. ASSUME NEW k \in KeysOf(o) PROVE db'[k] = MutexKey(o) /\ db[k].str = o
        <4>1. db[k].str = o /\ db[k].zset = {} /\ db[k] \in KeyValue
          BY <2>2, <3>1, StoreAssumption DEF StoreOK, KeyOK
        <4> QED
          BY <2>2, <4>1 DEF MutexKey, KeyValue
      <3> QED
        BY <1>1, <2>2, <3>1 DEF UseMove, GrantMove
    <2> QED
      BY <1>1, <2>1, <2>2 DEF RenewMutex
  <1>2. CASE Role[o] = "read" /\ RenewRead(o, reply)
    <2> DEFINE own(k) == \E e \in Purge(db[k]).zset : e.owner = o /\ e.score > now
               blocked == {k \in KeysOf(o) : ~own(k)}
    <2>1. ASSUME blocked = {}, NEW k \in KeysOf(o) PROVE Joinable(Purge(db[k]), o)
      <3>1. PICK e \in Purge(db[k]).zset : e.owner = o /\ e.score > now
        BY <2>1
      <3>2. KeyOK(Purge(db[k])) /\ now \in Nat
        BY PurgeOK DEF StoreOK
      <3>3. ASSUME NEW f \in Purge(db[k]).zset PROVE f.score >= 0
        BY <3>1, <3>2 DEF KeyOK, KeyValue, Holder
      <3> QED
        BY <1>2, <3>3 DEF Joinable
    <2> QED
      BY <1>2, <2>1, RwScriptMoves DEF RenewRead, IsMutex
  <1>3. CASE Role[o] = "write" /\ RenewWrite(o, reply)
    <2> DEFINE own(k) == \E e \in Purge(db[k]).zset : e.owner = o /\ e.score < -now
               blocked == {k \in KeysOf(o) : ~own(k)}
    <2>1. ASSUME blocked = {}, NEW k \in KeysOf(o) PROVE Joinable(Purge(db[k]), o)
      <3>1. PICK e \in Purge(db[k]).zset : e.owner = o /\ e.score < -now
        BY <2>1
      <3>2. KeyOK(Purge(db[k])) /\ now \in Nat
        BY PurgeOK DEF StoreOK
      <3>3. e.score < 0
        BY <3>1, <3>2 DEF KeyOK, KeyValue, Holder
      <3> QED
        BY <1>3, <3>1, <3>2, <3>3 DEF Joinable, KeyOK
    <2> QED
      BY <1>3, <2>1, RwScriptMoves DEF RenewWrite, IsMutex
  <1> QED
    BY <1>1, <1>2, <1>3 DEF RenewLock

\* release_lock removes its own owner only, whatever else is in the key.
LEMMA ReleaseMoves ==
  ASSUME NEW o \in Owners, NEW reply, ReleaseLock(o, reply), StoreOK
  PROVE  /\ db' = [k \in Keys |-> db'[k]]
         /\ \A k \in Keys : ReleaseMove(db[k], db'[k], o)
  <1>1. CASE ReleaseMutex(o, reply)
    BY <1>1 DEF ReleaseMutex, ReleaseMove
  <1>2. CASE ReleaseRw(o, reply)
    BY <1>2 DEF ReleaseRw, ReleaseMove, Others, Kind
  <1> QED
    BY <1>1, <1>2 DEF ReleaseLock
-------------------------------------------------------------------------------
(* What a move keeps *)

\* What acquire_lock and renew_lock do keeps keys proper.
LEMMA UseMoveOK ==
  ASSUME NEW o \in Owners, NEW v, NEW w, KeyOK(v), UseMove(v, w, o), now \in Nat
  PROVE  KeyOK(w)
  <1>1. CASE w = MutexKey(o)
    BY <1>1, MutexKeyOK
  <1>2. CASE w = Purge(v)
    BY <1>2, PurgeOK
  <1>3. CASE Joinable(Purge(v), o) /\ w = AddHolder(Purge(v), o)
    BY <1>3, PurgeOK, AddHolderOK
  <1> QED
    BY <1>1, <1>2, <1>3 DEF UseMove

\* What release_lock does keeps keys proper.
LEMMA ReleaseMoveOK ==
  ASSUME NEW o \in Owners, NEW v, NEW w, KeyOK(v), ReleaseMove(v, w, o)
  PROVE  KeyOK(w)
  <1>1. CASE v.str = NoOwner /\ Others(v, o) # {} /\ w = [v EXCEPT !.zset = Others(v, o)]
    <2>1. Others(v, o) \subseteq v.zset /\ Others(v, o) \in SUBSET Holder
      BY DEF Others, KeyOK, KeyValue
    <2>2. w \in KeyValue /\ w.zset = Others(v, o) /\ w.str = v.str /\ w.pexpire = v.pexpire
      BY <1>1, <2>1 DEF KeyOK, KeyValue
    <2> QED
      BY <1>1, <2>1, <2>2 DEF KeyOK
  <1> QED
    BY <1>1, NoKeyOK DEF ReleaseMove
-------------------------------------------------------------------------------
(* Who holds a key *)

\* The instant to which entry e records owner p.
Until(p, e) == IF Role[p] = "write" THEN -e.score ELSE e.score

\* Holds, of a value of a key.
HoldsIn(p, v) ==
  IF IsMutex(p) THEN v.str = p
  ELSE \E e \in v.zset : e.owner = p /\ LiveScore(p, e.score)

\* Two owners that a key honours are the same, or both are readers.
LEMMA OneHolds ==
  ASSUME NEW v, KeyOK(v), now \in Nat, NEW p \in Owners, NEW q \in Owners, p # q,
         HoldsIn(p, v), HoldsIn(q, v)
  PROVE  Role[p] = "read" /\ Role[q] = "read"
  <1>1. p # NoOwner /\ q # NoOwner /\ Role[p] \in Roles /\ Role[q] \in Roles
    BY StoreAssumption
  <1>2. ~IsMutex(p) /\ ~IsMutex(q)
    BY <1>1 DEF HoldsIn, KeyOK
  <1>3. PICK e \in v.zset : e.owner = p /\ LiveScore(p, e.score)
    BY <1>2 DEF HoldsIn
  <1>4. PICK f \in v.zset : f.owner = q /\ LiveScore(q, f.score)
    BY <1>2 DEF HoldsIn
  <1>5. e # f /\ e.score >= 0 /\ f.score >= 0
    <2>1. e.score \in Int /\ f.score \in Int
      BY DEF KeyOK, KeyValue, Holder
    <2> QED
      BY <1>3, <1>4, <2>1 DEF KeyOK
  <1>6. Role[p] # "write" /\ Role[q] # "write"
    <2>1. e.score \in Int /\ f.score \in Int /\ now \in Nat
      BY DEF KeyOK, KeyValue, Holder
    <2> QED
      BY <1>3, <1>4, <1>5, <2>1 DEF LiveScore
  <1> QED
    BY <1>1, <1>2, <1>6 DEF Roles, IsMutex

\* Values v and w of a key show the same hold of p: the living one, with the same
\* end.
SameHold(p, v, w) ==
  IF IsMutex(p) THEN (v.str = p <=> w.str = p) /\ (v.str = p => w.pexpire = v.pexpire)
  ELSE \A e : e.owner = p /\ LiveScore(p, e.score) => (e \in v.zset <=> e \in w.zset)

\* The same hold is in particular a hold.
LEMMA SameHoldHolds ==
  ASSUME NEW p, NEW v, NEW w, SameHold(p, v, w)
  PROVE  HoldsIn(p, w) <=> HoldsIn(p, v)
  BY DEF SameHold, HoldsIn

\* Acquisitions and renewals neither end, begin nor prolong another owner's hold.
LEMMA UseMoveHolds ==
  ASSUME NEW o \in Owners, NEW p \in Owners \ {o}, NEW v, NEW w,
         now \in Nat, KeyOK(v), UseMove(v, w, o)
  PROVE  SameHold(p, v, w)
  <1>0. o # NoOwner /\ p # NoOwner
    BY StoreAssumption
  <1>1. CASE IsMutex(o) /\ (v = NoKey \/ v.str = o) /\ w = MutexKey(o)
    BY <1>0, <1>1 DEF SameHold, MutexKey, NoKey, KeyOK
  <1>2. CASE v.str = NoOwner
    <2>1. Purge(v).str = NoOwner
          /\ Purge(v).zset = {e \in v.zset : e.score < -now \/ e.score > now}
      BY <1>2, PurgeFields
    <2>2. \A e \in v.zset : LiveScore(p, e.score) => e.score < -now \/ e.score > now
      BY DEF LiveScore
    <2>3. CASE w = Purge(v)
      BY <1>0, <1>2, <2>1, <2>2, <2>3 DEF SameHold
    <2>4. CASE w = AddHolder(Purge(v), o)
      <3>1. w.str = NoOwner /\ \A e : e.owner = p => (e \in w.zset <=> e \in Purge(v).zset)
        BY <2>4, AddHolderFields DEF Others
      <3> QED
        BY <1>0, <1>2, <2>1, <2>2, <3>1 DEF SameHold
    <2>5. CASE w = v
      BY <2>5 DEF SameHold
    <2> QED
      BY <1>0, <1>1, <1>2, <2>3, <2>4, <2>5 DEF UseMove
  <1>3. CASE w = v
    BY <1>3 DEF SameHold
  <1> QED
    BY <1>1, <1>2, <1>3 DEF UseMove

\* Neither does another owner's release.
LEMMA ReleaseMoveHolds ==
  ASSUME NEW o \in Owners, NEW p \in Owners \ {o}, NEW v, NEW w,
         KeyOK(v), ReleaseMove(v, w, o)
  PROVE  SameHold(p, v, w)
  <1>0. o # NoOwner /\ p # NoOwner
    BY StoreAssumption
  <1>1. CASE v.str = o /\ w = NoKey
    BY <1>0, <1>1 DEF SameHold, NoKey, KeyOK
  <1>2. CASE v.str = NoOwner /\ w = IF Others(v, o) = {} THEN NoKey
                                   ELSE [v EXCEPT !.zset = Others(v, o)]
    <2>1. w.str = NoOwner /\ w.zset = Others(v, o)
      BY <1>2 DEF NoKey, KeyOK, KeyValue
    <2> QED
      BY <1>0, <1>2, <2>1 DEF SameHold, Others
  <1>3. CASE w = v
    BY <1>3 DEF SameHold
  <1> QED
    BY <1>1, <1>2, <1>3 DEF ReleaseMove

\* A renewal gives its owner no key that it does not hold.
LEMMA RenewOnlyHeld ==
  ASSUME NEW o \in Owners, NEW reply, RenewLock(o, reply), StoreOK, NEW k \in KeysOf(o),
         HoldsIn(o, db'[k])
  PROVE  HoldsIn(o, db[k])
  <1>0. k \in Keys /\ KeyOK(db[k]) /\ now \in Nat
    BY KeysOfType DEF StoreOK
  <1>1. CASE IsMutex(o) /\ RenewMutex(o, reply)
    BY <1>0, <1>1 DEF RenewMutex, HoldsIn
  <1>2. ASSUME ~IsMutex(o), NEW blocked, RwScript(o, blocked, reply),
               blocked = {} => \E e \in Purge(db[k]).zset :
                                 e.owner = o /\ LiveScore(o, e.score)
        PROVE  HoldsIn(o, db[k])
    <2>1. RwPreflight(o) => db[k].str = NoOwner
      BY DEF RwPreflight, Kind
    <2>2. CASE db'[k] = db[k]
      BY <2>2
    <2>3. CASE db[k].str = NoOwner
      <3>1. Purge(db[k]).zset \subseteq db[k].zset
        BY <1>0, <2>3, PurgeFields
      <3>2. HoldsIn(o, Purge(db[k])) => HoldsIn(o, db[k])
        BY <1>2, <3>1 DEF HoldsIn
      <3>3. CASE blocked = {}
        BY <1>2, <3>2, <3>3 DEF HoldsIn
      <3>4. CASE db'[k] = Purge(db[k])
        BY <3>2, <3>4
      <3> QED
        BY <1>0, <1>2, <2>2, <3>3, <3>4 DEF RwScript
    <2> QED
      BY <1>0, <1>2, <2>1, <2>2, <2>3 DEF RwScript
  <1>3. CASE Role[o] = "read" /\ RenewRead(o, reply)
    BY <1>2, <1>3 DEF RenewRead, IsMutex, LiveScore
  <1>4. CASE Role[o] = "write" /\ RenewWrite(o, reply)
    BY <1>2, <1>4 DEF RenewWrite, IsMutex, LiveScore
  <1> QED
    BY <1>1, <1>3, <1>4 DEF RenewLock

\* A release leaves its owner no key.
LEMMA ReleaseLeavesNone ==
  ASSUME NEW o \in Owners, NEW reply, ReleaseLock(o, reply), StoreOK, NEW k \in KeysOf(o)
  PROVE  ~HoldsIn(o, db'[k])
  <1>0. k \in Keys /\ KeyOK(db[k]) /\ o # NoOwner
    BY KeysOfType, StoreAssumption DEF StoreOK
  <1>1. CASE IsMutex(o) /\ ReleaseMutex(o, reply)
    BY <1>0, <1>1 DEF ReleaseMutex, HoldsIn, NoKey
  <1>2. CASE ~IsMutex(o) /\ ReleaseRw(o, reply)
    <2>1. \A e \in db'[k].zset : e.owner # o
      BY <1>0, <1>2 DEF ReleaseRw, Kind, NoKey, KeyOK, KeyValue
    <2> QED
      BY <1>2, <2>1 DEF HoldsIn
  <1> QED
    BY <1>1, <1>2 DEF ReleaseLock

\* Holds in either state, where Redis' clock stands still.
LEMMA HoldsBoth ==
  ASSUME now' = now, NEW p \in Owners, NEW k
  PROVE  /\ Holds(p, k) <=> HoldsIn(p, db[k])
         /\ Holds(p, k)' <=> HoldsIn(p, db'[k])
  BY DEF Holds, HoldsIn, LiveScore

\* A command that does not succeed has written nothing but purges.
OnlyPurged(v, w, o) == w = v \/ (~IsMutex(o) /\ v.str = NoOwner /\ w = Purge(v))

\* A key's purge touches no living hold (ZREMRANGEBYSCORE key -now now).
LEMMA PurgedSameHold ==
  ASSUME NEW o \in Owners, NEW v, NEW w, KeyOK(v), OnlyPurged(v, w, o)
  PROVE  SameHold(o, v, w)
  <1>1. CASE w = v
    BY <1>1 DEF SameHold
  <1>2. CASE ~IsMutex(o) /\ v.str = NoOwner /\ w = Purge(v)
    BY <1>2, PurgeFields DEF SameHold, LiveScore
  <1> QED
    BY <1>1, <1>2 DEF OnlyPurged

\* A read-write script writes a holder only where it replies "ok" ...
LEMMA RwRefused ==
  ASSUME NEW o \in Owners, ~IsMutex(o), NEW blocked, NEW reply,
         RwScript(o, blocked, reply), reply # "ok", StoreOK, NEW k \in Keys
  PROVE  OnlyPurged(db[k], db'[k], o)
  <1>1. CASE db'[k] = db[k]
    BY <1>1 DEF OnlyPurged
  <1>2. CASE RwPreflight(o) /\ k \in Reached(o, blocked) /\ db'[k] = Purge(db[k])
    <2>1. k \in KeysOf(o)
      BY <1>2 DEF Reached, KeysOf
    <2>2. db[k].str = NoOwner
      BY <1>2, <2>1 DEF RwPreflight, Kind
    <2> QED
      BY <1>2, <2>2 DEF OnlyPurged
  <1> QED
    BY <1>1, <1>2 DEF RwScript

\* ... and so do acquire_lock ...
LEMMA AcquireRefused ==
  ASSUME NEW o \in Owners, NEW reply, AcquireLock(o, reply), reply # "ok", StoreOK,
         NEW k \in Keys
  PROVE  OnlyPurged(db[k], db'[k], o)
  <1>1. CASE db' = db
    BY <1>1 DEF OnlyPurged
  <1>2. CASE \E blocked : ~IsMutex(o) /\ RwScript(o, blocked, reply)
    BY <1>2, RwRefused
  <1> QED
    BY <1>1, <1>2 DEF AcquireLock, SetNx, AcquireMutex, AcquireRead, AcquireWrite, IsMutex

\* ... and renew_lock.
LEMMA RenewRefused ==
  ASSUME NEW o \in Owners, NEW reply, RenewLock(o, reply), reply # "ok", StoreOK,
         NEW k \in Keys
  PROVE  OnlyPurged(db[k], db'[k], o)
  <1>1. CASE db' = db
    BY <1>1 DEF OnlyPurged
  <1>2. CASE \E blocked : ~IsMutex(o) /\ RwScript(o, blocked, reply)
    BY <1>2, RwRefused
  <1> QED
    BY <1>1, <1>2 DEF RenewLock, RenewMutex, RenewRead, RenewWrite, IsMutex

\* What is in key k, a key of o or not, after a command of o: what was there, and
\* perhaps o.
Joins(o, k) ==
  /\ db'[k].str \in {db[k].str, NoOwner} \cup (IF k \in KeysOf(o) THEN {o} ELSE {})
  /\ \A e \in db'[k].zset :
       e \in db[k].zset \/ (k \in KeysOf(o) /\ ~IsMutex(o) /\ e = [owner |-> o, score |-> Score(o)])

\* A purge joins nobody.
LEMMA PurgedJoins ==
  ASSUME NEW o, NEW k, KeyOK(db[k]), OnlyPurged(db[k], db'[k], o)
  PROVE  /\ db'[k].str \in {db[k].str, NoOwner}
         /\ db'[k].zset \subseteq db[k].zset
  BY PurgeFields DEF OnlyPurged

\* A read-write script touches its own keys only.
LEMMA RwJoins ==
  ASSUME NEW o \in Owners, ~IsMutex(o), NEW blocked, NEW reply,
         RwScript(o, blocked, reply), StoreOK, NEW k \in Keys
  PROVE  Joins(o, k)
  <1>0. KeyOK(db[k])
    BY DEF StoreOK
  <1>1. CASE reply # "ok"
    BY <1>0, <1>1, RwRefused, PurgedJoins DEF Joins
  <1>2. CASE RwPreflight(o) /\ db'[k] = IF k \in KeysOf(o) THEN AddHolder(Purge(db[k]), o) ELSE db[k]
    <2>1. CASE k \in KeysOf(o)
      <3>1. db[k].str = NoOwner
        BY <1>2, <2>1 DEF RwPreflight, Kind
      <3>2. Purge(db[k]).zset \subseteq db[k].zset
        BY <1>0, <3>1, PurgeFields
      <3> QED
        BY <1>2, <2>1, <3>2, AddHolderFields DEF Joins, Others
    <2>2. CASE k \notin KeysOf(o)
      BY <1>2, <2>2 DEF Joins
    <2> QED
      BY <2>1, <2>2
  <1> QED
    BY <1>1, <1>2 DEF RwScript

\* acquire_lock and renew_lock write nobody but their owner, and to its keys only.
LEMMA UseJoins ==
  ASSUME NEW o \in Owners, NEW reply, AcquireLock(o, reply) \/ RenewLock(o, reply), StoreOK,
         NEW k \in Keys
  PROVE  Joins(o, k)
  <1>1. CASE db' = db
    BY <1>1 DEF Joins
  <1>2. CASE SetMutex(o)
    BY <1>2 DEF SetMutex, Joins
  <1>3. CASE db' = [j \in Keys |-> IF j \in KeysOf(o) THEN [db[j] EXCEPT !.pexpire = Expiry(o)]
                                   ELSE db[j]]
    BY <1>3 DEF Joins, StoreOK, KeyValue
  <1>4. CASE \E blocked : ~IsMutex(o) /\ RwScript(o, blocked, reply)
    BY <1>4, RwJoins
  <1> QED
    BY <1>1, <1>2, <1>3, <1>4
       DEF AcquireLock, SetNx, AcquireMutex, AcquireRead, AcquireWrite,
           RenewLock, RenewMutex, RenewRead, RenewWrite, IsMutex
===============================================================================
