------------------------------ MODULE RedisStore ------------------------------
(***************************************************************************)
(* The Redis keyspace as the lock scripts see it (src/src/scripts.rs).     *)
(* Every script runs atomically, so each one is a single action on `db`.   *)
(*                                                                         *)
(* Time is counted in ticks.  A millisecond is Ms ticks, and `now` is what *)
(* Redis' millisecond clock shows: the last whole millisecond that has     *)
(* begun.  Redis rounds down (scripts.rs:25), a client's Instant does not, *)
(* so a lease taken inside a millisecond is dated to its beginning.        *)
(***************************************************************************)
EXTENDS Integers, Sequences, FiniteSets

CONSTANTS
  Keys,      \* Redis keys
  Owners,    \* acquisitions, each with its own UUID (LockRequest::uuid)
  NoOwner,   \* GET on a key that holds no string
  Role,      \* the variant of LockTarget an acquisition uses
  KeySeq,    \* its keys, in the order given to the script
  Ttl,       \* its effective TTL, in ticks
  Ms,        \* ticks per millisecond
  MaxExact   \* the largest integer Lua represents exactly (2^53 - 1)

Roles == {"single", "multiple", "read", "write"}
IsMutex(o) == Role[o] \in {"single", "multiple"}
KeysOf(o) == {KeySeq[o][i] : i \in DOMAIN KeySeq[o]}

ASSUME StoreAssumption ==
  /\ NoOwner \notin Owners
  /\ Role \in [Owners -> Roles]
  /\ KeySeq \in [Owners -> Seq(Keys)]
  /\ Ttl \in [Owners -> Nat]
  /\ Ms \in Nat \ {0}
  /\ MaxExact \in Nat
  /\ \A o \in Owners : /\ KeySeq[o] # <<>>
                       /\ Role[o] = "single" => Len(KeySeq[o]) = 1
                       /\ Cardinality(KeysOf(o)) = Len(KeySeq[o])  \* LockKeys
                       /\ Ttl[o] >= Ms /\ Ttl[o] % Ms = 0

VARIABLES
  now,       \* Redis' millisecond clock, in ticks
  db         \* the keyspace

(***************************************************************************)
(* A key holds a string (a mutex and its owner), a sorted set of holders   *)
(* (a read-write lock), or nothing.  `pexpire` is the expiry of the whole  *)
(* key.  A holder's member is "r:"/"w:" and its UUID; the role of the      *)
(* owner is the prefix, so the owner identifies the member.                *)
(***************************************************************************)
NoTtl == -1
NoKey == [str |-> NoOwner, zset |-> {}, pexpire |-> NoTtl]
Holder == [owner : Owners, score : Int]
KeyValue == [str : Owners \cup {NoOwner}, zset : SUBSET Holder, pexpire : Int]

Kind(v) == IF v.str # NoOwner THEN "string"
           ELSE IF v.zset # {} THEN "zset" ELSE "none"

\* Redis drops a key once its clock is strictly past the expiry: by a whole
\* millisecond, since both are whole milliseconds.
Expired(v, t) == v.pexpire + Ms <= t
ExpireKeys(t) == [k \in Keys |-> IF Expired(db[k], t) THEN NoKey ELSE db[k]]

Expiry(o) == now + Ttl[o]

\* A script stops at the first key of `bad`; these are the keys it has reached.
Reached(o, bad) ==
  {KeySeq[o][i] : i \in {i \in DOMAIN KeySeq[o] :
                           \A j \in 1..(i - 1) : KeySeq[o][j] \notin bad}}
-------------------------------------------------------------------------------
(* Below, an operator introduced by "Mistake" is its successor as a plausible *)
(* bug would have it; no action uses it.                                   *)

(* Mutex keys *)

SetMutex(o) ==
  db' = [k \in Keys |->
           IF k \in KeysOf(o)
           THEN [str |-> o, zset |-> {}, pexpire |-> Expiry(o)]
           ELSE db[k]]

\* SET key uuid NX PX ttl, the one-key acquisition.
SetNx(o, reply) ==
  LET taken == Kind(db[KeySeq[o][1]]) # "none" IN
  \/ taken /\ reply = "no" /\ UNCHANGED db
  \/ ~taken /\ reply = "ok" /\ SetMutex(o)

AcquireMutex(o, reply) ==
  LET taken == {k \in KeysOf(o) : Kind(db[k]) # "none"} IN
  \/ taken # {} /\ reply = "no" /\ UNCHANGED db
  \/ taken = {} /\ reply = "ok" /\ SetMutex(o)

\* GET on a sorted set is an error, which ends the script.
RenewMutex(o, reply) ==
  LET lost == {k \in KeysOf(o) : db[k].str # o}
      stop == lost \cap Reached(o, lost)
  IN \/ /\ lost = {}
        /\ reply = "ok"
        /\ db' = [k \in Keys |-> IF k \in KeysOf(o)
                                 THEN [db[k] EXCEPT !.pexpire = Expiry(o)]
                                 ELSE db[k]]
     \/ /\ lost # {}
        /\ reply = IF \E k \in stop : Kind(db[k]) = "zset" THEN "err" ELSE "no"
        /\ UNCHANGED db

\* Mistake: DEL without comparing the owner.
ReleaseMutexOfAnyone(o, reply) ==
  /\ db' = [k \in Keys |-> IF k \in KeysOf(o) THEN NoKey ELSE db[k]]
  /\ reply = "ok"

ReleaseMutex(o, reply) ==
  LET owned == {k \in KeysOf(o) : db[k].str = o} IN
  /\ db' = [k \in Keys |-> IF k \in owned THEN NoKey ELSE db[k]]
  /\ reply = IF Cardinality(owned) = Len(KeySeq[o]) THEN "ok" ELSE "no"
-------------------------------------------------------------------------------
(* Read-write keys: a reader's score is its expiry, a writer's the negated *)
(* expiry, so one score range removes the expired holders of both kinds.   *)

Score(o) == IF Role[o] = "write" THEN -Expiry(o) ELSE Expiry(o)
LiveScore(o, score) == IF Role[o] = "write" THEN score < -now ELSE score > now

\* Mistake: ZREMRANGEBYSCORE key -inf now, which takes the writers too.
PurgeWriters(v) ==
  LET live == {e \in v.zset : e.score > now} IN
  IF live = {} THEN NoKey ELSE [v EXCEPT !.zset = live]

\* ZREMRANGEBYSCORE key -now now; an emptied sorted set is no key at all.
Purge(v) ==
  LET live == {e \in v.zset : e.score < -now \/ e.score > now} IN
  IF live = {} THEN NoKey ELSE [v EXCEPT !.zset = live]

\* Mistake: PEXPIRE always, for a reader too.
AddHolderShortening(v, o) ==
  [str |-> NoOwner,
   zset |-> {e \in v.zset : e.owner # o} \cup {[owner |-> o, score |-> Score(o)]},
   pexpire |-> Expiry(o)]

\* ZADD, then PEXPIRE: always for a writer, for a reader only to prolong.
AddHolder(v, o) ==
  [str |-> NoOwner,
   zset |-> {e \in v.zset : e.owner # o} \cup {[owner |-> o, score |-> Score(o)]},
   pexpire |-> IF Role[o] = "write" \/ v.pexpire - now < Ttl[o]
               THEN Expiry(o) ELSE v.pexpire]

\* The expiry is exact in Lua, and no key is a string.
RwPreflight(o) ==
  /\ Expiry(o) <= MaxExact
  /\ \A k \in KeysOf(o) : Kind(db[k]) # "string"

\* Mistake: one loop that checks and writes key by key.
RwScriptOneLoop(o, blocked, reply) ==
  \/ ~RwPreflight(o) /\ reply = "err" /\ UNCHANGED db
  \/ /\ RwPreflight(o)
     /\ reply = IF blocked = {} THEN "ok" ELSE "no"
     /\ db' = [k \in Keys |-> IF k \in Reached(o, blocked) \ blocked
                              THEN AddHolder(Purge(db[k]), o) ELSE db[k]]

\* The two loops of a read-write script: purge and check every key up to the
\* first blocked one, then, if there is none, write every key.
RwScript(o, blocked, reply) ==
  \/ /\ ~RwPreflight(o)
     /\ reply = "err"
     /\ UNCHANGED db
  \/ /\ RwPreflight(o)
     /\ blocked # {}
     /\ reply = "no"
     /\ db' = [k \in Keys |-> IF k \in Reached(o, blocked)
                              THEN Purge(db[k]) ELSE db[k]]
  \/ /\ RwPreflight(o)
     /\ blocked = {}
     /\ reply = "ok"
     /\ db' = [k \in Keys |-> IF k \in KeysOf(o)
                              THEN AddHolder(Purge(db[k]), o) ELSE db[k]]

\* Mistake: counts the readers instead of the writers.
AcquireReadBesideWriter(o, reply) ==
  RwScript(o, {k \in KeysOf(o) : \E e \in Purge(db[k]).zset : e.score > 0}, reply)

AcquireRead(o, reply) ==
  RwScript(o, {k \in KeysOf(o) : \E e \in Purge(db[k]).zset : e.score < 0}, reply)

AcquireWrite(o, reply) ==
  RwScript(o, {k \in KeysOf(o) : Purge(db[k]).zset # {}}, reply)

RenewRead(o, reply) ==
  RwScript(o, {k \in KeysOf(o) : ~ \E e \in Purge(db[k]).zset :
                                     e.owner = o /\ e.score > now}, reply)

\* Mistake: renews without looking for its own entry.
RenewWriteUnchecked(o, reply) == RwScript(o, {}, reply)

RenewWrite(o, reply) ==
  RwScript(o, {k \in KeysOf(o) : ~ \E e \in Purge(db[k]).zset :
                                     e.owner = o /\ e.score < -now}, reply)

ReleaseRw(o, reply) ==
  LET owned == {k \in KeysOf(o) : /\ Kind(db[k]) = "zset"
                                  /\ \E e \in db[k].zset : e.owner = o}
      without(v) == {e \in v.zset : e.owner # o}
  IN /\ db' = [k \in Keys |->
                 IF k \notin owned THEN db[k]
                 ELSE IF without(db[k]) = {} THEN NoKey
                 ELSE [db[k] EXCEPT !.zset = without(db[k])]]
     /\ reply = IF Cardinality(owned) = Len(KeySeq[o]) THEN "ok" ELSE "no"
-------------------------------------------------------------------------------
(* acquire_lock, renew_lock and release_lock choose the script by target. *)

AcquireLock(o, reply) ==
  \/ Role[o] = "single" /\ SetNx(o, reply)
  \/ Role[o] = "multiple" /\ AcquireMutex(o, reply)
  \/ Role[o] = "read" /\ AcquireRead(o, reply)
  \/ Role[o] = "write" /\ AcquireWrite(o, reply)

RenewLock(o, reply) ==
  \/ IsMutex(o) /\ RenewMutex(o, reply)
  \/ Role[o] = "read" /\ RenewRead(o, reply)
  \/ Role[o] = "write" /\ RenewWrite(o, reply)

ReleaseLock(o, reply) ==
  \/ IsMutex(o) /\ ReleaseMutex(o, reply)
  \/ ~IsMutex(o) /\ ReleaseRw(o, reply)

\* Redis still honours owner o on key k.
Holds(o, k) ==
  IF IsMutex(o)
  THEN db[k].str = o
  ELSE \E e \in db[k].zset : e.owner = o /\ LiveScore(o, e.score)
===============================================================================
