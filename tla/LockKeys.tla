-------------------------------- MODULE LockKeys --------------------------------
(***************************************************************************)
(* Validation of the keys of a lock (src/src/lock_keys.rs): by             *)
(* LockKeys::new, and, in debug builds only, by every acquisition, whose   *)
(* keys may not come from LockKeys.  RedisStore assumes the outcome.       *)
(***************************************************************************)
EXTENDS Naturals, Sequences, FiniteSets

CONSTANTS
  Key,   \* lock keys
  Lists  \* lists of keys that callers give

ASSUME KeysAssumption == Lists \subseteq Seq(Key)

VARIABLES
  keys,    \* the argument
  call,    \* who takes it: LockKeys::new, or an acquisition of a debug or release build
  at,      \* the key that the loop comes to next
  unique,  \* the HashSet of the loop
  answer   \* what the caller gets, or "validating"

keysVars == <<keys, call, at, unique, answer>>

Calls == {"new", "debug", "release"}
-------------------------------------------------------------------------------
KeysInit ==
  /\ keys \in Lists
  /\ call \in Calls
  /\ at = 1
  /\ unique = {}
  /\ answer = "validating"

\* LockKeys::new passes the error on; debug_assert_lock_keys panics.
Error(e) == IF call = "new" THEN e ELSE "panic"

\* Nobody looks at the keys in a release build.
Unchecked == call = "release"

Looking == answer = "validating" /\ ~Unchecked

SkipAssertion ==
  /\ answer = "validating" /\ Unchecked
  /\ answer' = "Ok"
  /\ UNCHANGED <<keys, call, at, unique>>

FindEmpty ==
  /\ Looking /\ keys = <<>>
  /\ answer' = Error("Empty")
  /\ UNCHANGED <<keys, call, at, unique>>

\* Mistake: only neighbours are compared, as in a sorted list.
InsertNeighbour ==
  /\ Looking /\ at <= Len(keys) /\ keys[at] \notin unique
  /\ unique' = {keys[at]}
  /\ at' = at + 1
  /\ UNCHANGED <<keys, call, answer>>

Insert ==
  /\ Looking /\ at <= Len(keys) /\ keys[at] \notin unique
  /\ unique' = unique \cup {keys[at]}
  /\ at' = at + 1
  /\ UNCHANGED <<keys, call, answer>>

\* Mistake: the key is looked up when it is in the set already.
FindDuplicateLate ==
  /\ Looking /\ at <= Len(keys) /\ keys[at] \in unique \cup {keys[at]}
  /\ answer' = Error("DuplicateKey")
  /\ UNCHANGED <<keys, call, at, unique>>

FindDuplicate ==
  /\ Looking /\ at <= Len(keys) /\ keys[at] \in unique
  /\ answer' = Error("DuplicateKey")
  /\ UNCHANGED <<keys, call, at, unique>>

Pass ==
  /\ Looking /\ keys # <<>> /\ at > Len(keys)
  /\ answer' = "Ok"
  /\ UNCHANGED <<keys, call, at, unique>>

KeysNext == SkipAssertion \/ FindEmpty \/ Insert \/ FindDuplicate \/ Pass

KeysSpec == KeysInit /\ [][KeysNext]_keysVars
-------------------------------------------------------------------------------
(* Correctness *)

\* Every key of the list at one place only, and at least one.
Valid(s) == s # <<>> /\ \A i, j \in 1..Len(s) : s[i] = s[j] => i = j

KeysTypeOK ==
  /\ keys \in Seq(Key)
  /\ call \in Calls
  /\ at \in 1..(Len(keys) + 1)
  /\ unique \subseteq Key
  /\ answer \in {"validating", "Ok", "Empty", "DuplicateKey", "panic"}

\* What RedisStore assumes: a lock made of LockKeys, or any lock in a debug build,
\* has as many keys as its list is long, and at least one (lock_keys.rs:71,
\* lock_keys.rs:52).
AcceptedIsValid == answer = "Ok" /\ ~Unchecked => Valid(keys)

\* Valid keys are never refused and never panic; an error tells the truth, and the
\* duplicate it names occurs in the list before (lock_keys.rs:38, lock_keys.rs:41).
RefusedIsInvalid ==
  /\ answer \in {"Empty", "DuplicateKey", "panic"} => ~Valid(keys)
  /\ answer = "Empty" => keys = <<>>
  /\ answer = "DuplicateKey" => \E i \in 1..(at - 1) : keys[i] = keys[at]

\* Validation takes the lists that are valid, and only those.
VerdictRight == AcceptedIsValid /\ RefusedIsInvalid
===============================================================================
