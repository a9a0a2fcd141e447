---------------------------- MODULE MCLeaseProtocol ----------------------------
(***************************************************************************)
(* Small instances of LeaseProtocol.  A millisecond is two ticks, so that a *)
(* client acts both at the start and inside a millisecond of Redis.        *)
(***************************************************************************)
EXTENDS LeaseRefinement, TLC

CONSTANTS o1, o2, o3, k1, k2

\* A mutex on one key (SET NX PX) against one on two keys (the script).
MutexRole == o1 :> "single" @@ o2 :> "multiple"
MutexKeys == o1 :> <<k1>> @@ o2 :> <<k1, k2>>
MutexTtl == o1 :> 4 @@ o2 :> 2
MutexRenew == o1 :> 2 @@ o2 :> 0
MutexRetry == o1 :> 1 @@ o2 :> 1

\* Two readers with different TTLs, and a writer, on one key.
RwRole == o1 :> "read" @@ o2 :> "read" @@ o3 :> "write"
RwKeys == o1 :> <<k1>> @@ o2 :> <<k1>> @@ o3 :> <<k1>>
RwTtl == o1 :> 4 @@ o2 :> 2 @@ o3 :> 2
RwRenew == o1 :> 0 @@ o2 :> 0 @@ o3 :> 0
RwRetry == o1 :> 1 @@ o2 :> 1 @@ o3 :> 1

\* A writer of two keys that renews, and a reader of the second.
MultiRwRole == o1 :> "write" @@ o2 :> "read"
MultiRwKeys == o1 :> <<k1, k2>> @@ o2 :> <<k2>>
MultiRwTtl == o1 :> 4 @@ o2 :> 4
MultiRwRenew == o1 :> 2 @@ o2 :> 0
MultiRwRetry == o1 :> 1 @@ o2 :> 1
===============================================================================
