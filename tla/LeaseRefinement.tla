---------------------------- MODULE LeaseRefinement ----------------------------
(***************************************************************************)
(* LeaseProtocol implements AbstractLease: Redis, its clock and its        *)
(* scripts, lost and late commands and the renewal tasks are seen only as  *)
(* leases that are granted, grow doubtful and end.                         *)
(***************************************************************************)
EXTENDS LeaseProtocol

\* A lease is in doubt in its last moments, shorter than a millisecond, when
\* the client's Instant has not reached the deadline and Redis' clock has.
Phase(o) ==
  CASE LeaseState(o) = "None" -> "none"
    [] Honoured(o) -> "held"
    [] LeaseState(o) = "Active" /\ ~Honoured(o) -> "doubt"
    [] OTHER -> "over"

Abstract == INSTANCE AbstractLease
  WITH phase <- [o \in Owners |-> Phase(o)], Excludes <- Conflict

\* Whatever Redis, the network and the tasks do, an owner comes to rely on its
\* lease only when nobody it excludes relies on one, and never gets back a lease
\* that is over (Lease::new, Lease::renew, Lease::lose, Lease::release).
AbstractSpec == Abstract!Spec
===============================================================================
