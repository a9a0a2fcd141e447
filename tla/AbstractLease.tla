----------------------------- MODULE AbstractLease -----------------------------
(***************************************************************************)
(* What the crate promises of its leases, without Redis, commands or time: *)
(* an owner comes to rely on its lease only while nobody it excludes does, *)
(* may have to stop relying on it at any moment, and never gets back a     *)
(* lease that is over.                                                     *)
(***************************************************************************)
CONSTANTS
  Owners,
  Excludes(_, _)  \* the two owners must not hold their locks together

VARIABLE
  phase  \* what each owner has: no lease yet, one to rely on, one that the
         \* client still reports although Redis may have dropped it, or none again

Phases == {"none", "held", "doubt", "over"}

Init == phase = [o \in Owners |-> "none"]

Free(o) == \A p \in Owners : Excludes(o, p) => phase[p] # "held"

\* A first lease, or a renewal that removes the doubt.
Grant(o) ==
  /\ phase[o] \in {"none", "doubt"}
  /\ Free(o)
  /\ phase' = [phase EXCEPT ![o] = "held"]

\* A first lease that comes so late that Redis may have dropped it already.
GrantLate(o) ==
  /\ phase[o] = "none"
  /\ phase' = [phase EXCEPT ![o] = "doubt"]

\* Leases grow doubtful and end, of any number of owners at a time.
Weaker(p) ==
  CASE p = "held" -> {"held", "doubt", "over"}
    [] p = "doubt" -> {"doubt", "over"}
    [] OTHER -> {p}

Weaken ==
  /\ phase' \in [Owners -> Phases]
  /\ \A o \in Owners : phase'[o] \in Weaker(phase[o])

Next == Weaken \/ \E o \in Owners : Grant(o) \/ GrantLate(o)

Spec == Init /\ [][Next]_phase
===============================================================================
