----------------------------- MODULE MCAsyncManager ----------------------------
(***************************************************************************)
(* Small instances of AsyncManager, with a release queue of one slot: full *)
(* as soon as one guard has been dropped.                                  *)
(***************************************************************************)
EXTENDS AsyncManager, TLC

CONSTANTS o1, o2, c1, c2

MCOwners == {o1, o2}
MCCallers == {c1, c2}
Symmetry == Permutations(MCOwners) \cup Permutations(MCCallers)

\* Bound of the liveness run: besides the first acquisition and the first call of
\* shutdown a second acquisition or a second call, not both, and after the first,
\* for they are interchangeable.  Nothing fair is kept from happening.
Second ==
  /\ caller[o2] = "idle" \/ shut[c2] = "idle"
  /\ caller[o1] = "idle" => caller[o2] = "idle"
  /\ shut[c1] = "idle" => shut[c2] = "idle"

SecondSpec == Init /\ [][Next /\ Second']_vars /\ Fairness
===============================================================================
