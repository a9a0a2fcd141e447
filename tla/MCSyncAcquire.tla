----------------------------- MODULE MCSyncAcquire -----------------------------
(***************************************************************************)
(* Small instances of SyncAcquire, with a release queue of one slot: full  *)
(* as soon as one guard has been dropped.                                  *)
(***************************************************************************)
EXTENDS SyncAcquire, TLC

CONSTANTS o1, o2, c1, c2

MCOwners == {o1, o2}
FirstOwner == {o1}
SecondOwner == {o2}
NoOwners == {}
MCCallers == {c1, c2}
OneCaller == {c1}
CallerSymmetry == Permutations(MCCallers)
===============================================================================
