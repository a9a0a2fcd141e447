---------------------------- MODULE MCConnectionPool ----------------------------
(***************************************************************************)
(* Three threads with two calls each, and room for two idle connections:   *)
(* one that is returned may find the pool full.                            *)
(***************************************************************************)
EXTENDS ConnectionPool, TLC

CONSTANTS u1, u2, u3

MCUsers == {u1, u2, u3}
UserSymmetry == Permutations(MCUsers)
===============================================================================
