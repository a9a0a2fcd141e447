------------------------------ MODULE MCLeaseWatch ------------------------------
(***************************************************************************)
(* The renewal task and a caller that wait for the end of one lease.       *)
(***************************************************************************)
EXTENDS LeaseWatch

CONSTANTS w1, w2
===============================================================================
