------------------------------- MODULE MCLockApi -------------------------------
(***************************************************************************)
(* Any of the 24 blocking methods, then any of the 24 async ones, on keys  *)
(* that overlap.                                                           *)
(***************************************************************************)
EXTENDS LockApi

CONSTANTS k1, k2

MCKeyList == <<k1, k2>>
MCCallApi == <<"sync", "async">>
===============================================================================
