------------------------------- MODULE MCArguments -------------------------------
(***************************************************************************)
(* The arguments of an acquisition: its keys, then its options.            *)
(*                                                                         *)
(* Every list of at most four of three keys is validated.  Options, which  *)
(* know nothing of the keys, are built after one of the lists only.  A     *)
(* millisecond is four units, MAX_TTL_MILLIS is 3 and u64 wraps at 5, so   *)
(* that durations reach every limit and its neighbours.                    *)
(***************************************************************************)
EXTENDS AcquireOptions, LockKeys

MCDurations == (0..17) \cup {20, 24, 26}
MCLists == UNION {[1..n -> Key] : n \in 0..4}

\* Bound: the list that options are built for.
KeysReady == answer = "Ok" /\ call = "new" /\ keys = <<CHOOSE k \in Key : TRUE>>

ArgumentsInit == Init /\ KeysInit

ArgumentsNext ==
  \/ KeysNext /\ UNCHANGED vars
  \/ KeysReady /\ Next /\ UNCHANGED keysVars

ArgumentsSpec == ArgumentsInit /\ [][ArgumentsNext]_<<vars, keysVars>>
===============================================================================
