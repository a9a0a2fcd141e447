----------------------------- MODULE AcquireOptions -----------------------------
(***************************************************************************)
(* AcquireOptions and its builder (src/src/options.rs).  Callers give      *)
(* durations of any precision and length; Redis and the renewal task need  *)
(* whole milliseconds, within what Lua represents exactly, and a renewal   *)
(* interval that fits into the TTL.  Everything else in this project       *)
(* assumes that of the options (StoreAssumption, LeaseAssumption).         *)
(***************************************************************************)
EXTENDS Integers

CONSTANTS
  Durations,     \* durations a caller may give
  PerMs,         \* durations are counted in fractions of a millisecond
  MaxTtlMillis,  \* MAX_TTL_MILLIS
  Word,          \* 2^64: u64 holds less
  DefaultRetry,  \* DEFAULT_RETRY_INTERVAL
  DefaultTtl     \* DEFAULT_TTL

ASSUME OptionsAssumption ==
  /\ Durations \subseteq Nat
  /\ PerMs \in Nat \ {0}
  /\ MaxTtlMillis \in Nat \ {0}
  /\ Word \in Nat /\ MaxTtlMillis < Word
  /\ DefaultRetry \in Nat \ {0}
  /\ DefaultTtl \in Nat /\ 2 * PerMs <= DefaultTtl /\ DefaultTtl <= MaxTtlMillis * PerMs

VARIABLES
  builder,  \* the four fields, of the builder and then of the options
  outcome   \* "building", "built", or the error of build

vars == <<builder, outcome>>
-------------------------------------------------------------------------------
(* Duration *)

AsMillis(d) == d \div PerMs
FromMillis(n) == n * PerMs
Half(d) == d \div 2
AsU64(n) == n % Word

\* Option<Option<Duration>>: None disables renewal, Some(None) is automatic.
NoRenewal == [mode |-> "disabled", every |-> 0]
Automatic == [mode |-> "auto", every |-> 0]
Interval(d) == [mode |-> "interval", every |-> d]
NoTimeout == -1

Default ==
  [retry |-> DefaultRetry, timeout |-> NoTimeout, ttl |-> DefaultTtl, renew |-> Automatic]

\* The TTL and the interval that acquisitions and renewals use.
EffectiveTtl(o) == FromMillis(AsU64(AsMillis(o.ttl)))
EffectiveRenewInterval(o) ==
  IF o.renew.mode = "auto" THEN Half(EffectiveTtl(o)) ELSE o.renew.every
-------------------------------------------------------------------------------
(* The checks of build, in their order *)

TtlTooShort(b) == AsMillis(b.ttl) = 0

\* Mistake: the cast comes first.
TtlTooLongTruncated(b) == AsU64(AsMillis(b.ttl)) > MaxTtlMillis

TtlTooLong(b) == AsMillis(b.ttl) > MaxTtlMillis
RetryIsZero(b) == b.retry = 0

RenewTooShort(b) ==
  b.renew.mode # "disabled" /\ AsMillis(EffectiveRenewInterval(b)) = 0

RenewTooLong(b) ==
  b.renew.mode # "disabled" /\ EffectiveRenewInterval(b) >= EffectiveTtl(b)

Verdict(b) ==
  IF TtlTooShort(b) THEN "TtlTooShort"
  ELSE IF TtlTooLong(b) THEN "TtlTooLong"
  ELSE IF RetryIsZero(b) THEN "RetryIntervalIsZero"
  ELSE IF RenewTooShort(b) THEN "RenewIntervalTooShort"
  ELSE IF RenewTooLong(b) THEN "RenewIntervalNotLessThanTtl"
  ELSE "built"
-------------------------------------------------------------------------------
Init == builder = Default /\ outcome = "building"

SetRetryInterval(d) == builder' = [builder EXCEPT !.retry = d]
SetLockTimeout(t) == builder' = [builder EXCEPT !.timeout = t]
SetTtl(d) == builder' = [builder EXCEPT !.ttl = d]
SetRenewal(r) == builder' = [builder EXCEPT !.renew = r]

Set ==
  /\ outcome = "building"
  /\ \/ \E d \in Durations : SetRetryInterval(d) \/ SetTtl(d) \/ SetRenewal(Interval(d))
     \/ \E t \in Durations \cup {NoTimeout} : SetLockTimeout(t)
     \/ SetRenewal(NoRenewal)
     \/ SetRenewal(Automatic)
  /\ UNCHANGED outcome

Build ==
  /\ outcome = "building"
  /\ outcome' = Verdict(builder)
  /\ UNCHANGED builder

\* AcquireOptions::new() builds nothing, and checks nothing.
UseDefault ==
  /\ outcome = "building"
  /\ outcome' = "built"
  /\ builder' = Default

Next == Set \/ Build \/ UseDefault

Spec == Init /\ [][Next]_vars
-------------------------------------------------------------------------------
(* Correctness *)

Renewal == {[mode |-> "disabled", every |-> 0], [mode |-> "auto", every |-> 0]}
           \cup {[mode |-> "interval", every |-> d] : d \in Durations}

Outcomes == {"building", "built", "TtlTooShort", "TtlTooLong", "RetryIntervalIsZero",
             "RenewIntervalTooShort", "RenewIntervalNotLessThanTtl"}

\* Types, for every sequence of calls of the builder's methods.
TypeOK ==
  /\ builder \in [retry : Nat, timeout : Nat \cup {NoTimeout}, ttl : Nat, renew : Renewal]
  /\ outcome \in Outcomes

\* What the scripts and the renewal task rely on: whole milliseconds, at least
\* one, exact in Lua, the TTL asked for up to its fraction of a millisecond, and a
\* renewal that comes before the end of the lease.
Fits(o) ==
  /\ EffectiveTtl(o) \in PerMs..(MaxTtlMillis * PerMs)
  /\ EffectiveTtl(o) <= o.ttl
  /\ o.ttl < EffectiveTtl(o) + PerMs
  /\ o.retry > 0
  /\ o.renew.mode # "disabled" =>
       EffectiveRenewInterval(o) \in PerMs..(EffectiveTtl(o) - 1)

\* What the errors say: the TTL is shorter than a millisecond or beyond Lua's
\* range, the retry interval is zero, or the renewal interval is shorter than a
\* millisecond or not within the TTL's whole milliseconds.
Unfit(b) ==
  \/ b.ttl < PerMs
  \/ b.ttl >= (MaxTtlMillis + 1) * PerMs
  \/ b.retry = 0
  \/ b.renew.mode = "auto" /\ b.ttl < 2 * PerMs
  \/ b.renew.mode = "interval" /\ b.renew.every < PerMs
  \/ b.renew.mode = "interval" /\ b.renew.every + (b.ttl % PerMs) >= b.ttl

\* Options in use fit, whether build let them through or they are the default
\* ones, which nothing checks (options.rs:106, options.rs:250).
OptionsFit == outcome = "built" => Fits(builder)

\* build refuses no options for another reason than its errors say
\* (options.rs:36-46).
RefusedOnlyUnfit == outcome \notin {"building", "built"} => Unfit(builder)

\* build lets the options that fit through, and refuses the others.
BuildRight == OptionsFit /\ RefusedOnlyUnfit
===============================================================================
