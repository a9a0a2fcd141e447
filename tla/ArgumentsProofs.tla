----------------------------- MODULE ArgumentsProofs -----------------------------
(***************************************************************************)
(* The arguments of an acquisition.  build lets through exactly the options *)
(* that acquisitions and renewals can work with, for durations of any      *)
(* precision and length; validation accepts the lists of keys without      *)
(* duplicates, and only those, for lists of any length.                    *)
(***************************************************************************)
EXTENDS AcquireOptions, LockKeys, FiniteSetTheorems, TLAPS

(* Options *)

\* A duration has as_millis whole milliseconds, and less than one more.
LEMMA Millis ==
  ASSUME NEW d \in Nat
  PROVE  /\ AsMillis(d) \in Nat
         /\ FromMillis(AsMillis(d)) \in Nat
         /\ FromMillis(AsMillis(d)) <= d
         /\ d < FromMillis(AsMillis(d)) + PerMs
         /\ d % PerMs = d - FromMillis(AsMillis(d))
  BY OptionsAssumption, SMTT(30) DEF AsMillis, FromMillis

\* More milliseconds make a longer duration.
LEMMA Longer ==
  ASSUME NEW m \in Nat, NEW n \in Nat, m <= n
  PROVE  m * PerMs <= n * PerMs
  BY OptionsAssumption, SMTT(30)

\* Half of a duration, rounded down.
LEMMA Halves ==
  ASSUME NEW d \in Nat
  PROVE  Half(d) \in Nat /\ 2 * Half(d) <= d /\ d < 2 * Half(d) + 2
  BY DEF Half

\* A TTL within the limit does not change by the cast to u64.
LEMMA Exact ==
  ASSUME NEW d \in Nat, AsMillis(d) <= MaxTtlMillis
  PROVE  AsU64(AsMillis(d)) = AsMillis(d)
  <1>1. AsMillis(d) \in Nat /\ AsMillis(d) < Word
    BY Millis, OptionsAssumption
  <1> DEFINE n == AsMillis(d)
  <1>2. n \in 0..(Word - 1) /\ Word \in Nat \ {0}
    BY <1>1, OptionsAssumption
  <1> HIDE DEF n
  <1>3. n % Word = n
    BY <1>2
  <1> QED
    BY <1>3 DEF AsU64, n
-------------------------------------------------------------------------------
\* The limits without their products, which the solver does not need.
LEMMA Limits ==
  /\ PerMs \in Nat /\ PerMs > 0
  /\ MaxTtlMillis \in Nat /\ MaxTtlMillis > 0
  BY OptionsAssumption

Builder == [retry : Nat, timeout : Nat \cup {NoTimeout}, ttl : Nat, renew : Renewal]

\* The fields that the checks look at.
LEMMA Fields ==
  ASSUME NEW b \in Builder
  PROVE  /\ b.ttl \in Nat /\ b.retry \in Nat /\ b.renew.every \in Nat
         /\ b.renew.mode \in {"disabled", "auto", "interval"}
  BY OptionsAssumption DEF Builder, Renewal

\* Options that pass every check fit.
LEMMA PassedFits ==
  ASSUME NEW b \in Builder, Verdict(b) = "built"
  PROVE  Fits(b)
  <1> DEFINE n == AsMillis(b.ttl)
             e == EffectiveTtl(b)
             r == EffectiveRenewInterval(b)
  <1>1. /\ n # 0 /\ ~(n > MaxTtlMillis) /\ b.retry # 0
        /\ b.renew.mode # "disabled" => AsMillis(r) # 0 /\ ~(r >= e)
    BY DEF Verdict, TtlTooShort, TtlTooLong, RetryIsZero, RenewTooShort, RenewTooLong
  <1>2. b.ttl \in Nat /\ n \in Nat /\ n <= MaxTtlMillis /\ n >= 1
    <2>1. b.ttl \in Nat
      BY Fields
    <2>2. n \in Nat
      BY <2>1, Millis
    <2> HIDE DEF n
    <2> QED
      BY <1>1, <2>1, <2>2, Limits
  <1>3. e = n * PerMs /\ e \in Nat
    BY <1>2, Exact, Millis DEF EffectiveTtl, FromMillis
  <1>4. e <= b.ttl /\ b.ttl < e + PerMs
    BY <1>2, <1>3, Millis DEF FromMillis
  <1>5. PerMs <= e /\ e <= MaxTtlMillis * PerMs
    <2>1. 1 * PerMs <= n * PerMs /\ n * PerMs <= MaxTtlMillis * PerMs
      BY <1>2, Longer, Limits
    <2> QED
      BY <1>3, <2>1, Limits
  <1>6. r \in Nat
    BY <1>3, Halves, Fields DEF EffectiveRenewInterval
  <1> HIDE DEF n, e, r
  <1>7. b.renew.mode # "disabled" => PerMs <= r /\ r < e
    <2>1. SUFFICES ASSUME b.renew.mode # "disabled" PROVE PerMs <= r /\ r < e
      OBVIOUS
    <2>2. AsMillis(r) \in Nat /\ AsMillis(r) >= 1 /\ AsMillis(r) * PerMs <= r
      BY <1>1, <1>6, <2>1, Millis DEF FromMillis
    <2>3. 1 * PerMs <= AsMillis(r) * PerMs
      BY <2>2, Longer
    <2>4. AsMillis(r) * PerMs \in Nat /\ 1 * PerMs = PerMs /\ PerMs \in Nat
      BY <2>2, Limits
    <2>5. r < e
      BY <1>1, <1>3, <1>6, <2>1
    <2> QED
      BY <1>6, <2>2, <2>3, <2>4, <2>5
  <1>8. MaxTtlMillis * PerMs \in Nat /\ PerMs \in Nat
    BY OptionsAssumption
  <1>9. e \in PerMs..(MaxTtlMillis * PerMs)
    BY <1>3, <1>5, <1>8
  <1>10. b.renew.mode # "disabled" => r \in PerMs..(e - 1)
    BY <1>3, <1>6, <1>7, <1>8
  <1>11. b.retry > 0
    BY <1>1, Fields
  <1> QED
    BY <1>4, <1>9, <1>10, <1>11 DEF Fits, e, r

\* The default options fit, though no check has seen them.
LEMMA DefaultFits == Default \in Builder /\ Fits(Default)
  <1>1. Default \in Builder
    <2>1. DefaultRetry \in Nat /\ DefaultTtl \in Nat /\ Automatic \in Renewal
      BY OptionsAssumption DEF Automatic, Renewal
    <2> QED
      BY <2>1 DEF Default, Builder
  <1> DEFINE n == AsMillis(DefaultTtl)
             e == EffectiveTtl(Default)
  <1>2. Default.ttl = DefaultTtl /\ Default.retry = DefaultRetry /\ Default.renew = Automatic
    BY DEF Default
  <1>3. n \in Nat /\ n * PerMs \in Nat /\ n * PerMs <= DefaultTtl /\ DefaultTtl < n * PerMs + PerMs
    BY Millis, OptionsAssumption DEF FromMillis
  <1>4. n <= MaxTtlMillis
    <2>1. MaxTtlMillis * PerMs \in Nat /\ DefaultTtl \in Nat /\ DefaultTtl <= MaxTtlMillis * PerMs
      BY OptionsAssumption
    <2>2. (MaxTtlMillis + 1) * PerMs = MaxTtlMillis * PerMs + PerMs
      BY OptionsAssumption
    <2>3. n >= MaxTtlMillis + 1 => (MaxTtlMillis + 1) * PerMs <= n * PerMs
      <3> HIDE DEF n
      <3>1. n \in Nat /\ MaxTtlMillis + 1 \in Nat
        BY <1>3, Limits
      <3> QED
        BY <3>1, Longer
    <2> DEFINE most == MaxTtlMillis * PerMs
               whole == n * PerMs
               over == (MaxTtlMillis + 1) * PerMs
    <2>4. /\ most \in Nat /\ whole \in Nat /\ over = most + PerMs
          /\ whole <= DefaultTtl /\ DefaultTtl <= most
          /\ n >= MaxTtlMillis + 1 => over <= whole
      BY <1>3, <2>1, <2>2, <2>3
    <2> HIDE DEF most, whole, over, n
    <2>5. ~(n >= MaxTtlMillis + 1)
      BY <2>1, <2>4, Limits
    <2> QED
      BY <1>3, <2>5, Limits
  <1>5. e = n * PerMs
    <2>1. AsU64(n) = n
      BY <1>4, Exact, OptionsAssumption
    <2>2. e = FromMillis(AsU64(n))
      BY <1>2 DEF EffectiveTtl
    <2> HIDE DEF n, e
    <2> QED
      BY <2>1, <2>2 DEF FromMillis
  <1> HIDE DEF n, e
  <1>6. e \in Nat /\ e <= DefaultTtl /\ DefaultTtl < e + PerMs /\ PerMs < e
        /\ e <= MaxTtlMillis * PerMs
    BY <1>3, <1>5, OptionsAssumption
  <1>7. n >= 2
    <2>1. SUFFICES ASSUME n <= 1 PROVE FALSE
      BY <1>3
    <2>2. n * PerMs <= 1 * PerMs
      BY <1>3, <2>1, Longer
    <2> QED
      BY <1>5, <1>6, <2>2, Limits
  <1>8. 2 * PerMs <= e
    BY <1>3, <1>5, <1>7, Longer
  <1>9. EffectiveRenewInterval(Default) \in PerMs..(e - 1)
    <2>1. EffectiveRenewInterval(Default) = Half(e)
      BY <1>2 DEF EffectiveRenewInterval, Automatic, e
    <2>2. Half(e) \in Nat /\ 2 * Half(e) <= e /\ e < 2 * Half(e) + 2
      BY <1>6, Halves
    <2>3. PerMs <= Half(e) /\ Half(e) <= e - 1
      BY <1>6, <1>8, <2>2, Limits
    <2> QED
      BY <1>6, <2>1, <2>2, <2>3, Limits
  <1>10. e \in PerMs..(MaxTtlMillis * PerMs)
    <2>1. MaxTtlMillis * PerMs \in Nat
      BY OptionsAssumption
    <2> QED
      BY <1>6, <2>1, Limits
  <1>11. DefaultRetry > 0
    BY OptionsAssumption
  <1>12. Fits(Default)
    BY <1>2, <1>6, <1>9, <1>10, <1>11 DEF Fits, e
  <1> QED
    BY <1>1, <1>12

\* Whatever build refuses is unfit.
LEMMA RefusedUnfit ==
  ASSUME NEW b \in Builder, Verdict(b) # "built"
  PROVE  Unfit(b)
  <1> DEFINE n == AsMillis(b.ttl)
             e == EffectiveTtl(b)
             r == EffectiveRenewInterval(b)
  <1>1. b.ttl \in Nat /\ n \in Nat /\ n * PerMs \in Nat /\ n * PerMs <= b.ttl
        /\ b.ttl < n * PerMs + PerMs /\ b.ttl % PerMs = b.ttl - n * PerMs
    BY Fields, Millis DEF FromMillis
  <1>2. CASE TtlTooShort(b)
    BY <1>1, <1>2, Limits DEF TtlTooShort, Unfit
  <1>3. CASE TtlTooLong(b)
    <2>1. n >= MaxTtlMillis + 1
      BY <1>1, <1>3, Limits DEF TtlTooLong
    <2>2. (MaxTtlMillis + 1) * PerMs <= n * PerMs
      BY <1>1, <2>1, Longer, Limits
    <2>3. (MaxTtlMillis + 1) * PerMs \in Nat
      BY OptionsAssumption
    <2>4. b.ttl >= (MaxTtlMillis + 1) * PerMs
      BY <1>1, <2>2, <2>3
    <2> QED
      BY <2>4 DEF Unfit
  <1>4. CASE RetryIsZero(b)
    BY <1>4 DEF RetryIsZero, Unfit
  <1>5. CASE ~TtlTooLong(b) /\ (RenewTooShort(b) \/ RenewTooLong(b))
    <2>1. e = n * PerMs
      BY <1>1, <1>5, Exact, Limits DEF TtlTooLong, EffectiveTtl, FromMillis
    <2>2. b.renew.mode \in {"auto", "interval"} /\ r \in Nat
      BY <1>1, <1>5, <2>1, Fields, Halves DEF RenewTooShort, RenewTooLong, EffectiveRenewInterval
    <2>3. r < PerMs \/ r >= e
      <3>1. AsMillis(r) * PerMs \in Nat /\ r < AsMillis(r) * PerMs + PerMs
        BY <2>2, Millis DEF FromMillis
      <3>2. CASE RenewTooShort(b)
        BY <2>2, <3>1, <3>2, Limits DEF RenewTooShort
      <3>3. CASE RenewTooLong(b)
        BY <3>3 DEF RenewTooLong
      <3> QED
        BY <1>5, <3>2, <3>3
    <2>4. CASE b.renew.mode = "interval"
      <3>1. r = b.renew.every
        BY <2>4 DEF EffectiveRenewInterval
      <3>2. r < PerMs \/ r + (b.ttl % PerMs) >= b.ttl
        BY <1>1, <2>1, <2>2, <2>3, Limits
      <3> QED
        BY <2>4, <3>1, <3>2 DEF Unfit
    <2>5. CASE b.renew.mode = "auto"
      <3>1. r = Half(e) /\ e \in Nat
        BY <1>1, <2>1, <2>5 DEF EffectiveRenewInterval
      <3>2. e < 2 * PerMs
        <4>1. Half(e) \in Nat /\ 2 * Half(e) <= e /\ e < 2 * Half(e) + 2
          BY <3>1, Halves
        <4>2. CASE r < PerMs
          BY <3>1, <4>1, <4>2, Limits
        <4>3. CASE r >= e
          BY <3>1, <4>1, <4>3, Limits
        <4> QED
          BY <2>3, <4>2, <4>3
      <3>3. n <= 1
        <4>1. SUFFICES ASSUME n >= 2 PROVE FALSE
          BY <1>1
        <4> QED
          BY <1>1, <2>1, <3>2, <4>1, Longer, Limits
      <3>4. n * PerMs <= 1 * PerMs
        BY <1>1, <3>3, Longer
      <3>5. b.ttl < 2 * PerMs
        BY <1>1, <3>4, Limits
      <3> QED
        BY <2>5, <3>5 DEF Unfit
    <2> QED
      BY <2>2, <2>4, <2>5
  <1> QED
    BY <1>2, <1>3, <1>4, <1>5 DEF Verdict
-------------------------------------------------------------------------------
\* What build and its callers rely on, in one invariant.
IInv == TypeOK /\ OptionsFit /\ RefusedOnlyUnfit

\* Every verdict is one of the outcomes, and none says that building goes on.
LEMMA Verdicts ==
  ASSUME NEW b \in Builder
  PROVE  Verdict(b) \in Outcomes \ {"building"}
  BY DEF Verdict, Outcomes

\* A builder's method sets one field to a value of its type.
LEMMA SetKeeps ==
  ASSUME IInv, Set
  PROVE  IInv'
  <1>1. builder \in Builder /\ outcome = "building" /\ outcome' = outcome
    BY DEF IInv, TypeOK, Set, Builder
  <1>2. Durations \subseteq Nat /\ NoRenewal \in Renewal /\ Automatic \in Renewal
        /\ \A d \in Durations : Interval(d) \in Renewal
    BY OptionsAssumption DEF NoRenewal, Automatic, Interval, Renewal
  <1>3. builder' \in Builder
    <2>1. CASE \E d \in Durations : SetRetryInterval(d)
      BY <1>1, <1>2, <2>1 DEF SetRetryInterval, Builder
    <2>2. CASE \E d \in Durations : SetTtl(d)
      BY <1>1, <1>2, <2>2 DEF SetTtl, Builder
    <2>3. CASE \E r \in Renewal : SetRenewal(r)
      BY <1>1, <2>3 DEF SetRenewal, Builder
    <2>4. CASE \E t \in Durations \cup {NoTimeout} : SetLockTimeout(t)
      BY <1>1, <1>2, <2>4 DEF SetLockTimeout, Builder
    <2> QED
      BY <1>2, <2>1, <2>2, <2>3, <2>4 DEF Set
  <1> QED
    BY <1>1, <1>3 DEF IInv, TypeOK, OptionsFit, RefusedOnlyUnfit, Builder, Outcomes

\* build keeps the fields and answers as its checks say.
LEMMA BuildKeeps ==
  ASSUME IInv, Build
  PROVE  IInv'
  <1>1. builder \in Builder /\ builder' = builder /\ outcome' = Verdict(builder)
    BY DEF IInv, TypeOK, Build, Builder
  <1>2. TypeOK'
    BY <1>1, Verdicts DEF TypeOK, Builder
  <1>3. CASE Verdict(builder) = "built"
    <2>1. Fits(builder)
      BY <1>1, <1>3, PassedFits
    <2>2. Fits(builder)'
      BY <1>1, <2>1 DEF Fits, EffectiveTtl, EffectiveRenewInterval
    <2> QED
      BY <1>1, <1>2, <1>3, <2>2 DEF IInv, OptionsFit, RefusedOnlyUnfit
  <1>4. CASE Verdict(builder) # "built"
    <2>1. Unfit(builder)
      BY <1>1, <1>4, RefusedUnfit
    <2>2. Unfit(builder)'
      BY <1>1, <2>1 DEF Unfit
    <2> QED
      BY <1>1, <1>2, <1>4, <2>2 DEF IInv, OptionsFit, RefusedOnlyUnfit
  <1> QED
    BY <1>3, <1>4

\* The default options are in use without a check.
LEMMA UseDefaultKeeps ==
  ASSUME IInv, UseDefault
  PROVE  IInv'
  <1>1. builder' = Default /\ outcome' = "built" /\ Default \in Builder /\ Fits(Default)
    BY DefaultFits DEF UseDefault
  <1>2. Fits(builder)'
    BY <1>1 DEF Fits, EffectiveTtl, EffectiveRenewInterval
  <1> QED
    BY <1>1, <1>2 DEF IInv, TypeOK, OptionsFit, RefusedOnlyUnfit, Builder, Outcomes

\* The invariant holds along every sequence of calls.
THEOREM Inductive == Spec => []IInv
  <1>1. Init => IInv
    BY DefaultFits DEF Init, IInv, TypeOK, OptionsFit, RefusedOnlyUnfit, Builder, Outcomes
  <1>2. IInv /\ [Next]_vars => IInv'
    <2>1. IInv /\ UNCHANGED vars => IInv'
      BY DEF vars, IInv, TypeOK, OptionsFit, RefusedOnlyUnfit, Fits, Unfit,
             EffectiveTtl, EffectiveRenewInterval
    <2> QED
      BY <2>1, SetKeeps, BuildKeeps, UseDefaultKeeps DEF Next
  <1> QED
    BY <1>1, <1>2, PTL DEF Spec

\* Every field stays a duration or a mode, whatever methods are called
\* (options.rs:187, options.rs:250).
THEOREM TypeCorrect == Spec => []TypeOK
  <1>1. IInv => TypeOK
    BY DEF IInv
  <1> QED
    BY <1>1, Inductive, PTL

\* Options that are in use, built or default, have a TTL of whole milliseconds
\* that Lua represents exactly and a renewal before its end; build refuses options
\* for no other reason than its errors name (options.rs:36, options.rs:250).
THEOREM BuildRightSafe == Spec => []BuildRight
  <1>1. IInv => BuildRight
    BY DEF IInv, BuildRight
  <1> QED
    BY <1>1, Inductive, PTL
-------------------------------------------------------------------------------
(* Lock keys *)

\* The set holds the keys that the loop has passed, which are all different.
Passed ==
  /\ unique = {keys[i] : i \in 1..(at - 1)}
  /\ \A i, j \in 1..(at - 1) : keys[i] = keys[j] => i = j

KeysIInv == KeysTypeOK /\ Passed /\ AcceptedIsValid /\ RefusedIsInvalid

\* A key outside the set differs from all that the loop has passed.
LEMMA InsertKeeps ==
  ASSUME KeysIInv, Insert
  PROVE  KeysIInv'
  <1>1. /\ keys \in Seq(Key) /\ at \in 1..Len(keys) /\ keys[at] \in Key
        /\ at' = at + 1 /\ keys' = keys /\ call' = call /\ answer' = "validating"
        /\ unique' = unique \cup {keys[at]} /\ keys[at] \notin unique
    BY DEF KeysIInv, KeysTypeOK, Insert, Looking
  <1>2. KeysTypeOK'
    BY <1>1 DEF KeysIInv, KeysTypeOK
  <1>3. 1..(at' - 1) = 1..(at - 1) \cup {at}
    BY <1>1
  <1>4. Passed'
    BY <1>1, <1>3 DEF KeysIInv, Passed
  <1> QED
    BY <1>1, <1>2, <1>4 DEF KeysIInv, AcceptedIsValid, RefusedIsInvalid, Calls

\* The loop leaves a duplicate behind it only by an error.
LEMMA FindDuplicateKeeps ==
  ASSUME KeysIInv, FindDuplicate
  PROVE  KeysIInv'
  <1>1. /\ keys \in Seq(Key) /\ at \in 1..Len(keys) /\ keys[at] \in unique
        /\ keys' = keys /\ at' = at /\ unique' = unique /\ call' = call
        /\ answer' \in {"DuplicateKey", "panic"}
    BY DEF KeysIInv, KeysTypeOK, FindDuplicate, Looking, Error
  <1>2. PICK i \in 1..(at - 1) : keys[i] = keys[at]
    BY <1>1 DEF KeysIInv, Passed
  <1>3. ~Valid(keys)
    BY <1>1, <1>2 DEF Valid
  <1> QED
    BY <1>1, <1>2, <1>3 DEF KeysIInv, KeysTypeOK, Passed, AcceptedIsValid, RefusedIsInvalid, Valid

\* At the end of the loop it has passed every key.
LEMMA PassKeeps ==
  ASSUME KeysIInv, Pass
  PROVE  KeysIInv'
  <1>1. /\ keys \in Seq(Key) /\ at = Len(keys) + 1 /\ keys # <<>>
        /\ UNCHANGED <<keys, call, at, unique>> /\ answer' = "Ok"
    BY DEF KeysIInv, KeysTypeOK, Pass, Looking
  <1>2. Valid(keys)
    BY <1>1 DEF KeysIInv, Passed, Valid
  <1> QED
    BY <1>1, <1>2 DEF KeysIInv, KeysTypeOK, Passed, AcceptedIsValid, RefusedIsInvalid, Valid

\* The invariant holds throughout a validation.
THEOREM KeysInductive == KeysSpec => []KeysIInv
  <1>1. KeysInit => KeysIInv
    BY KeysAssumption
       DEF KeysInit, KeysIInv, KeysTypeOK, Passed, AcceptedIsValid, RefusedIsInvalid
  <1>2. KeysIInv /\ [KeysNext]_keysVars => KeysIInv'
    <2>1. KeysIInv /\ SkipAssertion => KeysIInv'
      BY DEF SkipAssertion, Unchecked, KeysIInv, KeysTypeOK, Passed, AcceptedIsValid, RefusedIsInvalid
    <2>2. KeysIInv /\ FindEmpty => KeysIInv'
      BY DEF FindEmpty, Looking, Error, Valid, KeysIInv, KeysTypeOK, Passed, AcceptedIsValid, RefusedIsInvalid
    <2>3. KeysIInv /\ UNCHANGED keysVars => KeysIInv'
      BY DEF keysVars, KeysIInv, KeysTypeOK, Passed, AcceptedIsValid, RefusedIsInvalid, Valid, Unchecked
    <2> QED
      BY <2>1, <2>2, <2>3, InsertKeeps, FindDuplicateKeeps, PassKeeps DEF KeysNext
  <1> QED
    BY <1>1, <1>2, PTL DEF KeysSpec

\* Locks of LockKeys, and all locks of a debug build, have at least one key and
\* no key twice; such keys are never refused, and errors tell the truth
\* (lock_keys.rs:38, lock_keys.rs:52, lock_keys.rs:71).
THEOREM VerdictSafe == KeysSpec => []VerdictRight
  <1>1. KeysIInv => VerdictRight
    BY DEF KeysIInv, VerdictRight
  <1> QED
    BY <1>1, KeysInductive, PTL

\* A list without duplicates has as many keys as it is long.
LEMMA ValidCardinality ==
  ASSUME NEW s \in Seq(Key), Valid(s)
  PROVE  Cardinality({s[i] : i \in DOMAIN s}) = Len(s)
  <1> DEFINE T == {s[i] : i \in DOMAIN s}
             f == [i \in 1..Len(s) |-> s[i]]
  <1>1. Len(s) \in Nat /\ DOMAIN s = 1..Len(s)
    OBVIOUS
  <1>2. f \in Bijection(1..Len(s), T)
    BY <1>1 DEF Valid, Bijection, Injection, Surjection, IsInjective
  <1>3. ExistsBijection(1..Len(s), T)
    BY <1>2 DEF ExistsBijection
  <1> QED
    BY <1>1, <1>3, FS_CountingElements

\* What RedisStore's StoreAssumption says of the keys of an owner.
AcceptedFits ==
  answer = "Ok" /\ ~Unchecked =>
    keys # <<>> /\ Cardinality({keys[i] : i \in DOMAIN keys}) = Len(keys)

\* Keys that were validated are what the scripts are assumed to be given: a script
\* that counts its deletions compares with the number of its keys (scripts.rs:114).
THEOREM ValidatedKeysFit == KeysSpec => []AcceptedFits
  <1>1. KeysIInv => AcceptedFits
    <2> SUFFICES ASSUME KeysIInv, answer = "Ok", ~Unchecked
                 PROVE  keys # <<>> /\ Cardinality({keys[i] : i \in DOMAIN keys}) = Len(keys)
      BY DEF AcceptedFits
    <2>1. keys \in Seq(Key) /\ Valid(keys)
      BY DEF KeysIInv, KeysTypeOK, AcceptedIsValid
    <2> QED
      BY <2>1, ValidCardinality DEF Valid
  <1> QED
    BY <1>1, KeysInductive, PTL
===============================================================================
