----------------------------- MODULE TokenBucket -----------------------------
(***************************************************************************)
(* golang.org/x/time/rate v0.15.0, as internal/ratelimit uses it: a bucket *)
(* made by NewLimiter(Every(minute / rpm), rpm) and asked for one token at *)
(* a time with AllowN(t, 1).  External: the library is not part of the     *)
(* repository.                                                             *)
(*                                                                         *)
(* Time is counted in ticks, Minute of them to a minute.  A token is cut   *)
(* into Minute parts, so that one tick refills exactly rpm parts and the   *)
(* library's floating-point arithmetic becomes exact.                      *)
(***************************************************************************)
EXTENDS Naturals

CONSTANT Minute   \* ticks in a minute

ASSUME MinuteAssumption == Minute \in Nat \ {0}

Bucket(Times, rpms) == [parts : Nat, last : Times, rpm : rpms]

Burst(rpm) == rpm * Minute

\* NewLimiter: a full bucket.
FullBucket(rpm, t) == [parts |-> Burst(rpm), last |-> t, rpm |-> rpm]

\* advance: the parts at time t.  A time before the last one refills nothing.
PartsAt(bucket, t) ==
    LET last == IF t < bucket.last THEN t ELSE bucket.last
        refilled == bucket.parts + (t - last) * bucket.rpm
    IN  IF refilled < Burst(bucket.rpm) THEN refilled ELSE Burst(bucket.rpm)

\* AllowN(t, 1): granted or not.
Allows(bucket, t) == PartsAt(bucket, t) >= Minute

\* The bucket a granted AllowN(t, 1) leaves; a refusal leaves it alone.  The
\* library sets last to t even when t lies before it.
AfterGrant(bucket, t) == [bucket EXCEPT !.parts = PartsAt(bucket, t) - Minute, !.last = t]

\* SetLimitAt(t, ...) and SetBurstAt(t, rpm): the parts collected so far stay.
SetRpm(bucket, rpm, t) == [parts |-> PartsAt(bucket, t), last |-> t, rpm |-> rpm]
=============================================================================
