--------------------------- MODULE LoginProtector ---------------------------
(***************************************************************************)
(* The failed-login protection of the panel (panel/auth_protector.go,      *)
(* panel/session_handlers.go).  Before a login looks the user up it        *)
(* reserves an entry for the pair of username and address and an entry for *)
(* the username; when the password was compared it completes both.  An     *)
(* entry counts failures, locks after Threshold of them, and counts the    *)
(* attempts that are still comparing.  Both tables are bounded; a full     *)
(* username table falls back to shared buckets.                            *)
(*                                                                         *)
(* Every operation reads the clock before it takes the protector's mutex,  *)
(* so a step may work with a time that is already past: reading the clock  *)
(* and the locked part are separate steps here.                            *)
(***************************************************************************)
EXTENDS Integers, FiniteSets

CONSTANTS
  Attempts,         \* login requests
  Users, Addresses, \* normalised usernames, client addresses
  Buckets,          \* usernameFailureFallbacks
  BucketOf,         \* [Users -> Buckets]: fallbackBucketIndexFor
  NoEntry,          \* a key without an entry
  Threshold,        \* loginFailureThreshold
  Window,           \* loginFailureWindow
  BaseLockout, MaxLockout,
  MaxSources, MaxUsernames, \* capacities of the two tables
  CleanupInterval,  \* authProtectorCleanupInterval
  MaxTime           \* bound on the clock

Sources == Users \X Addresses
Keys == Sources \cup Users \cup Buckets
Tables == {"source", "username"}

\* owner is the attempt that allocated the entry: the identity of the pointer.
Entry == [owner : Attempts, failures : Nat, lastFailure : Nat, lockedUntil : Nat, inFlight : Nat]

ASSUME LoginConstants ==
  /\ IsFiniteSet(Attempts)
  /\ BucketOf \in [Users -> Buckets]
  /\ Users \cap Buckets = {} /\ Sources \cap (Users \cup Buckets) = {}
  /\ NoEntry \notin Entry
  /\ Threshold \in Nat \ {0} /\ Window \in Nat \ {0}
  /\ BaseLockout \in Nat \ {0} /\ MaxLockout \in Nat /\ BaseLockout <= MaxLockout
  /\ MaxSources \in Nat \ {0} /\ MaxUsernames \in Nat \ {0}
  /\ CleanupInterval \in Nat \ {0} /\ MaxTime \in Nat

VARIABLES
  clock,
  entries,      \* [Keys -> loginFailureEntry or NoEntry]
  nextExpiry,   \* [Tables -> time of the next useful sweep, 0 when not known]
  lastCleanup,
  stage,        \* [Attempts -> where the login is]
  who,          \* [Attempts -> username and address]
  now,          \* [Attempts -> the time read before the mutex]
  held,         \* [Attempts -> the keys of the two reservations]
  outcome,      \* [Attempts -> how the comparison ended]
  lastBad       \* history: [Keys -> time of the last failure since a success, 0 if none]

tableVars == <<entries, nextExpiry, lastCleanup>>
attemptVars == <<stage, who, now, held, outcome>>
loginVars == <<clock, tableVars, attemptVars, lastBad>>

Stages == {"idle", "begin", "checking", "complete", "done", "locked", "busy"}
Outcomes == {"abandoned", "failed", "succeeded"}
Reservation == [key : Keys, owner : Attempts]

LoginInit ==
  /\ clock = 1
  /\ entries = [k \in Keys |-> NoEntry]
  /\ nextExpiry = [t \in Tables |-> 0]
  /\ lastCleanup = 1
  /\ stage = [a \in Attempts |-> "idle"]
  /\ who \in [Attempts -> [user : Users, address : Addresses]]
  /\ now = [a \in Attempts |-> 0]
  /\ held = [a \in Attempts |-> {}]
  /\ outcome = [a \in Attempts |-> "abandoned"]
  /\ lastBad = [k \in Keys |-> 0]

-----------------------------------------------------------------------------
(* Entries and sweeps; f and w stand for the tables the caller works on *)

KeysOf(table) == IF table = "source" THEN Sources ELSE Users
TableOf(k) == IF k \in Sources THEN "source" ELSE "username"
Capacity(table) == IF table = "source" THEN MaxSources ELSE MaxUsernames
Present(f, table) == {k \in KeysOf(table) : f[k] # NoEntry}

Full(f, table) == Cardinality(Present(f, table)) >= Capacity(table)

\* Mutant: only the lock keeps an entry, the failure window is forgotten.
Reclaimable_NoWindow(e, t) == e.inFlight = 0 /\ e.lockedUntil <= t

\* What a sweep at time t removes.
Reclaimable(e, t) ==
  /\ e.inFlight = 0
  /\ e.lastFailure = 0 \/ e.lastFailure + Window <= t
  /\ e.lockedUntil <= t

\* loginFailureEntryExpiry
EntryExpiry(e) ==
  LET windowEnd == IF e.lastFailure = 0 THEN 0 ELSE e.lastFailure + Window
  IN  IF e.lockedUntil > windowEnd THEN e.lockedUntil ELSE windowEnd

Earliest(times) == IF times = {} THEN 0 ELSE CHOOSE t \in times : \A u \in times : t <= u

\* cleanupLoginFailuresLocked and cleanupUsernameFailuresLocked: the expired
\* entries go and the time of the next useful sweep is computed anew.
Sweep(w, table, t) ==
  LET gone == {k \in Present(w.f, table) : Reclaimable(w.f[k], t)}
      kept == {k \in Present(w.f, table) \ gone : w.f[k].inFlight = 0}
  IN  [f    |-> [k \in Keys |-> IF k \in gone THEN NoEntry ELSE w.f[k]],
       next |-> [w.next EXCEPT ![table] = Earliest({EntryExpiry(w.f[k]) : k \in kept} \ {0})]]

-----------------------------------------------------------------------------
(* Settling a reservation *)

\* lockoutDurationForFailures: doubled with every excess failure up to the maximum.
LockoutDuration(failures) ==
  LET excess == IF failures - Threshold > 8 THEN 8 ELSE failures - Threshold
      factor == 2 ^ excess
  IN  IF BaseLockout > MaxLockout \div factor THEN MaxLockout ELSE BaseLockout * factor

Failed(e, t) ==
  LET expired  == e.lastFailure # 0 /\ e.lastFailure + Window <= t
      failures == IF expired THEN 1 ELSE e.failures + 1
      lock     == IF expired THEN 0 ELSE e.lockedUntil
  IN  [e EXCEPT !.failures = failures, !.lastFailure = t,
                !.lockedUntil = IF failures >= Threshold THEN t + LockoutDuration(failures)
                                                         ELSE lock]

Ended(e, result, t) ==
  LET rest == [e EXCEPT !.inFlight = @ - 1]
  IN  CASE result = "failed"    -> Failed(rest, t)
        [] result = "succeeded" -> [rest EXCEPT !.failures = 0, !.lastFailure = 0, !.lockedUntil = 0]
        [] result = "abandoned" -> rest

\* The pointer of the reservation is still the entry of its key.
Live(f, reservation) ==
  LET e == f[reservation.key]
  IN  e # NoEntry /\ e.owner = reservation.owner /\ e.inFlight > 0

\* recordLoginFailureExpiryLocked: the earlier of two times, 0 meaning none.
Scheduled(known, expiry) ==
  IF expiry = 0 \/ (known # 0 /\ known <= expiry) THEN known ELSE expiry

\* completeFailureReservationLocked
Settle(w, reservation, result, t) ==
  LET k     == reservation.key
      e     == Ended(w.f[k], result, t)
      empty == e.inFlight = 0 /\ e.failures = 0 /\ e.lockedUntil <= t
  IN  IF ~Live(w.f, reservation) THEN w
      ELSE IF k \in Buckets THEN [w EXCEPT !.f[k] = e]
      ELSE IF empty THEN [w EXCEPT !.f[k] = NoEntry]
      ELSE IF e.inFlight > 0 THEN [w EXCEPT !.f[k] = e]
      ELSE [w EXCEPT !.f[k] = e, !.next[TableOf(k)] = Scheduled(@, EntryExpiry(e))]

-----------------------------------------------------------------------------
(* Claiming a reservation *)

\* cleanupLocked: once per interval both tables are swept.
CleanupDue(t) == t - lastCleanup >= CleanupInterval
AfterCleanup(t) ==
  LET w == [f |-> entries, next |-> nextExpiry]
  IN  IF CleanupDue(t) THEN Sweep(Sweep(w, "source", t), "username", t) ELSE w

\* A new key sweeps a full table, but only when something can have expired.
MakeRoom(w, table, k, t) ==
  IF w.f[k] = NoEntry /\ Full(w.f, table) /\ w.next[table] # 0 /\ t >= w.next[table]
    THEN Sweep(w, table, t) ELSE w

\* Mutant: attempts in flight do not count towards the threshold.
Crowded_Ignored(e) == FALSE

\* Attempts that are still comparing count as failures until they are known.
Crowded(e) == e.inFlight > 0 /\ e.failures + e.inFlight >= Threshold

FreshEntry(a) == [owner |-> a, failures |-> 0, lastFailure |-> 0, lockedUntil |-> 0, inFlight |-> 0]

\* reserveSourceFailureLocked, reserveUsernameFailureLocked and
\* reserveExistingFailureEntryLocked: the tables afterwards, the key that is held
\* and the verdict.  A username without room is counted in its shared bucket.
Claim(w0, table, k0, a, t) ==
  LET w    == MakeRoom(w0, table, k0, t)
      room == w.f[k0] # NoEntry \/ ~Full(w.f, table)
      k    == IF room \/ table = "source" THEN k0 ELSE BucketOf[k0]
      e    == IF w.f[k] = NoEntry THEN FreshEntry(a) ELSE w.f[k]
      verdict == IF ~room /\ table = "source" THEN "busy"
                 ELSE IF e.lockedUntil > t THEN "locked"
                 ELSE IF Crowded(e) THEN "busy"
                 ELSE "checking"
  IN  [w    |-> IF verdict = "checking" THEN [w EXCEPT !.f[k] = [e EXCEPT !.inFlight = @ + 1]]
                                        ELSE w,
       held |-> [key |-> k, owner |-> e.owner],
       verdict |-> verdict]

\* abandonFailureReservationLocked
Undo(w, reservation, t) == Settle(w, reservation, "abandoned", t)

-----------------------------------------------------------------------------
(* The steps of a login *)

Install(w) == entries' = w.f /\ nextExpiry' = w.next

\* login reaches beginLoginAttempt, which reads the clock before the mutex.
ReadClock(a) ==
  /\ stage[a] = "idle"
  /\ stage' = [stage EXCEPT ![a] = "begin"]
  /\ now' = [now EXCEPT ![a] = clock]
  /\ UNCHANGED <<clock, tableVars, who, held, outcome, lastBad>>

\* The locked part of beginLoginAttempt: both reservations or none.
BeginLoginAttempt(a) ==
  LET t      == now[a]
      user   == who[a].user
      source == Claim(AfterCleanup(t), "source", <<user, who[a].address>>, a, t)
      name   == Claim(source.w, "username", user, a, t)
  IN  /\ stage[a] = "begin"
      /\ lastCleanup' = IF CleanupDue(t) THEN t ELSE lastCleanup
      /\ IF source.verdict # "checking"
           THEN Install(source.w) /\ UNCHANGED held
           ELSE IF name.verdict # "checking"
           THEN Install(Undo(name.w, source.held, t)) /\ UNCHANGED held
           ELSE Install(name.w) /\ held' = [held EXCEPT ![a] = {source.held, name.held}]
      /\ stage' = [stage EXCEPT ![a] = IF source.verdict # "checking" THEN source.verdict ELSE name.verdict]
      /\ UNCHANGED <<clock, who, now, outcome, lastBad>>

\* The comparison ends, or the request gives up for want of a hashing slot; the
\* completion reads the clock before the mutex.
CompareEnds(a, result) ==
  /\ stage[a] = "checking"
  /\ stage' = [stage EXCEPT ![a] = "complete"]
  /\ now' = [now EXCEPT ![a] = clock]
  /\ outcome' = [outcome EXCEPT ![a] = result]
  /\ UNCHANGED <<clock, tableVars, who, held, lastBad>>

\* loginAttempt.complete settles both reservations under the mutex.
CompleteAttempt(a) ==
  LET mine(kind) == CHOOSE h \in held[a] : (h.key \in Sources) = kind
      settled == {h.key : h \in {x \in held[a] : Live(entries, x)}}
      w0 == [f |-> entries, next |-> nextExpiry]
  IN  /\ stage[a] = "complete"
      /\ stage' = [stage EXCEPT ![a] = "done"]
      /\ Install(Settle(Settle(w0, mine(TRUE), outcome[a], now[a]),
                        mine(FALSE), outcome[a], now[a]))
      /\ held' = [held EXCEPT ![a] = {}]
      /\ lastBad' = [k \in Keys |-> IF k \notin settled \/ outcome[a] = "abandoned" THEN lastBad[k]
                                    ELSE IF outcome[a] = "failed" THEN now[a] ELSE 0]
      /\ UNCHANGED <<clock, lastCleanup, who, now, outcome>>

Tick ==
  /\ clock < MaxTime
  /\ clock' = clock + 1
  /\ UNCHANGED <<tableVars, attemptVars, lastBad>>

LoginNext ==
  \/ \E a \in Attempts :
       \/ ReadClock(a) \/ BeginLoginAttempt(a) \/ CompleteAttempt(a)
       \/ \E result \in Outcomes : CompareEnds(a, result)
  \/ Tick

LoginSpec == LoginInit /\ [][LoginNext]_loginVars

-----------------------------------------------------------------------------
(* Properties *)

\* Entries, schedules and attempts keep their types; no counter of attempts in
\* flight falls below zero.
LoginTypeOK ==
  /\ clock \in Nat
  /\ entries \in [Keys -> Entry \cup {NoEntry}]
  /\ nextExpiry \in [Tables -> Nat] /\ lastCleanup \in Nat
  /\ stage \in [Attempts -> Stages]
  /\ who \in [Attempts -> [user : Users, address : Addresses]]
  /\ now \in [Attempts -> Nat]
  /\ held \in [Attempts -> SUBSET Reservation]
  /\ outcome \in [Attempts -> Outcomes]
  /\ lastBad \in [Keys -> Nat]

\* Neither table outgrows its capacity, whatever is claimed concurrently.
TablesBounded == \A table \in Tables : Cardinality(Present(entries, table)) <= Capacity(table)

Holders(k) ==
  {a \in Attempts : \E h \in held[a] : h.key = k /\ entries[k] # NoEntry
                                                 /\ h.owner = entries[k].owner}

\* An entry counts exactly the attempts that hold it, and no entry disappears or
\* is replaced under an attempt that holds it.
InFlightExact ==
  /\ \A k \in Keys : entries[k] # NoEntry => entries[k].inFlight = Cardinality(Holders(k))
  /\ \A a \in Attempts : \A h \in held[a] : a \in Holders(h.key)

\* Concurrent attempts cannot exceed the threshold together: beyond a single
\* retry, failures and attempts in flight stay within it.
GuessesBounded ==
  \A k \in Keys : entries[k] # NoEntry /\ entries[k].inFlight > 1
                    => entries[k].failures + entries[k].inFlight <= Threshold

\* Failures are kept for the whole window: sweeps and full tables do not let an
\* identity start over.
FailuresKept ==
  \A k \in Keys : lastBad[k] > 0 /\ clock < lastBad[k] + Window
                    => entries[k] # NoEntry /\ entries[k].failures > 0

\* When an idle entry expires, the table knows: a full table with an expired
\* entry is swept by the next newcomer.
ExpiryScheduled ==
  \A table \in Tables : \A k \in Present(entries, table) :
    entries[k].inFlight = 0
      => nextExpiry[table] # 0 /\ nextExpiry[table] <= EntryExpiry(entries[k])

\* The two tables at every step: bounded, with entries that count their holders,
\* keep their failures for the window and whose expiry is scheduled.
LoginInv ==
  /\ LoginTypeOK
  /\ TablesBounded
  /\ InFlightExact
  /\ FailuresKept
  /\ ExpiryScheduled

\* ADVANCE_README: login-failure state has no shared fallback because collisions
\* could lock out unrelated users.  A login is refused by a lock only if a login
\* of the same username failed before.
LockedByOwnFailures ==
  \A a \in Attempts : stage[a] = "locked"
    => \E b \in Attempts : who[b].user = who[a].user /\ stage[b] = "done" /\ outcome[b] = "failed"
=============================================================================
