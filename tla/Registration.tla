---------------------------- MODULE Registration ----------------------------
(***************************************************************************)
(* Public registration of a panel user: the signed proof-of-work challenge *)
(* and its replay table (panel/registration_pow.go), the handler           *)
(* (panel/registration_handlers.go) and the transaction that creates the   *)
(* user under the registration mode of that moment, spending an invite     *)
(* code when the mode asks for one (store/registration.go,                 *)
(* store/invite_codes.go).                                                 *)
(*                                                                         *)
(* A request reads the mode, then the clock, then takes the lock of the    *)
(* replay table, then makes its cheap lookups, then hashes the password in *)
(* one of MaxWork slots and only then opens the transaction.  Everything   *)
(* in between may change under it.  Each database transaction is one step  *)
(* (there is one write connection).  A proof whose signature, counter or   *)
(* digest is wrong is refused before any state is touched and is left out. *)
(***************************************************************************)
EXTENDS Integers, FiniteSets

CONSTANTS
  Requests,         \* registration requests; each also names the user it creates
  Challenges,       \* signed challenges
  Codes,            \* invite codes
  NoCode,           \* what a request without an invite code sends
  Usernames,        \* names that requests ask for
  Validity,         \* registrationProofState.validity
  CleanupInterval,  \* the minute between sweeps of the replay table
  MaxUsed,          \* registrationProofState.maxUsedChallenges
  MaxWork,          \* AuthProtector.passwordMaximumConcurrent
  Limits,           \* values an administrator gives registration_limit
  MaxTime           \* bound on the clock

ASSUME RegistrationConstants ==
  /\ Validity \in Nat \ {0} /\ CleanupInterval \in Nat \ {0}
  /\ MaxUsed \in Nat \ {0} /\ MaxWork \in Nat \ {0} /\ MaxTime \in Nat
  /\ Limits \subseteq Nat \ {0}
  /\ NoCode \notin Codes
  /\ IsFiniteSet(Requests) /\ IsFiniteSet(Challenges)

VARIABLES
  clock,               \* time.Now(), in minutes
  expires,             \* [Challenges -> Nat]: ExpiresAt, 0 before the challenge is issued
  usedChallenges,      \* the replay table
  lastProofCleanupAt,
  mode,                \* server_settings.registration_mode
  codes,               \* [Codes -> row of invite_codes]
  redemptions,         \* invite_code_redemptions: pairs <<code, user>>
  users,               \* rows of users created here and not deleted
  passwordWork,        \* AuthProtector.passwordWorkCurrent
  pc,                  \* [Requests -> where the handler is]
  form,                \* [Requests -> what the request carries]
  now,                 \* [Requests -> the time read before the lock]
  seenMode,            \* [Requests -> the mode of the precheck]
  accepted             \* history: how often each challenge was accepted

proofVars == <<expires, usedChallenges, lastProofCleanupAt, accepted>>
storeVars == <<mode, codes, redemptions, users>>
requestVars == <<pc, form, now, seenMode>>
regVars == <<clock, proofVars, storeVars, requestVars, passwordWork>>

Modes == {"disabled", "free", "invite"}
CodeStates == {"absent", "enabled", "disabled", "deleted"}
CodeRow == [state : CodeStates, limit : Nat, count : Nat]
Form == [challenge : Challenges, username : Usernames, code : Codes \cup {NoCode}]
Stages == {"idle", "verify", "consume", "lookup", "admit", "hash", "register",
           "refused", "created"}

RegInit ==
  /\ clock = 1
  /\ expires = [c \in Challenges |-> 0]
  /\ usedChallenges = {}
  /\ lastProofCleanupAt = 1
  /\ mode \in Modes
  /\ codes = [k \in Codes |-> [state |-> "absent", limit |-> 0, count |-> 0]]
  /\ redemptions = {}
  /\ users = {}
  /\ passwordWork = 0
  /\ pc = [r \in Requests |-> "idle"]
  /\ form \in [Requests -> Form]
  /\ now = [r \in Requests |-> 0]
  /\ seenMode = [r \in Requests |-> "disabled"]
  /\ accepted = [c \in Challenges |-> 0]

Goto(r, stage) == pc' = [pc EXCEPT ![r] = stage]

-----------------------------------------------------------------------------
(* The challenge and the replay table *)

\* registrationChallenge and issue: the challenge is signed, not stored.
Issue(c) ==
  /\ expires[c] = 0 /\ mode # "disabled"
  /\ expires' = [expires EXCEPT ![c] = clock + Validity]
  /\ UNCHANGED <<clock, usedChallenges, lastProofCleanupAt, accepted, storeVars,
                 requestVars, passwordWork>>

\* register up to the proof: a request is refused while registration is off.
Start(r) ==
  /\ pc[r] = "idle" /\ expires[form[r].challenge] > 0
  /\ seenMode' = [seenMode EXCEPT ![r] = mode]
  /\ Goto(r, IF mode = "disabled" THEN "refused" ELSE "verify")
  /\ UNCHANGED <<clock, proofVars, storeVars, form, now, passwordWork>>

\* The caller reads the clock and the challenge is compared with it, unlocked.
Verify(r) ==
  /\ pc[r] = "verify"
  /\ now' = [now EXCEPT ![r] = clock]
  /\ Goto(r, IF expires[form[r].challenge] > clock THEN "consume" ELSE "refused")
  /\ UNCHANGED <<clock, proofVars, storeVars, form, seenMode, passwordWork>>

SweepDue(t) ==
  t - lastProofCleanupAt >= CleanupInterval \/ Cardinality(usedChallenges) >= MaxUsed

\* Mutant: a sweep empties the table.
Remembered_Evicts(t) == IF SweepDue(t) THEN {} ELSE usedChallenges

\* cleanupUsedChallengesLocked: the entries a sweep at time t leaves.
Remembered(t) ==
  IF SweepDue(t) THEN {c \in usedChallenges : expires[c] > t} ELSE usedChallenges

Accepts(r) ==
  /\ form[r].challenge \notin Remembered(now[r])
  /\ Cardinality(Remembered(now[r])) < MaxUsed

\* The locked part of verifyAndConsume, with the time read by Verify.
Consume(r) ==
  /\ pc[r] = "consume"
  /\ lastProofCleanupAt' = IF SweepDue(now[r]) THEN now[r] ELSE lastProofCleanupAt
  /\ IF Accepts(r)
       THEN /\ usedChallenges' = Remembered(now[r]) \cup {form[r].challenge}
            /\ accepted' = [accepted EXCEPT ![form[r].challenge] = @ + 1]
            /\ Goto(r, "lookup")
       ELSE /\ usedChallenges' = Remembered(now[r])
            /\ Goto(r, "refused")
            /\ UNCHANGED accepted
  /\ UNCHANGED <<clock, expires, storeVars, form, now, seenMode, passwordWork>>

-----------------------------------------------------------------------------
(* The handler after the proof *)

Exists(k) == k # NoCode /\ codes[k].state \in {"enabled", "disabled"}
Taken(name) == \E u \in users : form[u].username = name

\* The inexpensive lookup before the password is hashed.
Lookup(r) ==
  /\ pc[r] = "lookup"
  /\ LET passes == IF seenMode[r] = "invite" THEN Exists(form[r].code)
                                             ELSE ~Taken(form[r].username)
     IN  Goto(r, IF passes THEN "admit" ELSE "refused")
  /\ UNCHANGED <<clock, proofVars, storeVars, form, now, seenMode, passwordWork>>

\* tryAcquirePasswordWork
AdmitPasswordWork(r) ==
  /\ pc[r] = "admit"
  /\ IF passwordWork < MaxWork
       THEN passwordWork' = passwordWork + 1 /\ Goto(r, "hash")
       ELSE Goto(r, "refused") /\ UNCHANGED passwordWork
  /\ UNCHANGED <<clock, proofVars, storeVars, form, now, seenMode>>

\* generatePasswordHash returns or fails; the slot is given back by the defer.
HashPassword(r) ==
  /\ pc[r] = "hash"
  /\ passwordWork' = passwordWork - 1
  /\ \E stage \in {"register", "refused"} : Goto(r, stage)
  /\ UNCHANGED <<clock, proofVars, storeVars, form, now, seenMode>>

-----------------------------------------------------------------------------
(* The registration transaction *)

Usable(k) ==
  /\ k # NoCode /\ codes[k].state = "enabled"
  /\ codes[k].count < codes[k].limit

\* Mutant: the transaction trusts the mode of the precheck.
TransactionMode_Precheck(r) == seenMode[r]

\* readRegistrationMode: the mode the transaction finds.
TransactionMode(r) == mode

MayRegister(r) ==
  /\ TransactionMode(r) # "disabled"
  /\ TransactionMode(r) = "invite" => Usable(form[r].code)
  /\ ~Taken(form[r].username)

\* registerUserWithInviteCodeInTransaction: the count and the redemption row.
SpendCode(r) ==
  /\ codes' = [codes EXCEPT ![form[r].code].count = @ + 1]
  /\ redemptions' = redemptions \cup {<<form[r].code, r>>}

RegisterUser(r) ==
  /\ pc[r] = "register"
  /\ MayRegister(r)
  /\ users' = users \cup {r}
  /\ IF TransactionMode(r) = "invite" THEN SpendCode(r) ELSE UNCHANGED <<codes, redemptions>>
  /\ Goto(r, "created")
  /\ UNCHANGED <<clock, proofVars, mode, form, now, seenMode, passwordWork>>

\* A policy refusal or a database error rolls the whole transaction back.
RegisterFails(r) ==
  /\ pc[r] = "register"
  /\ Goto(r, "refused")
  /\ UNCHANGED <<clock, proofVars, storeVars, form, now, seenMode, passwordWork>>

-----------------------------------------------------------------------------
(* Administrators and time *)

SetMode(m) ==
  /\ m # mode /\ mode' = m
  /\ UNCHANGED <<clock, proofVars, codes, redemptions, users, requestVars, passwordWork>>

CreateInviteCode(k, limit) ==
  /\ codes[k].state = "absent"
  /\ codes' = [codes EXCEPT ![k] = [state |-> "enabled", limit |-> limit, count |-> 0]]
  /\ UNCHANGED <<clock, proofVars, mode, redemptions, users, requestVars, passwordWork>>

\* UpdateInviteCode compares the new limit with the count in the same statement.
UpdateInviteCode(k, limit, state) ==
  /\ Exists(k) /\ codes[k].count <= limit
  /\ codes' = [codes EXCEPT ![k].limit = limit, ![k].state = state]
  /\ UNCHANGED <<clock, proofVars, mode, redemptions, users, requestVars, passwordWork>>

DeleteInviteCode(k) ==
  /\ Exists(k)
  /\ codes' = [codes EXCEPT ![k].state = "deleted"]
  /\ UNCHANGED <<clock, proofVars, mode, redemptions, users, requestVars, passwordWork>>

\* A deleted user frees the name; the redemption row stays.
DeleteUser(u) ==
  /\ u \in users
  /\ users' = users \ {u}
  /\ UNCHANGED <<clock, proofVars, mode, codes, redemptions, requestVars, passwordWork>>

Tick ==
  /\ clock < MaxTime
  /\ clock' = clock + 1
  /\ UNCHANGED <<proofVars, storeVars, requestVars, passwordWork>>

RequestNext(r) ==
  \/ Start(r) \/ Verify(r) \/ Consume(r) \/ Lookup(r)
  \/ AdmitPasswordWork(r) \/ HashPassword(r) \/ RegisterUser(r) \/ RegisterFails(r)

AdminNext ==
  \/ \E m \in Modes : SetMode(m)
  \/ \E k \in Codes, limit \in Limits : CreateInviteCode(k, limit)
  \/ \E k \in Codes, limit \in Limits, state \in {"enabled", "disabled"} :
       UpdateInviteCode(k, limit, state)
  \/ \E k \in Codes : DeleteInviteCode(k)
  \/ \E u \in users : DeleteUser(u)

RegNext ==
  \/ \E c \in Challenges : Issue(c)
  \/ \E r \in Requests : RequestNext(r)
  \/ AdminNext
  \/ Tick

RegSpec == RegInit /\ [][RegNext]_regVars

-----------------------------------------------------------------------------
(* Properties *)

\* The replay table, the invite codes, the users and the requests keep their types.
RegTypeOK ==
  /\ clock \in Nat
  /\ expires \in [Challenges -> Nat]
  /\ usedChallenges \subseteq Challenges
  /\ lastProofCleanupAt \in Nat
  /\ mode \in Modes
  /\ codes \in [Codes -> CodeRow]
  /\ redemptions \subseteq Codes \X Requests
  /\ users \subseteq Requests
  /\ passwordWork \in Nat
  /\ pc \in [Requests -> Stages]
  /\ form \in [Requests -> Form]
  /\ now \in [Requests -> Nat]
  /\ seenMode \in [Requests -> Modes]
  /\ accepted \in [Challenges -> Nat]

\* A challenge that was accepted stays in the replay table for as long as it is
\* valid, whatever requests with older clocks sweep in between.
ChallengeRemembered ==
  \A c \in Challenges : accepted[c] > 0 /\ expires[c] > clock => c \in usedChallenges

\* The replay table never outgrows its capacity.
ReplayTableBounded == Cardinality(usedChallenges) <= MaxUsed

\* No invite code admits more users than its limit, though limits move while
\* registrations that looked the code up earlier are still hashing.
InviteLimitKept ==
  \A k \in Codes : Exists(k) => codes[k].count <= codes[k].limit

\* registration_count is the number of redemption rows: the transaction either
\* creates the user, counts the code and records the redemption or does none.
CountIsRedemptions ==
  \A k \in Codes : codes[k].count = Cardinality({p \in redemptions : p[1] = k})

\* A user appears only under the policy of that very moment, not under the one
\* the handler saw before it hashed the password.
PolicyAtCommit ==
  [][\A u \in users' \ users :
       /\ mode # "disabled"
       /\ mode = "invite" => /\ form[u].code \in Codes
                             /\ codes[form[u].code].state = "enabled"
                             /\ <<form[u].code, u>> \in redemptions']_regVars

\* passwordWorkCurrent is the number of requests that are hashing: no path keeps
\* a slot and none gives it back twice.
WorkIsHashing == passwordWork = Cardinality({r \in Requests : pc[r] = "hash"})

\* The time a request holds was read from the clock, so it is not in the future.
ClockWasRead == \A r \in Requests : now[r] <= clock

\* Requests only leave the start with a challenge that was issued.
IssuedBeforeUse ==
  /\ \A r \in Requests : pc[r] # "idle" => expires[form[r].challenge] > 0
  /\ \A c \in Challenges : accepted[c] > 0 => expires[c] > 0

\* A redemption row names a request whose user was created.
RedeemerEnded ==
  /\ IsFiniteSet(redemptions)
  /\ \A p \in redemptions : pc[p[2]] = "created"

\* A code that was not created yet was not redeemed either.
AbsentIsUnused == \A k \in Codes : codes[k].state = "absent" => codes[k].count = 0

\* Everything known of the replay table, and of the invite codes.
ReplayInv == ClockWasRead /\ IssuedBeforeUse /\ ChallengeRemembered /\ ReplayTableBounded
InviteInv == RedeemerEnded /\ AbsentIsUnused /\ InviteLimitKept /\ CountIsRedemptions

\* The inductive invariant: challenges are remembered, codes keep to their limits and
\* count their redemptions, slots are exact, for requests that read clock, mode and
\* code long before they act.
RegInv == RegTypeOK /\ WorkIsHashing /\ ReplayInv /\ InviteInv
=============================================================================
