-------------------------- MODULE RegistrationProofs --------------------------
(***************************************************************************)
(* Proofs about Registration for any number of requests, challenges, codes *)
(* and slots and any length of time, about AuthEndpoints, the buckets in   *)
(* front of it, for any number of requests, clients and buckets, and about *)
(* RecordPages, the lists of the panel, for any rows, seconds and limits.  *)
(*                                                                         *)
(* ChallengeRemembered needs to know that no request carries a time from   *)
(* the future (ClockWasRead) and that only issued challenges are accepted  *)
(* (AcceptedWasIssued): then a sweep only forgets challenges that have     *)
(* expired by the real clock.  CountIsRedemptions needs that a request     *)
(* whose redemption is recorded has already ended (RedeemerEnded): then    *)
(* the row a transaction adds is new.  RegTypeOK needs WorkIsHashing, or   *)
(* the slot counter could fall below zero.                                 *)
(*                                                                         *)
(* EndpointInv needs IEndpoint.  IPlaces has the types, the requests that  *)
(* are as late as lagBound allows, and the next check.  Metered has the    *)
(* rates of requests that are not late: a bucket is in debt for its        *)
(* pending reservations, which stand a token apart (InDebt), a meter and   *)
(* what its bucket holds stay within the bound, whichever reservation is   *)
(* given back (Covered), the bound of a host that may still use the shared *)
(* bucket leaves room for it (HostBound), and the meter of a host without  *)
(* an entry is at most that of its shared bucket (HostMetered).            *)
(*                                                                         *)
(* PagesInv needs that what was shown ends at the cursor (CursorIsLast):   *)
(* then the rows of the next page come after all of it.  That a page takes *)
(* the first rows behind the cursor is PageIsFetched, which counts for     *)
(* each row the rows before it (Ranks).                                    *)
(***************************************************************************)
EXTENDS Registration, AuthEndpoints, RecordPages, FiniteSetTheorems, FunctionTheorems,
        WellFoundedInduction, TLAPS

\* The requests that hold a slot.
Hashing == {r \in Requests : pc[r] = "hash"}

-----------------------------------------------------------------------------

\* The hashing requests are finitely many.
LEMMA HashingFinite == IsFiniteSet(Hashing) /\ Cardinality(Hashing) \in Nat
<1>1. Hashing \in SUBSET Requests
  BY DEF Hashing
<1> QED
  BY <1>1, FS_Subset, FS_CardinalityType, RegistrationConstants

\* A subset of the challenges is finite.
LEMMA ChallengesFinite ==
  ASSUME NEW S \in SUBSET Challenges
  PROVE  IsFiniteSet(S) /\ Cardinality(S) \in Nat
<1>1. IsFiniteSet(S)
  BY FS_Subset, RegistrationConstants
<1> QED
  BY <1>1, FS_CardinalityType

\* What a sweep leaves is part of the table.
LEMMA RememberedSubset ==
  ASSUME RegTypeOK, NEW t
  PROVE  /\ Remembered(t) \in SUBSET usedChallenges
         /\ Remembered(t) \in SUBSET Challenges
BY DEF Remembered, RegTypeOK

\* The slot counter follows the hashing requests through every step.
LEMMA WorkStep ==
  ASSUME RegTypeOK, WorkIsHashing, [RegNext]_regVars
  PROVE  WorkIsHashing' /\ passwordWork' \in Nat
<1> USE DEF RegTypeOK, WorkIsHashing
<1>0. passwordWork = Cardinality(Hashing) /\ IsFiniteSet(Hashing)
  BY HashingFinite DEF Hashing
<1>1. ASSUME passwordWork' = passwordWork, Hashing' = Hashing
      PROVE  WorkIsHashing' /\ passwordWork' \in Nat
  BY <1>0, <1>1 DEF Hashing
<1>2. ASSUME NEW r \in Requests, AdmitPasswordWork(r)
      PROVE  WorkIsHashing' /\ passwordWork' \in Nat
  <2>1. CASE passwordWork < MaxWork
    <3>1. Hashing' = Hashing \cup {r} /\ r \notin Hashing
      BY <1>2, <2>1 DEF AdmitPasswordWork, Goto, Hashing
    <3>2. Cardinality(Hashing') = Cardinality(Hashing) + 1
      BY <1>0, <3>1, FS_AddElement
    <3>3. passwordWork' = passwordWork + 1
      BY <1>2, <2>1 DEF AdmitPasswordWork
    <3> QED
      BY <1>0, <3>2, <3>3 DEF Hashing
  <2>2. CASE ~(passwordWork < MaxWork)
    <3>1. Hashing' = Hashing /\ passwordWork' = passwordWork
      BY <1>2, <2>2 DEF AdmitPasswordWork, Goto, Hashing
    <3> QED
      BY <3>1, <1>1
  <2> QED
    BY <2>1, <2>2
<1>3. ASSUME NEW r \in Requests, HashPassword(r)
      PROVE  WorkIsHashing' /\ passwordWork' \in Nat
  <2>1. Hashing' = Hashing \ {r} /\ r \in Hashing
    BY <1>3 DEF HashPassword, Goto, Hashing
  <2>2. Cardinality(Hashing') = Cardinality(Hashing) - 1
    BY <1>0, <2>1, FS_RemoveElement
  <2>3. passwordWork' = passwordWork - 1
    BY <1>3 DEF HashPassword
  <2>4. Cardinality(Hashing') \in Nat
    BY <1>0, <2>1, FS_RemoveElement, FS_CardinalityType
  <2> QED
    BY <1>0, <2>2, <2>3, <2>4 DEF Hashing
<1>4. ASSUME NEW r \in Requests,
             Start(r) \/ Verify(r) \/ Consume(r) \/ Lookup(r) \/ RegisterUser(r)
               \/ RegisterFails(r)
      PROVE  Hashing' = Hashing /\ passwordWork' = passwordWork
  BY <1>4 DEF Start, Verify, Consume, Lookup, RegisterUser, RegisterFails, Goto, Hashing
<1>5. ASSUME (\E c \in Challenges : Issue(c)) \/ AdminNext \/ Tick \/ UNCHANGED regVars
      PROVE  Hashing' = Hashing /\ passwordWork' = passwordWork
  BY <1>5 DEF Issue, AdminNext, SetMode, CreateInviteCode, UpdateInviteCode,
       DeleteInviteCode, DeleteUser, Tick, regVars, requestVars, Hashing
<1> QED
  BY <1>1, <1>2, <1>3, <1>4, <1>5 DEF RegNext, RequestNext

\* Every step keeps the types.
LEMMA TypeStep ==
  ASSUME RegTypeOK, WorkIsHashing, [RegNext]_regVars
  PROVE  RegTypeOK'
<1>0. passwordWork' \in Nat
  BY WorkStep
<1> USE DEF RegTypeOK, Stages, Modes
<1>1. ASSUME NEW c \in Challenges, Issue(c)
      PROVE  RegTypeOK'
  BY <1>1, RegistrationConstants DEF Issue, storeVars, requestVars
<1>2. ASSUME NEW r \in Requests, Start(r)
      PROVE  RegTypeOK'
  BY <1>2 DEF Start, Goto, proofVars, storeVars
<1>3. ASSUME NEW r \in Requests, Verify(r)
      PROVE  RegTypeOK'
  BY <1>3 DEF Verify, Goto, proofVars, storeVars
<1>4. ASSUME NEW r \in Requests, Consume(r)
      PROVE  RegTypeOK'
  <2>1. form[r].challenge \in Challenges /\ Remembered(now[r]) \subseteq Challenges
    BY RememberedSubset DEF Form
  <2>2. usedChallenges' \subseteq Challenges /\ accepted' \in [Challenges -> Nat]
    BY <1>4, <2>1 DEF Consume
  <2>3. lastProofCleanupAt' \in Nat /\ pc' \in [Requests -> Stages]
    BY <1>4 DEF Consume, Goto
  <2> QED
    BY <1>4, <2>2, <2>3 DEF Consume, storeVars
<1>5. ASSUME NEW r \in Requests, Lookup(r) \/ RegisterFails(r)
      PROVE  RegTypeOK'
  BY <1>5 DEF Lookup, RegisterFails, Goto, proofVars, storeVars
<1>6. ASSUME NEW r \in Requests, AdmitPasswordWork(r) \/ HashPassword(r)
      PROVE  RegTypeOK'
  BY <1>0, <1>6 DEF AdmitPasswordWork, HashPassword, Goto, proofVars, storeVars
<1>7. ASSUME NEW r \in Requests, RegisterUser(r)
      PROVE  RegTypeOK'
  <2>1. codes' \in [Codes -> CodeRow] /\ redemptions' \subseteq Codes \X Requests
    <3>1. CASE TransactionMode(r) = "invite"
      <4>1. form[r].code \in Codes
        BY <1>7, <3>1 DEF RegisterUser, MayRegister, Usable, Form
      <4> QED
        BY <1>7, <3>1, <4>1 DEF RegisterUser, SpendCode, CodeRow
    <3>2. CASE TransactionMode(r) # "invite"
      BY <1>7, <3>2 DEF RegisterUser
    <3> QED
      BY <3>1, <3>2
  <2> QED
    BY <1>7, <2>1 DEF RegisterUser, Goto, proofVars
<1>8. ASSUME AdminNext
      PROVE  RegTypeOK'
  <2>1. ASSUME NEW m \in Modes, SetMode(m)
        PROVE  RegTypeOK'
    BY <2>1 DEF SetMode, proofVars, requestVars
  <2>2. ASSUME NEW k \in Codes, NEW limit \in Limits, CreateInviteCode(k, limit)
        PROVE  RegTypeOK'
    BY <2>2, RegistrationConstants
    DEF CreateInviteCode, CodeRow, CodeStates, proofVars, requestVars
  <2>3. ASSUME NEW k \in Codes, NEW limit \in Limits, NEW state \in {"enabled", "disabled"},
               UpdateInviteCode(k, limit, state)
        PROVE  RegTypeOK'
    <3>1. limit \in Nat /\ codes[k] \in CodeRow
      BY RegistrationConstants
    <3>2. codes' \in [Codes -> CodeRow]
      BY <2>3, <3>1 DEF UpdateInviteCode, CodeRow, CodeStates
    <3> QED
      BY <2>3, <3>2 DEF UpdateInviteCode, proofVars, requestVars
  <2>4. ASSUME NEW k \in Codes, DeleteInviteCode(k)
        PROVE  RegTypeOK'
    BY <2>4 DEF DeleteInviteCode, CodeRow, CodeStates, proofVars, requestVars
  <2>5. ASSUME NEW u \in users, DeleteUser(u)
        PROVE  RegTypeOK'
    BY <2>5 DEF DeleteUser, proofVars, requestVars
  <2> QED
    BY <1>8, <2>1, <2>2, <2>3, <2>4, <2>5 DEF AdminNext
<1>9. CASE Tick
  BY <1>9 DEF Tick, proofVars, storeVars, requestVars
<1>10. CASE UNCHANGED regVars
  BY <1>10 DEF regVars, proofVars, storeVars, requestVars
<1> QED
  BY <1>1, <1>2, <1>3, <1>4, <1>5, <1>6, <1>7, <1>8, <1>9, <1>10 DEF RegNext, RequestNext

\* Issuing, sweeping and accepting keep the replay table exact while the clock
\* and the requests move on.
LEMMA ReplayStep ==
  ASSUME RegTypeOK, ReplayInv, [RegNext]_regVars
  PROVE  ReplayInv'
<1> USE DEF RegTypeOK, ReplayInv
<1>1. ASSUME NEW c \in Challenges, Issue(c)
      PROVE  ReplayInv'
  <2>1. /\ expires' = [expires EXCEPT ![c] = clock + Validity]
        /\ expires[c] = 0 /\ clock + Validity > 0 /\ clock + Validity \in Nat
        /\ UNCHANGED <<clock, usedChallenges, accepted, pc, form, now>>
    BY <1>1, RegistrationConstants DEF Issue, requestVars
  <2>2. ClockWasRead' /\ ReplayTableBounded'
    BY <2>1 DEF ClockWasRead, ReplayTableBounded
  <2>3. IssuedBeforeUse'
    BY <2>1 DEF IssuedBeforeUse, Form
  <2>4. ChallengeRemembered'
    BY <2>1 DEF ChallengeRemembered, IssuedBeforeUse
  <2> QED
    BY <2>2, <2>3, <2>4
<1>2. ASSUME NEW r \in Requests, Start(r)
      PROVE  ReplayInv'
  BY <1>2 DEF Start, Goto, proofVars, ClockWasRead, IssuedBeforeUse, ChallengeRemembered,
       ReplayTableBounded
<1>3. ASSUME NEW r \in Requests, Verify(r)
      PROVE  ReplayInv'
  BY <1>3 DEF Verify, Goto, proofVars, ClockWasRead, IssuedBeforeUse, ChallengeRemembered,
       ReplayTableBounded
<1>4. ASSUME NEW r \in Requests, Consume(r)
      PROVE  ReplayInv'
  <2> DEFINE c == form[r].challenge
             kept == Remembered(now[r])
  <2>1. c \in Challenges /\ kept \in SUBSET Challenges /\ kept \in SUBSET usedChallenges
    BY RememberedSubset DEF Form
  <2>2. /\ UNCHANGED <<clock, expires, form, now>>
        /\ pc[r] = "consume" /\ \E stage \in {"lookup", "refused"} : Goto(r, stage)
    BY <1>4 DEF Consume
  <2>3. ClockWasRead'
    BY <2>2 DEF ClockWasRead
  <2>4. expires[c] > 0 /\ \A q \in Requests : pc'[q] # "idle" => pc[q] # "idle"
    BY <2>2 DEF IssuedBeforeUse, Goto
  <2>5. \A d \in usedChallenges : expires[d] > clock => d \in kept
    <3>1. now[r] <= clock /\ now[r] \in Nat /\ clock \in Nat
      BY DEF ClockWasRead
    <3> QED
      BY <3>1 DEF Remembered
  <2>6. CASE Accepts(r)
    <3>1. usedChallenges' = kept \cup {c} /\ accepted' = [accepted EXCEPT ![c] = @ + 1]
      BY <1>4, <2>6 DEF Consume
    <3>2. IssuedBeforeUse'
      BY <2>1, <2>2, <2>4, <3>1 DEF IssuedBeforeUse
    <3>3. ChallengeRemembered'
      BY <2>1, <2>2, <2>5, <3>1 DEF ChallengeRemembered
    <3>4. ReplayTableBounded'
      <4>1. c \notin kept /\ Cardinality(kept) < MaxUsed
        BY <2>6 DEF Accepts
      <4>2. Cardinality(kept \cup {c}) = Cardinality(kept) + 1 /\ Cardinality(kept) \in Nat
        BY <4>1, <2>1, ChallengesFinite, FS_AddElement
      <4> QED
        BY <3>1, <4>1, <4>2, RegistrationConstants DEF ReplayTableBounded
    <3> QED
      BY <2>3, <3>2, <3>3, <3>4
  <2>7. CASE ~Accepts(r)
    <3>1. usedChallenges' = kept /\ UNCHANGED accepted
      BY <1>4, <2>7 DEF Consume
    <3>2. IssuedBeforeUse' /\ ChallengeRemembered'
      BY <2>1, <2>2, <2>4, <2>5, <3>1 DEF IssuedBeforeUse, ChallengeRemembered
    <3>3. Cardinality(kept) <= Cardinality(usedChallenges)
      BY <2>1, ChallengesFinite, FS_Subset
    <3>4. Cardinality(kept) \in Nat /\ Cardinality(usedChallenges) \in Nat
      BY <2>1, ChallengesFinite
    <3>5. ReplayTableBounded'
      BY <3>1, <3>3, <3>4, RegistrationConstants DEF ReplayTableBounded
    <3> QED
      BY <2>3, <3>2, <3>5
  <2> QED
    BY <2>6, <2>7
<1>5. ASSUME NEW r \in Requests,
             Lookup(r) \/ AdmitPasswordWork(r) \/ HashPassword(r) \/ RegisterUser(r)
               \/ RegisterFails(r)
      PROVE  ReplayInv'
  <2>1. UNCHANGED <<clock, expires, usedChallenges, accepted, form, now>>
    BY <1>5 DEF Lookup, AdmitPasswordWork, HashPassword, RegisterUser, RegisterFails, proofVars
  <2>2. \A q \in Requests : pc'[q] # "idle" => pc[q] # "idle"
    BY <1>5 DEF Lookup, AdmitPasswordWork, HashPassword, RegisterUser, RegisterFails, Goto
  <2> QED
    BY <2>1, <2>2 DEF ClockWasRead, IssuedBeforeUse, ChallengeRemembered, ReplayTableBounded
<1>6. ASSUME AdminNext \/ UNCHANGED regVars
      PROVE  ReplayInv'
  <2>1. UNCHANGED <<clock, expires, usedChallenges, accepted, form, now, pc>>
    BY <1>6 DEF AdminNext, SetMode, CreateInviteCode, UpdateInviteCode, DeleteInviteCode,
         DeleteUser, regVars, proofVars, requestVars
  <2> QED
    BY <2>1 DEF ClockWasRead, IssuedBeforeUse, ChallengeRemembered, ReplayTableBounded
<1>7. CASE Tick
  <2>1. clock' = clock + 1 /\ UNCHANGED <<expires, usedChallenges, accepted, form, now, pc>>
    BY <1>7 DEF Tick, proofVars, requestVars
  <2> QED
    BY <2>1 DEF ClockWasRead, IssuedBeforeUse, ChallengeRemembered, ReplayTableBounded
<1> QED
  BY <1>1, <1>2, <1>3, <1>4, <1>5, <1>6, <1>7 DEF RegNext, RequestNext

\* The rows that redeem code k.
RowsOf(k) == {p \in redemptions : p[1] = k}

\* A registration through an invite code counts it once and stays within its limit.
LEMMA SpendStep ==
  ASSUME RegTypeOK, InviteInv, NEW r \in Requests, RegisterUser(r),
         TransactionMode(r) = "invite"
  PROVE  InviteInv'
<1> USE DEF RegTypeOK, InviteInv
<1> DEFINE k == form[r].code
<1>1. /\ k \in Codes /\ codes[k].state = "enabled" /\ codes[k].count < codes[k].limit
      /\ codes[k] \in CodeRow /\ codes[k].count \in Nat /\ codes[k].limit \in Nat
  BY RegistrationConstants DEF RegisterUser, MayRegister, Usable, Form, CodeRow
<1>2. /\ codes' = [codes EXCEPT ![k].count = @ + 1]
      /\ redemptions' = redemptions \cup {<<k, r>>}
      /\ pc' = [pc EXCEPT ![r] = "created"] /\ pc[r] = "register"
  BY DEF RegisterUser, SpendCode, Goto
<1>3. /\ codes'[k].count = codes[k].count + 1 /\ codes'[k].limit = codes[k].limit
      /\ \A j \in Codes \ {k} : codes'[j] = codes[j]
      /\ codes'[k].state = codes[k].state
  BY <1>1, <1>2 DEF CodeRow
<1>4. <<k, r>> \notin redemptions
  BY <1>2 DEF RedeemerEnded
<1>5. RedeemerEnded'
  <2>1. IsFiniteSet(redemptions')
    BY <1>2, FS_AddElement DEF RedeemerEnded
  <2>2. \A p \in redemptions : p[2] \in Requests
    OBVIOUS
  <2> QED
    BY <1>2, <2>1, <2>2 DEF RedeemerEnded
<1>6. InviteLimitKept' /\ AbsentIsUnused'
  BY <1>1, <1>3 DEF InviteLimitKept, AbsentIsUnused, Exists
<1>7. ASSUME NEW j \in Codes
      PROVE  IsFiniteSet(RowsOf(j)) /\ codes[j].count = Cardinality(RowsOf(j))
  <2>1. RowsOf(j) \in SUBSET redemptions
    BY DEF RowsOf
  <2> QED
    BY <2>1, FS_Subset DEF RowsOf, RedeemerEnded, CountIsRedemptions
<1>8. ASSUME NEW j \in Codes
      PROVE  codes'[j].count = Cardinality(RowsOf(j)')
  <2>1. CASE j = k
    <3>1. RowsOf(j)' = RowsOf(j) \cup {<<k, r>>} /\ <<k, r>> \notin RowsOf(j)
      BY <1>2, <1>4, <2>1 DEF RowsOf
    <3>2. PICK rowsOf : rowsOf = RowsOf(j) /\ IsFiniteSet(rowsOf)
      BY <1>7
    <3>3. Cardinality(rowsOf \cup {<<k, r>>}) = Cardinality(rowsOf) + 1
      BY <3>1, <3>2, FS_AddElement
    <3>4. Cardinality(RowsOf(j)') = Cardinality(RowsOf(j)) + 1
      BY <3>1, <3>2, <3>3
    <3> QED
      BY <1>3, <1>7, <2>1, <3>4
  <2>2. CASE j # k
    <3>1. RowsOf(j)' = RowsOf(j)
      BY <1>2, <2>2 DEF RowsOf
    <3> QED
      BY <1>3, <1>7, <2>2, <3>1
  <2> QED
    BY <2>1, <2>2
<1> QED
  BY <1>5, <1>6, <1>8 DEF CountIsRedemptions, RowsOf

\* Every other step leaves counts and rows together.
LEMMA InviteStep ==
  ASSUME RegTypeOK, InviteInv, [RegNext]_regVars
  PROVE  InviteInv'
<1> USE DEF RegTypeOK, InviteInv
<1>1. ASSUME NEW r \in Requests, RegisterUser(r), TransactionMode(r) = "invite"
      PROVE  InviteInv'
  BY <1>1, SpendStep
<1>2. ASSUME UNCHANGED <<codes, redemptions>>,
             \A q \in Requests : pc[q] = "created" => pc'[q] = "created"
      PROVE  InviteInv'
  <2>1. \A p \in redemptions : p[2] \in Requests
    OBVIOUS
  <2>2. RedeemerEnded'
    BY <1>2, <2>1 DEF RedeemerEnded
  <2> QED
    BY <1>2, <2>2 DEF InviteLimitKept, CountIsRedemptions, AbsentIsUnused, Exists
<1>3. ASSUME NEW r \in Requests, RequestNext(r),
             ~(RegisterUser(r) /\ TransactionMode(r) = "invite")
      PROVE  InviteInv'
  <2>1. UNCHANGED <<codes, redemptions>>
    BY <1>3 DEF RequestNext, Start, Verify, Consume, Lookup, AdmitPasswordWork, HashPassword,
         RegisterUser, RegisterFails, storeVars
  <2>2. \A q \in Requests : pc[q] = "created" => pc'[q] = "created"
    BY <1>3 DEF RequestNext, Start, Verify, Consume, Lookup, AdmitPasswordWork, HashPassword,
         RegisterUser, RegisterFails, Goto
  <2> QED
    BY <1>2, <2>1, <2>2
<1>4. ASSUME NEW k \in Codes, redemptions' = redemptions, pc' = pc,
             codes' \in [Codes -> CodeRow],
             \A j \in Codes \ {k} : codes'[j] = codes[j],
             codes'[k].count = codes[k].count, codes'[k].state # "absent",
             codes'[k].state \in {"enabled", "disabled"} => codes[k].count <= codes'[k].limit
      PROVE  InviteInv'
  <2>1. RedeemerEnded'
    BY <1>4 DEF RedeemerEnded
  <2>2. CountIsRedemptions'
    BY <1>4 DEF CountIsRedemptions
  <2>3. InviteLimitKept' /\ AbsentIsUnused'
    BY <1>4 DEF InviteLimitKept, AbsentIsUnused, Exists
  <2> QED
    BY <2>1, <2>2, <2>3
<1>5. ASSUME NEW k \in Codes, NEW limit \in Limits, CreateInviteCode(k, limit)
      PROVE  InviteInv'
  <2>1. codes[k].count = 0
    BY <1>5 DEF CreateInviteCode, AbsentIsUnused
  <2> QED
    BY <1>4, <1>5, <2>1, RegistrationConstants DEF CreateInviteCode, CodeRow, CodeStates, requestVars
<1>6. ASSUME NEW k \in Codes, NEW limit \in Limits, NEW state \in {"enabled", "disabled"},
             UpdateInviteCode(k, limit, state)
      PROVE  InviteInv'
  <2>1. limit \in Nat /\ codes[k] \in CodeRow
    BY RegistrationConstants
  <2>2. /\ codes' = [codes EXCEPT ![k].limit = limit, ![k].state = state]
        /\ codes[k].count <= limit /\ redemptions' = redemptions /\ pc' = pc
    BY <1>6 DEF UpdateInviteCode, requestVars
  <2>3. /\ codes'[k].count = codes[k].count /\ codes'[k].state = state /\ codes'[k].limit = limit
        /\ codes'[k] \in CodeRow
        /\ \A j \in Codes \ {k} : codes'[j] = codes[j]
    BY <2>1, <2>2 DEF CodeRow, CodeStates
  <2>4. codes' \in [Codes -> CodeRow]
    BY <2>2, <2>3
  <2> QED
    BY <1>4, <2>2, <2>3, <2>4
<1>7. ASSUME NEW k \in Codes, DeleteInviteCode(k)
      PROVE  InviteInv'
  BY <1>4, <1>7 DEF DeleteInviteCode, CodeRow, CodeStates, requestVars
<1>8. ASSUME (\E c \in Challenges : Issue(c)) \/ (\E m \in Modes : SetMode(m))
               \/ (\E u \in users : DeleteUser(u)) \/ Tick \/ UNCHANGED regVars
      PROVE  InviteInv'
  <2>1. UNCHANGED <<codes, redemptions, pc>>
    BY <1>8 DEF Issue, SetMode, DeleteUser, Tick, regVars, storeVars, requestVars
  <2> QED
    BY <1>2, <2>1
<1> QED
  BY <1>1, <1>3, <1>5, <1>6, <1>7, <1>8 DEF RegNext, AdminNext

-----------------------------------------------------------------------------

\* For any number of requests, challenges, codes and slots: an accepted challenge is
\* remembered while it is valid, no code admits more users than its limit, its count is
\* the number of its redemptions, and slots are neither lost nor given back twice.
THEOREM RegInvariant == RegSpec => []RegInv
<1>1. RegInit => RegInv
  <2> SUFFICES ASSUME RegInit PROVE RegInv
    OBVIOUS
  <2> USE DEF RegInit
  <2>1. RegTypeOK
    BY DEF RegTypeOK, Modes, Stages, CodeRow, CodeStates
  <2>2. WorkIsHashing
    <3>1. {r \in Requests : pc[r] = "hash"} = {}
      OBVIOUS
    <3> QED
      BY <3>1, FS_EmptySet DEF WorkIsHashing
  <2>3. ReplayInv
    BY FS_EmptySet, RegistrationConstants
    DEF ReplayInv, ClockWasRead, IssuedBeforeUse, ChallengeRemembered, ReplayTableBounded
  <2>4. RedeemerEnded /\ AbsentIsUnused /\ InviteLimitKept
    BY FS_EmptySet DEF RedeemerEnded, AbsentIsUnused, InviteLimitKept, Exists
  <2>5. CountIsRedemptions
    <3>1. ASSUME NEW k \in Codes
          PROVE  {p \in redemptions : p[1] = k} = {} /\ codes[k].count = 0
      OBVIOUS
    <3> QED
      BY <3>1, FS_EmptySet DEF CountIsRedemptions
  <2> QED
    BY <2>1, <2>2, <2>3, <2>4, <2>5 DEF RegInv, InviteInv
<1>2. RegInv /\ [RegNext]_regVars => RegInv'
  BY TypeStep, WorkStep, ReplayStep, InviteStep DEF RegInv
<1> QED
  BY <1>1, <1>2, PTL DEF RegSpec

\* A user appears only under the mode and the invite code of that very step, with
\* the redemption recorded in it.
THEOREM RegPolicyAtCommit == RegSpec => PolicyAtCommit
<1> DEFINE Policy ==
      \A u \in users' \ users :
        /\ mode # "disabled"
        /\ mode = "invite" => /\ form[u].code \in Codes
                              /\ codes[form[u].code].state = "enabled"
                              /\ <<form[u].code, u>> \in redemptions'
<1>1. RegInv /\ [RegNext]_regVars => [Policy]_regVars
  <2> SUFFICES ASSUME RegTypeOK, RegNext, NEW u \in users' \ users
               PROVE  /\ mode # "disabled"
                      /\ mode = "invite" => /\ form[u].code \in Codes
                                            /\ codes[form[u].code].state = "enabled"
                                            /\ <<form[u].code, u>> \in redemptions'
    BY DEF RegInv
  <2>1. u \in Requests /\ RegisterUser(u)
    BY DEF RegTypeOK, RegNext, RequestNext, AdminNext, Issue, Start, Verify, Consume, Lookup,
         AdmitPasswordWork, HashPassword, RegisterUser, RegisterFails, SetMode,
         CreateInviteCode, UpdateInviteCode, DeleteInviteCode, DeleteUser, Tick, storeVars
  <2>2. MayRegister(u) /\ (mode = "invite" => SpendCode(u))
    BY <2>1 DEF RegisterUser, TransactionMode
  <2>3. form[u].code \in Codes \cup {NoCode}
    BY <2>1 DEF RegTypeOK, Form
  <2> QED
    BY <2>2, <2>3 DEF MayRegister, TransactionMode, Usable, SpendCode
<1> QED
  BY <1>1, RegInvariant, PTL DEF RegSpec, PolicyAtCommit
(***************************************************************************)
(* The endpoint buckets: the inductive invariant.                          *)
(***************************************************************************)
\* What a request in flight may hold, and a rate.Limiter.
Calls ==
    {Free} \cup [pc : {"lock"}, host : Hosts, address : Hosts, now : Nat]
    \cup [pc : {"reserve"}, host : Hosts, address : Hosts, now : Nat, own : BOOLEAN]
    \cup [pc : {"cancel"}, host : Hosts, address : Hosts, now : Nat, own : BOOLEAN, act : Nat]

Limiters == [parts : Int, last : Nat, event : Nat]

EndpointTypes ==
    /\ ipMode \in IpModes /\ lagBound \in 0 .. 1 /\ time \in Nat \ {0}
    /\ nextExpiry \in Nat /\ lastSweep \in Nat
    /\ dedicated \in [DOMAIN dedicated -> [bucket : Limiters, lastSeen : Nat]]
    /\ DOMAIN dedicated \subseteq Hosts /\ IsFiniteSet(DOMAIN dedicated)
    /\ Cardinality(DOMAIN dedicated) <= MaximumAddresses
    /\ shared \in [SharedBuckets -> Limiters]
    /\ call \in [Callers -> Calls]
    /\ hostMeter \in [Hosts -> Nat] /\ sharedMeter \in [SharedBuckets -> Nat]

\* A request with a pointer to a bucket.
Holds(c) == call[c].pc \in {"reserve", "cancel"}

\* A request is counted as itself and does not stay long; the entry it uses was seen at a
\* time that no request in flight finds expired.
CallsInTime ==
    \A c \in Callers : call[c].pc # "free" =>
        /\ call[c].address = call[c].host
        /\ call[c].now <= time /\ time <= call[c].now + lagBound
        /\ Holds(c) /\ call[c].own =>
              /\ call[c].address \in DOMAIN dedicated
              /\ call[c].now <= dedicated[call[c].address].lastSeen + lagBound

\* The next check is scheduled for the first expiry, and not for later than a new entry's.
ChecksInTime ==
    /\ nextExpiry <= time + IdleTTL
    /\ \A a \in DOMAIN dedicated : dedicated[a].lastSeen <= time
    /\ ExpirySeenInTime

\* The requests that are to cancel a reservation of a host's bucket, or of a shared one.
OwnPending(h) == {c \in Callers : call[c].pc = "cancel" /\ call[c].own /\ call[c].host = h}
SharedPending(b) == {c \in Callers : call[c].pc = "cancel" /\ ~call[c].own /\ SharedOf[call[c].host] = b}

\* Pending reservations of a bucket stand in a row, a token apart, and what the bucket
\* lacks is no less than the farthest of them.
InDebt(bucket, pending, calls, t) ==
    \A c \in pending :
        /\ t * Rate < calls[c].act /\ calls[c].act <= bucket.event
        /\ PartsIn(bucket, t) + calls[c].act <= t * Rate
        /\ \A d \in pending : c # d => calls[c].act + Token <= calls[d].act
                                       \/ calls[d].act + Token <= calls[c].act

\* A meter and what the bucket holds, or held before a reservation that is to be
\* cancelled, stay within a bound.
Covered(meter, bound, bucket, pending, calls, t) ==
    /\ meter <= bound /\ meter + PartsIn(bucket, t) <= bound
    /\ \A c \in pending : meter + t * Rate - calls[c].act + Token <= bound

\* A request that was sent to the shared bucket.
Detours(c, h) == Holds(c) /\ ~call[c].own /\ call[c].host = h
OnDetour(h) == \E c \in Callers : Detours(c, h)

\* While a host may still use the shared bucket, what that one gave is not used up by its own.
HostBound(h) == IF OnDetour(h) THEN BurstParts + sharedMeter[SharedOf[h]] ELSE 2 * BurstParts

HostMetered(h) ==
    IF h \in DOMAIN dedicated
    THEN /\ dedicated[h].bucket.last <= time
         /\ InDebt(dedicated[h].bucket, OwnPending(h), call, time)
         /\ Covered(hostMeter[h], HostBound(h), dedicated[h].bucket, OwnPending(h), call, time)
         /\ hostMeter[h] = 0 \/ hostMeter[h] + (time - dedicated[h].lastSeen) * Rate <= 2 * BurstParts
         /\ OnDetour(h) => dedicated[h].lastSeen = time
    ELSE hostMeter[h] <= sharedMeter[SharedOf[h]]

SharedMetered(b) ==
    /\ shared[b].last <= time
    /\ InDebt(shared[b], SharedPending(b), call, time)
    /\ Covered(sharedMeter[b], BurstParts, shared[b], SharedPending(b), call, time)

Metered == (\A h \in Hosts : HostMetered(h)) /\ (\A b \in SharedBuckets : SharedMetered(b))

IPlaces == EndpointTypes /\ CallsInTime /\ ChecksInTime

IEndpoint == IPlaces /\ (lagBound = 0 => Metered)

-----------------------------------------------------------------------------
(* Buckets.                                                                *)

\* The constants as numbers.
LEMMA EndpointNumbers ==
    /\ Token \in Nat /\ Token > 0 /\ Rate \in Nat /\ Rate > 0 /\ BurstTokens \in Nat /\ BurstTokens > 0
    /\ IdleTTL \in Nat /\ IdleTTL > 2 /\ SweepInterval \in Nat /\ SweepInterval > 0
    /\ MaximumAddresses \in Nat /\ MaximumAddresses > 0
    /\ BurstParts \in Nat /\ BurstParts >= Token /\ 2 * BurstParts <= IdleTTL * Rate
    /\ \A h \in Hosts : SharedOf[h] \in SharedBuckets
<1>1. /\ Token \in Nat \ {0} /\ Rate \in Nat \ {0} /\ BurstTokens \in Nat \ {0} /\ IdleTTL \in Nat \ {0}
      /\ SweepInterval \in Nat \ {0} /\ MaximumAddresses \in Nat \ {0}
    BY EndpointConstants
<1>2. BurstParts \in Nat /\ BurstParts >= Token
    BY <1>1 DEF BurstParts
<1> QED BY <1>1, <1>2, EndpointConstants

\* What a bucket holds is an integer within the burst.
LEMMA PartsBounded ==
    ASSUME NEW t \in Nat, NEW bucket \in Limiters
    PROVE  PartsIn(bucket, t) \in Int /\ PartsIn(bucket, t) <= BurstParts
<1> DEFINE last == IF t < bucket.last THEN t ELSE bucket.last
<1>1. last \in Nat /\ last <= t /\ bucket.parts \in Int
    BY DEF Limiters
<1>2. (t - last) * Rate \in Nat
    <2>1. t - last \in Nat
        BY <1>1
    <2> QED BY <2>1, EndpointNumbers
<1> HIDE DEF last
<1>3. PartsIn(bucket, t) = IF bucket.parts + (t - last) * Rate < BurstParts
                           THEN bucket.parts + (t - last) * Rate ELSE BurstParts
    BY DEF PartsIn, last
<1> QED BY <1>1, <1>2, <1>3, EndpointNumbers

\* A bucket last used at t holds its parts.
LEMMA PartsAtLast ==
    ASSUME NEW t \in Nat, NEW bucket \in Limiters, bucket.last = t
    PROVE  PartsIn(bucket, t) = IF bucket.parts < BurstParts THEN bucket.parts ELSE BurstParts
<1>1. (t - t) * Rate = 0 /\ bucket.parts \in Int
    BY EndpointNumbers DEF Limiters
<1>2. bucket.parts + 0 = bucket.parts
    BY <1>1
<1> QED BY <1>1, <1>2 DEF PartsIn

\* A tick refills at most Rate parts.
LEMMA PartsRefill ==
    ASSUME NEW t \in Nat, NEW bucket \in Limiters, bucket.last <= t
    PROVE  PartsIn(bucket, t + 1) <= PartsIn(bucket, t) + Rate
<1>1. bucket.last \in Nat /\ bucket.parts \in Int /\ ~(t < bucket.last) /\ ~(t + 1 < bucket.last)
    BY DEF Limiters
<1>2. PICK n \in Nat : n = t - bucket.last
    BY <1>1
<1>3. t + 1 - bucket.last = n + 1
    BY <1>1, <1>2
<1>4. (n + 1) * Rate = n * Rate + Rate /\ n * Rate \in Nat
    BY EndpointNumbers
<1>5. PartsIn(bucket, t) = IF bucket.parts + n * Rate < BurstParts THEN bucket.parts + n * Rate ELSE BurstParts
    BY <1>1, <1>2 DEF PartsIn
<1>6. PartsIn(bucket, t + 1) = IF bucket.parts + (n + 1) * Rate < BurstParts
                               THEN bucket.parts + (n + 1) * Rate ELSE BurstParts
    BY <1>1, <1>3 DEF PartsIn
<1> QED BY <1>1, <1>4, <1>5, <1>6, EndpointNumbers

\* A new bucket is full.
LEMMA NewLimiterFull ==
    /\ NewLimiter \in Limiters
    /\ \A t \in Nat : NewLimiter.last <= t /\ PartsIn(NewLimiter, t) = BurstParts
<1>1. NewLimiter \in Limiters
    BY EndpointNumbers DEF NewLimiter, Limiters
<1>2. ASSUME NEW t \in Nat PROVE NewLimiter.last <= t /\ PartsIn(NewLimiter, t) = BurstParts
    <2>1. ~(t < 0) /\ t - 0 = t /\ t * Rate \in Nat
        BY EndpointNumbers
    <2>2. PartsIn(NewLimiter, t) = IF BurstParts + t * Rate < BurstParts THEN BurstParts + t * Rate ELSE BurstParts
        BY <2>1 DEF PartsIn, NewLimiter
    <2> QED BY <2>1, <2>2, EndpointNumbers DEF NewLimiter
<1> QED BY <1>1, <1>2

\* A reservation takes a token, and stands where the bucket is out of its debt.
LEMMA Reserved ==
    ASSUME NEW t \in Nat, NEW bucket \in Limiters
    PROVE  /\ t * Rate \in Nat
           /\ ReserveN(bucket, t) \in Limiters /\ ReserveN(bucket, t).last = t
           /\ PartsIn(ReserveN(bucket, t), t) = PartsIn(bucket, t) - Token
           /\ ReserveN(bucket, t).event = ActAt(bucket, t) /\ ActAt(bucket, t) \in Nat
           /\ ActAt(bucket, t) <= t * Rate <=> PartsIn(bucket, t) >= Token
           /\ ActAt(bucket, t) > t * Rate => ActAt(bucket, t) = t * Rate - PartsIn(bucket, t) + Token
<1> DEFINE point == t * Rate
           left == PartsIn(bucket, t) - Token
<1>1. point \in Nat /\ left \in Int /\ left < BurstParts /\ left = Left(bucket, t)
    BY EndpointNumbers, PartsBounded DEF Left
<1>2. ActAt(bucket, t) = point + (IF left < 0 THEN -left ELSE 0)
    BY <1>1 DEF ActAt
<1>3. ReserveN(bucket, t) = [parts |-> left, last |-> t, event |-> ActAt(bucket, t)]
    BY <1>1 DEF ReserveN
<1>4. PartsIn(bucket, t) \in Int
    BY PartsBounded
<1>5. ActAt(bucket, t) \in Nat
    <2> HIDE DEF point, left
    <2> QED BY <1>1, <1>2
<1>6. ReserveN(bucket, t) \in Limiters
    BY <1>1, <1>3, <1>5 DEF Limiters
<1>7. PartsIn(ReserveN(bucket, t), t) = left
    BY <1>1, <1>3, <1>6, PartsAtLast
<1>8. /\ ActAt(bucket, t) <= point <=> PartsIn(bucket, t) >= Token
      /\ ActAt(bucket, t) > point => ActAt(bucket, t) = point - PartsIn(bucket, t) + Token
    <2>1. left = PartsIn(bucket, t) - Token
        OBVIOUS
    <2> HIDE DEF point, left
    <2> QED BY <1>1, <1>2, <1>4, <2>1, EndpointNumbers
<1> QED BY <1>1, <1>3, <1>5, <1>6, <1>7, <1>8

\* A cancelled reservation gives back what was not reserved after it.
GivenBack(bucket, act, after, t) ==
    /\ after \in Limiters /\ (bucket.last <= t => after.last <= t)
    /\ bucket.event - act >= Token => after = bucket
    /\ PartsIn(after, t) <= PartsIn(bucket, t) + (IF bucket.event - act >= Token THEN 0 ELSE Token - (bucket.event - act))
    /\ after.event = bucket.event \/ (act = bucket.event /\ after.event = act - Token)

\* A cancellation gives back what the later reservations have not used.
LEMMA Cancelled ==
    ASSUME NEW t \in Nat, NEW bucket \in Limiters, NEW act \in Nat,
           NEW after, after = CancelAt(bucket, act, t)
    PROVE  GivenBack(bucket, act, after, t)
<1> DEFINE restored == Token - (bucket.event - act)
           parts == PartsIn(bucket, t) + restored
<1>1. restored \in Int /\ bucket.event \in Nat /\ PartsIn(bucket, t) \in Int /\ PartsIn(bucket, t) <= BurstParts /\ t * Rate \in Nat
    BY PartsBounded, EndpointNumbers DEF Limiters
<1>2. CASE restored <= 0
    <2>1. after = bucket
        BY <1>2 DEF CancelAt
    <2>2. bucket.event - act >= Token
        BY <1>1, <1>2, EndpointNumbers
    <2> QED BY <1>1, <2>1, <2>2 DEF GivenBack
<1>3. CASE ~(restored <= 0)
    <2>1. after = [parts |-> IF parts < BurstParts THEN parts ELSE BurstParts, last |-> t,
                   event |-> IF act = bucket.event /\ act - Token >= t * Rate THEN act - Token ELSE bucket.event]
        BY <1>3 DEF CancelAt
    <2>2. ~(bucket.event - act >= Token) /\ parts \in Int
        BY <1>1, <1>3, EndpointNumbers
    <2>3. after.event \in Nat
        <3>1. CASE act = bucket.event /\ act - Token >= t * Rate
            <4>1. after.event = act - Token
                BY <2>1, <3>1
            <4>2. act - Token \in Nat
                BY <1>1, <3>1, EndpointNumbers
            <4> QED BY <4>1, <4>2
        <3>2. CASE ~(act = bucket.event /\ act - Token >= t * Rate)
            BY <1>1, <2>1, <3>2
        <3> QED BY <3>1, <3>2
    <2>4. after \in Limiters /\ after.last = t
        BY <2>1, <2>2, <2>3, EndpointNumbers DEF Limiters
    <2>5. PartsIn(after, t) = IF after.parts < BurstParts THEN after.parts ELSE BurstParts
        BY <2>4, PartsAtLast
    <2>6. after.parts = IF parts < BurstParts THEN parts ELSE BurstParts
        BY <2>1
    <2>7. PartsIn(after, t) <= parts
        BY <2>2, <2>5, <2>6, EndpointNumbers
    <2>8. after.event = bucket.event \/ (act = bucket.event /\ after.event = act - Token)
        BY <2>1
    <2> QED BY <2>2, <2>4, <2>7, <2>8 DEF GivenBack
<1> QED BY <1>2, <1>3

ActsTyped(pending, calls) == \A c \in pending : calls[c].act \in Nat

\* A request that goes on finds nothing to be cancelled; meter and bucket keep their sum.
LEMMA GrantCovers ==
    ASSUME NEW t \in Nat, NEW bucket \in Limiters, NEW pending, NEW calls, ActsTyped(pending, calls),
           InDebt(bucket, pending, calls, t), ActAt(bucket, t) <= t * Rate,
           NEW after, after = ReserveN(bucket, t), NEW calls2,
           NEW m \in Nat, NEW bound \in Nat, Covered(m, bound, bucket, pending, calls, t)
    PROVE  /\ pending = {}
           /\ Covered(m + Token, bound, after, {}, calls2, t)
<1>1. /\ t * Rate \in Nat /\ PartsIn(bucket, t) \in Int /\ PartsIn(bucket, t) >= Token
      /\ PartsIn(after, t) = PartsIn(bucket, t) - Token
    BY Reserved, PartsBounded
<1>2. ASSUME NEW c \in pending PROVE FALSE
    <2>1. t * Rate < calls[c].act /\ PartsIn(bucket, t) + calls[c].act <= t * Rate /\ calls[c].act \in Nat
        BY DEF InDebt, ActsTyped
    <2> QED BY <1>1, <2>1, EndpointNumbers
<1>3. Covered(m + Token, bound, after, {}, calls2, t)
    <2>1. m + PartsIn(bucket, t) <= bound
        BY DEF Covered
    <2>2. m + Token <= bound /\ m + Token + PartsIn(after, t) <= bound
        BY <1>1, <2>1, EndpointNumbers
    <2> QED BY <2>2 DEF Covered
<1> QED BY <1>2, <1>3

\* A request that must wait is the last in the row.
LEMMA RefusalQueued ==
    ASSUME NEW t \in Nat, NEW bucket \in Limiters, NEW pending, NEW calls, ActsTyped(pending, calls),
           InDebt(bucket, pending, calls, t), ActAt(bucket, t) > t * Rate,
           NEW after, after = ReserveN(bucket, t),
           NEW c, c \notin pending, NEW calls2, \A d \in pending : calls2[d] = calls[d],
           calls2[c].act = ActAt(bucket, t),
           NEW m \in Nat, NEW bound \in Nat, Covered(m, bound, bucket, pending, calls, t)
    PROVE  /\ InDebt(after, pending \cup {c}, calls2, t)
           /\ Covered(m, bound, after, pending \cup {c}, calls2, t)
<1> DEFINE point == t * Rate
           parts == PartsIn(bucket, t)
           act == ActAt(bucket, t)
<1>1. /\ point \in Nat /\ parts \in Int /\ act \in Nat /\ act > point /\ act = point - parts + Token
      /\ PartsIn(after, t) = parts - Token /\ after.event = act
    BY Reserved, PartsBounded
<1>2. ASSUME NEW d \in pending
      PROVE  /\ calls2[d].act = calls[d].act /\ calls[d].act \in Nat /\ point < calls[d].act
             /\ parts + calls[d].act <= point
             /\ \A e \in pending : d # e => calls[d].act + Token <= calls[e].act \/ calls[e].act + Token <= calls[d].act
    BY DEF InDebt, ActsTyped
<1>3. calls2[c].act = act
    OBVIOUS
<1> HIDE DEF point, parts, act
<1>4. ASSUME NEW d \in pending
      PROVE  calls2[d].act + Token <= act /\ (parts - Token) + calls2[d].act <= point
    <2>1. calls2[d].act \in Nat /\ parts + calls2[d].act <= point
        BY <1>2
    <2> QED BY <1>1, <2>1, EndpointNumbers
<1>5. InDebt(after, pending \cup {c}, calls2, t)
    <2> SUFFICES ASSUME NEW d \in pending \cup {c}
                 PROVE  /\ point < calls2[d].act /\ calls2[d].act <= act
                        /\ (parts - Token) + calls2[d].act <= point
                        /\ \A e \in pending \cup {c} : d # e => calls2[d].act + Token <= calls2[e].act
                                                              \/ calls2[e].act + Token <= calls2[d].act
        BY <1>1 DEF InDebt, point
    <2>1. CASE d \in pending
        <3>1. calls2[d].act \in Nat /\ calls2[d].act + Token <= act /\ point < calls2[d].act
            BY <1>2, <1>4, <2>1
        <3>2. calls2[d].act <= act
            BY <1>1, <3>1, EndpointNumbers
        <3> QED BY <1>2, <1>3, <1>4, <2>1, <3>1, <3>2
    <2>2. CASE d = c
        <3>1. point < act /\ act <= act /\ (parts - Token) + act <= point
            BY <1>1, EndpointNumbers
        <3> QED BY <1>3, <1>4, <2>2, <3>1
    <2> QED BY <2>1, <2>2
<1>6. Covered(m, bound, after, pending \cup {c}, calls2, t)
    <2>1. m <= bound /\ m + parts <= bound /\ \A d \in pending : m + point - calls[d].act + Token <= bound
        BY DEF Covered, parts, point
    <2>2. m + (parts - Token) <= bound /\ m + point - act + Token <= bound
        BY <1>1, <2>1, EndpointNumbers
    <2>3. \A d \in pending \cup {c} : m + point - calls2[d].act + Token <= bound
        BY <1>2, <1>3, <2>1, <2>2
    <2> QED BY <1>1, <2>1, <2>2, <2>3 DEF Covered, point
<1> QED BY <1>5, <1>6

\* A cancellation gives back no more than the reservation took, whichever of the row is
\* cancelled.
LEMMA CancelCovers ==
    ASSUME NEW t \in Nat, NEW bucket \in Limiters, bucket.last <= t,
           NEW pending, NEW calls, ActsTyped(pending, calls), InDebt(bucket, pending, calls, t),
           NEW c \in pending, NEW after, after = CancelAt(bucket, calls[c].act, t),
           NEW calls2, \A d \in pending \ {c} : calls2[d] = calls[d],
           NEW m \in Nat, NEW bound \in Nat, Covered(m, bound, bucket, pending, calls, t)
    PROVE  /\ InDebt(after, pending \ {c}, calls2, t)
           /\ Covered(m, bound, after, pending \ {c}, calls2, t)
<1> DEFINE point == t * Rate
           parts == PartsIn(bucket, t)
           left == PartsIn(after, t)
           act == calls[c].act
           event == bucket.event
<1>1. /\ act \in Nat /\ after \in Limiters
      /\ event - act >= Token => after = bucket
      /\ left <= parts + (IF event - act >= Token THEN 0 ELSE Token - (event - act))
      /\ after.event = event \/ (act = event /\ after.event = act - Token)
    <2>1. act \in Nat
        BY DEF ActsTyped
    <2>2. PICK n \in Nat : n = act
        BY <2>1
    <2>3. after = CancelAt(bucket, n, t)
        BY <2>2
    <2>4. GivenBack(bucket, n, after, t)
        BY <2>3, Cancelled
    <2> QED BY <2>2, <2>4 DEF GivenBack
<1>2. /\ point \in Nat /\ parts \in Int /\ left \in Int /\ event \in Nat /\ after.event \in Nat
    BY <1>1, PartsBounded, EndpointNumbers DEF Limiters
<1>3. point < act /\ act <= event /\ parts + act <= point
    BY DEF InDebt
<1>4. ASSUME NEW d \in pending \ {c}
      PROVE  /\ calls2[d].act = calls[d].act /\ calls[d].act \in Nat /\ point < calls[d].act
             /\ calls[d].act <= event /\ parts + calls[d].act <= point
             /\ act + Token <= calls[d].act \/ calls[d].act + Token <= act
             /\ \A e \in pending \ {c} : d # e => calls2[d].act + Token <= calls2[e].act \/ calls2[e].act + Token <= calls2[d].act
    <2>1. /\ point < calls[d].act /\ calls[d].act <= event /\ parts + calls[d].act <= point
          /\ \A e \in pending : d # e => calls[d].act + Token <= calls[e].act \/ calls[e].act + Token <= calls[d].act
        BY DEF InDebt
    <2>2. calls[d].act \in Nat /\ \A e \in pending \ {c} : calls2[e] = calls[e]
        BY DEF ActsTyped
    <2>3. act + Token <= calls[d].act \/ calls[d].act + Token <= act
        BY <2>1
    <2> QED BY <2>1, <2>2, <2>3
<1> HIDE DEF point, parts, left, act, event
<1>5. ASSUME NEW d \in pending \ {c}
      PROVE  calls[d].act <= after.event /\ left + calls[d].act <= point
    <2>1. PICK a \in Nat : a = calls[d].act
        BY <1>4
    <2>2. a <= event /\ parts + a <= point /\ (act + Token <= a \/ a + Token <= act)
        BY <1>4, <2>1
    <2>3. a <= after.event
        BY <1>1, <1>2, <2>2, EndpointNumbers
    <2>4. left + a <= point
        <3>1. CASE event - act >= Token
            BY <1>1, <1>2, <2>2, <3>1
        <3>2. CASE ~(event - act >= Token)
            BY <1>1, <1>2, <1>3, <2>2, <3>2, EndpointNumbers
        <3> QED BY <3>1, <3>2
    <2> QED BY <2>1, <2>3, <2>4
<1>6. InDebt(after, pending \ {c}, calls2, t)
    BY <1>4, <1>5 DEF InDebt, point, left
<1>7. Covered(m, bound, after, pending \ {c}, calls2, t)
    <2>1. m <= bound /\ m + parts <= bound /\ \A d \in pending : m + point - calls[d].act + Token <= bound
        BY DEF Covered, parts, point
    <2>2. m + point - act + Token <= bound
        BY <2>1 DEF act
    <2>3. m + left <= bound
        <3>1. CASE event - act >= Token
            BY <1>1, <1>2, <2>1, <3>1
        <3>2. CASE ~(event - act >= Token)
            BY <1>1, <1>2, <1>3, <2>2, <3>2, EndpointNumbers
        <3> QED BY <3>1, <3>2
    <2>4. \A d \in pending \ {c} : m + point - calls2[d].act + Token <= bound
        BY <1>4, <2>1
    <2> QED BY <2>1, <2>3, <2>4 DEF Covered, left, point
<1> QED BY <1>6, <1>7

\* As time passes, what a bucket gains the meter loses.
LEMMA TickCovers ==
    ASSUME NEW t \in Nat, NEW bucket \in Limiters, bucket.last <= t, NEW calls, NEW calls2,
           NEW m \in Nat, NEW bound \in Nat, bound >= BurstParts, Covered(m, bound, bucket, {}, calls, t)
    PROVE  Less(m) \in Nat /\ Covered(Less(m), bound, bucket, {}, calls2, t + 1)
<1>1. /\ PartsIn(bucket, t) \in Int /\ PartsIn(bucket, t + 1) \in Int /\ PartsIn(bucket, t + 1) <= BurstParts
      /\ PartsIn(bucket, t + 1) <= PartsIn(bucket, t) + Rate
    BY PartsBounded, PartsRefill
<1>2. m <= bound /\ m + PartsIn(bucket, t) <= bound
    BY DEF Covered
<1>3. Less(m) = IF m <= Rate THEN 0 ELSE m - Rate
    BY DEF Less
<1>4. Less(m) \in Nat /\ Less(m) <= bound /\ Less(m) + PartsIn(bucket, t + 1) <= bound
    BY <1>1, <1>2, <1>3, EndpointNumbers
<1> QED BY <1>4 DEF Covered

\* Only the pending requests of a bucket matter to it.
LEMMA SamePending ==
    ASSUME NEW t, NEW bucket, NEW pending, NEW calls, NEW calls2, \A c \in pending : calls2[c] = calls[c]
    PROVE  /\ InDebt(bucket, pending, calls, t) => InDebt(bucket, pending, calls2, t)
           /\ \A m, bound : Covered(m, bound, bucket, pending, calls, t)
                  => Covered(m, bound, bucket, pending, calls2, t)
BY DEF InDebt, Covered

\* A bound may be raised.
LEMMA LargerBound ==
    ASSUME NEW t \in Nat, NEW bucket \in Limiters, NEW pending, NEW calls, ActsTyped(pending, calls),
           NEW m \in Nat, NEW bound \in Nat, NEW larger \in Nat, bound <= larger,
           Covered(m, bound, bucket, pending, calls, t)
    PROVE  Covered(m, larger, bucket, pending, calls, t)
<1>1. PartsIn(bucket, t) \in Int /\ t * Rate \in Nat
    BY PartsBounded, EndpointNumbers
<1>2. m <= larger /\ m + PartsIn(bucket, t) <= larger
    BY <1>1 DEF Covered
<1>3. ASSUME NEW c \in pending PROVE m + t * Rate - calls[c].act + Token <= larger
    <2>1. m + t * Rate - calls[c].act + Token <= bound /\ calls[c].act \in Nat
        BY DEF Covered, ActsTyped
    <2> QED BY <1>1, <2>1, EndpointNumbers
<1> QED BY <1>2, <1>3 DEF Covered

\* Meter and bound may grow together.
LEMMA BothGrow ==
    ASSUME NEW t \in Nat, NEW bucket \in Limiters, NEW pending, NEW calls, ActsTyped(pending, calls),
           NEW m \in Nat, NEW bound \in Nat, Covered(m, bound, bucket, pending, calls, t)
    PROVE  Covered(m + Token, bound + Token, bucket, pending, calls, t)
<1>1. PartsIn(bucket, t) \in Int /\ t * Rate \in Nat
    BY PartsBounded, EndpointNumbers
<1>2. m + Token <= bound + Token /\ m + Token + PartsIn(bucket, t) <= bound + Token
    BY <1>1, EndpointNumbers DEF Covered
<1>3. ASSUME NEW c \in pending PROVE m + Token + t * Rate - calls[c].act + Token <= bound + Token
    <2>1. m + t * Rate - calls[c].act + Token <= bound /\ calls[c].act \in Nat
        BY DEF Covered, ActsTyped
    <2> QED BY <1>1, <2>1, EndpointNumbers
<1> QED BY <1>2, <1>3 DEF Covered

-----------------------------------------------------------------------------
(* Addresses and sweeps.                                                   *)

\* The address found for an arrival is its host, or none.
LEMMA FoundItself ==
    ASSUME NEW identity \in Identified, identity.address \notin {Invalid, Untrusted}
    PROVE  identity.host \in Hosts /\ identity.address = identity.host
<1>1. PICK x \in Arrivals :
          identity = [net |-> x.net, host |-> x.host, address |-> ResolveAddress(x.net, x.request)]
    BY DEF Identified
<1>2. /\ x.host \in Hosts
      /\ \/ x.request.peer.host = x.host
         \/ /\ x.net = "trusted_proxy" /\ x.request.peer.host \in Proxies
            /\ \/ x.request.realIP = <<Text(x.host, "plain")>>
               \/ x.request.forwardedFor = << <<Text(x.host, "plain")>> >>
    BY ArrivalsAssumption
<1>3. PICK peer : peer = ParseRemoteAddress(x.request.peer)
    OBVIOUS
<1>4. peer # Invalid => peer = x.request.peer.host
    BY <1>3 DEF ParseRemoteAddress
<1>5. identity.address = IF peer = Invalid \/ x.net # "trusted_proxy" THEN peer
                         ELSE IF peer \in Proxies THEN ResolveForwarded(x.request.realIP, x.request.forwardedFor)
                         ELSE Untrusted
    BY <1>1, <1>3 DEF ResolveAddress, IsTrustedProxy
<1>6. CASE x.request.peer.host = x.host
    BY <1>1, <1>2, <1>4, <1>5, <1>6, AddressConstants
<1>7. CASE /\ x.net = "trusted_proxy" /\ x.request.peer.host \in Proxies
           /\ \/ x.request.realIP = <<Text(x.host, "plain")>>
              \/ x.request.forwardedFor = << <<Text(x.host, "plain")>> >>
    <2> DEFINE real == x.request.realIP
               forwarded == x.request.forwardedFor
               found == (IF real = <<>> THEN {} ELSE {RealAddress(real)})
                        \cup (IF forwarded = <<>> THEN {} ELSE {FirstForwardedAddress(forwarded)})
    <2>1. real = <<Text(x.host, "plain")>> => RealAddress(real) = x.host /\ real # <<>>
        BY DEF RealAddress, Readable, ParseForwardedAddress, Text
    <2>2. forwarded = << <<Text(x.host, "plain")>> >>
              => FirstForwardedAddress(forwarded) \in {x.host, Invalid} /\ forwarded # <<>>
        BY DEF FirstForwardedAddress, Readable, ParseForwardedFor, ParseForwardedAddress, Text
    <2>3. x.host \in found \/ Invalid \in found
        BY <1>7, <2>1, <2>2
    <2>4. identity.address = ResolveForwarded(real, forwarded)
        BY <1>4, <1>5, <1>7
    <2>5. ResolveForwarded(real, forwarded) =
              IF \E address \in found : found = {address} THEN CHOOSE address \in found : TRUE ELSE Invalid
        BY DEF ResolveForwarded
    <2> HIDE DEF found
    <2>6. PICK address \in found : found = {address}
        BY <2>4, <2>5
    <2>7. identity.address = address
        BY <2>4, <2>5, <2>6
    <2> QED BY <1>1, <1>2, <2>3, <2>6, <2>7
<1> QED BY <1>2, <1>6, <1>7

\* A set of times has a first one.
LEMMA FirstTime ==
    ASSUME NEW S \in SUBSET Nat, S # {}
    PROVE  \E t \in S : \A u \in S : t <= u
<1> DEFINE Before == {p \in Nat \X Nat : p[1] < p[2]}
<1>1. OpToRel(<, Nat) = Before
    BY Zenon DEF OpToRel
<1>2. IsWellFoundedOn(Before, Nat)
    BY <1>1, NatLessThanWellFounded, Zenon
<1> HIDE DEF Before
<1>3. PICK t \in S : \A u \in S : ~(<<u, t>> \in Before)
    BY <1>2, WFMin
<1>4. \A u \in S : ~(u < t)
    BY <1>3 DEF Before
<1> QED BY <1>4

\* The first of finitely many times.
LEMMA SoonestIsFirst ==
    ASSUME NEW S \in SUBSET Nat
    PROVE  /\ S = {} => Soonest(S) = 0
           /\ S # {} => Soonest(S) \in S /\ \A u \in S : Soonest(S) <= u
<1>1. CASE S = {}
    BY <1>1 DEF Soonest
<1>2. CASE S # {}
    <2>1. \E t \in S : \A u \in S : t <= u
        BY <1>2, FirstTime
    <2> QED BY <1>2, <2>1 DEF Soonest
<1> QED BY <1>1, <1>2

\* Rows of endpointState.entries.
Entries == [bucket : Limiters, lastSeen : Nat]

\* The table as it is or with expired entries removed, and a check that comes in time.
TableAt(w, read) ==
    /\ w.table \in [DOMAIN w.table -> Entries] /\ DOMAIN w.table \subseteq DOMAIN dedicated
    /\ \A x \in DOMAIN w.table : w.table[x] = dedicated[x]
    /\ \A x \in DOMAIN dedicated \ DOMAIN w.table : ExpiryOf(dedicated[x]) <= read
    /\ w.next \in Nat /\ w.next <= time + IdleTTL
    /\ \A x \in DOMAIN w.table : 0 < w.next /\ w.next <= ExpiryOf(w.table[x]) + lagBound

\* A sweep leaves a table that lacks expired entries only, and its first expiry.
LEMMA SweptTable ==
    ASSUME EndpointTypes, ChecksInTime, NEW read \in Nat, NEW w, TableAt(w, read)
    PROVE  TableAt(Swept(w, read), read)
<1> DEFINE left == SweptAt(w.table, read)
           expiries == {ExpiryOf(left[a]) : a \in DOMAIN left}
<1>1. /\ DOMAIN left = {x \in DOMAIN w.table : ExpiryOf(w.table[x]) > read}
      /\ \A x \in DOMAIN left : left[x] = w.table[x]
      /\ left \in [DOMAIN left -> Entries]
    BY DEF SweptAt, TableAt
<1>2. /\ Swept(w, read).table = left /\ Swept(w, read).next = Soonest(expiries)
    BY DEF Swept, NextExpiryOf
<1> HIDE DEF left
<1>3. \A x \in DOMAIN left : /\ ExpiryOf(left[x]) \in Nat /\ ExpiryOf(left[x]) > 0
                             /\ ExpiryOf(left[x]) <= time + IdleTTL
    BY <1>1, EndpointNumbers DEF TableAt, Entries, ExpiryOf, ChecksInTime, EndpointTypes
<1>4. expiries \subseteq Nat
    BY <1>3
<1>5. /\ Soonest(expiries) \in Nat /\ Soonest(expiries) <= time + IdleTTL
      /\ \A x \in DOMAIN left : 0 < Soonest(expiries) /\ Soonest(expiries) <= ExpiryOf(left[x]) + lagBound
    <2> HIDE DEF expiries
    <2>1. CASE expiries = {}
        <3>1. \A x \in DOMAIN left : FALSE
            BY <2>1 DEF expiries
        <3> QED BY <2>1, <3>1, <1>4, SoonestIsFirst, EndpointNumbers DEF EndpointTypes
    <2>2. CASE expiries # {}
        <3>1. Soonest(expiries) \in expiries /\ \A u \in expiries : Soonest(expiries) <= u
            BY <1>4, <2>2, SoonestIsFirst
        <3>2. \A x \in DOMAIN left : ExpiryOf(left[x]) \in expiries
            BY DEF expiries
        <3>3. \E x \in DOMAIN left : Soonest(expiries) = ExpiryOf(left[x])
            BY <3>1 DEF expiries
        <3> QED BY <1>3, <3>1, <3>2, <3>3 DEF EndpointTypes
    <2> QED BY <2>1, <2>2
<1>6. \A x \in DOMAIN dedicated \ DOMAIN left : ExpiryOf(dedicated[x]) <= read
    <2> SUFFICES ASSUME NEW x \in DOMAIN dedicated \ DOMAIN left PROVE ExpiryOf(dedicated[x]) <= read
        OBVIOUS
    <2>1. CASE x \in DOMAIN w.table
        <3>1. ~(ExpiryOf(w.table[x]) > read) /\ w.table[x] = dedicated[x]
            BY <1>1, <2>1 DEF TableAt
        <3>2. ExpiryOf(w.table[x]) \in Nat
            BY <2>1, EndpointNumbers DEF TableAt, Entries, ExpiryOf
        <3> QED BY <3>1, <3>2
    <2>2. CASE x \notin DOMAIN w.table
        BY <2>2 DEF TableAt
    <2> QED BY <2>1, <2>2
<1> QED BY <1>1, <1>2, <1>5, <1>6 DEF TableAt

\* What a request finds under the mutex.
LEMMA TableFound ==
    ASSUME EndpointTypes, ChecksInTime, NEW read \in Nat, NEW a
    PROVE  TableAt(RoomFor(AfterSweep(read), a, read), read)
<1>1. TableAt([table |-> dedicated, next |-> nextExpiry], read)
    BY DEF TableAt, EndpointTypes, ChecksInTime, ExpirySeenInTime, Entries
<1>2. TableAt(AfterSweep(read), read)
    BY <1>1, SweptTable DEF AfterSweep
<1> QED BY <1>2, SweptTable DEF RoomFor

-----------------------------------------------------------------------------
(* Types, calls and checks, step by step.                                  *)

\* What a request in flight has.
LEMMA CallHas ==
    ASSUME EndpointTypes, NEW c \in Callers
    PROVE  /\ call[c].pc \in {"free", "lock", "reserve", "cancel"}
           /\ call[c].pc # "free" => call[c].host \in Hosts /\ call[c].address \in Hosts /\ call[c].now \in Nat
           /\ Holds(c) => call[c].own \in BOOLEAN /\ SharedOf[call[c].host] \in SharedBuckets
           /\ call[c].pc = "cancel" => call[c].act \in Nat
           /\ call[c].pc = "free" => call[c] = Free
<1>1. call[c] \in Calls
    BY DEF EndpointTypes
<1>2. CASE call[c] = Free
    BY <1>2 DEF Free, Holds
<1>3. CASE call[c] # Free
    BY <1>1, <1>3, EndpointNumbers DEF Calls, Holds
<1> QED BY <1>2, <1>3

\* The bucket that a step changes.
LEMMA BucketSet ==
    ASSUME EndpointTypes, CallsInTime, NEW c \in Callers, Holds(c), NEW new \in Limiters, SetBucket(c, new)
    PROVE  /\ BucketOf(c) \in Limiters
           /\ DOMAIN dedicated' = DOMAIN dedicated
           /\ dedicated' \in [DOMAIN dedicated -> Entries] /\ shared' \in [SharedBuckets -> Limiters]
           /\ \A h \in DOMAIN dedicated :
                 /\ dedicated'[h].lastSeen = dedicated[h].lastSeen
                 /\ IF call[c].own /\ h = call[c].host
                    THEN BucketOf(c) = dedicated[h].bucket /\ dedicated'[h].bucket = new
                    ELSE dedicated'[h] = dedicated[h]
           /\ \A b \in SharedBuckets :
                 IF ~call[c].own /\ b = SharedOf[call[c].host]
                 THEN BucketOf(c) = shared[b] /\ shared'[b] = new ELSE shared'[b] = shared[b]
<1>1. /\ call[c].address = call[c].host /\ call[c].own \in BOOLEAN /\ call[c].host \in Hosts
      /\ SharedOf[call[c].host] \in SharedBuckets
      /\ call[c].own => call[c].host \in DOMAIN dedicated
    BY CallHas DEF CallsInTime, Holds
<1>2. dedicated \in [DOMAIN dedicated -> Entries] /\ shared \in [SharedBuckets -> Limiters]
    BY DEF EndpointTypes, Entries
<1>3. CASE call[c].own
    <2>1. dedicated' = [dedicated EXCEPT ![call[c].host].bucket = new] /\ shared' = shared
        BY <1>1, <1>3 DEF SetBucket
    <2>2. BucketOf(c) = dedicated[call[c].host].bucket
        BY <1>1, <1>3 DEF BucketOf
    <2>3. dedicated[call[c].host] \in Entries
        BY <1>1, <1>2, <1>3
    <2>4. /\ DOMAIN dedicated' = DOMAIN dedicated
          /\ \A h \in DOMAIN dedicated : dedicated'[h] = IF h = call[c].host
                 THEN [dedicated[h] EXCEPT !.bucket = new] ELSE dedicated[h]
        BY <2>1, <1>2
    <2>5. dedicated' \in [DOMAIN dedicated -> Entries]
        <3>1. \A h \in DOMAIN dedicated : dedicated'[h] \in Entries
            <4> SUFFICES ASSUME NEW h \in DOMAIN dedicated PROVE dedicated'[h] \in Entries
                OBVIOUS
            <4>1. dedicated[h] \in Entries
                BY <1>2
            <4>2. [dedicated[h] EXCEPT !.bucket = new] \in Entries
                BY <4>1 DEF Entries
            <4> QED BY <2>4, <4>1, <4>2
        <3>2. dedicated' = [h \in DOMAIN dedicated |-> dedicated'[h]]
            BY <2>1, <1>2
        <3> QED BY <3>1, <3>2
    <2> QED BY <1>1, <1>2, <1>3, <2>1, <2>2, <2>3, <2>4, <2>5 DEF Entries
<1>4. CASE ~call[c].own
    <2>1. shared' = [shared EXCEPT ![SharedOf[call[c].host]] = new] /\ dedicated' = dedicated
        BY <1>1, <1>4 DEF SetBucket
    <2>2. BucketOf(c) = shared[SharedOf[call[c].host]]
        BY <1>1, <1>4 DEF BucketOf
    <2> QED BY <1>1, <1>2, <1>4, <2>1, <2>2
<1> QED BY <1>1, <1>3, <1>4

\* Requests that a step does not concern stay in time when no entry they use is lost or aged.
LEMMA OthersInTime ==
    ASSUME EndpointTypes, CallsInTime, NEW c \in Callers, NEW d \in Callers, d # c, call'[d] = call[d],
           time' = time, lagBound' = lagBound,
           \A h \in DOMAIN dedicated : Holds(d) /\ call[d].own /\ h = call[d].host =>
               h \in DOMAIN dedicated' /\ call[d].now <= dedicated'[h].lastSeen + lagBound
    PROVE  call'[d].pc # "free" =>
        /\ call'[d].address = call'[d].host
        /\ call'[d].now <= time' /\ time' <= call'[d].now + lagBound'
        /\ Holds(d)' /\ call'[d].own =>
              /\ call'[d].address \in DOMAIN dedicated'
              /\ call'[d].now <= dedicated'[call'[d].address].lastSeen + lagBound'
BY DEF CallsInTime, Holds

\* A request enters under its own host.
LEMMA EnterPlaces ==
    ASSUME IPlaces, NEW c \in Callers, EnterEndpoint(c)
    PROVE  IPlaces'
<1>1. PICK identity \in Identified :
          /\ identity.address \notin {Invalid, Untrusted}
          /\ call' = [call EXCEPT ![c] = [pc |-> "lock", host |-> identity.host,
                                          address |-> identity.address, now |-> time]]
    BY DEF EnterEndpoint
<1>2. identity.host \in Hosts /\ identity.address = identity.host
    BY <1>1, FoundItself
<1>3. /\ UNCHANGED <<ipMode, lagBound, time, dedicated, shared, nextExpiry, lastSweep, hostMeter, sharedMeter>>
    BY DEF EnterEndpoint
<1>4. PICK x \in Calls : x.pc = "lock" /\ x.host = identity.host /\ x.address = x.host /\ x.now = time
                         /\ call' = [call EXCEPT ![c] = x]
    BY <1>1, <1>2 DEF Calls, IPlaces, EndpointTypes
<1>5. call' \in [Callers -> Calls] /\ call'[c] = x /\ \A d \in Callers : d # c => call'[d] = call[d]
    BY <1>4 DEF IPlaces, EndpointTypes
<1>6. EndpointTypes'
    BY <1>3, <1>5 DEF IPlaces, EndpointTypes
<1>7. CallsInTime'
    <2>1. x.now <= time /\ time <= x.now + lagBound
        BY <1>4 DEF IPlaces, EndpointTypes
    <2> QED BY <1>3, <1>4, <1>5, <2>1 DEF IPlaces, CallsInTime, Holds
<1>8. ChecksInTime'
    BY <1>3 DEF IPlaces, ChecksInTime, ExpirySeenInTime
<1> QED BY <1>6, <1>7, <1>8 DEF IPlaces

\* The step under the mutex, spelled out.
Found(c) == RoomFor(AfterSweep(call[c].now), call[c].address, call[c].now)

\* FindBucket, spelled out: the entry it uses is seen now, and a new one has a full bucket.
LEMMA FindDoes ==
    ASSUME IPlaces, NEW c \in Callers, FindBucket(c),
           NEW w, w = Found(c), NEW a, a = call[c].host, NEW read, read = call[c].now
    PROVE  /\ a \in Hosts /\ read \in Nat /\ read <= time /\ time <= read + lagBound /\ call[c].pc = "lock"
           /\ TableAt(w, read)
           /\ UNCHANGED <<ipMode, lagBound, time, shared, hostMeter, sharedMeter>>
           /\ lastSweep' \in Nat
           /\ \E own \in BOOLEAN :
                 /\ call' = [call EXCEPT ![c] = [pc |-> "reserve", host |-> a, address |-> a, now |-> read, own |-> own]]
                 /\ ~own => a \notin DOMAIN w.table /\ dedicated' = w.table /\ nextExpiry' = w.next
                 /\ own => /\ DOMAIN dedicated' = DOMAIN w.table \cup {a}
                           /\ dedicated' \in [DOMAIN dedicated' -> Entries]
                           /\ \A x \in DOMAIN w.table : x # a => dedicated'[x] = w.table[x]
                           /\ dedicated'[a].lastSeen = read
                           /\ dedicated'[a].bucket = IF a \in DOMAIN w.table THEN dedicated[a].bucket ELSE NewLimiter
                           /\ IF a \in DOMAIN w.table THEN nextExpiry' = w.next
                              ELSE /\ Cardinality(DOMAIN w.table) < MaximumAddresses
                                   /\ nextExpiry' = IF w.next = 0 \/ read + IdleTTL < w.next THEN read + IdleTTL ELSE w.next
<1>1. /\ a \in Hosts /\ read \in Nat /\ read <= time /\ time <= read + lagBound
      /\ call[c].address = a /\ call[c].pc = "lock"
    BY CallHas DEF IPlaces, CallsInTime, FindBucket
<1>2. TableAt(w, read)
    BY <1>1, TableFound DEF IPlaces, Found
<1> DEFINE known == a \in DOMAIN w.table
           room == known \/ Cardinality(DOMAIN w.table) < MaximumAddresses
           entry == [bucket |-> IF known THEN w.table[a].bucket ELSE NewLimiter, lastSeen |-> read]
<1>3. /\ lastSweep' = IF SweepDueAt(read) THEN read ELSE lastSweep
      /\ dedicated' = IF room THEN [x \in DOMAIN w.table \cup {a} |-> IF x = a THEN entry ELSE w.table[x]]
                      ELSE w.table
      /\ nextExpiry' = IF room /\ ~known /\ (w.next = 0 \/ read + IdleTTL < w.next) THEN read + IdleTTL ELSE w.next
      /\ call' = [call EXCEPT ![c] = [pc |-> "reserve", host |-> a, address |-> a, now |-> read, own |-> room]]
      /\ UNCHANGED <<ipMode, lagBound, time, shared, hostMeter, sharedMeter>>
    BY <1>1 DEF FindBucket, Found
<1>4. entry \in Entries /\ entry.lastSeen = read /\ entry.bucket = IF known THEN dedicated[a].bucket ELSE NewLimiter
    BY <1>1, <1>2, NewLimiterFull DEF TableAt, Entries
<1>5. lastSweep' \in Nat
    BY <1>1, <1>3 DEF IPlaces, EndpointTypes
<1>6. CASE room
    <2>1. /\ DOMAIN dedicated' = DOMAIN w.table \cup {a}
          /\ \A x \in DOMAIN dedicated' : dedicated'[x] = IF x = a THEN entry ELSE w.table[x]
        BY <1>3, <1>6
    <2> HIDE DEF entry
    <2>2. dedicated' \in [DOMAIN dedicated' -> Entries]
        BY <1>2, <1>3, <1>4, <1>6, <2>1 DEF TableAt
    <2> QED BY <1>1, <1>2, <1>3, <1>4, <1>5, <1>6, <2>1, <2>2
<1>7. CASE ~room
    BY <1>1, <1>2, <1>3, <1>5, <1>7
<1> QED BY <1>6, <1>7

\* A request that finds its bucket keeps the table in bounds and its expiries in time.
LEMMA FindPlaces ==
    ASSUME IPlaces, NEW c \in Callers, FindBucket(c)
    PROVE  IPlaces'
<1> DEFINE w == Found(c)
           a == call[c].host
           read == call[c].now
<1>1. /\ a \in Hosts /\ read \in Nat /\ read <= time /\ time <= read + lagBound /\ call[c].pc = "lock"
      /\ TableAt(w, read)
      /\ UNCHANGED <<ipMode, lagBound, time, shared, hostMeter, sharedMeter>>
      /\ lastSweep' \in Nat
    BY FindDoes
<1>2. PICK own \in BOOLEAN :
         /\ call' = [call EXCEPT ![c] = [pc |-> "reserve", host |-> a, address |-> a, now |-> read, own |-> own]]
         /\ ~own => a \notin DOMAIN w.table /\ dedicated' = w.table /\ nextExpiry' = w.next
         /\ own => /\ DOMAIN dedicated' = DOMAIN w.table \cup {a}
                   /\ dedicated' \in [DOMAIN dedicated' -> Entries]
                   /\ \A x \in DOMAIN w.table : x # a => dedicated'[x] = w.table[x]
                   /\ dedicated'[a].lastSeen = read
                   /\ dedicated'[a].bucket = IF a \in DOMAIN w.table THEN dedicated[a].bucket ELSE NewLimiter
                   /\ IF a \in DOMAIN w.table THEN nextExpiry' = w.next
                      ELSE /\ Cardinality(DOMAIN w.table) < MaximumAddresses
                           /\ nextExpiry' = IF w.next = 0 \/ read + IdleTTL < w.next THEN read + IdleTTL ELSE w.next
    BY FindDoes
<1> HIDE DEF w, a, read
<1>3. PICK y : y = [pc |-> "reserve", host |-> a, address |-> a, now |-> read, own |-> own]
    OBVIOUS
<1>4. call' \in [Callers -> Calls] /\ call'[c] = y /\ \A d \in Callers : d # c => call'[d] = call[d]
    <2>1. y \in Calls
        BY <1>1, <1>3 DEF Calls
    <2> QED BY <1>2, <1>3, <2>1 DEF IPlaces, EndpointTypes
<1>5. /\ IsFiniteSet(DOMAIN w.table) /\ Cardinality(DOMAIN w.table) <= MaximumAddresses
      /\ Cardinality(DOMAIN w.table) \in Nat
    <2>1. DOMAIN w.table \subseteq DOMAIN dedicated
        BY <1>1 DEF TableAt
    <2>2. IsFiniteSet(DOMAIN dedicated) /\ Cardinality(DOMAIN dedicated) <= MaximumAddresses
        BY DEF IPlaces, EndpointTypes
    <2> QED BY <2>1, <2>2, FS_Subset, FS_CardinalityType, EndpointNumbers
<1>6. /\ IsFiniteSet(DOMAIN dedicated') /\ Cardinality(DOMAIN dedicated') <= MaximumAddresses
      /\ DOMAIN dedicated' \subseteq Hosts /\ dedicated' \in [DOMAIN dedicated' -> Entries]
    <2>1. DOMAIN w.table \subseteq Hosts
        BY <1>1 DEF TableAt, IPlaces, EndpointTypes
    <2>2. CASE ~own
        BY <1>1, <1>2, <1>5, <2>1, <2>2 DEF TableAt
    <2>3. CASE own /\ a \in DOMAIN w.table
        <3>1. DOMAIN dedicated' = DOMAIN w.table
            BY <1>2, <2>3
        <3> QED BY <1>2, <1>5, <2>1, <2>3, <3>1
    <2>4. CASE own /\ a \notin DOMAIN w.table
        <3>1. IsFiniteSet(DOMAIN w.table \cup {a}) /\ Cardinality(DOMAIN w.table \cup {a}) = Cardinality(DOMAIN w.table) + 1
            BY <1>5, <2>4, FS_AddElement
        <3>2. DOMAIN dedicated' = DOMAIN w.table \cup {a} /\ Cardinality(DOMAIN w.table) < MaximumAddresses
            BY <1>2, <2>4
        <3> QED BY <1>1, <1>2, <1>5, <2>1, <2>4, <3>1, <3>2, EndpointNumbers
    <2> QED BY <2>2, <2>3, <2>4
<1>7. nextExpiry' \in Nat /\ nextExpiry' <= time + IdleTTL
    BY <1>1, <1>2, EndpointNumbers DEF TableAt, IPlaces, EndpointTypes
<1>8. EndpointTypes'
    BY <1>1, <1>4, <1>6, <1>7 DEF IPlaces, EndpointTypes, Entries
<1>9. ASSUME NEW x \in DOMAIN dedicated'
      PROVE  /\ dedicated'[x].lastSeen <= time
             /\ 0 < nextExpiry' /\ nextExpiry' <= dedicated'[x].lastSeen + IdleTTL + lagBound
    <2>0. lagBound \in Nat /\ time \in Nat /\ dedicated'[x].lastSeen \in Nat
        BY <1>6 DEF IPlaces, EndpointTypes, Entries
    <2>1. ASSUME NEW z \in DOMAIN w.table
          PROVE  /\ w.table[z] = dedicated[z] /\ w.table[z].lastSeen <= time /\ w.table[z].lastSeen \in Nat
                 /\ 0 < w.next /\ w.next <= w.table[z].lastSeen + IdleTTL + lagBound
        BY <1>1 DEF TableAt, IPlaces, ChecksInTime, Entries, ExpiryOf
    <2>2. w.next \in Nat /\ w.next <= time + IdleTTL
        BY <1>1 DEF TableAt
    <2>3. CASE x \in DOMAIN w.table /\ (own => x # a)
        <3>1. dedicated'[x] = w.table[x]
            BY <1>2, <2>3
        <3>2. 0 < nextExpiry' /\ nextExpiry' <= w.next
            BY <1>1, <1>2, <2>1, <2>2, <2>3, EndpointNumbers
        <3> QED BY <2>0, <2>1, <2>2, <2>3, <3>1, <3>2, <1>7, EndpointNumbers
    <2>4. CASE own /\ x = a
        <3>1. dedicated'[x].lastSeen = read
            BY <1>2, <2>4
        <3>2. CASE a \in DOMAIN w.table
            <4>1. nextExpiry' = w.next /\ 0 < w.next
                BY <1>2, <2>1, <2>4, <3>2
            <4> QED BY <1>1, <2>0, <2>2, <3>1, <4>1, EndpointNumbers
        <3>3. CASE a \notin DOMAIN w.table
            <4>1. nextExpiry' = IF w.next = 0 \/ read + IdleTTL < w.next THEN read + IdleTTL ELSE w.next
                BY <1>2, <2>4, <3>3
            <4> QED BY <1>1, <2>0, <2>2, <3>1, <4>1, EndpointNumbers
        <3> QED BY <3>2, <3>3
    <2> QED BY <1>2, <2>3, <2>4
<1>10. ChecksInTime'
    BY <1>1, <1>7, <1>9 DEF ChecksInTime, ExpirySeenInTime, ExpiryOf
<1>11. CallsInTime'
    <2> SUFFICES ASSUME NEW d \in Callers, call'[d].pc # "free"
                 PROVE  /\ call'[d].address = call'[d].host
                        /\ call'[d].now <= time' /\ time' <= call'[d].now + lagBound'
                        /\ Holds(d)' /\ call'[d].own =>
                              /\ call'[d].address \in DOMAIN dedicated'
                              /\ call'[d].now <= dedicated'[call'[d].address].lastSeen + lagBound'
        BY DEF CallsInTime
    <2>1. CASE d = c
        <3>1. call'[d].host = a /\ call'[d].address = a /\ call'[d].now = read /\ call'[d].own = own
            BY <1>3, <1>4, <2>1
        <3>2. own => a \in DOMAIN dedicated' /\ dedicated'[a].lastSeen = read
            BY <1>2
        <3> QED BY <1>1, <3>1, <3>2 DEF IPlaces, EndpointTypes
    <2>2. CASE d # c
        <3>1. call'[d] = call[d]
            BY <1>4, <2>2
        <3>2. ASSUME NEW h \in DOMAIN dedicated, Holds(d), call[d].own, h = call[d].host
              PROVE  h \in DOMAIN dedicated' /\ call[d].now <= dedicated'[h].lastSeen + lagBound
            <4>1. /\ call[d].now \in Nat /\ call[d].now <= time /\ time <= call[d].now + lagBound
                  /\ call[d].now <= dedicated[h].lastSeen + lagBound
                BY <3>2, CallHas DEF IPlaces, CallsInTime, Holds
            <4>2. /\ time \in Nat /\ lagBound \in 0 .. 1 /\ dedicated[h].lastSeen \in Nat
                BY DEF IPlaces, EndpointTypes
            <4>3. ~(dedicated[h].lastSeen + IdleTTL <= read)
                BY <1>1, <4>1, <4>2, EndpointNumbers
            <4>4. h \in DOMAIN w.table /\ w.table[h] = dedicated[h]
                BY <1>1, <4>3 DEF TableAt, ExpiryOf
            <4>5. h \in DOMAIN dedicated'
                BY <1>2, <4>4
            <4>6. dedicated'[h] = dedicated[h] \/ dedicated'[h].lastSeen = read
                BY <1>2, <4>4
            <4>7. call[d].now <= read + lagBound
                BY <1>1, <4>1, <4>2
            <4> QED BY <4>1, <4>5, <4>6, <4>7
        <3> QED BY <1>1, <2>2, <3>1, <3>2, OthersInTime DEF IPlaces
    <2> QED BY <2>1, <2>2
<1> QED BY <1>8, <1>10, <1>11 DEF IPlaces

\* A step that changes one bucket and ends its request, or lets it wait.
LEMMA BucketPlaces ==
    ASSUME IPlaces, NEW c \in Callers, Holds(c), NEW new \in Limiters, SetBucket(c, new),
           NEW y \in Calls, call' = [call EXCEPT ![c] = y],
           y = Free \/ (y.pc = "cancel" /\ y.host = call[c].host /\ y.address = call[c].address
                        /\ y.now = call[c].now /\ y.own = call[c].own),
           UNCHANGED <<ipMode, lagBound, time, nextExpiry, lastSweep>>,
           hostMeter' \in [Hosts -> Nat], sharedMeter' \in [SharedBuckets -> Nat]
    PROVE  IPlaces'
<1>1. /\ DOMAIN dedicated' = DOMAIN dedicated
      /\ dedicated' \in [DOMAIN dedicated -> Entries] /\ shared' \in [SharedBuckets -> Limiters]
      /\ \A h \in DOMAIN dedicated : dedicated'[h].lastSeen = dedicated[h].lastSeen
    BY BucketSet DEF IPlaces
<1>2. call' \in [Callers -> Calls] /\ call'[c] = y /\ \A d \in Callers : d # c => call'[d] = call[d]
    BY DEF IPlaces, EndpointTypes
<1>3. EndpointTypes'
    BY <1>1, <1>2 DEF IPlaces, EndpointTypes, Entries
<1>4. ChecksInTime'
    BY <1>1 DEF IPlaces, ChecksInTime, ExpirySeenInTime, ExpiryOf
<1>5. CallsInTime'
    <2>1. Free.pc = "free"
        BY DEF Free
    <2> QED BY <1>1, <1>2, <2>1 DEF IPlaces, CallsInTime, Holds
<1> QED BY <1>3, <1>4, <1>5 DEF IPlaces

\* Reserve, spelled out.
LEMMA ReserveDoes ==
    ASSUME IPlaces, NEW c \in Callers, Reserve(c), NEW bucket, bucket = BucketOf(c),
           NEW read, read = call[c].now,
           NEW granted \in BOOLEAN, granted <=> ActAt(bucket, read) <= read * Rate
    PROVE  /\ Holds(c) /\ call[c].pc = "reserve" /\ call[c].host \in Hosts /\ read \in Nat
           /\ call[c].own \in BOOLEAN /\ SharedOf[call[c].host] \in SharedBuckets
           /\ bucket \in Limiters /\ ReserveN(bucket, read) \in Limiters
           /\ SetBucket(c, ReserveN(bucket, read))
           /\ UNCHANGED <<ipMode, lagBound, time, nextExpiry, lastSweep>>
           /\ \A h \in Hosts : hostMeter'[h] = IF granted /\ h = call[c].host THEN hostMeter[h] + Token ELSE hostMeter[h]
           /\ \A b \in SharedBuckets : sharedMeter'[b] =
                 IF granted /\ ~call[c].own /\ b = SharedOf[call[c].host] THEN sharedMeter[b] + Token ELSE sharedMeter[b]
           /\ \E y \in Calls :
                 /\ call' = [call EXCEPT ![c] = y]
                 /\ granted => y = Free
                 /\ ~granted => /\ y.pc = "cancel" /\ y.host = call[c].host /\ y.address = call[c].address
                                /\ y.now = read /\ y.own = call[c].own /\ y.act = ActAt(bucket, read)
           /\ IPlaces'
<1>1. /\ Holds(c) /\ call[c].pc = "reserve" /\ call[c].host \in Hosts /\ read \in Nat
      /\ call[c].address = call[c].host
      /\ call[c].own \in BOOLEAN /\ SharedOf[call[c].host] \in SharedBuckets
    BY CallHas DEF Reserve, Holds, IPlaces, CallsInTime
<1>2. bucket \in Limiters
    <2>1. call[c].own => call[c].host \in DOMAIN dedicated
        BY <1>1 DEF IPlaces, CallsInTime
    <2> QED BY <1>1, <2>1 DEF BucketOf, IPlaces, EndpointTypes
<1>3. ReserveN(bucket, read) \in Limiters /\ ActAt(bucket, read) \in Nat
    BY <1>1, <1>2, Reserved
<1>4. /\ SetBucket(c, ReserveN(bucket, read))
      /\ UNCHANGED <<ipMode, lagBound, time, nextExpiry, lastSweep>>
    BY DEF Reserve
<1>5. /\ hostMeter' = [hostMeter EXCEPT ![call[c].host] = IF granted THEN @ + Token ELSE @]
      /\ sharedMeter' = [b \in SharedBuckets |->
              IF granted /\ ~call[c].own /\ b = SharedOf[call[c].host] THEN sharedMeter[b] + Token ELSE sharedMeter[b]]
    BY <1>1 DEF Reserve
<1>6. PICK y : /\ call' = [call EXCEPT ![c] = y]
               /\ y = IF granted THEN Free
                      ELSE [pc |-> "cancel", host |-> call[c].host, address |-> call[c].address, now |-> read,
                            own |-> call[c].own, act |-> ActAt(bucket, read)]
    BY DEF Reserve
<1>7. y \in Calls /\ (granted => y = Free)
    BY <1>1, <1>3, <1>6 DEF Calls
<1>8. ~granted => /\ y.pc = "cancel" /\ y.host = call[c].host /\ y.address = call[c].address
                  /\ y.now = call[c].now /\ y.own = call[c].own /\ y.act = ActAt(bucket, read)
    BY <1>6
<1>9. /\ hostMeter \in [Hosts -> Nat] /\ sharedMeter \in [SharedBuckets -> Nat]
    BY DEF IPlaces, EndpointTypes
<1>10. hostMeter' \in [Hosts -> Nat] /\ sharedMeter' \in [SharedBuckets -> Nat]
    <2>1. \A n \in Nat : n + Token \in Nat
        BY EndpointNumbers
    <2>2. hostMeter' \in [Hosts -> Nat]
        BY <1>5, <1>9, <2>1
    <2>3. sharedMeter' \in [SharedBuckets -> Nat]
        BY <1>5, <1>9, <2>1
    <2> QED BY <2>2, <2>3
<1>11. /\ \A h \in Hosts : hostMeter'[h] = IF granted /\ h = call[c].host THEN hostMeter[h] + Token ELSE hostMeter[h]
       /\ \A b \in SharedBuckets : sharedMeter'[b] =
             IF granted /\ ~call[c].own /\ b = SharedOf[call[c].host] THEN sharedMeter[b] + Token ELSE sharedMeter[b]
    BY <1>5, <1>9
<1>12. IPlaces'
    BY <1>1, <1>3, <1>4, <1>6, <1>7, <1>8, <1>10, BucketPlaces
<1> QED BY <1>1, <1>2, <1>3, <1>4, <1>6, <1>7, <1>8, <1>11, <1>12

\* CancelReservation, spelled out.
LEMMA CancelDoes ==
    ASSUME IPlaces, NEW c \in Callers, CancelReservation(c),
           NEW bucket, bucket = BucketOf(c)
    PROVE  /\ Holds(c) /\ call[c].pc = "cancel" /\ call[c].host \in Hosts /\ call[c].now \in Nat /\ call[c].act \in Nat
           /\ call[c].own \in BOOLEAN /\ SharedOf[call[c].host] \in SharedBuckets
           /\ bucket \in Limiters
           /\ CancelAt(bucket, call[c].act, call[c].now) \in Limiters
           /\ SetBucket(c, CancelAt(bucket, call[c].act, call[c].now))
           /\ UNCHANGED <<ipMode, lagBound, time, nextExpiry, lastSweep, hostMeter, sharedMeter>>
           /\ call' = [call EXCEPT ![c] = Free] /\ Free \in Calls
           /\ IPlaces'
<1>1. /\ Holds(c) /\ call[c].pc = "cancel" /\ call[c].host \in Hosts /\ call[c].now \in Nat /\ call[c].act \in Nat
      /\ call[c].address = call[c].host
      /\ call[c].own \in BOOLEAN /\ SharedOf[call[c].host] \in SharedBuckets
    BY CallHas DEF CancelReservation, Holds, IPlaces, CallsInTime
<1>2. bucket \in Limiters
    <2>1. call[c].own => call[c].host \in DOMAIN dedicated
        BY <1>1 DEF IPlaces, CallsInTime
    <2> QED BY <1>1, <2>1 DEF BucketOf, IPlaces, EndpointTypes
<1>3. CancelAt(bucket, call[c].act, call[c].now) \in Limiters
    BY <1>1, <1>2, Cancelled DEF GivenBack
<1>4. /\ SetBucket(c, CancelAt(bucket, call[c].act, call[c].now))
      /\ UNCHANGED <<ipMode, lagBound, time, nextExpiry, lastSweep, hostMeter, sharedMeter>>
      /\ call' = [call EXCEPT ![c] = Free] /\ Free \in Calls
    BY DEF CancelReservation, Calls
<1>5. hostMeter' \in [Hosts -> Nat] /\ sharedMeter' \in [SharedBuckets -> Nat]
    BY <1>4 DEF IPlaces, EndpointTypes
<1>6. IPlaces'
    BY <1>1, <1>3, <1>4, <1>5, BucketPlaces
<1> QED BY <1>1, <1>2, <1>3, <1>4, <1>6

\* As time passes nobody becomes late.
LEMMA TickPlaces ==
    ASSUME IPlaces, TimePasses
    PROVE  IPlaces'
<1>1. /\ \A c \in Callers : call[c].pc # "free" => time < call[c].now + lagBound
      /\ time' = time + 1
      /\ hostMeter' = [h \in Hosts |-> Less(hostMeter[h])]
      /\ sharedMeter' = [b \in SharedBuckets |-> Less(sharedMeter[b])]
      /\ UNCHANGED <<ipMode, lagBound, dedicated, shared, nextExpiry, lastSweep, call>>
    BY DEF TimePasses
<1>2. \A m \in Nat : Less(m) \in Nat
    BY EndpointNumbers DEF Less
<1>3. hostMeter' \in [Hosts -> Nat] /\ sharedMeter' \in [SharedBuckets -> Nat]
    BY <1>1, <1>2 DEF IPlaces, EndpointTypes
<1>4. time' \in Nat \ {0} /\ time <= time'
    BY <1>1 DEF IPlaces, EndpointTypes
<1>5. EndpointTypes'
    BY <1>1, <1>3, <1>4 DEF IPlaces, EndpointTypes
<1>6. ASSUME NEW c \in Callers, call[c].pc # "free" PROVE call[c].now <= time' /\ time' <= call[c].now + lagBound
    <2>1. call[c].now \in Nat /\ call[c].now <= time /\ time < call[c].now + lagBound
        BY <1>1, <1>6, CallHas DEF IPlaces, CallsInTime
    <2> QED BY <1>1, <2>1 DEF IPlaces, EndpointTypes
<1>7. CallsInTime'
    BY <1>1, <1>6 DEF IPlaces, CallsInTime, Holds
<1>8. ASSUME NEW a \in DOMAIN dedicated PROVE dedicated[a].lastSeen <= time'
    BY <1>1 DEF IPlaces, EndpointTypes, ChecksInTime
<1>9. nextExpiry <= time' + IdleTTL
    BY <1>1, EndpointNumbers DEF IPlaces, EndpointTypes, ChecksInTime
<1>10. ChecksInTime'
    BY <1>1, <1>8, <1>9 DEF IPlaces, ChecksInTime, ExpirySeenInTime, ExpiryOf
<1> QED BY <1>5, <1>7, <1>10 DEF IPlaces

-----------------------------------------------------------------------------
(* Rates of requests that are not delayed, step by step.                   *)

\* A request that is not delayed has read the time, and its entry was seen now.
LEMMA Punctual ==
    ASSUME IPlaces, lagBound = 0, NEW c \in Callers, call[c].pc # "free"
    PROVE  /\ call[c].now = time /\ time \in Nat
           /\ Holds(c) /\ call[c].own =>
                 call[c].host \in DOMAIN dedicated /\ dedicated[call[c].host].lastSeen = time
<1>1. /\ call[c].now \in Nat /\ call[c].now <= time /\ time <= call[c].now + 0 /\ time \in Nat
    BY CallHas DEF IPlaces, CallsInTime, EndpointTypes
<1>2. ASSUME Holds(c), call[c].own
      PROVE  call[c].host \in DOMAIN dedicated /\ dedicated[call[c].host].lastSeen = time
    <2>1. call[c].host \in DOMAIN dedicated /\ call[c].now <= dedicated[call[c].host].lastSeen + 0
        BY <1>2 DEF IPlaces, CallsInTime, Holds
    <2>2. dedicated[call[c].host].lastSeen \in Nat /\ dedicated[call[c].host].lastSeen <= time
        BY <2>1 DEF IPlaces, EndpointTypes, ChecksInTime
    <2> QED BY <1>1, <2>1, <2>2
<1> QED BY <1>1, <1>2

\* What a change of one request does to the queues.
LEMMA PendingAfter ==
    ASSUME EndpointTypes, NEW c \in Callers, NEW y, call' = [call EXCEPT ![c] = y]
    PROVE  /\ call'[c] = y /\ \A d \in Callers : d # c => call'[d] = call[d]
           /\ \A h : OwnPending(h)' = (OwnPending(h) \ {c})
                        \cup (IF y.pc = "cancel" /\ y.own /\ y.host = h THEN {c} ELSE {})
           /\ \A b : SharedPending(b)' = (SharedPending(b) \ {c})
                        \cup (IF y.pc = "cancel" /\ ~y.own /\ SharedOf[y.host] = b THEN {c} ELSE {})
           /\ \A h : \A d \in Callers : d # c => (Detours(d, h)' <=> Detours(d, h))
           /\ \A h : Detours(c, h)' <=> y.pc \in {"reserve", "cancel"} /\ ~y.own /\ y.host = h
<1>1. call'[c] = y /\ \A d \in Callers : d # c => call'[d] = call[d]
    BY DEF EndpointTypes
<1>2. ASSUME NEW h
      PROVE  OwnPending(h)' = (OwnPending(h) \ {c})
                        \cup (IF y.pc = "cancel" /\ y.own /\ y.host = h THEN {c} ELSE {})
    BY <1>1 DEF OwnPending
<1>3. ASSUME NEW b
      PROVE  SharedPending(b)' = (SharedPending(b) \ {c})
                        \cup (IF y.pc = "cancel" /\ ~y.own /\ SharedOf[y.host] = b THEN {c} ELSE {})
    BY <1>1 DEF SharedPending
<1> QED BY <1>1, <1>2, <1>3 DEF Detours, Holds

\* A request that has nothing to cancel, before and after.
LEMMA QuietChange ==
    ASSUME EndpointTypes, NEW c \in Callers, NEW y, call' = [call EXCEPT ![c] = y],
           call[c].pc # "cancel", y.pc # "cancel"
    PROVE  /\ \A h : OwnPending(h)' = OwnPending(h) /\ \A d \in OwnPending(h) : call'[d] = call[d]
           /\ \A b : SharedPending(b)' = SharedPending(b) /\ \A d \in SharedPending(b) : call'[d] = call[d]
           /\ \A h : OnDetour(h)' => OnDetour(h) \/ (y.pc = "reserve" /\ ~y.own /\ y.host = h)
<1>1. /\ call'[c] = y /\ \A d \in Callers : d # c => call'[d] = call[d]
      /\ \A h : OwnPending(h)' = (OwnPending(h) \ {c})
                \cup (IF y.pc = "cancel" /\ y.own /\ y.host = h THEN {c} ELSE {})
      /\ \A b : SharedPending(b)' = (SharedPending(b) \ {c})
                \cup (IF y.pc = "cancel" /\ ~y.own /\ SharedOf[y.host] = b THEN {c} ELSE {})
      /\ \A h : \A d \in Callers : d # c => (Detours(d, h)' <=> Detours(d, h))
      /\ \A h : Detours(c, h)' <=> y.pc \in {"reserve", "cancel"} /\ ~y.own /\ y.host = h
    BY PendingAfter
<1>2. \A h : c \notin OwnPending(h) /\ \A b : c \notin SharedPending(b)
    BY DEF OwnPending, SharedPending
<1>3. /\ \A h : OwnPending(h)' = OwnPending(h) /\ OwnPending(h) \subseteq Callers \ {c}
      /\ \A b : SharedPending(b)' = SharedPending(b) /\ SharedPending(b) \subseteq Callers \ {c}
    BY <1>1, <1>2 DEF OwnPending, SharedPending
<1>4. \A h : OnDetour(h)' => OnDetour(h) \/ (y.pc = "reserve" /\ ~y.own /\ y.host = h)
    BY <1>1 DEF OnDetour
<1> QED BY <1>1, <1>3, <1>4

\* A request that joins the queue of its bucket, or leaves it.
Moves(c, y) ==
    \/ y = Free
    \/ call[c].pc = "reserve" /\ y.pc = "cancel" /\ y.own = call[c].own /\ y.host = call[c].host

\* What that does to the queues of its own bucket, of the others and of the shared ones.
OwnMoved(c, y, h) ==
    /\ OwnPending(h)' = IF y = Free THEN OwnPending(h) \ {c} ELSE OwnPending(h) \cup {c}
    /\ \A d \in OwnPending(h) \ {c} : call'[d] = call[d]
    /\ call'[c] = y /\ (c \in OwnPending(h) <=> call[c].pc = "cancel")
    /\ \A g : g # h => OwnPending(g)' = OwnPending(g) /\ \A d \in OwnPending(g) : call'[d] = call[d]
    /\ \A b : SharedPending(b)' = SharedPending(b) /\ \A d \in SharedPending(b) : call'[d] = call[d]
    /\ \A g : OnDetour(g)' => OnDetour(g)

SharedMoved(c, y, b) ==
    /\ SharedPending(b)' = IF y = Free THEN SharedPending(b) \ {c} ELSE SharedPending(b) \cup {c}
    /\ \A d \in SharedPending(b) \ {c} : call'[d] = call[d]
    /\ call'[c] = y /\ (c \in SharedPending(b) <=> call[c].pc = "cancel")
    /\ \A e : e # b => SharedPending(e)' = SharedPending(e) /\ \A d \in SharedPending(e) : call'[d] = call[d]
    /\ \A g : OwnPending(g)' = OwnPending(g) /\ \A d \in OwnPending(g) : call'[d] = call[d]
    /\ \A g : OnDetour(g)' => OnDetour(g)

\* A request on its own bucket changes that bucket's queue alone.
LEMMA OwnQueue ==
    ASSUME EndpointTypes, NEW c \in Callers, Holds(c), NEW y, call' = [call EXCEPT ![c] = y], Moves(c, y),
           call[c].own, NEW h, h = call[c].host
    PROVE  OwnMoved(c, y, h)
<1>1. /\ call'[c] = y /\ \A d \in Callers : d # c => call'[d] = call[d]
      /\ \A g : OwnPending(g)' = (OwnPending(g) \ {c})
                \cup (IF y.pc = "cancel" /\ y.own /\ y.host = g THEN {c} ELSE {})
      /\ \A b : SharedPending(b)' = (SharedPending(b) \ {c})
                \cup (IF y.pc = "cancel" /\ ~y.own /\ SharedOf[y.host] = b THEN {c} ELSE {})
      /\ \A g : \A d \in Callers : d # c => (Detours(d, g)' <=> Detours(d, g))
      /\ \A g : Detours(c, g)' <=> y.pc \in {"reserve", "cancel"} /\ ~y.own /\ y.host = g
    BY PendingAfter
<1>2. /\ \A g : OwnPending(g) \subseteq Callers /\ (g # h => c \notin OwnPending(g))
      /\ \A b : SharedPending(b) \subseteq Callers /\ c \notin SharedPending(b)
      /\ c \in OwnPending(h) <=> call[c].pc = "cancel"
    BY DEF OwnPending, SharedPending
<1>3. y = Free \/ (y # Free /\ y.pc = "cancel" /\ y.own /\ y.host = h)
    BY DEF Moves, Free
<1>4. /\ OwnPending(h)' = IF y = Free THEN OwnPending(h) \ {c} ELSE OwnPending(h) \cup {c}
      /\ \A g : g # h => OwnPending(g)' = OwnPending(g)
      /\ \A b : SharedPending(b)' = SharedPending(b)
      /\ \A g : ~Detours(c, g)'
    <2>1. CASE y = Free
        BY <1>1, <1>2, <2>1 DEF Free
    <2>2. CASE y # Free
        BY <1>1, <1>2, <1>3, <2>2
    <2> QED BY <2>1, <2>2
<1>5. \A g : OnDetour(g)' => OnDetour(g)
    BY <1>1, <1>4 DEF OnDetour
<1>6. /\ \A d \in OwnPending(h) \ {c} : call'[d] = call[d]
      /\ \A g : g # h => \A d \in OwnPending(g) : call'[d] = call[d]
      /\ \A b : \A d \in SharedPending(b) : call'[d] = call[d]
    BY <1>1, <1>2
<1> QED BY <1>1, <1>2, <1>4, <1>5, <1>6 DEF OwnMoved

\* The same of a request on a shared bucket.
LEMMA SharedQueue ==
    ASSUME EndpointTypes, NEW c \in Callers, Holds(c), NEW y, call' = [call EXCEPT ![c] = y], Moves(c, y),
           ~call[c].own, NEW b, b = SharedOf[call[c].host]
    PROVE  SharedMoved(c, y, b)
<1>1. /\ call'[c] = y /\ \A d \in Callers : d # c => call'[d] = call[d]
      /\ \A g : OwnPending(g)' = (OwnPending(g) \ {c})
                \cup (IF y.pc = "cancel" /\ y.own /\ y.host = g THEN {c} ELSE {})
      /\ \A e : SharedPending(e)' = (SharedPending(e) \ {c})
                \cup (IF y.pc = "cancel" /\ ~y.own /\ SharedOf[y.host] = e THEN {c} ELSE {})
      /\ \A g : \A d \in Callers : d # c => (Detours(d, g)' <=> Detours(d, g))
      /\ \A g : Detours(c, g)' <=> y.pc \in {"reserve", "cancel"} /\ ~y.own /\ y.host = g
    BY PendingAfter
<1>2. /\ \A g : OwnPending(g) \subseteq Callers /\ c \notin OwnPending(g)
      /\ \A e : SharedPending(e) \subseteq Callers /\ (e # b => c \notin SharedPending(e))
      /\ c \in SharedPending(b) <=> call[c].pc = "cancel"
    BY DEF OwnPending, SharedPending
<1>3. y = Free \/ (y # Free /\ y.pc = "cancel" /\ ~y.own /\ y.host = call[c].host)
    BY DEF Moves, Free
<1>4. /\ SharedPending(b)' = IF y = Free THEN SharedPending(b) \ {c} ELSE SharedPending(b) \cup {c}
      /\ \A e : e # b => SharedPending(e)' = SharedPending(e)
      /\ \A g : OwnPending(g)' = OwnPending(g)
      /\ \A g : Detours(c, g)' => Detours(c, g)
    <2>1. CASE y = Free
        BY <1>1, <1>2, <2>1 DEF Free
    <2>2. CASE y # Free
        <3>1. y.pc = "cancel" /\ ~y.own /\ y.host = call[c].host /\ b = SharedOf[y.host]
            BY <1>3, <2>2
        <3>2. /\ SharedPending(b)' = SharedPending(b) \cup {c}
              /\ \A e : e # b => SharedPending(e)' = SharedPending(e)
            BY <1>1, <1>2, <3>1
        <3>3. ASSUME NEW g PROVE OwnPending(g)' = OwnPending(g)
            <4>1. OwnPending(g)' = (OwnPending(g) \ {c})
                        \cup (IF y.pc = "cancel" /\ y.own /\ y.host = g THEN {c} ELSE {})
                BY <1>1
            <4>2. OwnPending(g)' = (OwnPending(g) \ {c}) \cup {}
                BY <3>1, <4>1
            <4> QED BY <1>2, <4>2
        <3>4. \A g : Detours(c, g)' => Detours(c, g)
            BY <1>1, <3>1 DEF Detours
        <3> QED BY <2>2, <3>2, <3>3, <3>4
    <2> QED BY <2>1, <2>2
<1>5. \A g : OnDetour(g)' => OnDetour(g)
    BY <1>1, <1>4 DEF OnDetour
<1>6. /\ \A d \in SharedPending(b) \ {c} : call'[d] = call[d]
      /\ \A e : e # b => \A d \in SharedPending(e) : call'[d] = call[d]
      /\ \A g : \A d \in OwnPending(g) : call'[d] = call[d]
    BY <1>1, <1>2
<1> QED BY <1>1, <1>2, <1>4, <1>5, <1>6 DEF SharedMoved

\* Reservations to be cancelled stand at points in time.
LEMMA QueuesTyped ==
    ASSUME EndpointTypes
    PROVE  /\ \A h : ActsTyped(OwnPending(h), call)
           /\ \A b : ActsTyped(SharedPending(b), call)
BY CallHas DEF ActsTyped, OwnPending, SharedPending

\* A host's bound is between one burst and two.
LEMMA BoundsTyped ==
    ASSUME EndpointTypes, Metered, NEW h \in Hosts
    PROVE  /\ hostMeter[h] \in Nat /\ sharedMeter[SharedOf[h]] \in Nat /\ sharedMeter[SharedOf[h]] <= BurstParts
           /\ HostBound(h) \in Nat /\ BurstParts <= HostBound(h) /\ HostBound(h) <= 2 * BurstParts
           /\ BurstParts + sharedMeter[SharedOf[h]] <= HostBound(h)
<1>1. hostMeter[h] \in Nat /\ SharedOf[h] \in SharedBuckets /\ sharedMeter[SharedOf[h]] \in Nat
    BY EndpointNumbers DEF EndpointTypes
<1>2. sharedMeter[SharedOf[h]] <= BurstParts
    BY <1>1 DEF Metered, SharedMetered, Covered
<1> QED BY <1>1, <1>2, EndpointNumbers DEF HostBound

\* A host whose bucket, queue and meter a step leaves alone.
LEMMA HostKept ==
    ASSUME IPlaces, Metered, NEW g \in Hosts, time' = time, hostMeter'[g] = hostMeter[g],
           g \in DOMAIN dedicated' <=> g \in DOMAIN dedicated,
           g \in DOMAIN dedicated => /\ dedicated'[g].bucket = dedicated[g].bucket
                                     /\ dedicated'[g].lastSeen \in {dedicated[g].lastSeen, time},
           OwnPending(g)' = OwnPending(g), \A c \in OwnPending(g) : call'[c] = call[c],
           OnDetour(g)' => OnDetour(g),
           sharedMeter'[SharedOf[g]] \in Nat, sharedMeter[SharedOf[g]] <= sharedMeter'[SharedOf[g]]
    PROVE  HostMetered(g)'
<1>1. /\ hostMeter[g] \in Nat /\ sharedMeter[SharedOf[g]] \in Nat /\ sharedMeter[SharedOf[g]] <= BurstParts
      /\ HostBound(g) \in Nat /\ HostBound(g) <= 2 * BurstParts
    BY BoundsTyped DEF IPlaces
<1>2. HostBound(g)' \in Nat /\ HostBound(g) <= HostBound(g)'
    BY <1>1, EndpointNumbers DEF HostBound
<1>3. CASE g \notin DOMAIN dedicated
    BY <1>1, <1>3 DEF Metered, HostMetered
<1>4. CASE g \in DOMAIN dedicated
    <2>1. /\ dedicated[g].bucket.last <= time
          /\ InDebt(dedicated[g].bucket, OwnPending(g), call, time)
          /\ Covered(hostMeter[g], HostBound(g), dedicated[g].bucket, OwnPending(g), call, time)
          /\ hostMeter[g] = 0 \/ hostMeter[g] + (time - dedicated[g].lastSeen) * Rate <= 2 * BurstParts
          /\ OnDetour(g) => dedicated[g].lastSeen = time
        BY <1>4 DEF Metered, HostMetered
    <2>2. /\ dedicated[g].bucket \in Limiters /\ time \in Nat /\ ActsTyped(OwnPending(g), call)
        BY <1>4, QueuesTyped DEF IPlaces, EndpointTypes
    <2>3. Covered(hostMeter[g], HostBound(g)', dedicated[g].bucket, OwnPending(g), call, time)
        BY <1>1, <1>2, <2>1, <2>2, LargerBound
    <2>4. /\ InDebt(dedicated[g].bucket, OwnPending(g), call', time)
          /\ Covered(hostMeter[g], HostBound(g)', dedicated[g].bucket, OwnPending(g), call', time)
        BY <2>1, <2>3, SamePending
    <2>5. hostMeter[g] = 0 \/ hostMeter[g] + (time - dedicated'[g].lastSeen) * Rate <= 2 * BurstParts
        <3>1. CASE dedicated'[g].lastSeen = dedicated[g].lastSeen
            BY <2>1, <3>1
        <3>2. CASE dedicated'[g].lastSeen = time
            <4>1. (time - time) * Rate = 0
                BY <2>2, EndpointNumbers
            <4>2. hostMeter[g] <= 2 * BurstParts
                BY <1>1, <2>1, EndpointNumbers DEF Covered
            <4> QED BY <1>1, <3>2, <4>1, <4>2
        <3> QED BY <1>4, <3>1, <3>2
    <2>6. OnDetour(g)' => dedicated'[g].lastSeen = time
        BY <1>4, <2>1
    <2>7. OwnPending(g)' = OwnPending(g) /\ time' = time /\ hostMeter'[g] = hostMeter[g] /\ g \in DOMAIN dedicated'
          /\ dedicated'[g].bucket = dedicated[g].bucket
        BY <1>4
    <2> QED BY <2>1, <2>4, <2>5, <2>6, <2>7 DEF HostMetered
<1> QED BY <1>3, <1>4

\* A shared bucket that a step leaves alone.
LEMMA SharedKept ==
    ASSUME Metered, NEW b \in SharedBuckets, time' = time, sharedMeter'[b] = sharedMeter[b], shared'[b] = shared[b],
           SharedPending(b)' = SharedPending(b), \A c \in SharedPending(b) : call'[c] = call[c]
    PROVE  SharedMetered(b)'
<1>1. /\ shared[b].last <= time
      /\ InDebt(shared[b], SharedPending(b), call, time)
      /\ Covered(sharedMeter[b], BurstParts, shared[b], SharedPending(b), call, time)
    BY DEF Metered, SharedMetered
<1>2. /\ InDebt(shared[b], SharedPending(b), call', time)
      /\ Covered(sharedMeter[b], BurstParts, shared[b], SharedPending(b), call', time)
    BY <1>1, SamePending
<1> QED BY <1>1, <1>2 DEF SharedMetered

\* A request that enters changes no rate.
LEMMA EnterMeters ==
    ASSUME IPlaces, Metered, NEW c \in Callers, EnterEndpoint(c)
    PROVE  Metered'
<1>1. PICK y : y.pc = "lock" /\ call' = [call EXCEPT ![c] = y]
    BY DEF EnterEndpoint
<1>2. /\ UNCHANGED <<time, dedicated, shared, hostMeter, sharedMeter>> /\ call[c].pc = "free"
    BY DEF EnterEndpoint
<1>3. /\ \A h : OwnPending(h)' = OwnPending(h) /\ \A d \in OwnPending(h) : call'[d] = call[d]
      /\ \A b : SharedPending(b)' = SharedPending(b) /\ \A d \in SharedPending(b) : call'[d] = call[d]
      /\ \A h : OnDetour(h)' => OnDetour(h)
    BY <1>1, <1>2, QuietChange DEF IPlaces
<1>4. ASSUME NEW h \in Hosts PROVE HostMetered(h)'
    <2>1. sharedMeter[SharedOf[h]] \in Nat
        BY BoundsTyped DEF IPlaces
    <2> QED BY <1>2, <1>3, <2>1, HostKept
<1>5. ASSUME NEW b \in SharedBuckets PROVE SharedMetered(b)'
    BY <1>2, <1>3, SharedKept
<1> QED BY <1>4, <1>5 DEF Metered

\* A host that loses its entry has nothing on the meter, and nothing to be cancelled.
LEMMA GoneMeter ==
    ASSUME IPlaces, Metered, lagBound = 0, NEW w, TableAt(w, time), NEW g \in Hosts, g \notin DOMAIN w.table
    PROVE  hostMeter[g] <= sharedMeter[SharedOf[g]] /\ OwnPending(g) = {}
<1>1. hostMeter[g] \in Nat /\ sharedMeter[SharedOf[g]] \in Nat /\ time \in Nat
    BY BoundsTyped DEF IPlaces, EndpointTypes
<1>2. ASSUME g \in DOMAIN dedicated
      PROVE  /\ dedicated[g].lastSeen \in Nat /\ dedicated[g].lastSeen + IdleTTL <= time
    BY <1>2 DEF TableAt, ExpiryOf, IPlaces, EndpointTypes
<1>3. ASSUME NEW d \in OwnPending(g) PROVE FALSE
    <2>1. d \in Callers /\ call[d].pc = "cancel" /\ Holds(d) /\ call[d].own /\ call[d].host = g
        BY DEF OwnPending, Holds
    <2>2. g \in DOMAIN dedicated /\ dedicated[g].lastSeen = time
        BY <2>1, Punctual
    <2> QED BY <1>1, <1>2, <2>2, EndpointNumbers
<1>4. hostMeter[g] <= sharedMeter[SharedOf[g]]
    <2>1. CASE g \notin DOMAIN dedicated
        BY <2>1 DEF Metered, HostMetered
    <2>2. CASE g \in DOMAIN dedicated
        <3>1. PICK n \in Nat : n = time - dedicated[g].lastSeen /\ IdleTTL <= n
            BY <1>1, <1>2, <2>2, EndpointNumbers
        <3>2. n * Rate >= IdleTTL * Rate /\ n * Rate \in Nat /\ IdleTTL * Rate \in Nat
            BY <3>1, EndpointNumbers
        <3>3. hostMeter[g] = 0 \/ hostMeter[g] + n * Rate <= 2 * BurstParts
            BY <2>2, <3>1 DEF Metered, HostMetered
        <3>4. hostMeter[g] = 0
            BY <1>1, <3>2, <3>3, EndpointNumbers
        <3> QED BY <1>1, <3>4
    <2> QED BY <2>1, <2>2
<1> QED BY <1>3, <1>4

\* A request that finds its bucket keeps the rates: an entry that a sweep removed had the
\* time to drain its meter, so a new and full bucket exceeds nothing.
LEMMA FindMeters ==
    ASSUME IPlaces, Metered, lagBound = 0, NEW c \in Callers, FindBucket(c)
    PROVE  Metered'
<1> DEFINE w == Found(c)
           a == call[c].host
<1>1. /\ a \in Hosts /\ call[c].pc = "lock" /\ call[c].now = time /\ time \in Nat
      /\ TableAt(w, time)
      /\ UNCHANGED <<time, shared, hostMeter, sharedMeter>>
    <2>1. call[c].pc = "lock"
        BY FindDoes
    <2>2. call[c].now = time /\ time \in Nat
        BY <2>1, Punctual
    <2> QED BY <2>1, <2>2, FindDoes
<1>2. PICK own \in BOOLEAN :
         /\ call' = [call EXCEPT ![c] = [pc |-> "reserve", host |-> a, address |-> a, now |-> time, own |-> own]]
         /\ ~own => a \notin DOMAIN w.table /\ dedicated' = w.table
         /\ own => /\ DOMAIN dedicated' = DOMAIN w.table \cup {a}
                   /\ \A x \in DOMAIN w.table : x # a => dedicated'[x] = w.table[x]
                   /\ dedicated'[a].lastSeen = time
                   /\ dedicated'[a].bucket = IF a \in DOMAIN w.table THEN dedicated[a].bucket ELSE NewLimiter
    BY <1>1, FindDoes
<1> HIDE DEF w, a
<1>3. PICK y : /\ y.pc = "reserve" /\ y.host = a /\ y.own = own
               /\ call' = [call EXCEPT ![c] = y]
    BY <1>2
<1>4. /\ \A h : OwnPending(h)' = OwnPending(h) /\ \A d \in OwnPending(h) : call'[d] = call[d]
      /\ \A b : SharedPending(b)' = SharedPending(b) /\ \A d \in SharedPending(b) : call'[d] = call[d]
      /\ \A h : OnDetour(h)' => OnDetour(h) \/ (~own /\ a = h)
    <2>1. /\ \A h : OwnPending(h)' = OwnPending(h) /\ \A d \in OwnPending(h) : call'[d] = call[d]
          /\ \A b : SharedPending(b)' = SharedPending(b) /\ \A d \in SharedPending(b) : call'[d] = call[d]
          /\ \A h : OnDetour(h)' => OnDetour(h) \/ (y.pc = "reserve" /\ ~y.own /\ y.host = h)
        <3>1. call' = [call EXCEPT ![c] = y] /\ call[c].pc # "cancel" /\ y.pc # "cancel"
            BY <1>1, <1>3
        <3> QED BY <3>1, QuietChange DEF IPlaces
    <2> QED BY <1>3, <2>1
<1>5. /\ DOMAIN w.table \subseteq DOMAIN dedicated /\ \A x \in DOMAIN w.table : w.table[x] = dedicated[x]
    BY <1>1 DEF TableAt
<1>6. ASSUME NEW h \in Hosts PROVE HostMetered(h)'
    <2>0. /\ hostMeter[h] \in Nat /\ sharedMeter[SharedOf[h]] \in Nat /\ sharedMeter[SharedOf[h]] <= BurstParts
        BY BoundsTyped DEF IPlaces
    <2>1. CASE h \in DOMAIN w.table
        <3>1. h \in DOMAIN dedicated /\ h \in DOMAIN dedicated' /\ (~own => h # a)
            BY <1>2, <1>5, <2>1
        <3>2. dedicated'[h].bucket = dedicated[h].bucket /\ dedicated'[h].lastSeen \in {dedicated[h].lastSeen, time}
            BY <1>2, <1>5, <2>1
        <3>3. OnDetour(h)' => OnDetour(h)
            BY <1>4, <3>1
        <3> QED BY <1>1, <1>4, <2>0, <3>1, <3>2, <3>3, HostKept
    <2>2. CASE h \notin DOMAIN w.table
        <3>1. hostMeter[h] <= sharedMeter[SharedOf[h]] /\ OwnPending(h) = {}
            BY <1>1, <2>2, GoneMeter
        <3>2. CASE own /\ h = a
            <4>1. /\ h \in DOMAIN dedicated' /\ dedicated'[h].lastSeen = time /\ dedicated'[h].bucket = NewLimiter
                BY <1>2, <2>2, <3>2
            <4>2. NewLimiter.last <= time /\ PartsIn(NewLimiter, time) = BurstParts
                BY <1>1, NewLimiterFull
            <4>3. InDebt(NewLimiter, {}, call', time)
                BY DEF InDebt
            <4>4. HostBound(h)' \in Nat /\ BurstParts + sharedMeter[SharedOf[h]] <= HostBound(h)'
                BY <1>1, <2>0, EndpointNumbers DEF HostBound
            <4>5. Covered(hostMeter[h], HostBound(h)', NewLimiter, {}, call', time)
                <5>1. hostMeter[h] <= HostBound(h)' /\ hostMeter[h] + BurstParts <= HostBound(h)'
                    BY <2>0, <3>1, <4>4, EndpointNumbers
                <5> QED BY <4>2, <5>1 DEF Covered
            <4>6. (time - time) * Rate = 0 /\ hostMeter[h] + 0 <= 2 * BurstParts
                BY <1>1, <2>0, <3>1, EndpointNumbers
            <4>7. hostMeter'[h] = hostMeter[h] /\ time' = time /\ OwnPending(h)' = {}
                BY <1>1, <1>4, <3>1
            <4>8. /\ InDebt(dedicated'[h].bucket, OwnPending(h)', call', time')
                  /\ Covered(hostMeter'[h], HostBound(h)', dedicated'[h].bucket, OwnPending(h)', call', time')
                BY <4>1, <4>3, <4>5, <4>7
            <4>9. /\ dedicated'[h].bucket.last <= time' /\ (OnDetour(h)' => dedicated'[h].lastSeen = time')
                  /\ hostMeter'[h] + (time' - dedicated'[h].lastSeen) * Rate <= 2 * BurstParts
                BY <4>1, <4>2, <4>6, <4>7
            <4> QED BY <4>1, <4>8, <4>9 DEF HostMetered
        <3>3. CASE ~(own /\ h = a)
            <4>1. h \notin DOMAIN dedicated'
                BY <1>2, <2>2, <3>3
            <4> QED BY <1>1, <3>1, <4>1 DEF HostMetered
        <3> QED BY <3>2, <3>3
    <2> QED BY <2>1, <2>2
<1>7. ASSUME NEW b \in SharedBuckets PROVE SharedMetered(b)'
    BY <1>1, <1>4, SharedKept
<1> QED BY <1>6, <1>7 DEF Metered

\* The bucket and the queue of a request that asks.
LEMMA AskedBucket ==
    ASSUME IPlaces, Metered, lagBound = 0, NEW c \in Callers, Holds(c), NEW new \in Limiters, SetBucket(c, new)
    PROVE  LET h == call[c].host
               b == SharedOf[h]
               bucket == BucketOf(c) IN
           /\ h \in Hosts /\ b \in SharedBuckets /\ bucket \in Limiters /\ time \in Nat /\ call[c].now = time
           /\ bucket.last <= time
           /\ call[c].own =>
                 /\ h \in DOMAIN dedicated /\ dedicated[h].lastSeen = time
                 /\ InDebt(bucket, OwnPending(h), call, time)
                 /\ Covered(hostMeter[h], HostBound(h), bucket, OwnPending(h), call, time)
           /\ ~call[c].own =>
                 /\ OnDetour(h)
                 /\ InDebt(bucket, SharedPending(b), call, time)
                 /\ Covered(sharedMeter[b], BurstParts, bucket, SharedPending(b), call, time)
<1> DEFINE h == call[c].host
           b == SharedOf[h]
           bucket == BucketOf(c)
<1>1. /\ h \in Hosts /\ b \in SharedBuckets /\ call[c].pc # "free" /\ call[c].own \in BOOLEAN
    BY CallHas DEF IPlaces, Holds
<1>2. /\ call[c].now = time /\ time \in Nat
      /\ call[c].own => h \in DOMAIN dedicated /\ dedicated[h].lastSeen = time
    BY <1>1, Punctual
<1>3. /\ bucket \in Limiters
      /\ call[c].own => bucket = dedicated[h].bucket
      /\ ~call[c].own => bucket = shared[b]
    BY <1>1, <1>2, BucketSet DEF IPlaces
<1>4. CASE call[c].own
    BY <1>1, <1>2, <1>3, <1>4 DEF Metered, HostMetered
<1>5. CASE ~call[c].own
    <2>1. OnDetour(h)
        BY <1>5 DEF OnDetour, Detours
    <2> QED BY <1>1, <1>2, <1>3, <1>5, <2>1 DEF Metered, SharedMetered
<1> QED BY <1>4, <1>5

\* After a step on a host's own bucket, which leaves the shared ones alone.
LEMMA OwnMeters ==
    ASSUME IPlaces, Metered, lagBound = 0, NEW c \in Callers, Holds(c), NEW new \in Limiters, SetBucket(c, new),
           call[c].own, NEW h, h = call[c].host, new.last <= time, time' = time, sharedMeter' = sharedMeter,
           \A g \in Hosts : g # h => hostMeter'[g] = hostMeter[g], hostMeter'[h] \in Nat,
           NEW y, call' = [call EXCEPT ![c] = y], Moves(c, y),
           InDebt(new, OwnPending(h)', call', time),
           Covered(hostMeter'[h], HostBound(h), new, OwnPending(h)', call', time),
           call' \in [Callers -> Calls]
    PROVE  Metered'
<1>1. /\ h \in Hosts /\ time \in Nat /\ h \in DOMAIN dedicated /\ dedicated[h].lastSeen = time
    BY AskedBucket
<1>2. /\ DOMAIN dedicated' = DOMAIN dedicated
      /\ dedicated'[h].bucket = new /\ dedicated'[h].lastSeen = time
      /\ \A g \in DOMAIN dedicated : g # h => dedicated'[g] = dedicated[g]
      /\ \A b \in SharedBuckets : shared'[b] = shared[b]
    BY <1>1, BucketSet DEF IPlaces
<1>3. /\ \A g : g # h => OwnPending(g)' = OwnPending(g) /\ \A d \in OwnPending(g) : call'[d] = call[d]
      /\ \A b : SharedPending(b)' = SharedPending(b) /\ \A d \in SharedPending(b) : call'[d] = call[d]
      /\ \A g : OnDetour(g)' => OnDetour(g)
    <2>1. OwnMoved(c, y, h)
        BY OwnQueue DEF IPlaces
    <2> QED BY <2>1 DEF OwnMoved
<1>4. ASSUME NEW g \in Hosts, g # h PROVE HostMetered(g)'
    <2>1. sharedMeter[SharedOf[g]] \in Nat
        BY BoundsTyped DEF IPlaces
    <2> QED BY <1>2, <1>3, <1>4, <2>1, HostKept
<1>5. ASSUME NEW b \in SharedBuckets PROVE SharedMetered(b)'
    BY <1>2, <1>3, SharedKept
<1>6. HostMetered(h)'
    <2>1. /\ HostBound(h) \in Nat /\ HostBound(h) <= 2 * BurstParts
          /\ sharedMeter[SharedOf[h]] \in Nat /\ sharedMeter[SharedOf[h]] <= BurstParts
        BY <1>1, BoundsTyped DEF IPlaces
    <2>2. HostBound(h)' \in Nat /\ HostBound(h) <= HostBound(h)' /\ HostBound(h)' <= 2 * BurstParts
        BY <1>3, <2>1, EndpointNumbers DEF HostBound
    <2>3. ActsTyped(OwnPending(h)', call')
        BY DEF ActsTyped, OwnPending, Calls, Free
    <2>4. Covered(hostMeter'[h], HostBound(h)', new, OwnPending(h)', call', time)
        BY <1>1, <2>1, <2>2, <2>3, LargerBound
    <2>5. (time - time) * Rate = 0 /\ hostMeter'[h] + 0 <= 2 * BurstParts
        BY <1>1, <2>1, EndpointNumbers DEF Covered
    <2>6. /\ h \in DOMAIN dedicated' /\ dedicated'[h].bucket = new /\ dedicated'[h].lastSeen = time
        BY <1>1, <1>2
    <2>7. /\ InDebt(dedicated'[h].bucket, OwnPending(h)', call', time')
          /\ Covered(hostMeter'[h], HostBound(h)', dedicated'[h].bucket, OwnPending(h)', call', time')
        BY <2>4, <2>6
    <2>8. /\ dedicated'[h].bucket.last <= time' /\ dedicated'[h].lastSeen = time'
          /\ hostMeter'[h] + (time' - dedicated'[h].lastSeen) * Rate <= 2 * BurstParts
        BY <2>5, <2>6
    <2> QED BY <2>6, <2>7, <2>8 DEF HostMetered
<1> QED BY <1>4, <1>5, <1>6 DEF Metered

\* Both meters go up by what was granted.
Gains(h, b, gain) ==
    /\ \A g \in Hosts : hostMeter'[g] = IF g = h THEN hostMeter[g] + gain ELSE hostMeter[g]
    /\ \A e \in SharedBuckets : sharedMeter'[e] = IF e = b THEN sharedMeter[e] + gain ELSE sharedMeter[e]

\* After a step on a shared bucket, which leaves the entries alone.  What its host was
\* granted the bucket's meter has, too.
LEMMA SharedMeters ==
    ASSUME IPlaces, Metered, lagBound = 0, NEW c \in Callers, Holds(c), NEW new \in Limiters, SetBucket(c, new),
           ~call[c].own, NEW h, h = call[c].host, NEW b, b = SharedOf[h], new.last <= time, time' = time,
           NEW gain \in {0, Token},
           Gains(h, b, gain),
           NEW y, call' = [call EXCEPT ![c] = y], Moves(c, y),
           InDebt(new, SharedPending(b)', call', time),
           Covered(sharedMeter'[b], BurstParts, new, SharedPending(b)', call', time)
    PROVE  Metered'
<1>1. /\ h \in Hosts /\ b \in SharedBuckets /\ time \in Nat /\ OnDetour(h)
    BY AskedBucket
<1>2. /\ dedicated' = dedicated /\ shared'[b] = new
      /\ \A e \in SharedBuckets : e # b => shared'[e] = shared[e]
    <2>1. dedicated' = dedicated
        BY DEF SetBucket
    <2> QED BY <1>1, <2>1, BucketSet DEF IPlaces
<1>3. /\ \A e : e # b => SharedPending(e)' = SharedPending(e) /\ \A d \in SharedPending(e) : call'[d] = call[d]
      /\ \A g : OwnPending(g)' = OwnPending(g) /\ \A d \in OwnPending(g) : call'[d] = call[d]
      /\ \A g : OnDetour(g)' => OnDetour(g)
    <2>1. SharedMoved(c, y, b)
        BY SharedQueue DEF IPlaces
    <2> QED BY <2>1 DEF SharedMoved
<1>4. gain \in Nat /\ \A e \in SharedBuckets : sharedMeter'[e] \in Nat /\ sharedMeter[e] <= sharedMeter'[e]
    BY EndpointNumbers DEF IPlaces, EndpointTypes, Gains
<1>5. \A g \in Hosts : SharedOf[g] \in SharedBuckets
    BY EndpointNumbers
<1>6. ASSUME NEW g \in Hosts, g # h \/ gain = 0 PROVE HostMetered(g)'
    <2>1. hostMeter'[g] = hostMeter[g]
        BY <1>6, BoundsTyped DEF IPlaces, Gains
    <2> QED BY <1>2, <1>3, <1>4, <1>5, <2>1, HostKept
<1>7. ASSUME NEW e \in SharedBuckets PROVE SharedMetered(e)'
    <2>1. CASE e = b
        BY <1>2, <2>1 DEF SharedMetered
    <2>2. CASE e # b
        <3>1. sharedMeter'[e] = sharedMeter[e]
            BY <2>2 DEF Gains
        <3> QED BY <1>2, <1>3, <2>2, <3>1, SharedKept
    <2> QED BY <2>1, <2>2
<1>8. ASSUME gain = Token PROVE HostMetered(h)'
    <2>1. /\ hostMeter[h] \in Nat /\ sharedMeter[b] \in Nat
          /\ hostMeter'[h] = hostMeter[h] + Token /\ sharedMeter'[b] = sharedMeter[b] + Token
          /\ sharedMeter'[b] <= BurstParts
        BY <1>1, <1>8, BoundsTyped DEF IPlaces, Covered, Gains
    <2>2. CASE h \notin DOMAIN dedicated
        <3>1. hostMeter[h] <= sharedMeter[b]
            BY <1>1, <2>2 DEF Metered, HostMetered
        <3>2. hostMeter'[h] <= sharedMeter'[b]
            BY <2>1, <3>1, EndpointNumbers
        <3> QED BY <1>2, <2>2, <3>2 DEF HostMetered
    <2>3. CASE h \in DOMAIN dedicated
        <3>1. /\ dedicated[h].bucket \in Limiters /\ dedicated[h].bucket.last <= time
              /\ InDebt(dedicated[h].bucket, OwnPending(h), call, time)
              /\ Covered(hostMeter[h], BurstParts + sharedMeter[b], dedicated[h].bucket, OwnPending(h), call, time)
              /\ dedicated[h].lastSeen = time
            BY <1>1, <2>3 DEF Metered, HostMetered, HostBound, IPlaces, EndpointTypes
        <3>2. PICK bound \in Nat : bound = BurstParts + sharedMeter[b]
            BY <2>1, EndpointNumbers
        <3>3. ActsTyped(OwnPending(h), call)
            BY QueuesTyped DEF IPlaces
        <3>4. Covered(hostMeter[h] + Token, bound + Token, dedicated[h].bucket, OwnPending(h), call, time)
            BY <1>1, <2>1, <3>1, <3>2, <3>3, BothGrow
        <3>5. /\ HostBound(h)' \in Nat /\ bound + Token \in Nat /\ bound + Token <= HostBound(h)'
              /\ HostBound(h)' <= 2 * BurstParts /\ hostMeter[h] + Token \in Nat
            <4>1. HostBound(h)' \in {BurstParts + sharedMeter'[b], 2 * BurstParts}
                BY DEF HostBound
            <4>2. bound + Token = BurstParts + sharedMeter'[b] /\ bound + Token \in Nat /\ hostMeter[h] + Token \in Nat
                BY <2>1, <3>2, EndpointNumbers
            <4> QED BY <2>1, <4>1, <4>2, EndpointNumbers
        <3>6. Covered(hostMeter[h] + Token, HostBound(h)', dedicated[h].bucket, OwnPending(h), call, time)
            BY <1>1, <3>1, <3>3, <3>4, <3>5, LargerBound
        <3>7. \A d \in OwnPending(h) : call'[d] = call[d]
            BY <1>3
        <3>8. /\ InDebt(dedicated[h].bucket, OwnPending(h), call', time)
              /\ Covered(hostMeter[h] + Token, HostBound(h)', dedicated[h].bucket, OwnPending(h), call', time)
            <4>1. PICK m : m = hostMeter[h] + Token
                OBVIOUS
            <4>2. PICK larger : larger = HostBound(h)'
                OBVIOUS
            <4>3. /\ InDebt(dedicated[h].bucket, OwnPending(h), call, time)
                      => InDebt(dedicated[h].bucket, OwnPending(h), call', time)
                  /\ Covered(m, larger, dedicated[h].bucket, OwnPending(h), call, time)
                      => Covered(m, larger, dedicated[h].bucket, OwnPending(h), call', time)
                BY <3>7, SamePending
            <4> QED BY <3>1, <3>6, <4>1, <4>2, <4>3
        <3>9. (time - time) * Rate = 0 /\ hostMeter[h] + Token + 0 <= 2 * BurstParts
            BY <1>1, <2>1, <3>5, <3>6, EndpointNumbers DEF Covered
        <3>10. /\ OwnPending(h)' = OwnPending(h) /\ hostMeter'[h] = hostMeter[h] + Token
               /\ hostMeter'[h] + (time - time) * Rate <= 2 * BurstParts
            BY <1>3, <2>1, <3>9
        <3> QED BY <1>2, <2>3, <3>1, <3>8, <3>10 DEF HostMetered
    <2> QED BY <2>2, <2>3
<1> QED BY <1>6, <1>7, <1>8 DEF Metered

\* A reservation keeps the rates.
LEMMA ReserveMeters ==
    ASSUME IPlaces, Metered, lagBound = 0, NEW c \in Callers, Reserve(c)
    PROVE  Metered'
<1>1. PICK bucket, h, b : bucket = BucketOf(c) /\ h = call[c].host /\ b = SharedOf[h]
    OBVIOUS
<1>2. PICK granted \in BOOLEAN : granted <=> ActAt(bucket, time) <= time * Rate
    BY Zenon
<1>3. PICK new : new = ReserveN(bucket, time)
    OBVIOUS
<1>4. call[c].now = time
    BY Punctual DEF Reserve
<1>5. /\ Holds(c) /\ call[c].pc = "reserve" /\ bucket \in Limiters /\ new \in Limiters /\ SetBucket(c, new)
      /\ call[c].own \in BOOLEAN /\ time' = time /\ IPlaces'
      /\ \A g \in Hosts : hostMeter'[g] = IF granted /\ g = h THEN hostMeter[g] + Token ELSE hostMeter[g]
      /\ \A e \in SharedBuckets : sharedMeter'[e] =
            IF granted /\ ~call[c].own /\ e = b THEN sharedMeter[e] + Token ELSE sharedMeter[e]
    BY <1>1, <1>2, <1>3, <1>4, ReserveDoes
<1>6. PICK y \in Calls :
          /\ call' = [call EXCEPT ![c] = y]
          /\ granted => y = Free
          /\ ~granted => /\ y.pc = "cancel" /\ y.host = call[c].host
                         /\ y.own = call[c].own /\ y.act = ActAt(bucket, time)
    BY <1>1, <1>2, <1>3, <1>4, ReserveDoes
<1>7. /\ h \in Hosts /\ b \in SharedBuckets /\ time \in Nat
      /\ bucket.last <= time
      /\ call[c].own =>
            /\ InDebt(bucket, OwnPending(h), call, time)
            /\ Covered(hostMeter[h], HostBound(h), bucket, OwnPending(h), call, time)
      /\ ~call[c].own =>
            /\ InDebt(bucket, SharedPending(b), call, time)
            /\ Covered(sharedMeter[b], BurstParts, bucket, SharedPending(b), call, time)
    BY <1>1, <1>5, AskedBucket
<1>8. new.last <= time /\ time * Rate \in Nat /\ ActAt(bucket, time) \in Nat
    BY <1>3, <1>5, <1>7, Reserved
<1>9. /\ hostMeter[h] \in Nat /\ HostBound(h) \in Nat /\ sharedMeter[b] \in Nat /\ BurstParts \in Nat /\ Token \in Nat
      /\ ActsTyped(OwnPending(h), call) /\ ActsTyped(SharedPending(b), call)
    BY <1>1, <1>7, BoundsTyped, QueuesTyped, EndpointNumbers DEF IPlaces
<1>10. Moves(c, y) /\ (~granted => y # Free) /\ call' \in [Callers -> Calls]
    BY <1>5, <1>6 DEF Moves, Free, IPlaces, EndpointTypes
<1>11. \A calls2 : InDebt(new, {}, calls2, time)
    BY DEF InDebt
<1>12. CASE call[c].own
    <2>1. /\ OwnPending(h)' = IF y = Free THEN OwnPending(h) \ {c} ELSE OwnPending(h) \cup {c}
          /\ \A d \in OwnPending(h) : call'[d] = call[d]
          /\ call'[c] = y /\ c \notin OwnPending(h)
        <3>1. OwnMoved(c, y, h)
            BY <1>1, <1>5, <1>6, <1>10, <1>12, OwnQueue DEF IPlaces
        <3>2. c \notin OwnPending(h)
            BY <1>5, <3>1 DEF OwnMoved
        <3> QED BY <3>1, <3>2 DEF OwnMoved
    <2>2. /\ InDebt(new, OwnPending(h)', call', time)
          /\ Covered(hostMeter'[h], HostBound(h), new, OwnPending(h)', call', time)
        <3>1. CASE granted
            <4>1. OwnPending(h) = {} /\ Covered(hostMeter[h] + Token, HostBound(h), new, {}, call', time)
                BY <1>2, <1>3, <1>5, <1>7, <1>9, <1>12, <3>1, GrantCovers
            <4>2. OwnPending(h)' = {} /\ hostMeter'[h] = hostMeter[h] + Token
                BY <1>5, <1>6, <1>7, <2>1, <3>1, <4>1
            <4> QED BY <1>11, <4>1, <4>2
        <3>2. CASE ~granted
            <4>1. ActAt(bucket, time) > time * Rate /\ call'[c].act = ActAt(bucket, time)
                BY <1>2, <1>6, <1>8, <2>1, <3>2
            <4>2. /\ InDebt(new, OwnPending(h) \cup {c}, call', time)
                  /\ Covered(hostMeter[h], HostBound(h), new, OwnPending(h) \cup {c}, call', time)
                BY <1>3, <1>5, <1>7, <1>9, <1>12, <2>1, <4>1, RefusalQueued
            <4>3. OwnPending(h)' = OwnPending(h) \cup {c} /\ hostMeter'[h] = hostMeter[h]
                BY <1>5, <1>7, <1>10, <2>1, <3>2
            <4> QED BY <4>2, <4>3
        <3> QED BY <3>1, <3>2
    <2>3. /\ \A g \in Hosts : g # h => hostMeter'[g] = hostMeter[g]
          /\ hostMeter'[h] \in Nat /\ sharedMeter' = sharedMeter
        BY <1>5, <1>7, <1>12 DEF IPlaces, EndpointTypes
    <2> QED BY <1>1, <1>5, <1>6, <1>8, <1>10, <1>12, <2>2, <2>3, OwnMeters
<1>13. CASE ~call[c].own
    <2>1. /\ SharedPending(b)' = IF y = Free THEN SharedPending(b) \ {c} ELSE SharedPending(b) \cup {c}
          /\ \A d \in SharedPending(b) : call'[d] = call[d]
          /\ call'[c] = y /\ c \notin SharedPending(b)
        <3>1. SharedMoved(c, y, b)
            BY <1>1, <1>5, <1>6, <1>10, <1>13, SharedQueue DEF IPlaces
        <3>2. c \notin SharedPending(b)
            BY <1>5, <3>1 DEF SharedMoved
        <3> QED BY <3>1, <3>2 DEF SharedMoved
    <2>2. /\ InDebt(new, SharedPending(b)', call', time)
          /\ Covered(sharedMeter'[b], BurstParts, new, SharedPending(b)', call', time)
        <3>1. CASE granted
            <4>1. SharedPending(b) = {} /\ Covered(sharedMeter[b] + Token, BurstParts, new, {}, call', time)
                BY <1>2, <1>3, <1>5, <1>7, <1>9, <1>13, <3>1, GrantCovers
            <4>2. SharedPending(b)' = {} /\ sharedMeter'[b] = sharedMeter[b] + Token
                BY <1>5, <1>6, <1>7, <1>13, <2>1, <3>1, <4>1
            <4> QED BY <1>11, <4>1, <4>2
        <3>2. CASE ~granted
            <4>1. ActAt(bucket, time) > time * Rate /\ call'[c].act = ActAt(bucket, time)
                BY <1>2, <1>6, <1>8, <2>1, <3>2
            <4>2. /\ InDebt(new, SharedPending(b) \cup {c}, call', time)
                  /\ Covered(sharedMeter[b], BurstParts, new, SharedPending(b) \cup {c}, call', time)
                BY <1>3, <1>5, <1>7, <1>9, <1>13, <2>1, <4>1, RefusalQueued
            <4>3. SharedPending(b)' = SharedPending(b) \cup {c} /\ sharedMeter'[b] = sharedMeter[b]
                BY <1>5, <1>7, <1>10, <2>1, <3>2
            <4> QED BY <4>2, <4>3
        <3> QED BY <3>1, <3>2
    <2>3. PICK gain \in {0, Token} : gain = IF granted THEN Token ELSE 0
        OBVIOUS
    <2>4. /\ \A g \in Hosts : hostMeter[g] \in Nat
          /\ \A e \in SharedBuckets : sharedMeter[e] \in Nat
        BY DEF IPlaces, EndpointTypes
    <2>5. Gains(h, b, gain)
        BY <1>5, <1>13, <2>3, <2>4 DEF Gains
    <2> QED BY <1>1, <1>5, <1>6, <1>8, <1>10, <1>13, <2>2, <2>5, SharedMeters
<1> QED BY <1>5, <1>12, <1>13

\* What a request gives back keeps the rates.
LEMMA CancelMeters ==
    ASSUME IPlaces, Metered, lagBound = 0, NEW c \in Callers, CancelReservation(c)
    PROVE  IPlaces' /\ Metered'
<1>1. PICK bucket, h, b : bucket = BucketOf(c) /\ h = call[c].host /\ b = SharedOf[h]
    OBVIOUS
<1>2. PICK new : new = CancelAt(bucket, call[c].act, time)
    OBVIOUS
<1>3. call[c].now = time
    BY Punctual DEF CancelReservation
<1>4. /\ Holds(c) /\ call[c].pc = "cancel" /\ bucket \in Limiters /\ new \in Limiters /\ SetBucket(c, new)
      /\ call[c].own \in BOOLEAN /\ call[c].act \in Nat /\ IPlaces'
      /\ time' = time /\ hostMeter' = hostMeter /\ sharedMeter' = sharedMeter
      /\ call' = [call EXCEPT ![c] = Free]
    BY <1>1, <1>2, <1>3, CancelDoes
<1>5. /\ h \in Hosts /\ b \in SharedBuckets /\ time \in Nat /\ bucket.last <= time
      /\ call[c].own =>
            /\ InDebt(bucket, OwnPending(h), call, time)
            /\ Covered(hostMeter[h], HostBound(h), bucket, OwnPending(h), call, time)
      /\ ~call[c].own =>
            /\ InDebt(bucket, SharedPending(b), call, time)
            /\ Covered(sharedMeter[b], BurstParts, bucket, SharedPending(b), call, time)
    BY <1>1, <1>4, AskedBucket
<1>6. new.last <= time
    <2>1. PICK n \in Nat : n = call[c].act
        BY <1>4
    <2>2. GivenBack(bucket, n, new, time)
        BY <1>2, <1>4, <1>5, <2>1, Cancelled
    <2> QED BY <1>5, <2>2 DEF GivenBack
<1>7. /\ hostMeter[h] \in Nat /\ HostBound(h) \in Nat /\ sharedMeter[b] \in Nat /\ BurstParts \in Nat
      /\ ActsTyped(OwnPending(h), call) /\ ActsTyped(SharedPending(b), call)
    BY <1>1, <1>5, BoundsTyped, QueuesTyped, EndpointNumbers DEF IPlaces
<1>8. Moves(c, Free) /\ call' \in [Callers -> Calls]
    BY <1>4 DEF Moves, IPlaces, EndpointTypes
<1>9. CASE call[c].own
    <2>1. OwnMoved(c, Free, h)
        BY <1>1, <1>4, <1>8, <1>9, OwnQueue DEF IPlaces
    <2>2. /\ OwnPending(h)' = OwnPending(h) \ {c} /\ c \in OwnPending(h)
          /\ \A d \in OwnPending(h) \ {c} : call'[d] = call[d]
        BY <1>4, <2>1 DEF OwnMoved
    <2>3. /\ InDebt(new, OwnPending(h) \ {c}, call', time)
          /\ Covered(hostMeter[h], HostBound(h), new, OwnPending(h) \ {c}, call', time)
        BY <1>2, <1>4, <1>5, <1>7, <1>9, <2>2, CancelCovers
    <2>4. /\ InDebt(new, OwnPending(h)', call', time)
          /\ Covered(hostMeter'[h], HostBound(h), new, OwnPending(h)', call', time)
          /\ hostMeter'[h] \in Nat
        BY <1>4, <1>7, <2>2, <2>3
    <2> QED BY <1>1, <1>4, <1>6, <1>8, <1>9, <2>4, OwnMeters
<1>10. CASE ~call[c].own
    <2>1. SharedMoved(c, Free, b)
        BY <1>1, <1>4, <1>8, <1>10, SharedQueue DEF IPlaces
    <2>2. /\ SharedPending(b)' = SharedPending(b) \ {c} /\ c \in SharedPending(b)
          /\ \A d \in SharedPending(b) \ {c} : call'[d] = call[d]
        BY <1>4, <2>1 DEF SharedMoved
    <2>3. /\ InDebt(new, SharedPending(b) \ {c}, call', time)
          /\ Covered(sharedMeter[b], BurstParts, new, SharedPending(b) \ {c}, call', time)
        BY <1>2, <1>4, <1>5, <1>7, <1>10, <2>2, CancelCovers
    <2>4. /\ InDebt(new, SharedPending(b)', call', time)
          /\ Covered(sharedMeter'[b], BurstParts, new, SharedPending(b)', call', time)
        BY <1>4, <2>2, <2>3
    <2>5. PICK gain \in {0, Token} : gain = 0
        OBVIOUS
    <2>6. Gains(h, b, gain)
        BY <1>4, <2>5 DEF Gains, IPlaces, EndpointTypes
    <2> QED BY <1>1, <1>4, <1>6, <1>8, <1>10, <2>4, <2>5, <2>6, SharedMeters
<1> QED BY <1>4, <1>9, <1>10

\* As time passes no request is in flight, and what a bucket gains its meter loses.
LEMMA TickMeters ==
    ASSUME IPlaces, Metered, lagBound = 0, TimePasses
    PROVE  Metered'
<1>1. /\ time' = time + 1 /\ time \in Nat
      /\ hostMeter' = [h \in Hosts |-> Less(hostMeter[h])]
      /\ sharedMeter' = [b \in SharedBuckets |-> Less(sharedMeter[b])]
      /\ UNCHANGED <<dedicated, shared, call>>
    BY DEF TimePasses, IPlaces, EndpointTypes
<1>2. ASSUME NEW c \in Callers PROVE call[c].pc = "free"
    <2>1. SUFFICES ASSUME call[c].pc # "free" PROVE FALSE
        OBVIOUS
    <2>2. call[c].now = time
        BY <2>1, Punctual
    <2> QED BY <1>1, <2>1, <2>2 DEF TimePasses
<1>3. /\ \A h : OwnPending(h) = {} /\ ~OnDetour(h)
      /\ \A b : SharedPending(b) = {}
    BY <1>2 DEF OwnPending, SharedPending, OnDetour, Detours, Holds
<1>4. /\ \A h : OwnPending(h)' = {} /\ ~OnDetour(h)'
      /\ \A b : SharedPending(b)' = {}
    BY <1>1, <1>2 DEF OwnPending, SharedPending, OnDetour, Detours, Holds
<1>5. \A calls2, bucket, t : InDebt(bucket, {}, calls2, t)
    BY DEF InDebt
<1>6. ASSUME NEW b \in SharedBuckets PROVE SharedMetered(b)'
    <2>1. shared[b] \in Limiters /\ shared[b].last \in Nat /\ shared[b].last <= time /\ sharedMeter[b] \in Nat
        BY DEF IPlaces, EndpointTypes, Metered, SharedMetered, Limiters
    <2>2. Covered(sharedMeter[b], BurstParts, shared[b], {}, call, time)
        BY <1>3 DEF Metered, SharedMetered
    <2>3. Covered(Less(sharedMeter[b]), BurstParts, shared[b], {}, call, time + 1)
        BY <1>1, <2>1, <2>2, TickCovers, EndpointNumbers
    <2>4. shared[b].last <= time + 1
        BY <1>1, <2>1
    <2> QED BY <1>1, <1>4, <1>5, <2>3, <2>4 DEF SharedMetered
<1>7. ASSUME NEW h \in Hosts PROVE HostMetered(h)'
    <2>1. /\ hostMeter[h] \in Nat /\ sharedMeter[SharedOf[h]] \in Nat /\ SharedOf[h] \in SharedBuckets
          /\ hostMeter'[h] = Less(hostMeter[h]) /\ sharedMeter'[SharedOf[h]] = Less(sharedMeter[SharedOf[h]])
        BY <1>1, BoundsTyped, EndpointNumbers DEF IPlaces
    <2>2. CASE h \notin DOMAIN dedicated
        <3>1. hostMeter[h] <= sharedMeter[SharedOf[h]]
            BY <2>2 DEF Metered, HostMetered
        <3>2. hostMeter'[h] <= sharedMeter'[SharedOf[h]]
            BY <2>1, <3>1, EndpointNumbers DEF Less
        <3> QED BY <1>1, <2>2, <3>2 DEF HostMetered
    <2>3. CASE h \in DOMAIN dedicated
        <3>1. /\ dedicated[h].bucket \in Limiters /\ dedicated[h].lastSeen \in Nat /\ dedicated[h].lastSeen <= time
              /\ dedicated[h].bucket.last \in Nat /\ dedicated[h].bucket.last <= time
            BY <2>3 DEF IPlaces, EndpointTypes, ChecksInTime, Metered, HostMetered, Limiters
        <3>2. HostBound(h) = 2 * BurstParts /\ HostBound(h)' = 2 * BurstParts
            BY <1>3, <1>4 DEF HostBound
        <3>3. PICK bound \in Nat : bound = 2 * BurstParts /\ bound >= BurstParts
            BY EndpointNumbers
        <3>4. /\ Covered(hostMeter[h], bound, dedicated[h].bucket, {}, call, time)
              /\ hostMeter[h] = 0 \/ hostMeter[h] + (time - dedicated[h].lastSeen) * Rate <= bound
            BY <1>3, <2>3, <3>2, <3>3 DEF Metered, HostMetered
        <3>5. Covered(Less(hostMeter[h]), bound, dedicated[h].bucket, {}, call, time + 1)
            BY <1>1, <2>1, <3>1, <3>3, <3>4, TickCovers
        <3>6. Less(hostMeter[h]) = 0 \/ Less(hostMeter[h]) + ((time + 1) - dedicated[h].lastSeen) * Rate <= bound
            <4>1. PICK n \in Nat : n = time - dedicated[h].lastSeen
                BY <1>1, <3>1
            <4>2. (time + 1) - dedicated[h].lastSeen = n + 1
                BY <1>1, <3>1, <4>1
            <4>3. (n + 1) * Rate = n * Rate + Rate /\ n * Rate \in Nat
                BY EndpointNumbers
            <4>4. hostMeter[h] = 0 \/ hostMeter[h] + n * Rate <= bound
                BY <3>4, <4>1
            <4>5. Less(hostMeter[h]) = 0 \/ Less(hostMeter[h]) + (n * Rate + Rate) <= bound
                BY <2>1, <4>3, <4>4, EndpointNumbers DEF Less
            <4> QED BY <4>2, <4>3, <4>5
        <3>7. dedicated[h].bucket.last <= time + 1
            BY <1>1, <3>1
        <3>8. /\ dedicated'[h].bucket.last <= time' /\ h \in DOMAIN dedicated'
              /\ hostMeter'[h] = 0 \/ hostMeter'[h] + (time' - dedicated'[h].lastSeen) * Rate <= 2 * BurstParts
            <4>1. /\ hostMeter'[h] = Less(hostMeter[h]) /\ time' = time + 1
                  /\ dedicated' = dedicated /\ 2 * BurstParts = bound
                BY <1>1, <2>1, <3>3
            <4>2. PICK gained : gained = ((time + 1) - dedicated[h].lastSeen) * Rate
                OBVIOUS
            <4>3. gained = (time' - dedicated'[h].lastSeen) * Rate
                <5>1. (time + 1) - dedicated[h].lastSeen = time' - dedicated'[h].lastSeen
                    BY <1>1, <3>1, <4>1
                <5> QED BY <4>2, <5>1, Zenon
            <4>4. hostMeter'[h] = 0 \/ hostMeter'[h] + gained <= 2 * BurstParts
                BY <3>6, <4>1, <4>2, Zenon
            <4> QED BY <2>3, <3>7, <4>1, <4>3, <4>4, Zenon
        <3>9. Covered(Less(hostMeter[h]), bound, dedicated[h].bucket, {}, call', time + 1)
            BY <1>1, <3>5
        <3>10. /\ InDebt(dedicated'[h].bucket, OwnPending(h)', call', time')
               /\ Covered(hostMeter'[h], HostBound(h)', dedicated'[h].bucket, OwnPending(h)', call', time')
            BY <1>1, <1>4, <1>5, <2>1, <3>2, <3>3, <3>9
        <3> QED BY <1>4, <3>8, <3>10 DEF HostMetered
    <2> QED BY <2>2, <2>3
<1> QED BY <1>6, <1>7 DEF Metered

\* Before the first request every bucket is full and every meter empty.
LEMMA EndpointStart == EndpointInit => IEndpoint
<1> SUFFICES ASSUME EndpointInit PROVE IEndpoint
    OBVIOUS
<1> USE DEF EndpointInit
<1>1. DOMAIN dedicated = {} /\ IsFiniteSet({}) /\ Cardinality({}) = 0
    BY FS_EmptySet
<1>2. /\ \A c \in Callers : call[c] = Free /\ call[c].pc = "free"
      /\ \A h \in Hosts : hostMeter[h] = 0
      /\ \A b \in SharedBuckets : sharedMeter[b] = 0 /\ shared[b] = NewLimiter
    BY DEF Free
<1>3. EndpointTypes
    <2>1. /\ hostMeter \in [Hosts -> Nat] /\ sharedMeter \in [SharedBuckets -> Nat]
          /\ call \in [Callers -> Calls] /\ shared \in [SharedBuckets -> Limiters]
        BY NewLimiterFull DEF Calls
    <2>2. dedicated \in [DOMAIN dedicated -> [bucket : Limiters, lastSeen : Nat]]
        BY <1>1
    <2>3. DOMAIN dedicated \subseteq Hosts /\ IsFiniteSet(DOMAIN dedicated) /\ Cardinality(DOMAIN dedicated) <= MaximumAddresses
        BY <1>1, EndpointNumbers
    <2> QED BY <2>1, <2>2, <2>3 DEF EndpointTypes
<1>4. CallsInTime
    BY <1>2 DEF CallsInTime
<1>5. ChecksInTime
    BY <1>1, EndpointNumbers DEF ChecksInTime, ExpirySeenInTime
<1>6. Metered
    <2>1. ASSUME NEW h \in Hosts PROVE HostMetered(h)
        <3>1. hostMeter[h] = 0 /\ sharedMeter[SharedOf[h]] = 0
            BY <1>2, EndpointNumbers
        <3> QED BY <1>1, <3>1 DEF HostMetered
    <2>2. ASSUME NEW b \in SharedBuckets PROVE SharedMetered(b)
        <3>1. SharedPending(b) = {}
            BY <1>2 DEF SharedPending
        <3>2. time \in Nat /\ shared[b].last <= time /\ PartsIn(shared[b], time) = BurstParts
            BY <1>2, NewLimiterFull
        <3>3. InDebt(shared[b], {}, call, time) /\ Covered(0, BurstParts, shared[b], {}, call, time)
            BY <3>2, EndpointNumbers DEF InDebt, Covered
        <3> QED BY <1>2, <3>1, <3>2, <3>3 DEF SharedMetered
    <2> QED BY <2>1, <2>2 DEF Metered
<1> QED BY <1>3, <1>4, <1>5, <1>6 DEF IEndpoint, IPlaces

\* What a stuttering step leaves alone.
LEMMA EndpointStutters == IEndpoint /\ UNCHANGED endpointVars => IEndpoint'
BY DEF IEndpoint, endpointVars, IPlaces, EndpointTypes, CallsInTime, ChecksInTime, ExpirySeenInTime, Holds,
       Metered, HostMetered, SharedMetered, HostBound, OnDetour, Detours, OwnPending, SharedPending,
       InDebt, Covered

\* Every step of a request or of the clock keeps the table's bounds and the rates.
LEMMA EndpointSteps == IEndpoint /\ [EndpointNext]_endpointVars => IEndpoint'
<1> SUFFICES ASSUME IEndpoint, [EndpointNext]_endpointVars PROVE IEndpoint'
    OBVIOUS
<1>1. IPlaces /\ (lagBound = 0 => Metered)
    BY DEF IEndpoint
<1>2. ASSUME NEW c \in Callers, EnterEndpoint(c) PROVE IEndpoint'
    <2>1. IPlaces' /\ lagBound' = lagBound
        BY <1>1, <1>2, EnterPlaces DEF EnterEndpoint
    <2>2. lagBound = 0 => Metered'
        BY <1>1, <1>2, EnterMeters
    <2> QED BY <2>1, <2>2 DEF IEndpoint
<1>3. ASSUME NEW c \in Callers, FindBucket(c) PROVE IEndpoint'
    <2>1. IPlaces' /\ lagBound' = lagBound
        BY <1>1, <1>3, FindPlaces DEF FindBucket
    <2>2. lagBound = 0 => Metered'
        BY <1>1, <1>3, FindMeters
    <2> QED BY <2>1, <2>2 DEF IEndpoint
<1>4. ASSUME NEW c \in Callers, Reserve(c) PROVE IEndpoint'
    <2>1. PICK granted \in BOOLEAN : granted <=> ActAt(BucketOf(c), call[c].now) <= call[c].now * Rate
        BY Zenon
    <2>2. IPlaces' /\ lagBound' = lagBound
        BY <1>1, <1>4, <2>1, ReserveDoes
    <2>3. lagBound = 0 => Metered'
        BY <1>1, <1>4, ReserveMeters
    <2> QED BY <2>2, <2>3 DEF IEndpoint
<1>5. ASSUME NEW c \in Callers, CancelReservation(c) PROVE IEndpoint'
    <2>1. IPlaces' /\ lagBound' = lagBound
        BY <1>1, <1>5, CancelDoes
    <2>2. lagBound = 0 => Metered'
        BY <1>1, <1>5, CancelMeters
    <2> QED BY <2>1, <2>2 DEF IEndpoint
<1>6. ASSUME TimePasses PROVE IEndpoint'
    <2>1. IPlaces' /\ lagBound' = lagBound
        BY <1>1, <1>6, TickPlaces DEF TimePasses
    <2>2. lagBound = 0 => Metered'
        BY <1>1, <1>6, TickMeters
    <2> QED BY <2>1, <2>2 DEF IEndpoint
<1>7. ASSUME UNCHANGED endpointVars PROVE IEndpoint'
    BY <1>7, EndpointStutters
<1> QED BY <1>2, <1>3, <1>4, <1>5, <1>6, <1>7 DEF EndpointNext

\* What the invariant says of the table and the rates is the property.
LEMMA EndpointHolds == IEndpoint => EndpointInv
<1> SUFFICES ASSUME IEndpoint PROVE EndpointInv
    OBVIOUS
<1>1. EndpointTypes /\ CallsInTime /\ ChecksInTime
    BY DEF IEndpoint, IPlaces
<1>2. LiveBucketsStay
    BY <1>1 DEF LiveBucketsStay, EndpointTypes, CallsInTime, Holds
<1>3. ExpirySeenInTime
    BY <1>1 DEF ChecksInTime
<1>4. ClientRateBounded
    <2> SUFFICES ASSUME lagBound = 0
                 PROVE  /\ \A h \in Hosts : hostMeter[h] <= 2 * BurstParts
                        /\ \A b \in SharedBuckets : sharedMeter[b] <= BurstParts
        BY DEF ClientRateBounded
    <2>1. Metered
        BY DEF IEndpoint
    <2>2. ASSUME NEW h \in Hosts PROVE hostMeter[h] <= 2 * BurstParts
        <3>1. /\ hostMeter[h] \in Nat /\ sharedMeter[SharedOf[h]] \in Nat /\ sharedMeter[SharedOf[h]] <= BurstParts
              /\ HostBound(h) \in Nat /\ HostBound(h) <= 2 * BurstParts /\ BurstParts \in Nat
            BY <1>1, <2>1, BoundsTyped, EndpointNumbers
        <3>2. hostMeter[h] <= HostBound(h) \/ hostMeter[h] <= sharedMeter[SharedOf[h]]
            BY <2>1 DEF Metered, HostMetered, Covered
        <3> QED BY <3>1, <3>2
    <2>3. ASSUME NEW b \in SharedBuckets PROVE sharedMeter[b] <= BurstParts
        BY <2>1 DEF Metered, SharedMetered, Covered
    <2> QED BY <2>2, <2>3
<1>5. CountedAsItself
    BY <1>1 DEF CountedAsItself, CallsInTime
<1> QED BY <1>2, <1>3, <1>4, <1>5 DEF EndpointInv

\* The buckets of the public endpoints, whatever the number of requests, addresses and
\* buckets, and the rates: the table keeps its bound and the buckets in use, no expiry is
\* missed, requests are counted as their clients, and a client that changes between its own
\* and a shared bucket is granted no more than two bursts beyond the refill, the clients of
\* a shared bucket one together.
THEOREM EndpointInvariant == EndpointSpec => []EndpointInv
<1>1. EndpointInit => IEndpoint
    BY EndpointStart
<1>2. IEndpoint /\ [EndpointNext]_endpointVars => IEndpoint'
    BY EndpointSteps
<1>3. IEndpoint => EndpointInv
    BY EndpointHolds
<1> QED BY <1>1, <1>2, <1>3, PTL DEF EndpointSpec

-----------------------------------------------------------------------------
-----------------------------------------------------------------------------
(* RecordPages.                                                            *)
(*                                                                         *)
(* Rows are ordered strictly and totally, whatever seconds they share, so  *)
(* the row with k - 1 rows before it is one and there is one for each k.   *)

\* Before is a strict total order of rows, and what is behind a row comes after it.
LEMMA RowsAreOrdered ==
    ASSUME NEW r \in Row, NEW s \in Row
    PROVE  /\ ~(Precedes(r, s) /\ Precedes(s, r))
           /\ r # s => Precedes(r, s) \/ Precedes(s, r)
           /\ \A t \in Row : Precedes(r, s) /\ Precedes(s, t) => Precedes(r, t)
           /\ Behind(r, s) <=> Precedes(s, r)
<1>1. r.at \in Nat /\ r.id \in Nat /\ s.at \in Nat /\ s.id \in Nat
    BY PagesConstants DEF Row
<1>2. r.at = s.at /\ r.id = s.id => r = s
    BY DEF Row
<1>3. ASSUME NEW t \in Row, Precedes(r, s), Precedes(s, t) PROVE Precedes(r, t)
    <2>1. t.at \in Nat /\ t.id \in Nat
        BY PagesConstants DEF Row
    <2> QED BY <1>1, <1>3, <2>1 DEF Precedes
<1>4. ~(Precedes(r, s) /\ Precedes(s, r))
    BY <1>1 DEF Precedes
<1>5. r # s => Precedes(r, s) \/ Precedes(s, r)
    BY <1>1, <1>2 DEF Precedes
<1>6. Behind(r, s) <=> Precedes(s, r)
    BY <1>1 DEF Precedes, Behind
<1> QED BY <1>3, <1>4, <1>5, <1>6

\* The rows of S before r; how many they are.
RowsBefore(S, r) == {s \in S : Precedes(s, r)}
Rank(S, r) == Cardinality(RowsBefore(S, r))

\* Every row of a finite set has a rank less than their number, and the order of ranks is
\* that of the rows.
LEMMA Ranks ==
    ASSUME NEW S \in SUBSET Row, IsFiniteSet(S)
    PROVE  /\ \A r \in S : Rank(S, r) \in 0 .. Cardinality(S) - 1
           /\ \A r, s \in S : Precedes(r, s) => Rank(S, r) < Rank(S, s)
<1>1. ASSUME NEW r \in S PROVE IsFiniteSet(RowsBefore(S, r)) /\ Rank(S, r) \in Nat
    <2>1. RowsBefore(S, r) \in SUBSET S
        BY DEF RowsBefore
    <2> QED BY <2>1, FS_Subset, FS_CardinalityType DEF Rank
<1>2. ASSUME NEW r \in S, NEW T \in SUBSET S, r \in T, RowsBefore(S, r) \subseteq T
      PROVE  Rank(S, r) < Cardinality(T)
    <2>1. IsFiniteSet(T) /\ Cardinality(T) \in Nat
        BY FS_Subset, FS_CardinalityType
    <2>2. r \notin RowsBefore(S, r)
        BY RowsAreOrdered DEF RowsBefore
    <2>3. RowsBefore(S, r) \cup {r} \in SUBSET T
        BY <1>2
    <2>4. Cardinality(RowsBefore(S, r) \cup {r}) <= Cardinality(T)
        BY <2>1, <2>3, FS_Subset
    <2>5. Cardinality(RowsBefore(S, r) \cup {r}) = Rank(S, r) + 1
        BY <1>1, <2>2, FS_AddElement DEF Rank
    <2> QED BY <1>1, <2>1, <2>4, <2>5
<1>3. ASSUME NEW r \in S PROVE Rank(S, r) \in 0 .. Cardinality(S) - 1
    <2>1. RowsBefore(S, r) \subseteq S
        BY DEF RowsBefore
    <2>2. Rank(S, r) < Cardinality(S)
        BY <1>2, <2>1
    <2>3. Cardinality(S) \in Nat
        BY FS_CardinalityType
    <2> QED BY <1>1, <2>2, <2>3
<1>4. ASSUME NEW r \in S, NEW s \in S, Precedes(r, s) PROVE Rank(S, r) < Rank(S, s)
    <2>1. RowsBefore(S, s) \in SUBSET S /\ r \in RowsBefore(S, s)
        BY <1>4 DEF RowsBefore
    <2>2. RowsBefore(S, r) \subseteq RowsBefore(S, s)
        <3>1. ASSUME NEW t \in S, Precedes(t, r) PROVE Precedes(t, s)
            BY <1>4, <3>1, RowsAreOrdered
        <3> QED BY <3>1 DEF RowsBefore
    <2>3. Rank(S, r) < Cardinality(RowsBefore(S, s))
        BY <1>2, <2>1, <2>2
    <2> QED BY <2>3 DEF Rank
<1> QED BY <1>3, <1>4

\* What is in order.
Sorted(rowsShown, n) == \A i, j \in 1 .. n : i < j => Precedes(rowsShown[i], rowsShown[j])

\* A set put in order is in order, and has all of the set.
LEMMA InOrderSorts ==
    ASSUME NEW S \in SUBSET Row, IsFiniteSet(S), NEW n, n = Cardinality(S)
    PROVE  /\ n \in Nat /\ InOrder(S) \in [1 .. n -> S]
           /\ Sorted(InOrder(S), n)
           /\ \A r \in S : \E k \in 1 .. n : InOrder(S)[k] = r
<1>1. n \in Nat
    BY FS_CardinalityType
<1>2. PICK f : f = [r \in S |-> Rank(S, r) + 1]
    OBVIOUS
<1>3. f \in [S -> 1 .. n]
    <2>1. \A r \in S : Rank(S, r) + 1 \in 1 .. n
        BY <1>1, Ranks
    <2> QED BY <1>2, <2>1
<1>4. \A r, s \in S : Precedes(r, s) <=> f[r] < f[s]
    <2>1. \A r, s \in S : Rank(S, r) \in 0 .. n - 1 /\ (Precedes(r, s) => Rank(S, r) < Rank(S, s))
        BY Ranks
    <2>2. \A r, s \in S : Precedes(r, s) => f[r] < f[s]
        BY <1>2, <2>1
    <2>3. \A r \in S : f[r] \in Nat
        BY <1>1, <1>3
    <2>4. \A r, s \in S : r = s \/ Precedes(r, s) \/ Precedes(s, r)
        BY RowsAreOrdered
    <2>5. ASSUME NEW r \in S, NEW s \in S, f[r] < f[s] PROVE Precedes(r, s)
        <3>1. r # s /\ ~(f[s] < f[r])
            BY <2>3, <2>5
        <3> QED BY <2>2, <2>4, <3>1
    <2> QED BY <2>2, <2>5
<1>5. f \in Injection(S, 1 .. n)
    <2>1. ASSUME NEW r \in S, NEW s \in S, f[r] = f[s] PROVE r = s
        <3>1. f[r] \in Nat /\ f[s] \in Nat
            BY <1>1, <1>3
        <3>2. ~(f[r] < f[s]) /\ ~(f[s] < f[r])
            BY <2>1, <3>1
        <3> QED BY <1>4, <3>2, RowsAreOrdered
    <2> QED BY <1>3, <2>1 DEF Injection, IsInjective
<1>6. IsFiniteSet(1 .. n) /\ Cardinality(1 .. n) = n
    BY <1>1, FS_Interval
<1>7. f \in Surjection(S, 1 .. n)
    BY <1>5, <1>6, FS_Injection
<1>8. \A k \in 1 .. n : \E r \in S : f[r] = k
    BY <1>7 DEF Surjection
<1>9. PICK q : q = InOrder(S)
    OBVIOUS
<1>10. DOMAIN q = 1 .. n /\ q = [k \in 1 .. n |-> CHOOSE r \in S : Rank(S, r) = k - 1]
    BY <1>9 DEF InOrder, Rank, RowsBefore
<1>11. ASSUME NEW k \in 1 .. n PROVE q[k] \in S /\ f[q[k]] = k
    <2>1. PICK r \in S : f[r] = k
        BY <1>8
    <2>2. Rank(S, r) = k - 1
        <3>1. Rank(S, r) \in 0 .. n - 1 /\ Rank(S, r) + 1 = k
            BY <1>2, <2>1, Ranks
        <3> QED BY <3>1
    <2>3. q[k] \in S /\ Rank(S, q[k]) = k - 1
        BY <1>10, <2>2
    <2> QED BY <1>2, <2>3
<1>12. InOrder(S) \in [1 .. n -> S]
    BY <1>9, <1>10, <1>11
<1>13. Sorted(q, n)
    <2>1. ASSUME NEW i \in 1 .. n, NEW j \in 1 .. n, i < j PROVE Precedes(q[i], q[j])
        BY <1>4, <1>11, <2>1
    <2> QED BY <2>1 DEF Sorted
<1>14. ASSUME NEW r \in S PROVE \E k \in 1 .. n : q[k] = r
    <2>1. PICK k \in 1 .. n : k = f[r]
        BY <1>3
    <2>2. q[k] \in S /\ f[q[k]] = f[r]
        BY <1>11, <2>1
    <2>3. q[k] = r
        BY <1>5, <2>2 DEF Injection, IsInjective
    <2> QED BY <2>3
<1> QED BY <1>1, <1>9, <1>12, <1>13, <1>14

\* The rows behind a cursor.
RowsBehind(cursor) == {r \in rows : \A c \in cursor : Behind(r, c)}

\* A page is a beginning of the rows behind its cursor, in order; the row behind the last
\* one shown is left out only when the page says that there is more.
PageOf(page, cursor, limit) ==
  LET n == Len(page.items) IN
  /\ page.items \in Seq(RowsBehind(cursor)) /\ Sorted(page.items, n)
  /\ page.hasMore \in BOOLEAN
  /\ ~page.hasMore => /\ page.next = {}
                      /\ \A r \in RowsBehind(cursor) : \E k \in 1 .. n : page.items[k] = r
  /\ page.hasMore => /\ n > 0 /\ page.next = {page.items[n]}
                     /\ \A r \in RowsBehind(cursor) :
                           Precedes(page.items[n], r) \/ \E k \in 1 .. n : page.items[k] = r

\* The queries and finalizeTimeIDPage make such a page.
LEMMA PageIsFetched ==
    ASSUME rows \in SUBSET Row, IsFiniteSet(rows), NEW cursor \in SUBSET Row, NEW limit \in Nat \ {0}
    PROVE  PageOf(FinalizePage(Fetched(cursor, limit), limit), cursor, limit)
<1>1. PICK S : S = RowsBehind(cursor)
    OBVIOUS
<1>2. S \in SUBSET Row /\ IsFiniteSet(S)
    <2>1. S \in SUBSET rows
        BY <1>1 DEF RowsBehind
    <2> QED BY <2>1, FS_Subset
<1>3. PICK n : n = Cardinality(S)
    OBVIOUS
<1>4. PICK q : q = InOrder(S)
    OBVIOUS
<1>5. n \in Nat /\ q \in [1 .. n -> S] /\ Sorted(q, n) /\ \A r \in S : \E k \in 1 .. n : q[k] = r
    BY <1>2, <1>3, <1>4, InOrderSorts
<1>6. q \in Seq(S) /\ Len(q) = n
    BY <1>5
<1>7. Fetched(cursor, limit) = SubSeq(q, 1, IF n < limit + 1 THEN n ELSE limit + 1)
    BY <1>1, <1>4, <1>6 DEF Fetched, RowsBehind
<1>8. PICK page : page = FinalizePage(Fetched(cursor, limit), limit)
    OBVIOUS
<1>9. CASE n <= limit
    <2>1. Fetched(cursor, limit) = q
        <3>1. n < limit + 1
            BY <1>5, <1>9
        <3>2. SubSeq(q, 1, n) = q
            BY <1>6
        <3> QED BY <1>7, <3>1, <3>2
    <2>2. page = [items |-> q, hasMore |-> FALSE, next |-> {}]
        BY <1>6, <1>8, <1>9, <2>1 DEF FinalizePage, NoCursor
    <2>3. page.items = q /\ page.hasMore = FALSE /\ page.next = {}
        BY <2>2
    <2> QED BY <1>1, <1>5, <1>6, <1>8, <2>3 DEF PageOf
<1>10. CASE n > limit
    <2>1. PICK got : got = Fetched(cursor, limit)
        OBVIOUS
    <2>2. got = SubSeq(q, 1, limit + 1) /\ limit + 1 <= n
        BY <1>5, <1>7, <1>10, <2>1
    <2>3. Len(got) = limit + 1 /\ got \in Seq(S)
        BY <1>6, <2>2
    <2>4. \A k \in 1 .. limit + 1 : got[k] = q[k]
        BY <1>6, <2>2
    <2>5. PICK items : items = SubSeq(got, 1, limit)
        OBVIOUS
    <2>6. items \in Seq(S) /\ Len(items) = limit
        BY <2>3, <2>5
    <2>7. \A k \in 1 .. limit : items[k] = q[k] /\ k \in 1 .. n
        <3>1. \A k \in 1 .. limit : items[k] = got[k]
            BY <2>3, <2>5
        <3>2. \A k \in 1 .. limit : k \in 1 .. limit + 1 /\ k \in 1 .. n
            BY <1>5, <2>2
        <3> QED BY <2>4, <3>1, <3>2
    <2>8. page = [items |-> items, hasMore |-> TRUE, next |-> {items[limit]}]
        <3>1. ~(Len(got) <= limit)
            BY <2>3
        <3> QED BY <1>8, <2>1, <2>5, <3>1, Zenon DEF FinalizePage
    <2>9. page.items = items /\ page.hasMore = TRUE /\ page.next = {items[limit]}
        BY <2>8
    <2>10. Sorted(items, limit)
        BY <1>5, <2>7 DEF Sorted
    <2>11. ASSUME NEW r \in S PROVE Precedes(items[limit], r) \/ \E k \in 1 .. limit : items[k] = r
        <3>1. PICK k \in 1 .. n : q[k] = r
            BY <1>5
        <3>2. CASE k <= limit
            BY <2>7, <3>1, <3>2
        <3>3. CASE k > limit
            <4>1. limit \in 1 .. limit /\ limit \in 1 .. n
                BY <1>5, <1>10
            <4> QED BY <1>5, <2>7, <3>1, <3>3, <4>1 DEF Sorted
        <3>4. k <= limit \/ k > limit
            BY <1>5
        <3> QED BY <3>2, <3>3, <3>4
    <2>12. Len(page.items) = limit /\ limit > 0
        BY <2>6, <2>9
    <2>13. page.items \in Seq(RowsBehind(cursor)) /\ Sorted(page.items, limit) /\ page.next = {page.items[limit]}
        BY <1>1, <2>6, <2>9, <2>10
    <2>14. \A r \in RowsBehind(cursor) :
              Precedes(page.items[limit], r) \/ \E k \in 1 .. limit : page.items[k] = r
        BY <1>1, <2>9, <2>11
    <2>15. page.hasMore
        BY <2>9
    <2> QED BY <1>8, <2>12, <2>13, <2>14, <2>15 DEF PageOf
<1>11. n <= limit \/ n > limit
    BY <1>5
<1> QED BY <1>9, <1>10, <1>11

\* The inductive invariant: what was shown is in order and ends at the cursor, and a row that
\* was there all the time is behind the cursor or was shown.
PagesTypes ==
  /\ rows \in SUBSET Row /\ IsFiniteSet(rows)
  /\ reader.shown \in Seq(Row) /\ reader.cursor \in SUBSET Row /\ reader.steady \in SUBSET rows
  /\ reader.ended \in BOOLEAN
  /\ reader \in [shown : Seq(Row), cursor : SUBSET Row, steady : SUBSET Row, ended : BOOLEAN]
ShownInOrder == Sorted(reader.shown, Len(reader.shown))
CursorIsLast ==
  /\ reader.ended => reader.cursor = {}
  /\ ~reader.ended => Len(reader.shown) > 0 /\ reader.cursor = {reader.shown[Len(reader.shown)]}
PassedIsShown ==
  \A r \in reader.steady :
     reader.ended \/ (\E c \in reader.cursor : ~Precedes(c, r))
       => \E k \in 1 .. Len(reader.shown) : reader.shown[k] = r
PagesIInv == PagesTypes /\ ShownInOrder /\ CursorIsLast /\ PassedIsShown

\* The inductive invariant implies the invariant.
LEMMA PagesIInvImplies == PagesIInv => PagesInv
<1> SUFFICES ASSUME PagesIInv PROVE PagesInv
    OBVIOUS
<1>1. PICK n \in Nat : n = Len(reader.shown) /\ DOMAIN reader.shown = 1 .. n
    BY DEF PagesIInv, PagesTypes
<1>2. \A r : (\E k \in 1 .. n : reader.shown[k] = r) => r \in ToSet(reader.shown)
    BY <1>1 DEF ToSet
<1>3. \A r \in reader.steady :
         reader.ended \/ (\E c \in reader.cursor : ~Precedes(c, r)) => r \in ToSet(reader.shown)
    BY <1>1, <1>2 DEF PagesIInv, PassedIsShown
<1>4. \A i, j \in DOMAIN reader.shown : i < j => Precedes(reader.shown[i], reader.shown[j])
    BY <1>1 DEF PagesIInv, ShownInOrder, Sorted
<1>5. rows \subseteq Row
    BY DEF PagesIInv, PagesTypes
<1> QED BY <1>3, <1>4, <1>5 DEF PagesInv

\* An empty list.
LEMMA PagesStart == PagesInit => PagesIInv
<1> SUFFICES ASSUME PagesInit PROVE PagesIInv
    OBVIOUS
<1>1. rows = {} /\ reader = [shown |-> <<>>, cursor |-> {}, steady |-> {}, ended |-> TRUE]
    BY DEF PagesInit, Reading, NoCursor
<1>2. <<>> \in Seq(Row) /\ Len(<<>>) = 0
    OBVIOUS
<1>3. reader.shown = <<>> /\ reader.cursor = {} /\ reader.steady = {} /\ reader.ended = TRUE
    BY <1>1
<1>4. IsFiniteSet(rows)
    BY <1>1, FS_EmptySet
<1>5. reader \in [shown : Seq(Row), cursor : SUBSET Row, steady : SUBSET Row, ended : BOOLEAN]
    <2>1. PICK s \in Seq(Row) : s = <<>>
        BY <1>2, Zenon
    <2>2. reader = [shown |-> s, cursor |-> {}, steady |-> {}, ended |-> TRUE]
        BY <1>1, <2>1
    <2> QED BY <2>2
<1>6. PagesTypes
    BY <1>1, <1>2, <1>3, <1>4, <1>5 DEF PagesTypes
<1>7. ShownInOrder
    BY <1>2, <1>3 DEF ShownInOrder, Sorted
<1> QED BY <1>3, <1>6, <1>7 DEF PagesIInv, CursorIsLast, PassedIsShown

\* The next page goes on from the rows shown so far.
LEMMA PageGoesOn ==
    ASSUME PagesIInv, NEW shown \in Seq(Row), NEW cursor \in SUBSET Row, NEW steady \in SUBSET rows,
           NEW limit \in Nat \ {0}, NEW page, PageOf(page, cursor, limit),
           Sorted(shown, Len(shown)),
           cursor = {} \/ (Len(shown) > 0 /\ cursor = {shown[Len(shown)]}),
           \A r \in steady : (\E c \in cursor : ~Precedes(c, r)) => \E k \in 1 .. Len(shown) : shown[k] = r,
           cursor = {} => Len(shown) = 0,
           reader' = Reading(shown \o page.items, page.next, steady, ~page.hasMore),
           rows' = rows, direction' = direction
    PROVE  PagesIInv'
<1>1. rows \in SUBSET Row /\ IsFiniteSet(rows)
    BY DEF PagesIInv, PagesTypes
<1>2. RowsBehind(cursor) \in SUBSET Row
    BY <1>1 DEF RowsBehind
<1>3. PICK items \in Seq(Row) : items = page.items
    <2>1. page.items \in Seq(RowsBehind(cursor))
        BY DEF PageOf
    <2>2. page.items \in Seq(Row)
        BY <1>2, <2>1
    <2> QED BY <2>2, Zenon
<1>4. PICK n \in Nat : n = Len(items)
    OBVIOUS
<1>5. PICK m \in Nat : m = Len(shown)
    OBVIOUS
<1>6. PICK whole \in Seq(Row) : whole = shown \o items
    <2>1. shown \o items \in Seq(Row)
        OBVIOUS
    <2> QED BY <2>1, Zenon
<1>7. /\ Len(whole) = m + n
      /\ \A k \in 1 .. m : whole[k] = shown[k] /\ k \in 1 .. m + n
      /\ \A k \in 1 .. n : whole[m + k] = items[k] /\ m + k \in 1 .. m + n
    BY <1>4, <1>5, <1>6
<1>8. PICK more \in BOOLEAN : more = page.hasMore
    BY DEF PageOf
<1>9. reader' = [shown |-> whole, cursor |-> page.next, steady |-> steady, ended |-> ~more]
    BY <1>3, <1>6, <1>8 DEF Reading
<1>10. reader'.shown = whole /\ reader'.cursor = page.next /\ reader'.steady = steady /\ reader'.ended = ~more
    BY <1>9
<1>11. /\ Sorted(items, n)
       /\ ~more => page.next = {} /\ \A r \in RowsBehind(cursor) : \E k \in 1 .. n : items[k] = r
       /\ more => /\ n > 0 /\ page.next = {items[n]}
                  /\ \A r \in RowsBehind(cursor) : Precedes(items[n], r) \/ \E k \in 1 .. n : items[k] = r
       /\ \A k \in 1 .. n : items[k] \in RowsBehind(cursor)
    <2>1. page.items \in Seq(RowsBehind(cursor)) /\ n = Len(page.items)
        BY <1>3, <1>4 DEF PageOf
    <2>2. \A k \in 1 .. n : page.items[k] \in RowsBehind(cursor)
        BY <2>1
    <2> QED BY <1>3, <1>8, <2>1, <2>2 DEF PageOf
<1>12. more => n \in 1 .. n /\ items[n] \in Row /\ items[n] = whole[m + n]
    <2>1. more => n \in 1 .. n
        BY <1>11
    <2> QED BY <1>2, <1>7, <1>11, <2>1
<1>13. PagesTypes'
    <2>1. page.next \in SUBSET Row
        BY <1>8, <1>11, <1>12
    <2>2. steady \in SUBSET Row
        BY <1>1
    <2>3. PICK next \in SUBSET Row : next = page.next
        BY <2>1, Zenon
    <2>5. reader' = [shown |-> whole, cursor |-> next, steady |-> steady, ended |-> ~more]
        BY <1>9, <2>3
    <2>6. PICK ended \in BOOLEAN : ended = ~more
        OBVIOUS
    <2>7. reader' = [shown |-> whole, cursor |-> next, steady |-> steady, ended |-> ended]
        BY <2>5, <2>6
    <2>8. reader' \in [shown : Seq(Row), cursor : SUBSET Row, steady : SUBSET Row, ended : BOOLEAN]
        BY <2>2, <2>7
    <2>4. Row' = Row
        BY DEF Row
    <2> QED BY <1>1, <1>10, <2>1, <2>8, <2>4 DEF PagesTypes
<1>14. \A r, s \in Row : Precedes(r, s)' <=> Precedes(r, s)
    BY DEF Precedes
<1>15. \A i \in 1 .. m + n : whole[i] \in Row
    BY <1>6, <1>7
<1>16. ASSUME NEW i \in 1 .. m + n, NEW j \in 1 .. m + n, i < j PROVE Precedes(whole[i], whole[j])
    <2>1. CASE j <= m
        <3>1. i \in 1 .. m /\ j \in 1 .. m
            BY <1>16, <2>1
        <3> QED BY <1>5, <1>7, <1>16, <3>1 DEF Sorted
    <2>2. CASE i > m
        <3>1. PICK a \in 1 .. n, b \in 1 .. n : i = m + a /\ j = m + b /\ a < b
            <4>1. i - m \in 1 .. n /\ j - m \in 1 .. n /\ i = m + (i - m) /\ j = m + (j - m) /\ i - m < j - m
                BY <1>16, <2>2
            <4> QED BY <4>1
        <3> QED BY <1>7, <1>11, <3>1 DEF Sorted
    <2>3. CASE i <= m /\ j > m
        <3>1. PICK b \in 1 .. n : j = m + b
            <4>1. j - m \in 1 .. n /\ j = m + (j - m)
                BY <2>3
            <4> QED BY <4>1
        <3>2. i \in 1 .. m /\ m \in 1 .. m /\ m > 0
            BY <2>3
        <3>3. PICK last \in Row : last = shown[m]
            BY <1>5, <3>2
        <3>4. cursor = {last}
            BY <1>5, <3>2, <3>3
        <3>5. items[b] \in Row /\ Behind(items[b], last)
            BY <1>2, <1>11, <3>4 DEF RowsBehind
        <3>6. Precedes(last, items[b])
            BY <3>5, RowsAreOrdered
        <3>7. shown[i] \in Row /\ (shown[i] = last \/ Precedes(shown[i], last))
            <4>1. i = m \/ i < m
                BY <3>2
            <4> QED BY <1>5, <3>2, <3>3, <4>1 DEF Sorted
        <3>8. Precedes(shown[i], items[b])
            BY <3>5, <3>6, <3>7, RowsAreOrdered
        <3> QED BY <1>7, <3>1, <3>2, <3>8
    <2>4. j <= m \/ i > m \/ (i <= m /\ j > m)
        OBVIOUS
    <2> QED BY <2>1, <2>2, <2>3, <2>4
<1>17. ShownInOrder'
    BY <1>7, <1>10, <1>14, <1>15, <1>16 DEF ShownInOrder, Sorted
<1>18. CursorIsLast'
    <2>1. more => m + n > 0 /\ page.next = {whole[m + n]}
        BY <1>11, <1>12
    <2> QED BY <1>7, <1>8, <1>10, <1>11, <2>1 DEF CursorIsLast
<1>19. ASSUME NEW r \in steady, ~more \/ (\E c \in page.next : ~Precedes(c, r)')
       PROVE  \E k \in 1 .. m + n : whole[k] = r
    <2>1. r \in rows /\ r \in Row
        BY <1>1
    <2>2. CASE r \in RowsBehind(cursor)
        <3>1. \E k \in 1 .. n : items[k] = r
            <4>1. CASE ~more
                BY <1>11, <2>2, <4>1
            <4>2. CASE more
                <5>1. ~Precedes(items[n], r)
                    BY <1>11, <1>12, <1>14, <1>19, <2>1, <4>2
                <5> QED BY <1>11, <2>2, <4>2, <5>1
            <4> QED BY <1>8, <4>1, <4>2
        <3> QED BY <1>7, <3>1
    <2>3. CASE r \notin RowsBehind(cursor)
        <3>1. PICK c \in cursor : ~Behind(r, c)
            BY <2>1, <2>3 DEF RowsBehind
        <3>2. ~Precedes(c, r)
            BY <2>1, <3>1, RowsAreOrdered
        <3>3. \E k \in 1 .. m : shown[k] = r
            BY <1>5, <3>2
        <3> QED BY <1>7, <3>3
    <2> QED BY <2>2, <2>3
<1>20. ASSUME NEW r \in steady, reader'.ended \/ (\E c \in reader'.cursor : ~Precedes(c, r)')
       PROVE  \E k \in 1 .. Len(reader'.shown) : reader'.shown[k] = r
    <2>1. ~more \/ (\E c \in page.next : ~Precedes(c, r)')
        BY <1>10, <1>20
    <2>2. \E k \in 1 .. m + n : whole[k] = r
        BY <1>19, <2>1
    <2> QED BY <1>7, <1>10, <2>2
<1>21. PassedIsShown'
    BY <1>10, <1>20, Zenon DEF PassedIsShown
<1> QED BY <1>13, <1>17, <1>18, <1>21 DEF PagesIInv

\* A page is asked for.
LEMMA NextPageKeeps ==
    ASSUME PagesIInv, NEW limit \in PageLimits, NextPage(limit)
    PROVE  PagesIInv'
<1>1. PagesTypes /\ ShownInOrder /\ CursorIsLast /\ PassedIsShown
    BY DEF PagesIInv
<1>2. limit \in Nat \ {0}
    BY PagesConstants
<1>3. PICK cursor \in SUBSET Row : cursor = IF reader.ended THEN {} ELSE reader.cursor
    BY <1>1 DEF PagesTypes
<1>4. PICK shown \in Seq(Row) : shown = IF reader.ended THEN <<>> ELSE reader.shown
    <2>1. <<>> \in Seq(Row)
        OBVIOUS
    <2>2. (IF reader.ended THEN <<>> ELSE reader.shown) \in Seq(Row)
        BY <1>1, <2>1 DEF PagesTypes
    <2> QED BY <2>2, Zenon
<1>5. PICK steady \in SUBSET rows : steady = IF reader.ended THEN rows ELSE reader.steady
    BY <1>1 DEF PagesTypes
<1>6. PICK page : page = FinalizePage(Fetched(cursor, limit), limit)
    OBVIOUS
<1>7. PageOf(page, cursor, limit)
    BY <1>1, <1>2, <1>6, PageIsFetched DEF PagesTypes
<1>8. reader' = Reading(shown \o page.items, page.next, steady, ~page.hasMore)
      /\ rows' = rows /\ direction' = direction
    BY <1>3, <1>4, <1>5, <1>6, Zenon DEF NextPage, NoCursor
<1>9. CASE reader.ended
    <2>1. cursor = {} /\ shown = <<>> /\ Len(shown) = 0
        BY <1>3, <1>4, <1>9
    <2>2. Sorted(shown, Len(shown))
        BY <2>1 DEF Sorted
    <2> QED BY <1>2, <1>7, <1>8, <2>1, <2>2, PageGoesOn
<1>10. CASE ~reader.ended
    <2>1. cursor = reader.cursor /\ shown = reader.shown /\ steady = reader.steady
        BY <1>3, <1>4, <1>5, <1>10
    <2>2. Sorted(shown, Len(shown)) /\ Len(shown) > 0 /\ cursor = {shown[Len(shown)]}
        BY <1>1, <1>10, <2>1 DEF ShownInOrder, CursorIsLast
    <2>3. \A r \in steady : (\E c \in cursor : ~Precedes(c, r)) => \E k \in 1 .. Len(shown) : shown[k] = r
        BY <1>1, <2>1 DEF PassedIsShown
    <2>4. cursor # {}
        BY <2>2
    <2> QED BY <1>2, <1>7, <1>8, <2>2, <2>3, <2>4, PageGoesOn
<1> QED BY <1>9, <1>10

\* An instant is kept as the second it is in.
LEMMA SecondOfInstant ==
    ASSUME NEW s \in Nat, NEW m \in Nat \ {0}, NEW k \in 0 .. m - 1
    PROVE  (s * m + k) \div m = s
<1>1. PICK t \in Nat : t = s * m + k
    OBVIOUS
<1>2. PICK q \in Int : q = t \div m
    OBVIOUS
<1>3. q * m <= t /\ t < q * m + m
    BY <1>1, <1>2
<1>4. PICK a \in Int, b \in Int : a = q * m /\ b = s * m
    OBVIOUS
<1>5. a <= b + k /\ b + k < a + m
    BY <1>1, <1>3, <1>4
<1>6. q < s => a + m <= b
    <2>1. ASSUME q < s PROVE a + m <= b
        <3>1. PICK d \in Nat : s = q + d + 1
            BY <2>1
        <3>2. s * m = q * m + d * m + m /\ d * m \in Nat
            BY <3>1
        <3> QED BY <1>4, <3>2
    <2> QED BY <2>1
<1>7. s < q => b + m <= a
    <2>1. ASSUME s < q PROVE b + m <= a
        <3>1. PICK d \in Nat : q = s + d + 1
            BY <2>1
        <3>2. q * m = s * m + d * m + m /\ d * m \in Nat
            BY <3>1
        <3> QED BY <1>4, <3>2
    <2> QED BY <2>1
<1>8. q = s
    BY <1>5, <1>6, <1>7
<1> QED BY <1>1, <1>2, <1>8

\* A row is created.
LEMMA InsertRowKeeps ==
    ASSUME PagesIInv, NEW id \in Ids, NEW instant \in Instants, InsertRow(id, instant)
    PROVE  PagesIInv'
<1>1. PagesTypes /\ ShownInOrder /\ CursorIsLast /\ PassedIsShown
    BY DEF PagesIInv
<1>2. PICK s \in Seconds, k \in 0 .. Subsecond - 1 : instant = s * Subsecond + k
    BY DEF Instants
<1>3. FormatTime(instant) = s
    <2>1. s \in Nat /\ Subsecond \in Nat \ {0}
        BY PagesConstants
    <2>2. (s * Subsecond + k) \div Subsecond = s
        BY <2>1, SecondOfInstant
    <2> QED BY <1>2, <2>2 DEF FormatTime
<1>4. PICK new \in Row : new = [at |-> FormatTime(instant), id |-> id]
    BY <1>3 DEF Row
<1>5. rows' = rows \cup {new} /\ direction' = direction /\ reader' = reader
    BY <1>4 DEF InsertRow
<1>6. IsFiniteSet(rows')
    BY <1>1, <1>5, FS_AddElement DEF PagesTypes
<1>7. PagesTypes'
    BY <1>1, <1>5, <1>6 DEF PagesTypes, Row
<1> QED BY <1>1, <1>5, <1>7 DEF PagesIInv, ShownInOrder, Sorted, CursorIsLast, PassedIsShown, Precedes

\* A row is deleted.
LEMMA DeleteRowKeeps ==
    ASSUME PagesIInv, NEW row \in rows, DeleteRow(row)
    PROVE  PagesIInv'
<1>1. PagesTypes /\ ShownInOrder /\ CursorIsLast /\ PassedIsShown
    BY DEF PagesIInv
<1>2. rows' = rows \ {row} /\ direction' = direction /\ reader' = [reader EXCEPT !.steady = @ \ {row}]
    BY DEF DeleteRow
<1>3. reader'.shown = reader.shown /\ reader'.cursor = reader.cursor /\ reader'.ended = reader.ended
      /\ reader'.steady = reader.steady \ {row}
    BY <1>1, <1>2 DEF PagesTypes
<1>4. IsFiniteSet(rows')
    BY <1>1, <1>2, FS_RemoveElement DEF PagesTypes
<1>5. reader' \in [shown : Seq(Row), cursor : SUBSET Row, steady : SUBSET Row, ended : BOOLEAN]
    BY <1>1, <1>2 DEF PagesTypes
<1>6. PagesTypes'
    BY <1>1, <1>2, <1>3, <1>4, <1>5 DEF PagesTypes, Row
<1> QED BY <1>1, <1>2, <1>3, <1>6 DEF PagesIInv, ShownInOrder, Sorted, CursorIsLast, PassedIsShown, Precedes

\* Every step keeps the inductive invariant.
LEMMA PagesSteps == PagesIInv /\ [PagesNext]_pagesVars => PagesIInv'
<1> SUFFICES ASSUME PagesIInv, [PagesNext]_pagesVars PROVE PagesIInv'
    OBVIOUS
<1>1. CASE PagesNext
    BY <1>1, NextPageKeeps, InsertRowKeeps, DeleteRowKeeps DEF PagesNext
<1>2. CASE UNCHANGED pagesVars
    <2>1. direction' = direction /\ rows' = rows /\ reader' = reader
        BY <1>2 DEF pagesVars
    <2> QED BY <2>1 DEF PagesIInv, PagesTypes, Row, ShownInOrder, Sorted, CursorIsLast, PassedIsShown, Precedes
<1> QED BY <1>1, <1>2

\* Leafing through a list, for any rows coming and going and any limits, shows every row that
\* stayed once and in order (store/pagination.go, List*Page).
THEOREM PagesInvariant == PagesSpec => []PagesInv
<1> QED BY PagesStart, PagesSteps, PagesIInvImplies, PTL DEF PagesSpec
=============================================================================
