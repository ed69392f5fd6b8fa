------------------------------ MODULE SuccessQuota ------------------------------
(***************************************************************************)
(* The monthly allowance of successful calls: ReserveSuccessCall and       *)
(* CompleteSuccessCall of internal/store/users.go, and the deletion of a   *)
(* user beside them.                                                       *)
(*                                                                         *)
(* All writes go through one database connection, so a transaction is one  *)
(* step.  The month is read from the clock before the transaction begins   *)
(* and the wait for the connection lies in between, so a reservation takes *)
(* two steps.  A month is a number; 0 is a month before the run starts.    *)
(***************************************************************************)
EXTENDS McpCallers, Naturals, FiniteSets

CONSTANTS
    SuccessLimits,  \* success limits of tiers; 0 is unlimited
    MaxPeriod       \* bound: the last month of a run

ASSUME QuotaAssumption ==
    /\ IsFiniteSet(Requests)
    /\ UserOf \in [Requests -> Users]
    /\ SuccessLimits \in SUBSET Nat
    /\ MaxPeriod \in Nat

VARIABLES
    now,            \* the current UTC month
    exists,         \* the rows of table users
    successCalls, successPeriod,   \* the columns of a user's row
    reservations,   \* the rows of table success_quota_reservations
    quota,          \* request -> how far its reservation is
    reqPeriod,      \* request -> the month it read
    reqLimit,       \* request -> the success limit its authentication found
    regressed       \* history: users whose month a late reservation set back

quotaVars == <<now, exists, successCalls, successPeriod, reservations, quota, reqPeriod, reqLimit,
               regressed>>

QuotaStates == {"none", "waiting", "reserved", "exhausted", "notFound", "failed",
                "kept", "rolledBack", "abandoned"}

QuotaInit ==
    /\ now = 1
    /\ exists = Users
    /\ successCalls = [u \in Users |-> 0]
    /\ successPeriod \in [Users -> {0, 1}]
    /\ reservations = {}
    /\ quota = [r \in Requests |-> "none"]
    /\ reqPeriod = [r \in Requests |-> 0]
    /\ reqLimit = [r \in Requests |-> 0]
    /\ regressed = {}

-----------------------------------------------------------------------------
(* ReserveSuccessCall.                                                     *)

\* The month is read, and the request waits for the write connection.
ReserveBegin(r, limit) ==
    /\ quota[r] = "none"
    /\ reqPeriod' = [reqPeriod EXCEPT ![r] = now]
    /\ reqLimit' = [reqLimit EXCEPT ![r] = limit]
    /\ quota' = [quota EXCEPT ![r] = "waiting"]
    /\ UNCHANGED <<now, exists, successCalls, successPeriod, reservations, regressed>>

\* The calls the row counts for month p.
CallsIn(u, p) == IF successPeriod[u] = p THEN successCalls[u] ELSE 0

BelowLimit(r) == reqLimit[r] = 0 \/ CallsIn(UserOf[r], reqPeriod[r]) < reqLimit[r]

\* UPDATE of the user and INSERT of the reservation in one transaction.
ReserveGrant(r) ==
    /\ quota[r] = "waiting"
    /\ UserOf[r] \in exists
    /\ BelowLimit(r)
    /\ successCalls' = [successCalls EXCEPT ![UserOf[r]] = CallsIn(UserOf[r], reqPeriod[r]) + 1]
    /\ successPeriod' = [successPeriod EXCEPT ![UserOf[r]] = reqPeriod[r]]
    /\ reservations' = reservations \union {r}
    /\ quota' = [quota EXCEPT ![r] = "reserved"]
    /\ regressed' = IF reqPeriod[r] < successPeriod[UserOf[r]]
                    THEN regressed \union {UserOf[r]} ELSE regressed
    /\ UNCHANGED <<now, exists, reqPeriod, reqLimit>>

\* No row was updated: the lookup tells a missing user from a used-up allowance.
ReserveRefuse(r) ==
    /\ quota[r] = "waiting"
    /\ UserOf[r] \notin exists \/ ~BelowLimit(r)
    /\ quota' = [quota EXCEPT ![r] = IF UserOf[r] \in exists THEN "exhausted" ELSE "notFound"]
    /\ UNCHANGED <<now, exists, successCalls, successPeriod, reservations, reqPeriod, reqLimit, regressed>>

\* An error of the database, or a cancelled request: the transaction is rolled back.
ReserveFail(r) ==
    /\ quota[r] = "waiting"
    /\ quota' = [quota EXCEPT ![r] = "failed"]
    /\ UNCHANGED <<now, exists, successCalls, successPeriod, reservations, reqPeriod, reqLimit, regressed>>

-----------------------------------------------------------------------------
(* CompleteSuccessCall.                                                    *)

\* Mutant: the rollback ignores which month the reservation counted in.
RolledBackCalls_AnyPeriod(r) ==
    IF successCalls[UserOf[r]] > 0 THEN successCalls[UserOf[r]] - 1 ELSE successCalls[UserOf[r]]

\* The completion deleted the reservation and the tool failed.
GivesBack(r, succeeded) == r \in reservations /\ ~succeeded

\* The user's count after the UPDATE of a rollback.
RolledBackCalls(r) ==
    IF successPeriod[UserOf[r]] = reqPeriod[r] /\ successCalls[UserOf[r]] > 0
    THEN successCalls[UserOf[r]] - 1 ELSE successCalls[UserOf[r]]

\* May be called again: a second completion finds no reservation.
CompleteSuccessCall(r, succeeded) ==
    /\ quota[r] \in {"reserved", "kept", "rolledBack"}
    /\ reservations' = reservations \ {r}
    /\ successCalls' = IF GivesBack(r, succeeded)
                       THEN [successCalls EXCEPT ![UserOf[r]] = RolledBackCalls(r)] ELSE successCalls
    /\ quota' = [quota EXCEPT ![r] = IF GivesBack(r, succeeded) THEN "rolledBack"
                                     ELSE IF @ = "reserved" THEN "kept" ELSE @]
    /\ UNCHANGED <<now, exists, successPeriod, reqPeriod, reqLimit, regressed>>

\* The bounded completion context ended, or the write failed: the reservation and
\* its count stay, and nobody tries again.
CompleteFail(r) ==
    /\ quota[r] = "reserved"
    /\ quota' = [quota EXCEPT ![r] = "abandoned"]
    /\ UNCHANGED <<now, exists, successCalls, successPeriod, reservations, reqPeriod, reqLimit, regressed>>

-----------------------------------------------------------------------------

\* The user's reservations go with the user (ON DELETE CASCADE).
DeleteUser(u) ==
    /\ u \in exists
    /\ exists' = exists \ {u}
    /\ reservations' = {r \in reservations : UserOf[r] # u}
    /\ UNCHANGED <<now, successCalls, successPeriod, quota, reqPeriod, reqLimit, regressed>>

\* The process dies and restarts: tables stay, requests in progress are lost.
QuotaCrash ==
    /\ \E r \in Requests : quota[r] \in {"waiting", "reserved"}
    /\ quota' = [r \in Requests |-> CASE quota[r] = "waiting" -> "failed"
                                      [] quota[r] = "reserved" -> "abandoned"
                                      [] OTHER -> quota[r]]
    /\ UNCHANGED <<now, exists, successCalls, successPeriod, reservations, reqPeriod, reqLimit, regressed>>

\* The UTC month changes.
NextMonth ==
    /\ now < MaxPeriod
    /\ now' = now + 1
    /\ UNCHANGED <<exists, successCalls, successPeriod, reservations, quota, reqPeriod, reqLimit, regressed>>

QuotaNext ==
    \/ \E r \in Requests, limit \in SuccessLimits : ReserveBegin(r, limit)
    \/ \E r \in Requests : ReserveGrant(r) \/ ReserveRefuse(r) \/ ReserveFail(r)
    \/ \E r \in Requests, succeeded \in BOOLEAN : CompleteSuccessCall(r, succeeded)
    \/ \E r \in Requests : CompleteFail(r)
    \/ \E u \in Users : DeleteUser(u)
    \/ QuotaCrash
    \/ NextMonth

QuotaSpec == QuotaInit /\ [][QuotaNext]_quotaVars

-----------------------------------------------------------------------------
(* Properties.                                                             *)

\* Counts and periods are natural numbers: no rollback takes a count below zero.
QuotaTypeOK ==
    /\ now \in Nat
    /\ exists \in SUBSET Users
    /\ successCalls \in [Users -> Nat]
    /\ successPeriod \in [Users -> Nat]
    /\ reservations \in SUBSET Requests
    /\ quota \in [Requests -> QuotaStates]
    /\ reqPeriod \in [Requests -> Nat]
    /\ reqLimit \in [Requests -> Nat]
    /\ regressed \in SUBSET Users

\* The calls of user u that month p has to count: admitted, and not known to have
\* failed.
Charged(u, p) ==
    {r \in Requests : /\ UserOf[r] = u /\ reqPeriod[r] = p
                      /\ quota[r] \in {"reserved", "kept", "abandoned"}}

\* success_calls is the number of calls charged in success_period, through
\* failures, crashes and month changes, unless a late reservation set the month back.
CountExact ==
    \A u \in exists \ regressed : successCalls[u] = Cardinality(Charged(u, successPeriod[u]))

\* Whatever the order of reservations around a month change, a user is never charged
\* for more calls than were admitted and not rolled back.
NeverOvercharged ==
    \A u \in exists : successCalls[u] <= Cardinality(Charged(u, successPeriod[u]))

\* A reservation row belongs to a call that is still counted, of a user who exists.
RowsAreCharges ==
    \A r \in reservations : UserOf[r] \in exists /\ quota[r] \in {"reserved", "abandoned"}

\* No charged call is of a later month than the row of its user, unless the month
\* was set back.
MonthsOrdered ==
    \A r \in Requests :
        /\ UserOf[r] \in exists \ regressed
        /\ quota[r] \in {"reserved", "kept", "abandoned"}
        => reqPeriod[r] <= successPeriod[UserOf[r]]

\* The inductive invariant of the quota: the count is exact and never too high, rows
\* stand for counted calls, and months only move on where they should.
QuotaInv ==
    /\ QuotaTypeOK
    /\ CountExact
    /\ NeverOvercharged
    /\ RowsAreCharges
    /\ MonthsOrdered

\* A call is admitted only if it fits the monthly allowance its authentication found.
GrantsWithinAllowance ==
    \A r \in Requests :
        /\ quota[r] = "waiting" /\ quota'[r] = "reserved"
        /\ reqLimit[r] # 0 /\ UserOf[r] \notin regressed'
        => Cardinality(Charged(UserOf[r], reqPeriod[r])') <= reqLimit[r]

\* A call is refused for quota only if the month really counts that many calls.
RefusesOnlyWhenExhausted ==
    \A r \in Requests :
        quota[r] = "waiting" /\ quota'[r] = "exhausted" =>
            Cardinality(Charged(UserOf[r], reqPeriod[r])) >= reqLimit[r]

\* Both, of every step of the quota.
QuotaDecides == [][GrantsWithinAllowance /\ RefusesOnlyWhenExhausted]_quotaVars

=============================================================================
