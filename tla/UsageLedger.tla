----------------------------- MODULE UsageLedger -----------------------------
(***************************************************************************)
(* What the asynchronous usage writer promises a request that hands it a   *)
(* usage record: the record is admitted or refused at once, an admitted    *)
(* record is written or fails together with its batch, only the shutdown   *)
(* deadline drops one, and the records waiting are bounded.                *)
(***************************************************************************)
EXTENDS Naturals, FiniteSets

CONSTANTS Records, BatchSize, Capacity

VARIABLES
    fate,       \* what has become of each record
    closed,     \* no record is admitted any more
    atomic,     \* batches are written whole or not at all
    deadline    \* the shutdown deadline has passed

ledgerVars == <<fate, closed, atomic, deadline>>

Fates == {"new", "pending", "written", "failed", "dropped", "refused"}

With(f) == {r \in Records : fate[r] = f}

LedgerInit ==
    /\ fate = [r \in Records |-> "new"]
    /\ closed = FALSE
    /\ atomic \in BOOLEAN
    /\ deadline = FALSE

Admit(r) ==
    /\ ~closed
    /\ fate[r] = "new"
    /\ Cardinality(With("pending")) < Capacity
    /\ fate' = [fate EXCEPT ![r] = "pending"]
    /\ UNCHANGED <<closed, atomic, deadline>>

Refuse(r) ==
    /\ fate[r] = "new"
    /\ fate' = [fate EXCEPT ![r] = "refused"]
    /\ UNCHANGED <<closed, atomic, deadline>>

\* One batch comes back from the store: wrote is committed, the rest failed.
Settle(b, wrote) ==
    /\ b # {} /\ Cardinality(b) <= BatchSize
    /\ b \subseteq With("pending")
    /\ wrote \subseteq b
    /\ atomic => wrote \in {{}, b}
    /\ fate' = [r \in Records |-> CASE r \in wrote     -> "written"
                                    [] r \in b \ wrote -> "failed"
                                    [] OTHER           -> fate[r]]
    /\ UNCHANGED <<closed, atomic, deadline>>

Drop(r) ==
    /\ deadline
    /\ fate[r] = "pending"
    /\ fate' = [fate EXCEPT ![r] = "dropped"]
    /\ UNCHANGED <<closed, atomic, deadline>>

StopAdmission ==
    /\ closed' = TRUE
    /\ UNCHANGED <<fate, atomic, deadline>>

ReachDeadline ==
    /\ closed
    /\ deadline' = TRUE
    /\ UNCHANGED <<fate, closed, atomic>>

LedgerNext ==
    \/ \E r \in Records : Admit(r) \/ Refuse(r) \/ Drop(r)
    \/ \E b \in SUBSET With("pending") : \E wrote \in SUBSET b : Settle(b, wrote)
    \/ StopAdmission
    \/ ReachDeadline

LedgerSpec == LedgerInit /\ [][LedgerNext]_ledgerVars

=============================================================================
