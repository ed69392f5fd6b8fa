-------------------------- MODULE MCPanelAccounts --------------------------
(* A small instance of PanelAccounts for TLC. *)
EXTENDS PanelAccounts, TLC

\* Users, tiers and keys are numbers; requests are interchangeable.
RequestSymmetry == Permutations(Requests)

\* Tiers and keys are numbered in the order in which they are created.
NumberedOnCreation ==
  /\ \A s, t \in Tiers : s < t /\ tierState'[t] # "unused" => tierState[s] # "unused"
  /\ \A j, k \in Keys : j < k /\ key'[k].state # "unused" => key[j].state # "unused"

NoKeys == \A k \in Keys : key[k].state = "unused"
OneTier == \A t \in Tiers \ {FirstTier} : tierState[t] = "unused"

\* Nobody changes a role, a standing or a password, or uses another password.
FewSessions ==
  /\ \A u \in Users : row[u].version = 0 /\ row[u].password = AnyPassword
  /\ \A r \in Requests : given[r] = AnyPassword

\* The state space is explored along three edges: sessions against passwords, roles
\* and revocations; keys against deletions of users; tiers against users.
OneEdge ==
  \/ NoKeys /\ OneTier
  \/ OneTier /\ FewSessions
  \/ NoKeys /\ FewSessions
=============================================================================
