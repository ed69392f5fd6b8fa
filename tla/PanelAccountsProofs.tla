-------------------------- MODULE PanelAccountsProofs --------------------------
(***************************************************************************)
(* Proofs about PanelAccounts for any number of users, tiers, keys,        *)
(* passwords and requests in flight.                                       *)
(*                                                                         *)
(* That an accepted token stands for the present password is not inductive *)
(* by itself: a token may be issued long after its row was read.  What     *)
(* carries it is that rows age (RowsAge): whatever matters to a session    *)
(* changes only together with the version, which never falls.  A token and *)
(* the row a login has read are then either of an older version or say     *)
(* what the row says (Agrees).                                             *)
(***************************************************************************)
EXTENDS PanelAccounts, FiniteSetTheorems, TLAPS

-----------------------------------------------------------------------------
(* The inductive invariant.                                                *)

\* A token, or a row as a request has read it, is older than the row of the user or
\* says the same of the role and the password.
Agrees(x, r) ==
  /\ r.state # "unused"
  /\ x.version <= r.version
  /\ x.version = r.version => x.role = r.role /\ x.password = r.password

TokensAgree == \A t \in tokens : Agrees(t, row[t.user])

LoginsAgree == \A r \in Requests : pc[r] = "comparing" => Agrees(seen[r], row[actor[r]])

\* An identifier that was never used has the row it will start with.
UnusedAreFresh == \A u \in Users : row[u].state = "unused" => row[u] = FreshRow(AnyPassword)

SessionInv == TokensAgree /\ LoginsAgree /\ UnusedAreFresh

IAccounts ==
  /\ AccountsTypeOK
  /\ SessionInv
  /\ EnabledAdminRemains
  /\ TiersConsistent
  /\ KeysOwnedAndBounded

\* What a step may do to the rows: a user who is gone stays gone, and what a session
\* depends on changes with a higher version only.
RowsAge ==
  \A u \in Users : row[u].state # "unused" =>
    /\ row'[u].state # "unused"
    /\ row[u].state = "deleted" => row'[u].state = "deleted"
    /\ row[u].version <= row'[u].version
    /\ row[u].version = row'[u].version =>
         /\ row'[u].role = row[u].role
         /\ row'[u].enabled = row[u].enabled
         /\ row'[u].password = row[u].password

\* What a step may do to the store, whoever takes it.
KeyChanges(k) ==
  /\ key[k].state = "present"
  /\ \E new \in KeyRow : new.owner = key[k].owner /\ key' = [key EXCEPT ![k] = new]
  /\ UNCHANGED <<row, tierState, defaultTiers>>

StoreStep ==
  \/ UNCHANGED storeVars
  \/ \E u \in Users, d \in Updates : UpdateUser(u, d)
  \/ \E u \in Users : DeleteUser(u) \/ CreateUser(u)
  \/ \E t \in Tiers, isDefault \in BOOLEAN : CreateTier(t, isDefault)
  \/ \E t \in Tiers : MakeDefaultTier(t) \/ DeleteTier(t)
  \/ \E u \in Users, k \in Keys : CreateKey(u, k)
  \/ \E k \in Keys : KeyChanges(k)

-----------------------------------------------------------------------------
(* Pointers and rows.                                                      *)

\* What an optional field of an update leaves a field at (the pointer fields of
\* UpdateUserParams in store/users.go).
LEMMA DerefFacts ==
  ASSUME NEW S, NEW pointer \in Pointer(S), NEW otherwise \in S
  PROVE  /\ Deref(pointer, otherwise) \in S
         /\ pointer = {} => Deref(pointer, otherwise) = otherwise
         /\ pointer # {} => pointer = {Deref(pointer, otherwise)}
<1>1. CASE pointer = {}
  BY <1>1 DEF Deref
<1>2. CASE pointer # {}
  <2>1. PICK x \in S : pointer = {x}
    BY <1>2 DEF Pointer
  <2>2. Deref(pointer, otherwise) = x
    BY <2>1 DEF Deref
  <2> QED
    BY <1>2, <2>1, <2>2
<1> QED
  BY <1>1, <1>2

\* An update keeps the row a row and its state, and moves the version up by one
\* whenever the role, the flag or the password change.
LEMMA UpdatedRowFacts ==
  ASSUME NEW old \in Row, NEW d \in Updates
  PROVE  /\ UpdatedRow(old, d) \in Row
         /\ UpdatedRow(old, d).state = old.state
         /\ UpdatedRow(old, d).tier \in {old.tier} \cup d.tier
         /\ UpdatedRow(old, d).version >= old.version
         /\ UpdatedRow(old, d).version = old.version =>
              /\ UpdatedRow(old, d).role = old.role
              /\ UpdatedRow(old, d).enabled = old.enabled
              /\ UpdatedRow(old, d).password = old.password
<1> DEFINE new == UpdatedRow(old, d)
<1>1. /\ Deref(d.enabled, old.enabled) \in BOOLEAN
      /\ Deref(d.role, old.role) \in Roles
      /\ Deref(d.tier, old.tier) \in Tiers
      /\ Deref(d.password, old.password) \in Passwords
  BY DerefFacts DEF Row, Updates
<1>2. Deref(d.tier, old.tier) \in {old.tier} \cup d.tier
  <2>1. d.tier = {} => Deref(d.tier, old.tier) = old.tier
    BY DEF Deref
  <2>2. d.tier # {} => d.tier = {Deref(d.tier, old.tier)}
    BY DerefFacts DEF Row, Updates
  <2> QED
    BY <2>1, <2>2
<1>3. d.password = {} => Deref(d.password, old.password) = old.password
  BY DEF Deref
<1>4. /\ new.state = old.state
      /\ new.role = Deref(d.role, old.role)
      /\ new.enabled = Deref(d.enabled, old.enabled)
      /\ new.tier = Deref(d.tier, old.tier)
      /\ new.password = Deref(d.password, old.password)
      /\ new.version = IF BumpsTokenVersion(old, d) THEN old.version + 1 ELSE old.version
  BY DEF UpdatedRow, Row
<1>5. old.version \in Nat /\ old.state \in States
  BY DEF Row
<1>6. new \in Row
  <2>1. \A e \in BOOLEAN, r \in Roles, t \in Tiers, p \in Passwords, v \in Nat :
          [old EXCEPT !.enabled = e, !.role = r, !.tier = t, !.password = p, !.version = v]
            \in Row
    BY DEF Row
  <2>2. new.version \in Nat
    BY <1>4, <1>5
  <2>3. new = [old EXCEPT !.enabled = new.enabled, !.role = new.role, !.tier = new.tier,
                          !.password = new.password, !.version = new.version]
    BY <1>4 DEF UpdatedRow, Row
  <2>4. /\ new.enabled \in BOOLEAN /\ new.role \in Roles
        /\ new.tier \in Tiers /\ new.password \in Passwords
    BY <1>1, <1>4
  <2> HIDE DEF new
  <2>5. [old EXCEPT !.enabled = new.enabled, !.role = new.role, !.tier = new.tier,
                    !.password = new.password, !.version = new.version] \in Row
    BY <2>1, <2>2, <2>4, Zenon
  <2> QED
    BY <2>3, <2>5
<1>7. new.state = old.state /\ new.tier \in {old.tier} \cup d.tier /\ new.version >= old.version
  BY <1>2, <1>4, <1>5
<1>8. new.version = old.version => ~BumpsTokenVersion(old, d)
  BY <1>4, <1>5
<1>9. ~BumpsTokenVersion(old, d) =>
        new.role = old.role /\ new.enabled = old.enabled /\ new.password = old.password
  BY <1>3, <1>4 DEF BumpsTokenVersion
<1> QED
  BY <1>6, <1>7, <1>8, <1>9

-----------------------------------------------------------------------------
(* The store, whoever takes the step.                                      *)

StoreTypeOK ==
  /\ row \in [Users -> Row]
  /\ tierState \in [Tiers -> States]
  /\ defaultTiers \subseteq Tiers
  /\ key \in [Keys -> KeyRow]

\* The tables keep their types.
LEMMA StoreTypes ==
  ASSUME StoreTypeOK, StoreStep
  PROVE  StoreTypeOK'
<1>1. FreshRow(AnyPassword) \in Row
  BY AccountsConstants DEF FreshRow, Row, AnyPassword, Roles, States
<1>2. CASE UNCHANGED storeVars
  BY <1>2 DEF StoreTypeOK, storeVars
<1>3. ASSUME NEW u \in Users, NEW d \in Updates, UpdateUser(u, d)
      PROVE  StoreTypeOK'
  <2>1. UpdatedRow(row[u], d) \in Row
    BY UpdatedRowFacts DEF StoreTypeOK
  <2> QED
    BY <1>3, <2>1 DEF StoreTypeOK, UpdateUser
<1>4. ASSUME NEW u \in Users, DeleteUser(u)
      PROVE  StoreTypeOK'
  <2>1. row' \in [Users -> Row]
    BY <1>4 DEF StoreTypeOK, DeleteUser, Row, States
  <2>2. key' \in [Keys -> KeyRow]
    BY <1>4 DEF StoreTypeOK, DeleteUser, KeysWithoutUser, KeyRow, States
  <2> QED
    BY <1>4, <2>1, <2>2 DEF StoreTypeOK, DeleteUser
<1>5. ASSUME NEW u \in Users, CreateUser(u)
      PROVE  StoreTypeOK'
  <2>1. PICK default \in defaultTiers :
          row' = [row EXCEPT ![u] = [FreshRow(AnyPassword) EXCEPT !.state = "present", !.tier = default]]
    BY <1>5 DEF CreateUser
  <2>2. [FreshRow(AnyPassword) EXCEPT !.state = "present", !.tier = default] \in Row
    BY <1>1 DEF StoreTypeOK, Row, States
  <2> QED
    BY <1>5, <2>1, <2>2 DEF StoreTypeOK, CreateUser
<1>6. ASSUME NEW t \in Tiers, NEW isDefault \in BOOLEAN, CreateTier(t, isDefault)
      PROVE  StoreTypeOK'
  BY <1>6 DEF StoreTypeOK, CreateTier, DefaultsWithNew, States
<1>7. ASSUME NEW t \in Tiers, MakeDefaultTier(t)
      PROVE  StoreTypeOK'
  BY <1>7 DEF StoreTypeOK, MakeDefaultTier
<1>8. ASSUME NEW t \in Tiers, DeleteTier(t)
      PROVE  StoreTypeOK'
  <2>1. row' \in [Users -> Row]
    BY <1>8 DEF StoreTypeOK, DeleteTier, Row
  <2> QED
    BY <1>8, <2>1 DEF StoreTypeOK, DeleteTier, States
<1>9. ASSUME NEW u \in Users, NEW k \in Keys, CreateKey(u, k)
      PROVE  StoreTypeOK'
  BY <1>9 DEF StoreTypeOK, CreateKey, KeyRow, States
<1>10. ASSUME NEW k \in Keys, KeyChanges(k)
       PROVE  StoreTypeOK'
  BY <1>10 DEF StoreTypeOK, KeyChanges
<1> QED
  BY <1>2, <1>3, <1>4, <1>5, <1>6, <1>7, <1>8, <1>9, <1>10 DEF StoreStep

\* What matters to a session changes with the version only, and an identifier is
\* used by one user (store/users.go: bumpsTokenVersion, DeleteUser, CreateUser).
LEMMA RowsOnlyAge ==
  ASSUME StoreTypeOK, UnusedAreFresh, StoreStep
  PROVE  RowsAge /\ UnusedAreFresh'
<1>1. CASE UNCHANGED row
  BY <1>1 DEF RowsAge, UnusedAreFresh, StoreTypeOK, Row
<1>2. ASSUME NEW u \in Users, NEW d \in Updates, UpdateUser(u, d)
      PROVE  RowsAge /\ UnusedAreFresh'
  <2>1. row[u] \in Row
    BY DEF StoreTypeOK
  <2>2. row' = [row EXCEPT ![u] = UpdatedRow(row[u], d)] /\ row[u].state = "present"
    BY <1>2 DEF UpdateUser, Present
  <2> QED
    BY <2>1, <2>2, UpdatedRowFacts DEF RowsAge, UnusedAreFresh, StoreTypeOK, Row
<1>3. ASSUME NEW u \in Users, DeleteUser(u)
      PROVE  RowsAge /\ UnusedAreFresh'
  BY <1>3 DEF DeleteUser, Deletable, Present, RowsAge, UnusedAreFresh, StoreTypeOK, Row
<1>4. ASSUME NEW u \in Users, CreateUser(u)
      PROVE  RowsAge /\ UnusedAreFresh'
  <2>1. PICK default \in defaultTiers :
          row' = [row EXCEPT ![u] = [FreshRow(AnyPassword) EXCEPT !.state = "present", !.tier = default]]
    BY <1>4 DEF CreateUser
  <2>2. row[u].state = "unused"
    BY <1>4 DEF CreateUser
  <2>3. row'[u].state = "present"
    BY <2>1 DEF StoreTypeOK, FreshRow
  <2>4. \A w \in Users \ {u} : row'[w] = row[w] /\ row[w].version \in Nat
    BY <2>1 DEF StoreTypeOK, Row
  <2>5. RowsAge
    BY <2>2, <2>4 DEF RowsAge
  <2>6. UnusedAreFresh'
    BY <2>3, <2>4 DEF UnusedAreFresh
  <2> QED
    BY <2>5, <2>6
<1>5. ASSUME NEW t \in Tiers, DeleteTier(t)
      PROVE  RowsAge /\ UnusedAreFresh'
  <2>1. PICK default \in defaultTiers :
          row' = [u \in Users |->
                    IF Present(u) /\ row[u].tier = t THEN [row[u] EXCEPT !.tier = default]
                                                     ELSE row[u]]
    BY <1>5 DEF DeleteTier
  <2>2. ASSUME NEW u \in Users
        PROVE  \/ row'[u] = row[u]
               \/ Present(u) /\ row'[u] = [row[u] EXCEPT !.tier = default]
    BY <2>1
  <2>3. ASSUME NEW u \in Users
        PROVE  /\ row'[u].state = row[u].state
               /\ row'[u].version = row[u].version /\ row[u].version \in Nat
               /\ row'[u].role = row[u].role
               /\ row'[u].enabled = row[u].enabled
               /\ row'[u].password = row[u].password
               /\ row[u].state = "unused" => row'[u] = row[u]
    <3>1. row[u] \in Row
      BY DEF StoreTypeOK
    <3>2. CASE row'[u] = row[u]
      BY <3>1, <3>2 DEF Row
    <3>3. CASE Present(u) /\ row'[u] = [row[u] EXCEPT !.tier = default]
      BY <3>1, <3>3 DEF Row, Present
    <3> QED
      BY <2>2, <3>2, <3>3
  <2>4. RowsAge
    BY <2>3 DEF RowsAge
  <2>5. UnusedAreFresh'
    BY <2>3 DEF UnusedAreFresh
  <2> QED
    BY <2>4, <2>5
<1> QED
  BY <1>1, <1>2, <1>3, <1>4, <1>5
  DEF StoreStep, storeVars, CreateTier, MakeDefaultTier, CreateKey, KeyChanges

\* A set of more than one user holds another user.
LEMMA AnotherUser ==
  ASSUME NEW S \in SUBSET Users, NEW u, Cardinality(S) > 1
  PROVE  \E a \in S : a # u
<1>1. CASE S \subseteq {u}
  <2>1. Cardinality(S) <= Cardinality({u}) /\ Cardinality({u}) = 1
    BY <1>1, FS_Singleton, FS_Subset
  <2>2. Cardinality(S) \in Nat
    BY AccountsConstants, FS_Subset, FS_CardinalityType
  <2> QED
    BY <2>1, <2>2
<1> QED
  BY <1>1

\* However stale the view of the administrator who acts, the transaction that takes
\* one away leaves another (the counts in UpdateUser and DeleteUser).
LEMMA AdminRemains ==
  ASSUME StoreTypeOK, EnabledAdminRemains, StoreStep
  PROVE  EnabledAdminRemains'
<1>1. PICK a \in Users : row[a].state = "present" /\ row[a].role = "admin" /\ row[a].enabled
  BY DEF EnabledAdminRemains, EnabledAdmins
<1>2. CASE UNCHANGED row
  BY <1>2 DEF EnabledAdminRemains, EnabledAdmins
<1>3. ASSUME NEW u \in Users, NEW d \in Updates, UpdateUser(u, d)
      PROVE  EnabledAdminRemains'
  <2> DEFINE new == UpdatedRow(row[u], d)
  <2>1. row' = [row EXCEPT ![u] = new] /\ KeepsAnAdmin(u, new) /\ new.state = row[u].state
    <3>1. row[u] \in Row
      BY DEF StoreTypeOK
    <3>2. new.state = row[u].state
      BY <3>1, UpdatedRowFacts
    <3> QED
      BY <1>3, <3>2 DEF UpdateUser, StoreTypeOK
  <2> HIDE DEF new
  <2>2. CASE a # u
    <3>1. row'[a] = row[a]
      BY <2>1, <2>2 DEF StoreTypeOK
    <3> QED
      BY <1>1, <3>1 DEF EnabledAdminRemains, EnabledAdmins
  <2>3. CASE a = u /\ new.role = "admin" /\ new.enabled
    <3>1. row'[a] = new
      BY <2>1, <2>3 DEF StoreTypeOK
    <3> QED
      BY <1>1, <2>1, <2>3, <3>1 DEF EnabledAdminRemains, EnabledAdmins
  <2>4. CASE a = u /\ ~(new.role = "admin" /\ new.enabled)
    <3>1. EnabledAdmins(row') # {}
      BY <1>1, <2>1, <2>4 DEF KeepsAnAdmin
    <3> QED
      BY <3>1 DEF EnabledAdminRemains, EnabledAdmins
  <2> QED
    BY <2>2, <2>3, <2>4
<1>4. ASSUME NEW u \in Users, DeleteUser(u)
      PROVE  EnabledAdminRemains'
  <2>1. \E b \in Users : b # u /\ row[b].state = "present" /\ row[b].role = "admin" /\ row[b].enabled
    <3>1. CASE row[u].role = "admin" /\ row[u].enabled
      <4>1. Cardinality(EnabledAdmins(row)) > 1
        BY <1>4, <3>1 DEF DeleteUser, Deletable
      <4>2. EnabledAdmins(row) \in SUBSET Users
        BY DEF EnabledAdmins
      <4> QED
        BY <4>1, <4>2, AnotherUser DEF EnabledAdmins
    <3>2. CASE ~(row[u].role = "admin" /\ row[u].enabled)
      BY <1>1, <3>2
    <3> QED
      BY <3>1, <3>2
  <2>2. \A b \in Users \ {u} : row'[b] = row[b]
    BY <1>4 DEF DeleteUser, StoreTypeOK
  <2> QED
    BY <2>1, <2>2 DEF EnabledAdminRemains, EnabledAdmins
<1>5. ASSUME NEW u \in Users, CreateUser(u)
      PROVE  EnabledAdminRemains'
  <2>1. a # u
    BY <1>1, <1>5 DEF CreateUser
  <2>2. row'[a] = row[a]
    BY <1>5, <2>1 DEF CreateUser, StoreTypeOK
  <2> QED
    BY <1>1, <2>2 DEF EnabledAdminRemains, EnabledAdmins
<1>6. ASSUME NEW t \in Tiers, DeleteTier(t)
      PROVE  EnabledAdminRemains'
  <2>1. row[a] \in Row
    BY DEF StoreTypeOK
  <2>2. PICK default \in defaultTiers :
          row' = [u \in Users |->
                    IF Present(u) /\ row[u].tier = t THEN [row[u] EXCEPT !.tier = default]
                                                     ELSE row[u]]
    BY <1>6 DEF DeleteTier
  <2>3. row'[a] = row[a] \/ row'[a] = [row[a] EXCEPT !.tier = default]
    BY <2>2
  <2>4. row'[a].state = "present" /\ row'[a].role = "admin" /\ row'[a].enabled
    BY <1>1, <2>1, <2>3 DEF Row
  <2> QED
    BY <2>4 DEF EnabledAdminRemains, EnabledAdmins
<1> QED
  BY <1>2, <1>3, <1>4, <1>5, <1>6
  DEF StoreStep, storeVars, CreateTier, MakeDefaultTier, CreateKey, KeyChanges

\* The default tier is one that exists, and so is every user's, although tiers are
\* deleted while users are created and moved (store/tiers.go: CreateTier,
\* UpdateTier, DeleteTier).
LEMMA TiersStayConsistent ==
  ASSUME StoreTypeOK, TiersConsistent, StoreStep
  PROVE  TiersConsistent'
<1>1. PICK T \in Tiers : defaultTiers = {T} /\ tierState[T] = "present"
  BY DEF TiersConsistent
<1>2. \A u \in Users : row[u].state = "present" => tierState[row[u].tier] = "present"
  BY DEF TiersConsistent, Present
<1>3. CASE UNCHANGED <<row, tierState, defaultTiers>>
  BY <1>3 DEF TiersConsistent, Present
<1>4. ASSUME NEW u \in Users, NEW d \in Updates, UpdateUser(u, d)
      PROVE  TiersConsistent'
  <2>1. row[u] \in Row
    BY DEF StoreTypeOK
  <2>2. row'[u] = UpdatedRow(row[u], d) /\ \A w \in Users \ {u} : row'[w] = row[w]
    BY <1>4 DEF UpdateUser, StoreTypeOK
  <2>3. tierState[row'[u].tier] = "present"
    BY <1>2, <1>4, <2>1, <2>2, UpdatedRowFacts DEF UpdateUser, TierAssignable, Present
  <2>4. \A w \in Users : row'[w].state = "present" => tierState[row'[w].tier] = "present"
    BY <1>2, <2>2, <2>3
  <2> QED
    BY <1>1, <1>4, <2>4 DEF TiersConsistent, UpdateUser, Present
<1>5. ASSUME NEW u \in Users, DeleteUser(u)
      PROVE  TiersConsistent'
  <2>1. row'[u].state = "deleted" /\ \A w \in Users \ {u} : row'[w] = row[w]
    BY <1>5 DEF DeleteUser, StoreTypeOK, Row
  <2> QED
    BY <1>1, <1>2, <1>5, <2>1 DEF TiersConsistent, DeleteUser, Present
<1>6. ASSUME NEW u \in Users, CreateUser(u)
      PROVE  TiersConsistent'
  <2>1. row'[u].tier = T /\ \A w \in Users \ {u} : row'[w] = row[w]
    BY <1>1, <1>6 DEF CreateUser, StoreTypeOK, FreshRow
  <2> QED
    BY <1>1, <1>2, <1>6, <2>1 DEF TiersConsistent, CreateUser, Present
<1>7. ASSUME NEW t \in Tiers, NEW isDefault \in BOOLEAN, CreateTier(t, isDefault)
      PROVE  TiersConsistent'
  <2>1. tierState' = [tierState EXCEPT ![t] = "present"] /\ UNCHANGED row
    BY <1>7 DEF CreateTier
  <2>2. \A s \in Tiers : tierState[s] = "present" => tierState'[s] = "present"
    BY <2>1 DEF StoreTypeOK
  <2>3. \E s \in Tiers : defaultTiers' = {s} /\ tierState'[s] = "present"
    BY <1>1, <1>7, <2>1, <2>2 DEF CreateTier, DefaultsWithNew, StoreTypeOK
  <2>4. \A u \in Users : row'[u].state = "present" => tierState'[row'[u].tier] = "present"
    BY <1>2, <2>1, <2>2 DEF StoreTypeOK, Row
  <2> QED
    BY <2>3, <2>4 DEF TiersConsistent, Present
<1>8. ASSUME NEW t \in Tiers, MakeDefaultTier(t)
      PROVE  TiersConsistent'
  BY <1>2, <1>8 DEF TiersConsistent, MakeDefaultTier, Present
<1>9. ASSUME NEW t \in Tiers, DeleteTier(t)
      PROVE  TiersConsistent'
  <2>1. T # t /\ tierState' = [tierState EXCEPT ![t] = "deleted"] /\ defaultTiers' = {T}
    BY <1>1, <1>9 DEF DeleteTier
  <2>2. tierState'[T] = "present" /\ \A s \in Tiers \ {t} : tierState'[s] = tierState[s]
    BY <1>1, <2>1 DEF StoreTypeOK
  <2>3. row' = [u \in Users |->
                 IF Present(u) /\ row[u].tier = t THEN [row[u] EXCEPT !.tier = T] ELSE row[u]]
    BY <1>1, <1>9 DEF DeleteTier
  <2>4. ASSUME NEW u \in Users, row'[u].state = "present"
        PROVE  tierState'[row'[u].tier] = "present"
    <3>1. row[u] \in Row
      BY DEF StoreTypeOK
    <3>2. CASE Present(u) /\ row[u].tier = t
      <4>1. row'[u].tier = T
        BY <2>3, <3>1, <3>2 DEF Row
      <4> QED
        BY <2>2, <4>1
    <3>3. CASE ~(Present(u) /\ row[u].tier = t)
      <4>1. row'[u] = row[u] /\ row[u].tier \in Tiers \ {t}
        BY <2>3, <2>4, <3>1, <3>3 DEF Row, Present
      <4> QED
        BY <1>2, <2>2, <2>4, <4>1
    <3> QED
      BY <3>2, <3>3
  <2> QED
    BY <2>1, <2>2, <2>4 DEF TiersConsistent, Present
<1> QED
  BY <1>3, <1>4, <1>5, <1>6, <1>7, <1>8, <1>9 DEF StoreStep, storeVars, CreateKey, KeyChanges

\* A user whose keys only become fewer stays within the limit.
LEMMA FewerKeys ==
  ASSUME KeysOwnedAndBounded, NEW u \in Users, KeysOf(u)' \subseteq KeysOf(u)
  PROVE  Cardinality(KeysOf(u)') <= MaxKeys
<1>1. KeysOf(u) \subseteq Keys
  BY DEF KeysOf
<1>2. IsFiniteSet(KeysOf(u))
  BY <1>1, AccountsConstants, FS_Subset
<1>3. /\ IsFiniteSet(KeysOf(u)')
      /\ Cardinality(KeysOf(u)') <= Cardinality(KeysOf(u))
  BY <1>2, FS_Subset
<1>4. Cardinality(KeysOf(u)) <= MaxKeys
  BY DEF KeysOwnedAndBounded
<1> QED
  BY <1>2, <1>3, <1>4, FS_CardinalityType, AccountsConstants

\* A key has a user and a user no more keys than the limit, although keys are created
\* by requests whose user is being deleted (store/sqlite_keys.go: CreateAPIKey counts
\* and looks the user up in the transaction that inserts).
LEMMA KeysStayOwned ==
  ASSUME StoreTypeOK, KeysOwnedAndBounded, StoreStep
  PROVE  KeysOwnedAndBounded'
<1>1. \A k \in Keys : key[k].state = "present" => row[key[k].owner].state = "present"
  BY DEF KeysOwnedAndBounded, Present
<1>2. ASSUME UNCHANGED key,
             \A u \in Users : row[u].state = "present" => row'[u].state = "present"
      PROVE  KeysOwnedAndBounded'
  <2>1. \A u \in Users : KeysOf(u)' = KeysOf(u)
    BY <1>2 DEF KeysOf
  <2> QED
    BY <1>1, <1>2, <2>1 DEF KeysOwnedAndBounded, Present, StoreTypeOK, KeyRow
<1>3. CASE UNCHANGED <<row, key>>
  BY <1>2, <1>3
<1>4. ASSUME NEW u \in Users, NEW d \in Updates, UpdateUser(u, d)
      PROVE  KeysOwnedAndBounded'
  <2>1. row[u] \in Row
    BY DEF StoreTypeOK
  <2>2. row'[u].state = row[u].state /\ \A w \in Users \ {u} : row'[w] = row[w]
    BY <1>4, <2>1, UpdatedRowFacts DEF UpdateUser, StoreTypeOK
  <2> QED
    BY <1>2, <1>4, <2>2 DEF UpdateUser
<1>5. ASSUME NEW u \in Users, DeleteUser(u)
      PROVE  KeysOwnedAndBounded'
  <2>1. \A w \in Users \ {u} : row'[w] = row[w]
    BY <1>5 DEF DeleteUser, StoreTypeOK
  <2>2. ASSUME NEW k \in Keys, key'[k].state = "present"
        PROVE  k \notin KeysOf(u) /\ key'[k] = key[k]
    BY <1>5, <2>2 DEF DeleteUser, KeysWithoutUser, StoreTypeOK, KeyRow
  <2>3. ASSUME NEW k \in Keys, key'[k].state = "present"
        PROVE  row'[key'[k].owner].state = "present"
    BY <1>1, <2>1, <2>2, <2>3 DEF KeysOf, StoreTypeOK, KeyRow
  <2>4. ASSUME NEW w \in Users
        PROVE  KeysOf(w)' \subseteq KeysOf(w)
    BY <2>2 DEF KeysOf
  <2>5. ASSUME NEW w \in Users
        PROVE  Cardinality(KeysOf(w)') <= MaxKeys
    BY <2>4, FewerKeys
  <2> QED
    BY <2>3, <2>5 DEF KeysOwnedAndBounded, Present
<1>6. ASSUME NEW u \in Users, CreateUser(u)
      PROVE  KeysOwnedAndBounded'
  <2>1. \A w \in Users : row[w].state = "present" => row'[w].state = "present"
    BY <1>6 DEF CreateUser, StoreTypeOK
  <2> QED
    BY <1>2, <1>6, <2>1 DEF CreateUser
<1>7. ASSUME NEW t \in Tiers, DeleteTier(t)
      PROVE  KeysOwnedAndBounded'
  <2>1. PICK default \in defaultTiers :
          row' = [u \in Users |->
                    IF Present(u) /\ row[u].tier = t THEN [row[u] EXCEPT !.tier = default]
                                                     ELSE row[u]]
    BY <1>7 DEF DeleteTier
  <2>2. ASSUME NEW u \in Users
        PROVE  row'[u] = row[u] \/ row'[u] = [row[u] EXCEPT !.tier = default]
    BY <2>1
  <2>3. ASSUME NEW u \in Users
        PROVE  row'[u].state = row[u].state
    <3>1. row[u] \in Row
      BY DEF StoreTypeOK
    <3> QED
      BY <2>2, <3>1 DEF Row
  <2> QED
    BY <1>2, <1>7, <2>3 DEF DeleteTier
<1>8. ASSUME NEW u \in Users, NEW k \in Keys, CreateKey(u, k)
      PROVE  KeysOwnedAndBounded'
  <2>1. /\ row[u].state = "present" /\ UNCHANGED row /\ key[k].state = "unused"
        /\ Cardinality(KeysOf(u)) < MaxKeys
        /\ key' = [key EXCEPT ![k] = [state |-> "present", owner |-> u, enabled |-> TRUE]]
    BY <1>8 DEF CreateKey, Present, BelowKeyLimit
  <2>2. \A j \in Keys : key'[j].state = "present" => row'[key'[j].owner].state = "present"
    BY <1>1, <2>1 DEF StoreTypeOK
  <2>3. k \notin KeysOf(u) /\ KeysOf(u)' = KeysOf(u) \cup {k}
    BY <2>1 DEF KeysOf, StoreTypeOK
  <2>4. IsFiniteSet(KeysOf(u))
    BY AccountsConstants, FS_Subset DEF KeysOf
  <2>5. Cardinality(KeysOf(u)') = Cardinality(KeysOf(u)) + 1
    BY <2>3, <2>4, FS_AddElement
  <2>6. Cardinality(KeysOf(u)') <= MaxKeys
    BY <2>1, <2>4, <2>5, FS_CardinalityType, AccountsConstants
  <2>7. ASSUME NEW w \in Users, w # u
        PROVE  KeysOf(w)' \subseteq KeysOf(w)
    BY <2>1, <2>7 DEF KeysOf, StoreTypeOK
  <2>8. ASSUME NEW w \in Users
        PROVE  Cardinality(KeysOf(w)') <= MaxKeys
    BY <2>6, <2>7, FewerKeys
  <2> QED
    BY <2>2, <2>8 DEF KeysOwnedAndBounded, Present
<1>9. ASSUME NEW k \in Keys, KeyChanges(k)
      PROVE  KeysOwnedAndBounded'
  <2>1. PICK new \in KeyRow : new.owner = key[k].owner /\ key' = [key EXCEPT ![k] = new]
    BY <1>9 DEF KeyChanges
  <2>2. key[k].state = "present" /\ UNCHANGED row
    BY <1>9 DEF KeyChanges
  <2>3. \A j \in Keys : key'[j].state = "present" => row'[key'[j].owner].state = "present"
    BY <1>1, <2>1, <2>2 DEF StoreTypeOK
  <2>4. ASSUME NEW w \in Users
        PROVE  KeysOf(w)' \subseteq KeysOf(w)
    BY <2>1, <2>2 DEF KeysOf, StoreTypeOK
  <2>5. ASSUME NEW w \in Users
        PROVE  Cardinality(KeysOf(w)') <= MaxKeys
    BY <2>4, FewerKeys
  <2> QED
    BY <2>3, <2>5 DEF KeysOwnedAndBounded, Present
<1> QED
  BY <1>3, <1>4, <1>5, <1>6, <1>7, <1>8, <1>9
  DEF StoreStep, storeVars, CreateTier, MakeDefaultTier

-----------------------------------------------------------------------------
(* The requests.                                                           *)

\* What a handler does to the store is one of the store's operations.
LEMMA HandlersUseTheStore ==
  ASSUME AccountsTypeOK, AccountsNext
  PROVE  StoreStep
<1>1. ASSUME NEW u \in Users, CreateUser(u)
      PROVE  StoreStep
  BY <1>1 DEF StoreStep
<1>2. ASSUME NEW r \in Requests, RequestNext(r)
      PROVE  StoreStep
  <2>1. CASE UNCHANGED storeVars
    BY <2>1 DEF StoreStep
  <2>2. ASSUME NEW u \in Users, NEW d \in AdminUpdates, AdminUpdateUser(r, u, d)
        PROVE  StoreStep
    BY <2>2 DEF AdminUpdateUser, AdminUpdates, StoreStep
  <2>3. ASSUME NEW u \in Users, AdminDeleteUser(r, u)
        PROVE  StoreStep
    BY <2>3 DEF AdminDeleteUser, StoreStep
  <2>4. ASSUME NEW t \in Tiers, AdminChangesTier(r, t)
        PROVE  StoreStep
    BY <2>4 DEF AdminChangesTier, StoreStep
  <2>5. ASSUME NEW p \in Passwords, ChangePassword(r, p)
        PROVE  StoreStep
    <3>1. [NoUpdate EXCEPT !.password = {p}, !.revoke = TRUE] \in Updates
      BY DEF NoUpdate, Updates, Pointer
    <3> QED
      BY <2>5, <3>1 DEF ChangePassword, ReplaceSession, StoreStep, AccountsTypeOK
  <2>6. CASE RevokeSessions(r)
    <3>1. [NoUpdate EXCEPT !.revoke = TRUE] \in Updates
      BY DEF NoUpdate, Updates, Pointer
    <3> QED
      BY <2>6, <3>1 DEF RevokeSessions, ReplaceSession, StoreStep, AccountsTypeOK
  <2>7. ASSUME NEW k \in Keys, UserCreatesKey(r, k)
        PROVE  StoreStep
    BY <2>7 DEF UserCreatesKey, StoreStep, AccountsTypeOK
  <2>8. ASSUME NEW new,
               \A k \in Keys : new[k] \in KeyRow /\ new[k].owner = key[k].owner,
               ChangeKey(r, new)
        PROVE  StoreStep
    <3>1. PICK k \in Keys : key[k].state = "present" /\ key' = [key EXCEPT ![k] = new[k]]
      BY <2>8 DEF ChangeKey, AccountsTypeOK
    <3>2. KeyChanges(k)
      BY <2>8, <3>1 DEF ChangeKey, KeyChanges
    <3> QED
      BY <3>2 DEF StoreStep
  <2>9. ASSUME NEW e \in BOOLEAN, UserUpdatesKey(r, e)
        PROVE  StoreStep
    <3> DEFINE new == [k \in Keys |-> [key[k] EXCEPT !.enabled = e]]
    <3>1. \A k \in Keys : new[k] \in KeyRow /\ new[k].owner = key[k].owner
      BY DEF AccountsTypeOK, KeyRow
    <3>2. ChangeKey(r, new)
      BY <2>9 DEF UserUpdatesKey
    <3> HIDE DEF new
    <3> QED
      BY <2>8, <3>1, <3>2
  <2>10. CASE UserDeletesKey(r)
    <3> DEFINE new == [k \in Keys |-> [key[k] EXCEPT !.state = "deleted"]]
    <3>1. \A k \in Keys : new[k] \in KeyRow /\ new[k].owner = key[k].owner
      BY DEF AccountsTypeOK, KeyRow, States
    <3>2. ChangeKey(r, new)
      BY <2>10 DEF UserDeletesKey
    <3> HIDE DEF new
    <3> QED
      BY <2>8, <3>1, <3>2
  <2> QED
    BY <1>2, <2>1, <2>2, <2>3, <2>4, <2>5, <2>6, <2>7, <2>9, <2>10
    DEF RequestNext, LoginReads, LoginEnds, SessionReads, SessionAdmitted, ChangePasswordReads,
        LoadOwnKey, GiveUp
<1> QED
  BY <1>1, <1>2 DEF AccountsNext

\* A row, and a token issued from it, that agrees with the user's row keeps doing so:
\* when the row changes in what matters, its version leaves the other behind.
LEMMA AgreementAges ==
  ASSUME StoreTypeOK, StoreTypeOK', RowsAge, NEW u \in Users, NEW x, x.version \in Nat,
         Agrees(x, row[u])
  PROVE  Agrees(x, row'[u])
<1>1. row[u].version \in Nat /\ row'[u].version \in Nat
  BY DEF StoreTypeOK, Row
<1> QED
  BY <1>1 DEF Agrees, RowsAge

RequestTypeOK ==
  /\ pc \in [Requests -> Stages]
  /\ actor \in [Requests -> Users]
  /\ seen \in [Requests -> Row]
  /\ claim \in [Requests -> Token]
  /\ given \in [Requests -> Passwords]
  /\ target \in [Requests -> SUBSET Keys]

\* The step leaves the tokens alone or issues one that agrees with its user's row.
IssuesATrueToken ==
  \/ UNCHANGED tokens
  \/ \E token \in Token : /\ tokens' = tokens \cup {token}
                          /\ Agrees(token, row'[token.user])

\* A login holds the row it read, or has just read it.
LoginsHoldTheirRow ==
  \A q \in Requests : pc'[q] = "comparing" =>
    \/ pc[q] = "comparing" /\ seen'[q] = seen[q] /\ actor'[q] = actor[q]
    \/ UNCHANGED row /\ row[actor'[q]].state = "present" /\ seen'[q] = row[actor'[q]]

LEMMA Blanks == FreshRow(AnyPassword) \in Row /\ NoClaim \in Token /\ AnyPassword \in Passwords
BY AccountsConstants
DEF FreshRow, NoClaim, IssuePanelToken, Token, AnyPassword, Row, Roles, States

\* A request that ends holds nothing.
LEMMA EndClears ==
  ASSUME RequestTypeOK, NEW r \in Requests, End(r)
  PROVE  RequestTypeOK' /\ LoginsHoldTheirRow
<1>1. RequestTypeOK'
  BY Blanks, AccountsConstants DEF RequestTypeOK, End, Stages
<1>2. LoginsHoldTheirRow
  BY DEF LoginsHoldTheirRow, RequestTypeOK, End
<1> QED
  BY <1>1, <1>2

\* The token of a replacement session is issued from the row as it was written.
LEMMA ReplacementIsTrue ==
  ASSUME AccountsTypeOK, StoreTypeOK', NEW r \in Requests, NEW d \in Updates,
         ReplaceSession(r, d)
  PROVE  IssuesATrueToken
<1> DEFINE u == actor[r]
           token == IssuePanelToken(u, row'[u])
<1>1. u \in Users /\ row[u] \in Row /\ row'[u] \in Row
  BY DEF AccountsTypeOK, StoreTypeOK
<1>2. row'[u].state = "present"
  BY <1>1, UpdatedRowFacts DEF ReplaceSession, UpdateUser, Present, AccountsTypeOK
<1>3. /\ token \in Token /\ token.user = u /\ token.role = row'[u].role
      /\ token.version = row'[u].version /\ token.password = row'[u].password
  BY <1>1 DEF IssuePanelToken, Token, Row
<1>4. Agrees(token, row'[token.user])
  BY <1>1, <1>2, <1>3 DEF Agrees, Row
<1>5. tokens' = tokens \cup {token}
  BY DEF ReplaceSession
<1> HIDE DEF token
<1> QED
  BY <1>3, <1>4, <1>5 DEF IssuesATrueToken

\* What a step does to the requests and the tokens.
LEMMA RequestStep ==
  ASSUME AccountsTypeOK, LoginsAgree, AccountsNext
  PROVE  RequestTypeOK' /\ IssuesATrueToken /\ LoginsHoldTheirRow
<1> USE DEF IssuesATrueToken
<1>0. RequestTypeOK /\ StoreTypeOK
  BY DEF AccountsTypeOK, RequestTypeOK, StoreTypeOK
<1>1. StoreTypeOK'
  BY <1>0, HandlersUseTheStore, StoreTypes
<1>2. ASSUME NEW u \in Users, CreateUser(u)
      PROVE  RequestTypeOK' /\ IssuesATrueToken /\ LoginsHoldTheirRow
  BY <1>0, <1>2 DEF CreateUser, requestVars, RequestTypeOK, LoginsHoldTheirRow
<1>3. ASSUME NEW r \in Requests, RequestNext(r)
      PROVE  RequestTypeOK' /\ IssuesATrueToken /\ LoginsHoldTheirRow
  <2>1. CASE End(r) /\ UNCHANGED tokens
    BY <1>0, <2>1, EndClears
  <2>2. ASSUME NEW u \in Users, NEW p \in Passwords, LoginReads(r, u, p)
        PROVE  RequestTypeOK' /\ IssuesATrueToken /\ LoginsHoldTheirRow
    <3>1. RequestTypeOK'
      BY <1>0, <2>2 DEF LoginReads, RequestTypeOK, StoreTypeOK, Stages
    <3>2. LoginsHoldTheirRow
      BY <1>0, <2>2 DEF LoginReads, Present, RequestTypeOK, LoginsHoldTheirRow, storeVars
    <3> QED
      BY <2>2, <3>1, <3>2 DEF LoginReads
  <2>3. CASE LoginEnds(r)
    <3> DEFINE token == IssuePanelToken(actor[r], seen[r])
    <3>1. /\ token \in Token /\ token.user = actor[r] /\ token.role = seen[r].role
          /\ token.version = seen[r].version /\ token.password = seen[r].password
      BY <1>0 DEF IssuePanelToken, Token, Row, RequestTypeOK
    <3>2. Agrees(seen[r], row[actor[r]]) /\ UNCHANGED row
      BY <2>3 DEF LoginEnds, LoginsAgree, storeVars
    <3>3. Agrees(token, row'[token.user])
      BY <3>1, <3>2 DEF Agrees
    <3>4. tokens' = tokens \cup {token}
      BY <2>3 DEF LoginEnds
    <3> HIDE DEF token
    <3> QED
      BY <1>0, <2>3, <3>1, <3>3, <3>4, EndClears DEF LoginEnds
  <2>4. ASSUME NEW t \in tokens, SessionReads(r, t)
        PROVE  RequestTypeOK' /\ IssuesATrueToken /\ LoginsHoldTheirRow
    <3>1. t \in Token /\ t.user \in Users
      BY DEF AccountsTypeOK, Token
    <3>2. RequestTypeOK'
      BY <1>0, <2>4, <3>1 DEF SessionReads, RequestTypeOK, StoreTypeOK, Stages
    <3>3. LoginsHoldTheirRow
      BY <1>0, <2>4 DEF SessionReads, RequestTypeOK, LoginsHoldTheirRow
    <3> QED
      BY <2>4, <3>2, <3>3 DEF SessionReads
  <2>5. CASE SessionAdmitted(r)
    <3>1. [FreshRow(AnyPassword) EXCEPT !.role = seen[r].role] \in Row
      BY <1>0, Blanks DEF RequestTypeOK, Row
    <3>2. RequestTypeOK'
      BY <1>0, <2>5, <3>1, Blanks DEF SessionAdmitted, RequestTypeOK, Stages
    <3>3. LoginsHoldTheirRow
      BY <1>0, <2>5 DEF SessionAdmitted, RequestTypeOK, LoginsHoldTheirRow
    <3> QED
      BY <2>5, <3>2, <3>3 DEF SessionAdmitted
  <2>6. ASSUME NEW p \in Passwords, ChangePasswordReads(r, p)
        PROVE  RequestTypeOK' /\ IssuesATrueToken /\ LoginsHoldTheirRow
    <3>1. RequestTypeOK'
      BY <1>0, <2>6 DEF ChangePasswordReads, RequestTypeOK, StoreTypeOK, Stages
    <3>2. LoginsHoldTheirRow
      BY <1>0, <2>6 DEF ChangePasswordReads, RequestTypeOK, LoginsHoldTheirRow
    <3> QED
      BY <2>6, <3>1, <3>2 DEF ChangePasswordReads
  <2>7. ASSUME NEW p \in Passwords, ChangePassword(r, p)
        PROVE  RequestTypeOK' /\ IssuesATrueToken /\ LoginsHoldTheirRow
    <3> DEFINE d == [NoUpdate EXCEPT !.password = {p}, !.revoke = TRUE]
    <3>1. d \in Updates
      BY DEF NoUpdate, Updates, Pointer
    <3>2. ReplaceSession(r, d)
      BY <2>7 DEF ChangePassword
    <3> HIDE DEF d
    <3>3. IssuesATrueToken
      BY <1>1, <3>1, <3>2, ReplacementIsTrue
    <3> QED
      BY <1>0, <3>2, <3>3, EndClears DEF ReplaceSession
  <2>8. CASE RevokeSessions(r)
    <3> DEFINE d == [NoUpdate EXCEPT !.revoke = TRUE]
    <3>1. d \in Updates
      BY DEF NoUpdate, Updates, Pointer
    <3>2. ReplaceSession(r, d)
      BY <2>8 DEF RevokeSessions
    <3> HIDE DEF d
    <3>3. IssuesATrueToken
      BY <1>1, <3>1, <3>2, ReplacementIsTrue
    <3> QED
      BY <1>0, <3>2, <3>3, EndClears DEF ReplaceSession
  <2>9. ASSUME NEW k \in Keys, LoadOwnKey(r, k)
        PROVE  RequestTypeOK' /\ IssuesATrueToken /\ LoginsHoldTheirRow
    <3>1. RequestTypeOK'
      BY <1>0, <2>9 DEF LoadOwnKey, RequestTypeOK, Stages
    <3>2. LoginsHoldTheirRow
      BY <1>0, <2>9 DEF LoadOwnKey, RequestTypeOK, LoginsHoldTheirRow
    <3> QED
      BY <2>9, <3>1, <3>2 DEF LoadOwnKey
  <2> QED
    BY <1>3, <2>1, <2>2, <2>3, <2>4, <2>5, <2>6, <2>7, <2>8, <2>9
    DEF RequestNext, AdminUpdateUser, AdminDeleteUser, AdminChangesTier, UserCreatesKey,
        UserUpdatesKey, UserDeletesKey, ChangeKey, GiveUp
<1> QED
  BY <1>2, <1>3 DEF AccountsNext

-----------------------------------------------------------------------------
(* The invariant.                                                          *)

LEMMA AccountsInitially == AccountsInit => IAccounts
<1> SUFFICES ASSUME AccountsInit PROVE IAccounts
  OBVIOUS
<1> DEFINE first == [FreshRow(AnyPassword) EXCEPT !.state = "present", !.role = "admin"]
<1>1. first \in Row /\ first.state = "present" /\ first.role = "admin" /\ first.enabled
      /\ first.tier = FirstTier
  BY Blanks DEF FreshRow, Row, Roles, States
<1>2. /\ FreshRow(AnyPassword).state = "unused"
      /\ FreshRow(AnyPassword).tier = FirstTier
  BY DEF FreshRow
<1>3. row = [u \in Users |-> IF u = Bootstrap THEN first ELSE FreshRow(AnyPassword)]
  BY DEF AccountsInit
<1> HIDE DEF first
<1>4. AccountsTypeOK
  BY <1>1, <1>3, Blanks, AccountsConstants DEF AccountsInit, AccountsTypeOK, States, KeyRow, Stages
<1>5. SessionInv
  BY <1>1, <1>3 DEF AccountsInit, SessionInv, TokensAgree, LoginsAgree, UnusedAreFresh
<1>6. EnabledAdminRemains
  BY <1>1, <1>3, AccountsConstants DEF EnabledAdminRemains, EnabledAdmins
<1>7. TiersConsistent
  BY <1>1, <1>2, <1>3, AccountsConstants DEF AccountsInit, TiersConsistent, Present
<1>8. KeysOwnedAndBounded
  <2>1. \A u \in Users : KeysOf(u) = {}
    BY DEF AccountsInit, KeysOf
  <2>2. \A u \in Users : Cardinality(KeysOf(u)) = 0
    BY <2>1, FS_EmptySet
  <2> QED
    BY <2>2, AccountsConstants DEF AccountsInit, KeysOwnedAndBounded
<1> QED
  BY <1>4, <1>5, <1>6, <1>7, <1>8 DEF IAccounts

LEMMA AccountsPreserved == IAccounts /\ [AccountsNext]_accountVars => IAccounts' /\ [RowsAge]_accountVars
<1> SUFFICES ASSUME IAccounts, [AccountsNext]_accountVars
             PROVE  IAccounts' /\ [RowsAge]_accountVars
  OBVIOUS
<1>1. CASE UNCHANGED accountVars
  <2>1. /\ AccountsTypeOK' /\ SessionInv'
    BY <1>1
    DEF IAccounts, accountVars, storeVars, requestVars, AccountsTypeOK, SessionInv, TokensAgree,
        LoginsAgree, UnusedAreFresh
  <2>2. EnabledAdminRemains' /\ TiersConsistent' /\ KeysOwnedAndBounded'
    BY <1>1
    DEF IAccounts, accountVars, storeVars, EnabledAdminRemains, EnabledAdmins, TiersConsistent,
        KeysOwnedAndBounded, KeysOf, Present
  <2> QED
    BY <1>1, <2>1, <2>2 DEF IAccounts
<1>2. CASE AccountsNext
  <2>1. StoreTypeOK /\ StoreStep
    BY <1>2, HandlersUseTheStore DEF IAccounts, AccountsTypeOK, StoreTypeOK
  <2>2. StoreTypeOK'
    BY <2>1, StoreTypes
  <2>3. RowsAge /\ UnusedAreFresh'
    BY <2>1, RowsOnlyAge DEF IAccounts, SessionInv
  <2>4. EnabledAdminRemains' /\ TiersConsistent' /\ KeysOwnedAndBounded'
    BY <2>1, AdminRemains, TiersStayConsistent, KeysStayOwned DEF IAccounts
  <2>5. RequestTypeOK' /\ IssuesATrueToken /\ LoginsHoldTheirRow
    BY <1>2, RequestStep DEF IAccounts, SessionInv
  <2>6. ASSUME NEW t \in tokens
        PROVE  t \in Token /\ Agrees(t, row'[t.user])
    <3>1. t \in Token /\ t.user \in Users /\ t.version \in Nat /\ Agrees(t, row[t.user])
      BY DEF IAccounts, AccountsTypeOK, SessionInv, TokensAgree, Token
    <3> QED
      BY <2>1, <2>2, <2>3, <3>1, AgreementAges
  <2>7. TokensAgree' /\ tokens' \subseteq Token
    BY <2>5, <2>6 DEF TokensAgree, IssuesATrueToken
  <2>8. LoginsAgree'
    <3> SUFFICES ASSUME NEW q \in Requests, pc'[q] = "comparing"
                 PROVE  Agrees(seen'[q], row'[actor'[q]])
      BY DEF LoginsAgree
    <3>1. CASE pc[q] = "comparing" /\ seen'[q] = seen[q] /\ actor'[q] = actor[q]
      <4>1. Agrees(seen[q], row[actor[q]]) /\ actor[q] \in Users /\ seen[q].version \in Nat
        BY <3>1 DEF IAccounts, SessionInv, LoginsAgree, AccountsTypeOK, Row
      <4> QED
        BY <2>1, <2>2, <2>3, <3>1, <4>1, AgreementAges
    <3>2. CASE /\ UNCHANGED row
               /\ row[actor'[q]].state = "present" /\ seen'[q] = row[actor'[q]]
      <4>1. actor'[q] \in Users
        BY <2>5 DEF RequestTypeOK
      <4>2. row[actor'[q]].version \in Nat
        BY <2>1, <4>1 DEF StoreTypeOK, Row
      <4> QED
        BY <3>2, <4>2 DEF Agrees
    <3> QED
      BY <2>5, <3>1, <3>2 DEF LoginsHoldTheirRow
  <2>9. AccountsTypeOK'
    BY <2>2, <2>5, <2>7 DEF AccountsTypeOK, StoreTypeOK, RequestTypeOK
  <2> QED
    BY <2>3, <2>4, <2>7, <2>8, <2>9 DEF IAccounts, SessionInv
<1> QED
  BY <1>1, <1>2

\* Role and version equal to the row's are those of the row as it is.
LEMMA AgreementIsCurrent ==
  ASSUME TokensAgree
  PROVE  AcceptedIsCurrent
BY DEF TokensAgree, AcceptedIsCurrent, Agrees, Accepted, Matches

\* The accounts keep their promises whatever requests decide on rows they read
\* earlier: an enabled administrator remains (UpdateUser and DeleteUser of
\* store/users.go), every accepted token stands for the present password
\* (JWTMiddleware), tiers exist where users refer to them (store/tiers.go) and keys
\* have an owner and stay within the limit (store/sqlite_keys.go).
THEOREM AccountsInvariant == AccountsSpec => []AccountsInv
<1>1. IAccounts => AccountsInv
  BY AgreementIsCurrent DEF IAccounts, AccountsInv, SessionInv
<1>2. IAccounts /\ [AccountsNext]_accountVars => IAccounts'
  BY AccountsPreserved
<1> QED
  BY AccountsInitially, <1>1, <1>2, PTL DEF AccountsSpec

\* A panel token that JWTMiddleware refuses once it refuses for ever: the version
\* rises with every change that could make the row match again, and a deleted user
\* does not return.
THEOREM RefusedStaysRefused == AccountsSpec => RefusedForEver
<1>1. ASSUME IAccounts, [AccountsNext]_accountVars
      PROVE  [\A t \in tokens : ~Accepted(t) => ~Accepted(t)']_accountVars
  <2>1. CASE UNCHANGED accountVars
    BY <2>1
  <2>2. CASE RowsAge /\ IAccounts'
    <3> SUFFICES ASSUME NEW t \in tokens, Accepted(t)'
                 PROVE  Accepted(t)
      OBVIOUS
    <3>1. t \in Token /\ t.user \in Users /\ Agrees(t, row[t.user])
      BY <1>1 DEF IAccounts, AccountsTypeOK, SessionInv, TokensAgree, Token
    <3>2. /\ row'[t.user].state = "present" /\ row'[t.user].enabled
          /\ t.role = row'[t.user].role /\ t.version = row'[t.user].version
      BY DEF Accepted, Present, Matches
    <3>3. row[t.user].version \in Nat /\ t.version \in Nat /\ row[t.user].state \in States
      BY <1>1, <3>1 DEF IAccounts, AccountsTypeOK, Row, Token
    <3>4. row[t.user].version = row'[t.user].version
      BY <2>2, <3>1, <3>2, <3>3 DEF Agrees, RowsAge
    <3>5. /\ row'[t.user].role = row[t.user].role
          /\ row'[t.user].enabled = row[t.user].enabled
          /\ row[t.user].state = "present"
      BY <2>2, <3>1, <3>2, <3>3, <3>4 DEF Agrees, RowsAge, States
    <3> QED
      BY <3>2, <3>4, <3>5 DEF Accepted, Present, Matches
  <2> QED
    BY <1>1, <2>1, <2>2, AccountsPreserved
<1>2. IAccounts /\ [AccountsNext]_accountVars => IAccounts'
  BY AccountsPreserved
<1> QED
  BY AccountsInitially, <1>1, <1>2, PTL DEF AccountsSpec, RefusedForEver

=============================================================================
