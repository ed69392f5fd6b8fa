--------------------------- MODULE PanelAccounts ---------------------------
(***************************************************************************)
(* The accounts behind the panel and the sessions that act on them: users, *)
(* tiers and API keys (store/users.go, store/tiers.go,                     *)
(* store/sqlite_keys.go), the signed panel tokens (auth/jwt.go) and the    *)
(* handlers that log in, change a password, revoke sessions and administer *)
(* (panel/session_handlers.go, admin_users.go, admin_tiers.go,             *)
(* key_handlers.go).                                                       *)
(*                                                                         *)
(* A token is accepted while its role and version equal the user's row; it *)
(* cannot be recalled otherwise.  A request authenticates with two reads   *)
(* from the read pool and then acts, with what it read, on rows that other *)
(* requests may have changed.  A write transaction is one step: there is   *)
(* one write connection.  Identifiers are random, so none is used twice.   *)
(***************************************************************************)
EXTENDS Integers, FiniteSets

CONSTANTS
  Users,        \* user identifiers
  Bootstrap,    \* the administrator that exists from the start
  Tiers,        \* tier identifiers
  FirstTier,    \* the default tier of the first migration
  Keys,         \* API key identifiers
  Passwords,
  Requests,     \* requests in flight
  MaxKeys,      \* Handler.MaxAPIKeysPerUser
  MaxVersion    \* bound on token_version

ASSUME AccountsConstants ==
  /\ Bootstrap \in Users /\ FirstTier \in Tiers
  /\ IsFiniteSet(Users) /\ IsFiniteSet(Tiers) /\ IsFiniteSet(Keys)
  /\ MaxKeys \in Nat \ {0} /\ MaxVersion \in Nat
  /\ Passwords # {}

VARIABLES
  row,          \* [Users -> row of users]
  tierState,    \* [Tiers -> state of the row of tiers]
  defaultTiers, \* tiers with is_default = 1
  key,          \* [Keys -> row of apikeys]
  tokens,       \* every panel token ever issued
  pc,           \* [Requests -> where the request is]
  actor,        \* [Requests -> the user it logs in or acts for]
  seen,         \* [Requests -> the row it read]
  claim,        \* [Requests -> the token it carries]
  given,        \* [Requests -> the password it carries]
  target        \* [Requests -> the key it loaded]

storeVars == <<row, tierState, defaultTiers, key>>
requestVars == <<pc, actor, seen, claim, given, target>>
accountVars == <<storeVars, tokens, requestVars>>

Roles == {"admin", "user"}
States == {"unused", "present", "deleted"}
Row == [state : States, role : Roles, enabled : BOOLEAN, tier : Tiers, version : Nat,
        password : Passwords]
KeyRow == [state : States, owner : Users, enabled : BOOLEAN]

\* The claims a token carries; password is the one the session was opened under.
Token == [user : Users, role : Roles, version : Nat, password : Passwords]
Stages == {"idle", "comparing", "tier", "admitted", "changing", "key"}

\* IssuePanelToken
IssuePanelToken(u, r) ==
  [user |-> u, role |-> r.role, version |-> r.version, password |-> r.password]

AnyPassword == CHOOSE p \in Passwords : TRUE
FreshRow(p) == [state |-> "unused", role |-> "user", enabled |-> TRUE, tier |-> FirstTier,
                version |-> 0, password |-> p]
NoClaim == IssuePanelToken(Bootstrap, FreshRow(AnyPassword))

AccountsInit ==
  /\ row = [u \in Users |->
       IF u = Bootstrap
         THEN [FreshRow(AnyPassword) EXCEPT !.state = "present", !.role = "admin"]
         ELSE FreshRow(AnyPassword)]
  /\ tierState = [t \in Tiers |-> IF t = FirstTier THEN "present" ELSE "unused"]
  /\ defaultTiers = {FirstTier}
  /\ key = [k \in Keys |-> [state |-> "unused", owner |-> Bootstrap, enabled |-> TRUE]]
  /\ tokens = {}
  /\ pc = [r \in Requests |-> "idle"]
  /\ actor = [r \in Requests |-> Bootstrap]
  /\ seen = [r \in Requests |-> FreshRow(AnyPassword)]
  /\ claim = [r \in Requests |-> NoClaim]
  /\ given = [r \in Requests |-> AnyPassword]
  /\ target = [r \in Requests |-> {}]

Present(u) == row[u].state = "present"

\* The request is answered; what it held is gone.
End(r) ==
  /\ pc' = [pc EXCEPT ![r] = "idle"]
  /\ actor' = [actor EXCEPT ![r] = Bootstrap]
  /\ seen' = [seen EXCEPT ![r] = FreshRow(AnyPassword)]
  /\ claim' = [claim EXCEPT ![r] = NoClaim]
  /\ given' = [given EXCEPT ![r] = AnyPassword]
  /\ target' = [target EXCEPT ![r] = {}]

-----------------------------------------------------------------------------
(* The store *)

\* The fields an update may leave out are pointers: {} is nil.
Pointer(S) == {{}} \cup {{x} : x \in S}
Deref(pointer, otherwise) == IF pointer = {} THEN otherwise ELSE CHOOSE x \in pointer : TRUE
Updates == [enabled : Pointer(BOOLEAN), role : Pointer(Roles), tier : Pointer(Tiers),
            password : Pointer(Passwords), revoke : BOOLEAN]

\* An administrator's form has no password.
AdminUpdates == {d \in Updates : d.password = {}}

EnabledAdmins(rows) ==
  {u \in Users : rows[u].state = "present" /\ rows[u].role = "admin" /\ rows[u].enabled}

\* Mutant: disabling and enabling leave the token version alone.
BumpsTokenVersion_NotEnabled(old, d) ==
  Deref(d.role, old.role) # old.role \/ d.password # {} \/ d.revoke

BumpsTokenVersion(old, d) ==
  \/ Deref(d.enabled, old.enabled) # old.enabled
  \/ Deref(d.role, old.role) # old.role
  \/ d.password # {}
  \/ d.revoke

UpdatedRow(old, d) ==
  [old EXCEPT !.enabled = Deref(d.enabled, @), !.role = Deref(d.role, @),
              !.tier = Deref(d.tier, @), !.password = Deref(d.password, @),
              !.version = IF BumpsTokenVersion(old, d) THEN @ + 1 ELSE @]

\* Mutant: whether an administrator remains is not looked at.
KeepsAnAdmin_Unchecked(u, new) == TRUE

\* The count of enabled administrators is taken after the update.
KeepsAnAdmin(u, new) ==
  row[u].role = "admin" /\ row[u].enabled /\ (new.role # "admin" \/ ~new.enabled)
    => EnabledAdmins([row EXCEPT ![u] = new]) # {}

\* validateAssignableTierID
TierAssignable(d) == \A t \in d.tier : tierState[t] = "present"

\* UpdateUser commits; otherwise it changes nothing.
UpdateUser(u, d) ==
  /\ Present(u)
  /\ TierAssignable(d)
  /\ KeepsAnAdmin(u, UpdatedRow(row[u], d))
  /\ row[u].version < MaxVersion
  /\ row' = [row EXCEPT ![u] = UpdatedRow(@, d)]
  /\ UNCHANGED <<tierState, defaultTiers, key>>

Deletable(u) ==
  /\ Present(u)
  /\ row[u].role = "admin" /\ row[u].enabled => Cardinality(EnabledAdmins(row)) > 1

KeysOf(u) == {k \in Keys : key[k].state = "present" /\ key[k].owner = u}

\* The keys of the user go with it.
KeysWithoutUser(u) ==
  [k \in Keys |-> IF k \in KeysOf(u) THEN [key[k] EXCEPT !.state = "deleted"] ELSE key[k]]

DeleteUser(u) ==
  /\ Deletable(u)
  /\ row' = [row EXCEPT ![u].state = "deleted"]
  /\ key' = KeysWithoutUser(u)
  /\ UNCHANGED <<tierState, defaultTiers>>

\* A new tier becomes the default when asked to or when there is none.
DefaultsWithNew(t, isDefault) ==
  IF isDefault \/ defaultTiers = {} THEN {t} ELSE defaultTiers

CreateTier(t, isDefault) ==
  /\ tierState[t] = "unused"
  /\ tierState' = [tierState EXCEPT ![t] = "present"]
  /\ defaultTiers' = DefaultsWithNew(t, isDefault)
  /\ UNCHANGED <<row, key>>

\* The only update of a tier that other rows depend on; unsetting is refused.
MakeDefaultTier(t) ==
  /\ tierState[t] = "present"
  /\ defaultTiers' = {t}
  /\ UNCHANGED <<row, tierState, key>>

\* Users of the tier move to the default of that moment.
DeleteTier(t) ==
  /\ tierState[t] = "present" /\ t \notin defaultTiers
  /\ \E default \in defaultTiers :
       row' = [u \in Users |->
                 IF Present(u) /\ row[u].tier = t THEN [row[u] EXCEPT !.tier = default]
                                                  ELSE row[u]]
  /\ tierState' = [tierState EXCEPT ![t] = "deleted"]
  /\ UNCHANGED <<defaultTiers, key>>

BelowKeyLimit(u) == Cardinality(KeysOf(u)) < MaxKeys

CreateKey(u, k) ==
  /\ key[k].state = "unused"
  /\ Present(u)
  /\ BelowKeyLimit(u)
  /\ key' = [key EXCEPT ![k] = [state |-> "present", owner |-> u, enabled |-> TRUE]]
  /\ UNCHANGED <<row, tierState, defaultTiers>>

-----------------------------------------------------------------------------
(* Requests *)

\* login: the row is read, then the password compared with it for a long time.
LoginReads(r, u, password) ==
  /\ pc[r] = "idle" /\ Present(u)
  /\ pc' = [pc EXCEPT ![r] = "comparing"]
  /\ actor' = [actor EXCEPT ![r] = u]
  /\ seen' = [seen EXCEPT ![r] = row[u]]
  /\ given' = [given EXCEPT ![r] = password]
  /\ UNCHANGED <<storeVars, tokens, claim, target>>

\* The token is issued from the row as it was read.
LoginEnds(r) ==
  /\ pc[r] = "comparing"
  /\ given[r] = seen[r].password /\ seen[r].enabled
  /\ tokens' = tokens \cup {IssuePanelToken(actor[r], seen[r])}
  /\ End(r)
  /\ UNCHANGED storeVars

\* JWTMiddleware, first read: the user of the token.
SessionReads(r, token) ==
  /\ pc[r] = "idle" /\ Present(token.user)
  /\ pc' = [pc EXCEPT ![r] = "tier"]
  /\ actor' = [actor EXCEPT ![r] = token.user]
  /\ seen' = [seen EXCEPT ![r] = row[token.user]]
  /\ claim' = [claim EXCEPT ![r] = token]
  /\ UNCHANGED <<storeVars, tokens, given, target>>

\* The middleware compares role and version with the row.
Matches(token, r) == token.role = r.role /\ token.version = r.version

\* JWTMiddleware, second read: the tier must exist; then the checks on the row.  Of
\* the row, the handlers use the identifier and the role.
SessionAdmitted(r) ==
  /\ pc[r] = "tier"
  /\ tierState[seen[r].tier] = "present"
  /\ seen[r].enabled /\ Matches(claim[r], seen[r])
  /\ pc' = [pc EXCEPT ![r] = "admitted"]
  /\ claim' = [claim EXCEPT ![r] = NoClaim]
  /\ seen' = [seen EXCEPT ![r] = [FreshRow(AnyPassword) EXCEPT !.role = seen[r].role]]
  /\ UNCHANGED <<storeVars, tokens, actor, given, target>>

\* RequireAdmin looks at the row the middleware read.
IsAdmin(r) == pc[r] = "admitted" /\ seen[r].role = "admin"

\* adminUpdateUser: nobody disables or downgrades the user they act as.
AdminUpdateUser(r, u, d) ==
  /\ IsAdmin(r)
  /\ actor[r] = u => d.enabled # {FALSE} /\ d.role # {"user"}
  /\ UpdateUser(u, d)
  /\ End(r)
  /\ UNCHANGED tokens

AdminDeleteUser(r, u) ==
  /\ IsAdmin(r) /\ actor[r] # u
  /\ DeleteUser(u)
  /\ End(r)
  /\ UNCHANGED tokens

AdminChangesTier(r, t) ==
  /\ IsAdmin(r)
  /\ (\E isDefault \in BOOLEAN : CreateTier(t, isDefault)) \/ MakeDefaultTier(t) \/ DeleteTier(t)
  /\ End(r)
  /\ UNCHANGED tokens

\* changePassword reads the row again before it compares and hashes.
ChangePasswordReads(r, password) ==
  /\ pc[r] = "admitted" /\ Present(actor[r])
  /\ pc' = [pc EXCEPT ![r] = "changing"]
  /\ seen' = [seen EXCEPT ![r] = row[actor[r]]]
  /\ given' = [given EXCEPT ![r] = password]
  /\ UNCHANGED <<storeVars, tokens, actor, claim, target>>

NoUpdate == [enabled |-> {}, role |-> {}, tier |-> {}, password |-> {}, revoke |-> FALSE]

\* The update and the replacement session of changePassword and revokeSessions.
ReplaceSession(r, d) ==
  /\ UpdateUser(actor[r], d)
  /\ tokens' = tokens \cup {IssuePanelToken(actor[r], row'[actor[r]])}
  /\ End(r)

ChangePassword(r, new) ==
  /\ pc[r] = "changing" /\ given[r] = seen[r].password
  /\ ReplaceSession(r, [NoUpdate EXCEPT !.password = {new}, !.revoke = TRUE])

RevokeSessions(r) ==
  /\ pc[r] = "admitted"
  /\ ReplaceSession(r, [NoUpdate EXCEPT !.revoke = TRUE])

UserCreatesKey(r, k) ==
  /\ pc[r] = "admitted"
  /\ CreateKey(actor[r], k)
  /\ End(r)
  /\ UNCHANGED tokens

\* updateKey and deleteKey load the key and check its owner first.
LoadOwnKey(r, k) ==
  /\ pc[r] = "admitted" /\ key[k].state = "present" /\ key[k].owner = actor[r]
  /\ pc' = [pc EXCEPT ![r] = "key"]
  /\ target' = [target EXCEPT ![r] = {k}]
  /\ UNCHANGED <<storeVars, tokens, actor, seen, claim, given>>

ChangeKey(r, new) ==
  /\ pc[r] = "key"
  /\ \E k \in target[r] : key[k].state = "present" /\ key' = [key EXCEPT ![k] = new[k]]
  /\ End(r)
  /\ UNCHANGED <<row, tierState, defaultTiers, tokens>>

UserUpdatesKey(r, enabled) == ChangeKey(r, [k \in Keys |-> [key[k] EXCEPT !.enabled = enabled]])
UserDeletesKey(r) == ChangeKey(r, [k \in Keys |-> [key[k] EXCEPT !.state = "deleted"]])

\* A request ends without a change: refused by a check, no hashing slot, a store
\* error, a cancelled context.
GiveUp(r) ==
  /\ pc[r] # "idle"
  /\ End(r)
  /\ UNCHANGED <<storeVars, tokens>>

\* Registration creates an ordinary user in the default tier of that moment.
\* Passwords of different users are never compared: which one it has is the same.
CreateUser(u) ==
  /\ row[u].state = "unused"
  /\ \E default \in defaultTiers :
       row' = [row EXCEPT ![u] = [FreshRow(AnyPassword) EXCEPT !.state = "present", !.tier = default]]
  /\ UNCHANGED <<tierState, defaultTiers, key, tokens, requestVars>>

RequestNext(r) ==
  \/ \E u \in Users, p \in Passwords : LoginReads(r, u, p)
  \/ LoginEnds(r)
  \/ \E t \in tokens : SessionReads(r, t)
  \/ SessionAdmitted(r)
  \/ \E u \in Users, d \in AdminUpdates : AdminUpdateUser(r, u, d)
  \/ \E u \in Users : AdminDeleteUser(r, u)
  \/ \E t \in Tiers : AdminChangesTier(r, t)
  \/ \E p \in Passwords : ChangePasswordReads(r, p)
  \/ \E p \in Passwords : ChangePassword(r, p)
  \/ RevokeSessions(r)
  \/ \E k \in Keys : UserCreatesKey(r, k) \/ LoadOwnKey(r, k)
  \/ \E e \in BOOLEAN : UserUpdatesKey(r, e)
  \/ UserDeletesKey(r)
  \/ GiveUp(r)

AccountsNext ==
  \/ \E u \in Users : CreateUser(u)
  \/ \E r \in Requests : RequestNext(r)

AccountsSpec == AccountsInit /\ [][AccountsNext]_accountVars

-----------------------------------------------------------------------------
(* Properties *)

\* The rows, the tokens and the requests keep their types.
AccountsTypeOK ==
  /\ row \in [Users -> Row]
  /\ tierState \in [Tiers -> States]
  /\ defaultTiers \subseteq Tiers
  /\ key \in [Keys -> KeyRow]
  /\ tokens \subseteq Token
  /\ pc \in [Requests -> Stages]
  /\ actor \in [Requests -> Users]
  /\ seen \in [Requests -> Row]
  /\ claim \in [Requests -> Token]
  /\ given \in [Requests -> Passwords]
  /\ target \in [Requests -> SUBSET Keys]

\* However administrators disable, downgrade and delete each other with views of
\* their own that have become stale, an enabled administrator remains.
EnabledAdminRemains == EnabledAdmins(row) # {}

\* There is exactly one default tier, it exists, and every user has a tier that
\* exists, although tiers are deleted while users are created and moved.
TiersConsistent ==
  /\ \E t \in Tiers : defaultTiers = {t} /\ tierState[t] = "present"
  /\ \A u \in Users : Present(u) => tierState[row[u].tier] = "present"

\* What JWTMiddleware would accept now.
Accepted(token) ==
  Present(token.user) /\ row[token.user].enabled /\ Matches(token, row[token.user])

\* A token that is accepted stands for the password the user has now: one issued
\* from a row that was read before a change of password is dead on arrival.
AcceptedIsCurrent ==
  \A t \in tokens : Accepted(t) => t.password = row[t.user].password

\* A token that is refused once is refused for ever: enabling a user again or
\* giving a role back does not revive the sessions of before.
RefusedForEver ==
  [][\A t \in tokens : ~Accepted(t) => ~Accepted(t)']_accountVars

\* Every key has a user and no user has more keys than the limit, although keys
\* are created by requests whose user is being deleted.
KeysOwnedAndBounded ==
  /\ \A k \in Keys : key[k].state = "present" => Present(key[k].owner)
  /\ \A u \in Users : Cardinality(KeysOf(u)) <= MaxKeys

\* An enabled administrator remains, every accepted token stands for the present
\* password and the tables refer to each other as foreign keys and limits demand,
\* though requests decide on rows they read earlier (store/users.go,
\* panel/auth.go).
AccountsInv ==
  /\ AccountsTypeOK
  /\ EnabledAdminRemains
  /\ AcceptedIsCurrent
  /\ TiersConsistent
  /\ KeysOwnedAndBounded
=============================================================================
