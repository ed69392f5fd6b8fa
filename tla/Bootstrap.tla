------------------------------ MODULE Bootstrap ------------------------------
(***************************************************************************)
(* The bootstrap of the first administrator,                               *)
(* internal/app/bootstrap_credentials.go: at start, when no administrator  *)
(* is enabled, the server writes a random password to a credential file    *)
(* and creates (or takes over) the account "admin" with it; changing that  *)
(* password in the panel removes the file (internal/panel/                 *)
(* session_handlers.go).                                                   *)
(*                                                                         *)
(* The server may stop after any step, and the machine may lose power.     *)
(* Then the file is found in one of the states the disk may hold           *)
(* (fileImages) and the database at one of the commits that are not yet    *)
(* durable: it runs in WAL mode with synchronous = NORMAL (dbImages).      *)
(***************************************************************************)
EXTENDS Naturals

CONSTANTS
    RandomPasswords,  \* what randomBootstrapPassword may return
    ChosenPasswords,  \* what the operator chooses in the panel
    Absent,           \* no file, or no account
    Torn,             \* a file that is not complete
    MaxCrashes,       \* bound on stops of the server
    MaxFailures       \* bound on power failures, failed calls and lost administrators

ASSUME BootstrapAssumption ==
    /\ RandomPasswords \cap ChosenPasswords = {}
    /\ {Absent, Torn} \cap (RandomPasswords \cup ChosenPasswords) = {}
    /\ MaxCrashes \in Nat /\ MaxFailures \in Nat

VARIABLES
    pc,          \* where the server is between os.Exit and serving requests
    credential,  \* the password the starting server works with
    file,        \* the credential file: Absent, Torn or a password
    fileImages,  \* the files a power failure may leave
    account,     \* the account "admin": Absent or its password and standing
    dbImages,    \* the accounts a power failure may leave
    known,       \* passwords the operator has read or chosen
    used,        \* random passwords drawn so far
    reused,      \* history: a start has taken over a file that was not durable yet
    crashes, failures

bootVars == <<pc, credential, file, fileImages, account, dbImages, known, used, reused, crashes, failures>>

Passwords == RandomPasswords \cup ChosenPasswords
Accounts == {Absent} \cup [password : Passwords, enabledAdmin : BOOLEAN]

BootstrapInit ==
    /\ pc = "down" /\ credential = Absent
    /\ file = Absent /\ fileImages = {Absent}
    /\ account = Absent /\ dbImages = {Absent}
    /\ known = {} /\ used = {} /\ reused = FALSE
    /\ crashes = 0 /\ failures = 0

\* CountEnabledAdmins finds the account.
EnabledAdmin == account # Absent /\ account.enabledAdmin

-----------------------------------------------------------------------------
(* Starting: EnsureBootstrapAdmin, before the server listens.              *)

\* EnsureBootstrapAdmin returns at once when an administrator is enabled.
StartsAt == IF EnabledAdmin THEN "serving" ELSE "open"

Start ==
    /\ pc = "down"
    /\ pc' = StartsAt
    /\ UNCHANGED <<credential, file, fileImages, account, dbImages, known, used, reused, crashes, failures>>

\* loadOrCreateBootstrapCredentials: the file is created exclusively, empty.
OpenNew ==
    /\ pc = "open" /\ file = Absent
    /\ file' = Torn /\ fileImages' = fileImages \cup {Torn}
    /\ pc' = "write"
    /\ UNCHANGED <<credential, account, dbImages, known, used, reused, crashes, failures>>

\* Mutant: an existing file is refused.
OpenExisting_Refused ==
    /\ pc = "open" /\ file \in Passwords
    /\ pc' = "down"
    /\ UNCHANGED <<credential, file, fileImages, account, dbImages, known, used, reused, crashes, failures>>

\* readExistingBootstrapCredentials: a complete file is used again.
OpenExisting ==
    /\ pc = "open" /\ file \in Passwords
    /\ credential' = file
    /\ reused' = (reused \/ fileImages # {file})
    /\ pc' = "account"
    /\ UNCHANGED <<file, fileImages, account, dbImages, known, used, crashes, failures>>

\* decodeBootstrapCredentials refuses an incomplete file: the start fails and
\* the file stays.
OpenTorn ==
    /\ pc = "open" /\ file = Torn
    /\ pc' = "down" /\ credential' = Absent
    /\ UNCHANGED <<file, fileImages, account, dbImages, known, used, reused, crashes, failures>>

\* writeNewBootstrapCredentials: a password nobody used before is written.
WriteFile ==
    /\ pc = "write"
    /\ \E p \in RandomPasswords \ used :
          /\ credential' = p /\ used' = used \cup {p}
          /\ file' = p /\ fileImages' = fileImages \cup {p}
    /\ pc' = "sync"
    /\ UNCHANGED <<account, dbImages, known, reused, crashes, failures>>

\* credentialFile.Sync: the contents are on the disk, the name may not be.
SyncFile ==
    /\ pc = "sync"
    /\ fileImages' = (fileImages \cap {Absent}) \cup {file}
    /\ pc' = "syncdir"
    /\ UNCHANGED <<credential, file, account, dbImages, known, used, reused, crashes, failures>>

\* Mutant: the directory is not synced before the account is written.
ImagesAfterSyncDir_Unsynced == fileImages

ImagesAfterSyncDir == {file}

\* syncParentDirectory and verifyBootstrapCredentialPath.
SyncDirectory ==
    /\ pc = "syncdir"
    /\ fileImages' = ImagesAfterSyncDir
    /\ pc' = "account"
    /\ UNCHANGED <<credential, file, account, dbImages, known, used, reused, crashes, failures>>

Commit(row) == account' = row /\ dbImages' = dbImages \cup {row}

\* CreateUser, or promoteExistingBootstrapAdmin when the name is taken.
WriteAccount ==
    /\ pc = "account"
    /\ Commit([password |-> credential, enabledAdmin |-> TRUE])
    /\ pc' = "serving"
    /\ UNCHANGED <<credential, file, fileImages, known, used, reused, crashes, failures>>

-----------------------------------------------------------------------------
(* The operator and the panel.                                             *)

\* The operator reads the credential file.
ReadFile ==
    /\ pc = "serving" /\ file \in Passwords
    /\ known' = known \cup {file}
    /\ UNCHANGED <<pc, credential, file, fileImages, account, dbImages, used, reused, crashes, failures>>

\* changePassword, for an operator that knows the current password.
ChangePassword ==
    /\ pc = "serving" /\ EnabledAdmin /\ account.password \in known
    /\ \E q \in ChosenPasswords \ {account.password} :
          /\ Commit([account EXCEPT !.password = q])
          /\ known' = known \cup {q}
    /\ pc' = "cleaning"
    /\ UNCHANGED <<credential, file, fileImages, used, reused, crashes, failures>>

\* removeBootstrapCredentialAfterPasswordChange: a failure is only logged.
RemoveFile ==
    /\ pc = "cleaning"
    /\ \/ file' = Absent /\ fileImages' = fileImages \cup {Absent}
       \/ UNCHANGED <<file, fileImages>>
    /\ pc' = "serving"
    /\ UNCHANGED <<credential, account, dbImages, known, used, reused, crashes, failures>>

\* The account is disabled or demoted behind the server's back, in the database.
AdminLost ==
    /\ pc = "down" /\ EnabledAdmin
    /\ failures < MaxFailures /\ failures' = failures + 1
    /\ Commit([account EXCEPT !.enabledAdmin = FALSE])
    /\ UNCHANGED <<pc, credential, file, fileImages, known, used, reused, crashes>>

-----------------------------------------------------------------------------
(* Failures.                                                               *)

\* A call on the new file fails: the deferred function removes it.
WriteFails ==
    /\ pc \in {"write", "sync", "syncdir"}
    /\ failures < MaxFailures /\ failures' = failures + 1
    /\ file' = Absent /\ fileImages' = fileImages \cup {Absent}
    /\ pc' = "down" /\ credential' = Absent
    /\ UNCHANGED <<account, dbImages, known, used, reused, crashes>>

\* The server stops: killed, out of memory, or a database call fails.
Crash ==
    /\ pc # "down"
    /\ crashes < MaxCrashes /\ crashes' = crashes + 1
    /\ pc' = "down" /\ credential' = Absent
    /\ UNCHANGED <<file, fileImages, account, dbImages, known, used, reused, failures>>

\* The machine loses power.
PowerFailure ==
    /\ failures < MaxFailures /\ failures' = failures + 1
    /\ file' \in fileImages /\ fileImages' = {file'}
    /\ account' \in dbImages /\ dbImages' = {account'}
    /\ pc' = "down" /\ credential' = Absent
    /\ UNCHANGED <<known, used, reused, crashes>>

\* The write-ahead log is checkpointed: the last commit is durable.
Checkpoint ==
    /\ dbImages # {account}
    /\ dbImages' = {account}
    /\ UNCHANGED <<pc, credential, file, fileImages, account, known, used, reused, crashes, failures>>

ServerStep ==
    \/ Start \/ OpenNew \/ OpenExisting \/ OpenTorn \/ WriteFile \/ SyncFile
    \/ SyncDirectory \/ WriteAccount \/ RemoveFile

BootstrapNext ==
    \/ ServerStep
    \/ ReadFile \/ ChangePassword \/ AdminLost
    \/ WriteFails \/ Crash \/ PowerFailure \/ Checkpoint

BootstrapSpec == BootstrapInit /\ [][BootstrapNext]_bootVars

\* A supervisor starts the server again, and a started server goes on.
BootstrapFairSpec == BootstrapSpec /\ WF_bootVars(ServerStep)

-----------------------------------------------------------------------------
\* The type of the file, the account and what the disk may hold of them.
BootstrapTypeOK ==
    /\ pc \in {"down", "open", "write", "sync", "syncdir", "account", "serving", "cleaning"}
    /\ file \in {Absent, Torn} \cup Passwords
    /\ file \in fileImages
    /\ account \in Accounts /\ account \in dbImages
    /\ known \subseteq Passwords /\ used \subseteq RandomPasswords /\ reused \in BOOLEAN
    /\ pc = "account" => credential \in Passwords

\* Whatever stops the server and wherever, the password of an enabled bootstrap
\* administrator can be known: it stands in the credential file, or the
\* operator has read or chosen it.  Nobody is locked out by a lost file
\* (bootstrap_credentials.go, lines 145-161 and 58), unless a start has taken over
\* a file that an earlier one did not come to sync (lines 168-212 do not sync it).
AdminReachable == EnabledAdmin /\ ~reused => account.password \in known \cup {file}

\* Both, of every state between two steps and after every stop.
BootstrapInv == BootstrapTypeOK /\ AdminReachable

\* Without an enabled administrator, starting again after a stop leads to one,
\* except where a stop has left an incomplete credential file, which
\* decodeBootstrapCredentials refuses (lines 232-250).
BootstrapOrTornFile == []<>(EnabledAdmin \/ file = Torn)
=============================================================================
