------------------------------ MODULE Turnstile ------------------------------
(***************************************************************************)
(* The Turnstile check in front of a login (panel/turnstile.go,            *)
(* verifyLoginTurnstile in panel/session_handlers.go) beside updates of    *)
(* the settings it depends on: the browser fetches the site key, solves a  *)
(* challenge for it and sends the token with its login; the handler reads  *)
(* the published settings once, takes one of the admission slots and asks  *)
(* the siteverify service with the secret of that reading.                 *)
(*                                                                         *)
(* A secret is named after its site.  The service is external: it accepts  *)
(* a fresh token with the secret of its site, and may fail at any time.    *)
(***************************************************************************)
EXTENDS ServerSettings

CONSTANTS
  Logins,          \* login requests
  AdmissionSlots   \* maximumConcurrentTurnstileChecks

ASSUME TurnstileConstants == AdmissionSlots \in Nat \ {0} /\ IsFiniteSet(Logins)

VARIABLES
  login,           \* [Logins -> the page, the token and what the handler holds]
  slots            \* the number of tokens in admissionSlots

loginVars == <<login, slots>>
turnstileVars == <<settingsVars, loginVars>>

\* What the browser sends: no token, one that is too long, one whose challenge was
\* solved for this site (fresh), long ago (expired), or for another action.
TokenKinds == {"missing", "oversized", "fresh", "expired", "otherAction"}

\* How verifyLoginTurnstile ends; only "admitted" goes on to the password.
Verdicts == {"admitted", "required", "rejected", "unavailable", "overloaded"}

\* A reading of the settings: the revision and the settings of one snapshot.
Reading == [revision : Nat, settings : Settings]
NoReading == [revision |-> 0, settings |-> [enabled |-> FALSE, site |-> NoSite, secret |-> NoSite]]

Login == [at : {"idle", "page", "sent", "judged", "verify"} \cup Verdicts,
          page : Reading, token : TokenKinds, arrived : Nat, reading : Reading]
NoLogin == [at |-> "idle", page |-> NoReading, token |-> "missing", arrived |-> 0,
            reading |-> NoReading]

TurnstileInit ==
  /\ SettingsInit
  /\ login = [l \in Logins |-> NoLogin]
  /\ slots = 0

\* Mutant: the stored settings are used before they are applied.
LiveLoginVerificationSettings_Stored == [revision |-> revision, settings |-> saved]

\* One load of the atomic pointer yields the version and the keys.
LiveLoginVerificationSettings == [revision |-> live, settings |-> liveLogin]

-----------------------------------------------------------------------------
\* getRegistrationSettings: the login page is told the published site key.
OpenPage(l) ==
  /\ login[l].at = "idle"
  /\ login' = [login EXCEPT ![l].at = "page", ![l].page = LiveLoginVerificationSettings]
  /\ UNCHANGED <<settingsVars, slots>>

\* The browser sends the login; a page without a site key yields no token.
SendLogin(l, token) ==
  /\ login[l].at = "page"
  /\ token \in {"fresh", "expired", "otherAction"} => login[l].page.settings.enabled
  /\ login' = [login EXCEPT ![l].at = "sent", ![l].token = token, ![l].arrived = live]
  /\ UNCHANGED <<settingsVars, slots>>

\* verifyLoginTurnstile up to the call of the verifier.
JudgedAs(settings, token) ==
  IF ~settings.enabled THEN "admitted"
  ELSE IF settings.site = NoSite \/ settings.secret = NoSite THEN "unavailable"
  ELSE IF token = "missing" THEN "required"
  ELSE IF token = "oversized" THEN "rejected"
  ELSE "judged"

ReadSettings(l) ==
  /\ login[l].at = "sent"
  /\ LET read == LiveLoginVerificationSettings
     IN login' = [login EXCEPT ![l].at = JudgedAs(read.settings, login[l].token),
                               ![l].reading = read]
  /\ UNCHANGED <<settingsVars, slots>>

\* Verify takes a slot without waiting, unless its client has left.
TakeSlot(l) ==
  /\ login[l].at = "judged"
  /\ \/ IF slots < AdmissionSlots
        THEN login' = [login EXCEPT ![l].at = "verify"] /\ slots' = slots + 1
        ELSE login' = [login EXCEPT ![l].at = "overloaded"] /\ UNCHANGED slots
     \/ login' = [login EXCEPT ![l].at = "unavailable"] /\ UNCHANGED slots
  /\ UNCHANGED settingsVars

-----------------------------------------------------------------------------
(* The siteverify service *)

ClientTokenErrors == {"missing-input-response", "invalid-input-response", "timeout-or-duplicate"}

Success(action) == [success |-> TRUE, action |-> action, codes |-> {}]
Failure(codes) == [success |-> FALSE, action |-> "", codes |-> codes]

\* No usable answer: no connection, no answer within eight seconds, a client that
\* left, another status, a body that is too large or cannot be decoded.
NoAnswer == Failure({"no answer"})

\* What the service may say of a token that was made for a site.
Siteverify(secret, token, site) ==
  {NoAnswer, Failure({}), Failure({""}), Failure({"internal-error"}),
   Failure({"internal-error", "timeout-or-duplicate"})}
  \cup (IF token = "expired" THEN {Failure({"timeout-or-duplicate"})}
        ELSE IF secret # site THEN {Failure({"invalid-input-response", ""})}
        ELSE {Success(IF token = "fresh" THEN "login" ELSE "other")})

\* classifyTurnstileFailure: only codes about the token blame the browser.
ClassifyTurnstileFailure(codes) ==
  LET usable == codes \ {""}
  IN IF usable # {} /\ usable \subseteq ClientTokenErrors THEN "rejected" ELSE "unavailable"

\* Verify, of the answer.
VerdictOn(answer) ==
  IF ~answer.success THEN ClassifyTurnstileFailure(answer.codes)
  ELSE IF answer.action # "login" THEN "rejected"
  ELSE "admitted"

\* The deferred receive gives the slot back whatever happened.
SiteverifyAnswers(l) ==
  /\ login[l].at = "verify"
  /\ \E answer \in Siteverify(login[l].reading.settings.secret, login[l].token,
                              login[l].page.settings.site) :
       login' = [login EXCEPT ![l].at = VerdictOn(answer)]
  /\ slots' = slots - 1
  /\ UNCHANGED settingsVars

\* The login goes on to the password (LoginProtector) or is answered with an error.
LoginLeaves(l) ==
  /\ login[l].at \in Verdicts
  /\ login' = [login EXCEPT ![l] = NoLogin]
  /\ UNCHANGED <<settingsVars, slots>>

VerifyLogin(l) == ReadSettings(l) \/ TakeSlot(l) \/ SiteverifyAnswers(l) \/ LoginLeaves(l)

\* The process stops, and its requests with it.
RestartAll ==
  /\ Restart
  /\ login' = [l \in Logins |-> NoLogin]
  /\ slots' = 0

LoginStep ==
  \E l \in Logins : OpenPage(l) \/ VerifyLogin(l) \/ \E t \in TokenKinds : SendLogin(l, t)

TurnstileNext ==
  \/ SettingsStep /\ UNCHANGED loginVars
  \/ LoginStep
  \/ RestartAll

TurnstileSpec == TurnstileInit /\ [][TurnstileNext]_turnstileVars

\* A handler runs on; the call of the service ends within eight seconds.
LoginFairness == \A l \in Logins : WF_turnstileVars(VerifyLogin(l))

-----------------------------------------------------------------------------
(* Properties *)

TurnstileTypeOK ==
  /\ login \in [Logins -> Login]
  /\ slots \in 0 .. AdmissionSlots

\* Every call of the service holds exactly one slot, and nothing else does.
SlotsExact == slots = Cardinality({l \in Logins : login[l].at = "verify"})

\* ADVANCE_README: Turnstile follows the last fully applied snapshot.  A login is
\* judged by settings that were in force while it was handled: never by ones that
\* are saved and not applied, nor by ones that were replaced before it arrived.
JudgedInForce ==
  \A l \in Logins : login[l].reading.revision # 0 =>
    login[l].arrived <= login[l].reading.revision /\ login[l].reading.revision <= live

\* The check fails closed: a login is let through only when those settings do not
\* ask for Turnstile, or a fresh token was verified with their own secret.
FailsClosed ==
  \A l \in Logins : login[l].at = "admitted" =>
    \/ ~login[l].reading.settings.enabled
    \/ login[l].token = "fresh" /\ login[l].page.settings.site = login[l].reading.settings.secret

\* A browser is not blamed for what it did right: with a fresh token for the page's
\* site it is never rejected or asked for a token unless new settings were published
\* between its page and its login, and a broken service never counts as its failure.
HonestBrowserServed ==
  \A l \in Logins :
    login[l].at \in {"required", "rejected"} /\ login[l].token = "fresh" =>
      login[l].page.revision # login[l].reading.revision

\* Slots, settings and verdicts of all logins in every state.
TurnstileInv ==
  /\ TurnstileTypeOK
  /\ SlotsExact
  /\ JudgedInForce
  /\ FailsClosed
  /\ HonestBrowserServed

\* Every update, health request and login ends: the mutex, the probe and the slot it
\* took are given back, though updates fail, probes are taken away by invalidations
\* and the service does not answer.
RequestsEnd ==
  /\ UpdatesEnd
  /\ \A l \in Logins : []<>(login[l].at \in {"idle", "page"})
=============================================================================
