-------------------------- MODULE MCServerSettings --------------------------
(***************************************************************************)
(* A small instance of Turnstile (with the ServerSettings it extends) and  *)
(* of Bootstrap for TLC.  A behaviour explores updates of the settings and *)
(* the health of the upstream, or updates of the Turnstile settings beside *)
(* logins, or the bootstrap of the administrator; the first two happen in  *)
(* a server that is bootstrapped.  Requests, sites and passwords are       *)
(* numbers and are taken in order, probes are p1 and p2.                   *)
(***************************************************************************)
EXTENDS Turnstile, Bootstrap

CONSTANTS none, p1, p2

VARIABLE part   \* what a behaviour explores

allVars == <<turnstileVars, bootVars, part>>

Bootstrapped ==
  /\ pc = "serving" /\ credential = Absent
  /\ file = Absent /\ fileImages = {Absent}
  /\ account = [password |-> 11, enabledAdmin |-> TRUE] /\ dbImages = {account}
  /\ known = {11} /\ used = {} /\ reused = FALSE
  /\ crashes = 0 /\ failures = 0

MCInit ==
  /\ part \in {"settings", "logins", "bootstrap"}
  /\ TurnstileInit
  /\ saved = [enabled |-> part = "logins", site |-> saved.site, secret |-> saved.site]
  /\ saved.site = (IF part = "logins" THEN 1 ELSE NoSite)
  /\ IF part = "bootstrap" THEN BootstrapInit ELSE Bootstrapped

Of(parts, A) == part \in parts /\ A /\ UNCHANGED <<bootVars, part>>
OfBootstrap(A) == part = "bootstrap" /\ A /\ UNCHANGED <<turnstileVars, part>>

\* Beside health requests updates leave Turnstile off; beside logins they switch it,
\* or bring another pair of keys.
MCNext ==
  \/ Of({"settings"}, (Fills({{}}, Pointers(Keys)) \/ RunsOn) /\ UNCHANGED loginVars)
  \/ Of({"logins"}, (Fills(Pointers(BOOLEAN), {{}}) \/ Fills({{}}, Pointers(Sites)) \/ RunsOn)
                      /\ UNCHANGED loginVars)
  \/ Of({"logins"}, LoginStep)
  \/ Of({"settings", "logins"}, RestartAll)
  \/ OfBootstrap(BootstrapNext)

\* The fairness of SettingsFairSpec, LoginFairness and BootstrapFairSpec.
MCSpec ==
  /\ MCInit /\ [][MCNext]_allVars
  /\ \A a \in Admins : WF_allVars(Of({"settings", "logins"}, UpdateNext(a) /\ UNCHANGED loginVars))
  /\ \A p \in Probes : WF_allVars(Of({"settings"}, ProbeNext(p) /\ UNCHANGED loginVars))
  /\ \A v \in Viewers :
       /\ WF_allVars(Of({"settings"}, ViewerNext(v) /\ UNCHANGED loginVars))
       /\ SF_allVars(Of({"settings"}, AnswerFromCache(v) /\ UNCHANGED loginVars))
  /\ \A l \in Logins : WF_allVars(Of({"logins"}, VerifyLogin(l)))
  /\ WF_allVars(OfBootstrap(ServerStep))

-----------------------------------------------------------------------------
\* Names are interchangeable, so whoever arrives takes the first free one, and a
\* site key that is in no form and not saved is the first such.
FirstOf(names, free, taken) ==
  \A n \in names : n \in taken => \A m \in names : m \in free => m >= n

FormKeys == UNION {form[a].site \cup form[a].secret : a \in Admins}
LoginKeys == UNION {{r.settings.site, r.settings.secret} :
                    r \in {login[l].page : l \in Logins} \cup {login[l].reading : l \in Logins}}
SitesInUse == {saved.site, saved.secret, liveLogin.site, liveLogin.secret} \cup FormKeys \cup LoginKeys

NumberedOnArrival ==
  /\ FirstOf(Admins, {a \in Admins : stage[a] = "idle"},
             {a \in Admins : stage[a] = "idle" /\ stage'[a] = "filled"})
  /\ FirstOf(Viewers, {v \in Viewers : waits[v] = "idle"},
             {v \in Viewers : waits[v] = "idle" /\ waits'[v] = "looking"})
  /\ probe[p2].state # "read" /\ probe'[p2].state = "read"
       => \A v \in Viewers : waits[v] # p2 /\ waits'[v] = p2 => ~Unused(v, p1)
  /\ FirstOf(Sites, Sites \ SitesInUse, SitesInUse' \ SitesInUse)
  /\ FirstOf(Logins, {l \in Logins : login[l].at = "idle"},
             {l \in Logins : login[l].at = "idle" /\ login'[l].at = "page"})
  /\ FirstOf(RandomPasswords, RandomPasswords \ used, used' \ used)

\* Each edge keeps some of the dimensions still, so that their product stays small.
NoHealthAsked == cached = NoHealth /\ \A p \in Probes : probe[p] = FreeProbe /\ \A v \in Viewers : waits[v] = "idle"
OneUpdate == \A a \in Admins \ {1} : stage[a] = "idle"
OneUpdateOfOtherSettings ==
  OneUpdate /\ SitesInUse = {NoSite} /\ \A a \in Admins : form[a].site = {}

OneEdge ==
  /\ part # "settings" => NoHealthAsked /\ OneUpdate
  /\ part = "logins" =>
       /\ \A a \in Admins : form[a].enabled = {} /\ stage[a] = "filled" => form[a].secret # {}
       /\ \A l \in Logins \ {1} : login[l].token \in {"missing", "fresh"}
       /\ revision <= 2 \/ \A l \in Logins \ {1} : login[l] = NoLogin
  /\ part = "settings" =>
       \/ NoHealthAsked
       \/ OneUpdateOfOtherSettings /\ \A v \in Viewers \ {1} : waits[v] = "idle"
       \/ OneUpdateOfOtherSettings /\ revision <= 2
=============================================================================
