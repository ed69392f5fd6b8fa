-------------------------- MODULE ServerSettings --------------------------
(***************************************************************************)
(* The server settings that administrators change at run time              *)
(* (panel/settings.go, store/sqlite_settings.go), their way into the       *)
(* running components (ApplyServerSettings in app/server.go, the upstream  *)
(* client in grok/client.go) and the cached health of the upstream         *)
(* (panel/overview_health.go), which is about the settings in force.       *)
(*                                                                         *)
(* Updates exclude each other by a mutex; health requests and probes run   *)
(* beside them.  Of the settings only those of Turnstile are kept: they    *)
(* are what an update merges from what it was sent and what was stored,    *)
(* and what logins are judged by (Turnstile).  A component is represented  *)
(* by the revision it last took over.                                      *)
(***************************************************************************)
EXTENDS Integers, FiniteSets

CONSTANTS
  Admins,        \* update requests
  Viewers,       \* health requests
  Probes,        \* health probes in flight
  Sites,         \* Turnstile site keys; a secret is named after its site
  NoSite,        \* the empty string
  NoProbe,
  MaxRevision    \* bound on server_settings.revision

ASSUME SettingsConstants ==
  /\ MaxRevision \in Nat \ {0}
  /\ NoSite \notin Sites /\ NoProbe \notin Probes

VARIABLES
  saved,         \* the settings in the row of server_settings
  revision,      \* server_settings.revision
  unannounced,   \* history: was the row written after the health cache was last emptied?
  upstream,      \* the revision the upstream client runs with
  limits,        \* the revision the search limits come from
  metrics,       \* the revision the metrics switches come from
  live,          \* liveSettings: the revision of the published snapshot
  liveLogin,     \* liveSettings: its loginVerificationSettings
  holder,        \* settingsUpdateMutex: the administrators inside
  stage,         \* [Admins -> where the update is]
  form,          \* [Admins -> the request body]
  generation,    \* overviewHealthState.generation
  cached,        \* overviewHealthState.cachedResponse
  inFlight,      \* overviewHealthState.inFlightProbe
  probe,         \* [Probes -> what the probe goroutine holds]
  waits          \* [Viewers -> what the health request waits for]

rowVars == <<saved, revision, unannounced>>
componentVars == <<upstream, limits, metrics, live, liveLogin>>
adminVars == <<holder, stage, form>>
healthVars == <<generation, cached, inFlight, probe, waits>>
settingsVars == <<rowVars, componentVars, adminVars, healthVars>>

Keys == Sites \cup {NoSite}
Settings == [enabled : BOOLEAN, site : Keys, secret : Keys]
Revisions == 0 .. MaxRevision

\* The request body; {} is a field that was left out.
Form == [expected : Nat, enabled : SUBSET BOOLEAN, site : SUBSET Keys, secret : SUBSET Sites]
NoForm == [expected |-> 0, enabled |-> {}, site |-> {}, secret |-> {}]
AdminStages == {"idle", "filled", "persisted", "upstream", "limits", "metrics", "publish",
                "invalidate"}

\* What a probe found: the revision it read (0: none), whether it knows the state of
\* the upstream and then the revision its client ran with.
Unknown == [known |-> FALSE, read |-> 0, client |-> 0]
Health == [known : BOOLEAN, read : Nat, client : Nat]
NoHealth == {}
Probe == [state : {"free", "read", "compare", "list", "finish", "done"}, generation : Nat,
          health : Health]
FreeProbe == [state |-> "free", generation |-> 0, health |-> Unknown]

\* NormalizeServerSettings refuses to enable Turnstile without both keys.
ValidSettings(settings) == settings.enabled => settings.site # NoSite /\ settings.secret # NoSite

\* The server starts with what an earlier one stored.
SettingsInit ==
  /\ saved \in Settings /\ ValidSettings(saved)
  /\ saved.site = saved.secret
  /\ revision = 1 /\ unannounced = FALSE
  /\ upstream = 1 /\ limits = 1 /\ metrics = 1 /\ live = 1 /\ liveLogin = saved
  /\ holder = {}
  /\ stage = [a \in Admins |-> "idle"]
  /\ form = [a \in Admins |-> NoForm]
  /\ generation = 0
  /\ cached = NoHealth
  /\ inFlight = NoProbe
  /\ probe = [p \in Probes |-> FreeProbe]
  /\ waits = [v \in Viewers |-> "idle"]

GotoStage(a, s) == stage' = [stage EXCEPT ![a] = s]

-----------------------------------------------------------------------------
(* Updates *)

\* An administrator reads the settings and fills the form: a secret that is sent
\* belongs to the site that is sent, or else to the one on the screen.
Fill(a, enabled, site, withSecret) ==
  /\ stage[a] = "idle"
  /\ LET shown == saved.site
         meant == IF site = {} THEN {shown} ELSE site
     IN form' = [form EXCEPT ![a] =
                   [expected |-> revision, enabled |-> enabled, site |-> site,
                    secret |-> IF withSecret THEN meant \ {NoSite} ELSE {}]]
  /\ GotoStage(a, "filled")
  /\ UNCHANGED <<rowVars, componentVars, holder, healthVars>>

\* turnstileSiteKeyChangeRequiresSecret
SiteKeyChangeRequiresSecret(current, f) ==
  /\ f.site # {} /\ current.secret # NoSite
  /\ current.site \notin f.site
  /\ f.secret = {}

Or(pointer, otherwise) == IF pointer = {} THEN otherwise ELSE CHOOSE x \in pointer : TRUE

\* mergeServerSettingsRequest: an empty secret keeps the stored one.
MergeServerSettings(current, f) ==
  [enabled |-> Or(f.enabled, current.enabled),
   site |-> Or(f.site, current.site), secret |-> Or(f.secret, current.secret)]

\* The row is written when its revision is still the expected one (at start-up
\* nothing is expected), and counted.
UpsertServerSettings(settings, expected) ==
  /\ revision < MaxRevision
  /\ expected \subseteq {revision}
  /\ saved' = settings
  /\ revision' = revision + 1

\* adminUpdateServerSettings up to the store: the row is read, compared with the
\* expected version, merged and written under the mutex.
WriteRow(a) ==
  /\ stage[a] = "filled" /\ holder = {}
  /\ ~SiteKeyChangeRequiresSecret(saved, form[a])
  /\ ValidSettings(MergeServerSettings(saved, form[a]))
  /\ UpsertServerSettings(MergeServerSettings(saved, form[a]), {form[a].expected})
  /\ unannounced' = TRUE
  /\ form' = [form EXCEPT ![a] = NoForm]
  /\ UNCHANGED <<componentVars, healthVars>>

\* The stored row comes back and the update goes on under the mutex.
Persist(a) ==
  /\ WriteRow(a)
  /\ holder' = holder \cup {a}
  /\ GotoStage(a, "persisted")

\* The row is written, but what the statement returns cannot be scanned or decrypted,
\* or the request's context ends first: an error that neither empties the cache of
\* the health nor applies anything.
PersistFails(a) ==
  /\ WriteRow(a)
  /\ UNCHANGED holder
  /\ GotoStage(a, "idle")

\* A conflict, a refused form, or an error before the row was written.
Refuse(a) ==
  /\ stage[a] = "filled" /\ holder = {}
  /\ GotoStage(a, "idle")
  /\ form' = [form EXCEPT ![a] = NoForm]
  /\ UNCHANGED <<rowVars, componentVars, holder, healthVars>>

\* Mutant: the cache is emptied but its generation stays.
InvalidateHealth_SameGeneration ==
  /\ cached' = NoHealth /\ inFlight' = NoProbe /\ unannounced' = FALSE
  /\ UNCHANGED generation

\* invalidateOverviewHealthCache
InvalidateHealth ==
  /\ generation' = generation + 1
  /\ cached' = NoHealth
  /\ inFlight' = NoProbe
  /\ unannounced' = FALSE

InvalidateBefore(a) ==
  /\ stage[a] = "persisted"
  /\ InvalidateHealth
  /\ GotoStage(a, "upstream")
  /\ UNCHANGED <<saved, revision, componentVars, holder, form, probe, waits>>

\* The client cannot be built from the settings: saved, not applied.
ApplyFails(a) ==
  /\ stage[a] = "upstream"
  /\ holder' = {}
  /\ GotoStage(a, "idle")
  /\ UNCHANGED <<rowVars, componentVars, form, healthVars>>

\* Client.ApplyServerSettings swaps the connection under its own lock.
ApplyUpstream(a) ==
  /\ stage[a] = "upstream"
  /\ upstream' = revision
  /\ GotoStage(a, "limits")
  /\ UNCHANGED <<rowVars, limits, metrics, live, liveLogin, holder, form, healthVars>>

ApplyLimits(a) ==
  /\ stage[a] = "limits"
  /\ limits' = revision
  /\ GotoStage(a, "metrics")
  /\ UNCHANGED <<rowVars, upstream, metrics, live, liveLogin, holder, form, healthVars>>

ApplyMetrics(a) ==
  /\ stage[a] = "metrics"
  /\ metrics' = revision
  /\ GotoStage(a, "publish")
  /\ UNCHANGED <<rowVars, upstream, limits, live, liveLogin, holder, form, healthVars>>

\* publishLiveServerSettings: one atomic store switches login and version.
Publish(a) ==
  /\ stage[a] = "publish"
  /\ live' = revision /\ liveLogin' = saved
  /\ GotoStage(a, "invalidate")
  /\ UNCHANGED <<rowVars, upstream, limits, metrics, holder, form, healthVars>>

\* What a probe found while the revisions differed must not stay.
InvalidateAfter(a) ==
  /\ stage[a] = "invalidate"
  /\ InvalidateHealth
  /\ holder' = {}
  /\ GotoStage(a, "idle")
  /\ UNCHANGED <<saved, revision, componentVars, form, probe, waits>>

-----------------------------------------------------------------------------
(* Health *)

\* loadOverviewHealth looks at its cache first and whenever its probe is done.
Looks(v) == waits[v] = "looking" \/ (waits[v] \in Probes /\ probe[waits[v]].state = "done")

\* loadOverviewHealth finds a response that has not expired.
AnswerFromCache(v) ==
  /\ Looks(v) /\ cached # NoHealth
  /\ waits' = [waits EXCEPT ![v] = "idle"]
  /\ UNCHANGED <<rowVars, componentVars, adminVars, generation, cached, inFlight, probe>>

AskForHealth(v) ==
  /\ waits[v] = "idle"
  /\ waits' = [waits EXCEPT ![v] = "looking"]
  /\ UNCHANGED <<rowVars, componentVars, adminVars, generation, cached, inFlight, probe>>

JoinProbe(v) ==
  /\ Looks(v) /\ cached = NoHealth /\ inFlight # NoProbe
  /\ waits' = [waits EXCEPT ![v] = inFlight]
  /\ UNCHANGED <<rowVars, componentVars, adminVars, generation, cached, inFlight, probe>>

\* A finished goroutine that no other request waits for is gone; its name is used again.
Unused(v, p) ==
  \/ probe[p].state = "free"
  \/ probe[p].state = "done" /\ \A w \in Viewers \ {v} : waits[w] # p

StartProbe(v, p) ==
  /\ Looks(v) /\ cached = NoHealth /\ inFlight = NoProbe /\ Unused(v, p)
  /\ probe' = [probe EXCEPT ![p] = [FreeProbe EXCEPT !.state = "read", !.generation = generation]]
  /\ inFlight' = p
  /\ waits' = [waits EXCEPT ![v] = p]
  /\ UNCHANGED <<rowVars, componentVars, adminVars, generation, cached>>

\* evaluateOverviewHealth reads the stored settings.
ProbeReads(p) ==
  /\ probe[p].state = "read"
  /\ probe' = [probe EXCEPT ![p].state = "compare", ![p].health.read = revision]
  /\ UNCHANGED <<rowVars, componentVars, adminVars, generation, cached, inFlight, waits>>

\* The read fails or runs out of its five seconds: unknown.
ProbeReadFails(p) ==
  /\ probe[p].state = "read"
  /\ probe' = [probe EXCEPT ![p].state = "finish"]
  /\ UNCHANGED <<rowVars, componentVars, adminVars, generation, cached, inFlight, waits>>

Diverged(p) == probe[p].health.read # live

ProbeCompares(p) ==
  /\ probe[p].state = "compare"
  /\ probe' = [probe EXCEPT ![p] =
                 [@ EXCEPT !.state = IF Diverged(p) THEN "finish" ELSE "list"]]
  /\ UNCHANGED <<rowVars, componentVars, adminVars, generation, cached, inFlight, waits>>

\* ListModels takes the client of that moment.
ProbeLists(p) ==
  /\ probe[p].state = "list"
  /\ probe' = [probe EXCEPT ![p].state = "finish", ![p].health.known = TRUE,
                            ![p].health.client = upstream]
  /\ UNCHANGED <<rowVars, componentVars, adminVars, generation, cached, inFlight, waits>>

\* Mutant: an invalidated probe returns before it closes its channel.
ProbeFinishes_Silent(p) ==
  /\ probe[p].state = "finish"
  /\ generation = probe[p].generation
  /\ inFlight' = NoProbe
  /\ cached' = {probe[p].health}
  /\ probe' = [probe EXCEPT ![p] = [FreeProbe EXCEPT !.state = "done"]]
  /\ UNCHANGED <<rowVars, componentVars, adminVars, generation, waits>>

\* runOverviewHealthProbe: the response counts only for its own generation.
ProbeFinishes(p) ==
  /\ probe[p].state = "finish"
  /\ inFlight' = IF inFlight = p THEN NoProbe ELSE inFlight
  /\ cached' = IF generation = probe[p].generation THEN {probe[p].health} ELSE cached
  /\ probe' = [probe EXCEPT ![p] = [FreeProbe EXCEPT !.state = "done"]]
  /\ UNCHANGED <<rowVars, componentVars, adminVars, generation, waits>>

\* The browser goes away.
LeaveHealth(v) ==
  /\ waits[v] \in Probes
  /\ waits' = [waits EXCEPT ![v] = "idle"]
  /\ UNCHANGED <<rowVars, componentVars, adminVars, generation, cached, inFlight, probe>>

\* Thirty seconds have passed.
HealthExpires ==
  /\ cached # NoHealth
  /\ cached' = NoHealth
  /\ UNCHANGED <<rowVars, componentVars, adminVars, generation, inFlight, probe, waits>>

\* The process stops at any point; the next one saves the settings it found once
\* more (InitializeServerSettings) and starts every component from them.  A start
\* that fails after it has written the row is one that is stopped at once.
Restart ==
  /\ UpsertServerSettings(saved, {})
  /\ unannounced' = FALSE
  /\ upstream' = revision + 1 /\ limits' = revision + 1 /\ metrics' = revision + 1
  /\ live' = revision + 1 /\ liveLogin' = saved
  /\ holder' = {}
  /\ stage' = [a \in Admins |-> "idle"]
  /\ form' = [a \in Admins |-> NoForm]
  /\ generation' = 0 /\ cached' = NoHealth /\ inFlight' = NoProbe
  /\ probe' = [p \in Probes |-> FreeProbe]
  /\ waits' = [v \in Viewers |-> "idle"]

UpdateNext(a) ==
  \/ Persist(a) \/ PersistFails(a) \/ Refuse(a) \/ InvalidateBefore(a) \/ ApplyFails(a)
  \/ ApplyUpstream(a) \/ ApplyLimits(a) \/ ApplyMetrics(a) \/ Publish(a) \/ InvalidateAfter(a)

ProbeNext(p) ==
  \/ ProbeReads(p) \/ ProbeReadFails(p) \/ ProbeCompares(p) \/ ProbeLists(p) \/ ProbeFinishes(p)

ViewerNext(v) ==
  \/ AnswerFromCache(v) \/ JoinProbe(v)
  \/ \E p \in Probes : StartProbe(v, p)

Pointers(S) == {{}} \cup {{x} : x \in S}

Fills(switches, sites) ==
  \E a \in Admins, on \in switches, site \in sites, b \in BOOLEAN : Fill(a, on, site, b)

RunsOn ==
  \/ \E a \in Admins : UpdateNext(a)
  \/ \E v \in Viewers : ViewerNext(v) \/ AskForHealth(v) \/ LeaveHealth(v)
  \/ \E p \in Probes : ProbeNext(p)
  \/ HealthExpires

\* What happens while the process runs.
SettingsStep == Fills(Pointers(BOOLEAN), Pointers(Keys)) \/ RunsOn

SettingsNext == SettingsStep \/ Restart

SettingsSpec == SettingsInit /\ [][SettingsNext]_settingsVars

\* Handlers and probes run on (a probe has five seconds), and a request that is
\* woken looks at the cache again before thirty seconds have passed.
SettingsFairSpec ==
  /\ SettingsSpec
  /\ \A a \in Admins : WF_settingsVars(UpdateNext(a))
  /\ \A p \in Probes : WF_settingsVars(ProbeNext(p))
  /\ \A v \in Viewers : WF_settingsVars(ViewerNext(v)) /\ SF_settingsVars(AnswerFromCache(v))

-----------------------------------------------------------------------------
(* Properties *)

\* The revisions, the updates and the health state keep their types.
SettingsTypeOK ==
  /\ saved \in Settings
  /\ revision \in Revisions /\ unannounced \in BOOLEAN
  /\ upstream \in Revisions /\ limits \in Revisions /\ metrics \in Revisions
  /\ live \in Revisions /\ liveLogin \in Settings
  /\ holder \in SUBSET Admins /\ Cardinality(holder) <= 1
  /\ stage \in [Admins -> AdminStages]
  /\ form \in [Admins -> Form]
  /\ generation \in Nat
  /\ cached \subseteq Health /\ Cardinality(cached) <= 1
  /\ inFlight \in Probes \cup {NoProbe}
  /\ probe \in [Probes -> Probe]
  /\ waits \in [Viewers -> Probes \cup {"idle", "looking"}]

\* ADVANCE_README: the login path switches only after the complete revision was
\* applied.  A component may run ahead of the published revision, never behind it,
\* so a panel that shows equal versions shows settings that are in force.
LoginSwitchesLast == live <= upstream /\ live <= limits /\ live <= metrics

\* Administrators who each send a secret for the site they saw never leave a site
\* with the secret of another, whichever of their forms are merged or refused, in
\* the row or in the published snapshot, and Turnstile is never on without both.
KeyPairMatches ==
  \A settings \in {saved, liveLogin} :
    /\ ValidSettings(settings)
    /\ settings.site # NoSite /\ settings.secret # NoSite => settings.site = settings.secret

\* A cached verdict on the upstream is about the settings in force, the model that was
\* read and the client that was asked, at every point of an update.  They are the
\* stored settings too, but for a row that was written by an update that answered
\* with an error: its revision stays ahead of the live one, so the panel shows it.
HealthOfSettingsInForce ==
  /\ \A h \in cached : h.known =>
       h.read = live /\ h.client = live /\ (live = revision \/ unannounced)
  /\ unannounced => live < revision

\* Between updates a probe that could read the settings leaves "unknown" in the cache
\* only while saved settings are not in force: what it saw of an update that has
\* been applied since is taken back by the second invalidation.
UnknownMeansDiverged ==
  holder = {} => \A h \in cached : ~h.known /\ h.read # 0 => live # revision

\* What the panel shows is true: equal versions mean settings in force, a known health
\* is of them, a row that was written behind an error shows as diverged, "unknown"
\* means that too between updates, and the keys that are shown and used for
\* Turnstile belong together.
SettingsInv ==
  /\ SettingsTypeOK
  /\ KeyPairMatches
  /\ LoginSwitchesLast
  /\ HealthOfSettingsInForce
  /\ UnknownMeansDiverged

\* Every settings update ends and lets go of the mutex, also when the upstream client
\* refuses what was saved, and every health request is answered or leaves, though
\* invalidations take away the probe it waits for (the loop of loadOverviewHealth).
UpdatesEnd ==
  /\ \A a \in Admins : []<>(stage[a] = "idle")
  /\ \A v \in Viewers : []<>(waits[v] = "idle")
=============================================================================
