------------------------- MODULE ServerSettingsProofs -------------------------
(***************************************************************************)
(* What the server settings, the Turnstile check and the bootstrap of the  *)
(* administrator guarantee for every number of administrators, browsers,   *)
(* probes, logins, slots, revisions and stops of the server.               *)
(***************************************************************************)
EXTENDS Turnstile, Bootstrap, FiniteSetTheorems, TLAPS

-----------------------------------------------------------------------------
(* Updates of the settings.  The administrator inside the mutex carries the *)
(* new revision from component to component; how far it has come bounds    *)
(* what each of them runs with.                                            *)

UpdateTypes ==
    /\ saved \in Settings /\ liveLogin \in Settings
    /\ revision \in Nat /\ revision <= MaxRevision /\ unannounced \in BOOLEAN
    /\ upstream \in Nat /\ limits \in Nat /\ metrics \in Nat /\ live \in Nat
    /\ stage \in [Admins -> AdminStages]
    /\ form \in [Admins -> Form]

\* A site key and a secret, if both are there, belong together.
Paired(settings) ==
    /\ ValidSettings(settings)
    /\ settings.site # NoSite /\ settings.secret # NoSite => settings.site = settings.secret

\* Who is past the store holds the mutex, alone.
MutexInv ==
    /\ holder = {a \in Admins : stage[a] \in AdminStages \ {"idle", "filled"}}
    /\ \A a \in holder : \A b \in holder : a = b

RevisionsInv ==
    /\ 1 <= live /\ live <= upstream /\ live <= limits /\ live <= metrics
    /\ upstream <= revision /\ limits <= revision /\ metrics <= revision
    /\ \A a \in Admins :
          /\ stage[a] \in {"persisted", "upstream", "limits", "metrics", "publish"} => live < revision
          /\ stage[a] \in {"limits", "metrics", "publish"} => upstream = revision
          /\ stage[a] \in {"metrics", "publish"} => limits = revision
          /\ stage[a] = "publish" => metrics = revision
          /\ stage[a] = "invalidate" => live = revision
          /\ stage[a] = "persisted" => unannounced
          /\ stage[a] \in {"upstream", "limits", "metrics", "publish", "invalidate"} => ~unannounced
    /\ unannounced => live < revision
    /\ (\A a \in Admins : stage[a] \notin {"limits", "metrics", "publish"}) => upstream = live

\* The site a form's secret is for: the one it brings, or else the one on the screen.
MeantSites(current, f) == IF f.site = {} THEN {current.site} ELSE f.site

\* A form that would still be accepted brings a secret of the site it means.
FormInv(f) ==
    /\ f.expected <= revision
    /\ \A s \in f.site : \A t \in f.site : s = t
    /\ f.expected = revision => f.secret \subseteq MeantSites(saved, f)

FormsInv == \A a \in Admins : stage[a] = "filled" => FormInv(form[a])

IUpdates ==
    /\ UpdateTypes
    /\ Paired(saved) /\ Paired(liveLogin)
    /\ MutexInv
    /\ RevisionsInv
    /\ FormsInv

\* A field that was sent replaces the stored one (mergeServerSettingsRequest).
LEMMA OrChooses ==
    ASSUME NEW pointer, NEW otherwise
    PROVE  IF pointer = {} THEN Or(pointer, otherwise) = otherwise ELSE Or(pointer, otherwise) \in pointer
BY DEF Or

\* A merged form that is accepted leaves no site with the secret of another
\* (turnstileSiteKeyChangeRequiresSecret).
LEMMA MergeIsPaired ==
    ASSUME NEW current \in Settings, Paired(current), NEW f \in Form,
           \A s \in f.site : \A t \in f.site : s = t,
           f.secret \subseteq MeantSites(current, f),
           ~SiteKeyChangeRequiresSecret(current, f),
           ValidSettings(MergeServerSettings(current, f))
    PROVE  MergeServerSettings(current, f) \in Settings /\ Paired(MergeServerSettings(current, f))
<1>1. PICK new : new = MergeServerSettings(current, f)
    OBVIOUS
<1>2. /\ f.enabled \subseteq BOOLEAN /\ f.site \subseteq Keys /\ f.secret \subseteq Sites
      /\ current.enabled \in BOOLEAN /\ current.site \in Keys /\ current.secret \in Keys
      /\ Sites \subseteq Keys
    BY DEF Form, Settings, Keys
<1>3. /\ new = [enabled |-> Or(f.enabled, current.enabled), site |-> Or(f.site, current.site),
                secret |-> Or(f.secret, current.secret)]
    BY <1>1 DEF MergeServerSettings
<1>4. /\ Or(f.enabled, current.enabled) \in BOOLEAN
      /\ IF f.site = {} THEN new.site = current.site ELSE new.site \in f.site
      /\ IF f.secret = {} THEN new.secret = current.secret ELSE new.secret \in f.secret
    BY <1>2, <1>3, OrChooses
<1>5. new \in Settings
    <2>1. Or(f.site, current.site) \in Keys /\ Or(f.secret, current.secret) \in Keys
        BY <1>2, OrChooses
    <2> QED BY <1>3, <1>4, <2>1 DEF Settings
<1>6. ASSUME new.site # NoSite, new.secret # NoSite PROVE new.site = new.secret
    <2>1. CASE f.secret # {}
        <3>1. new.secret \in MeantSites(current, f)
            BY <1>4, <2>1
        <3> QED BY <1>4, <3>1 DEF MeantSites
    <2>2. CASE f.secret = {}
        <3>1. new.secret = current.secret /\ current.secret # NoSite
            BY <1>4, <1>6, <2>2
        <3>2. f.site = {} \/ current.site \in f.site
            BY <2>2, <3>1 DEF SiteKeyChangeRequiresSecret
        <3>3. new.site = current.site
            BY <1>4, <3>2
        <3> QED BY <1>6, <3>1, <3>3 DEF Paired
    <2> QED BY <2>1, <2>2
<1> QED BY <1>1, <1>5, <1>6 DEF Paired

LEMMA FillKeeps ==
    ASSUME IUpdates, NEW a \in Admins, NEW enabled \in Pointers(BOOLEAN), NEW site \in Pointers(Keys),
           NEW withSecret \in BOOLEAN, Fill(a, enabled, site, withSecret)
    PROVE  IUpdates'
<1>1. PICK meant : meant = IF site = {} THEN {saved.site} ELSE site
    OBVIOUS
<1>2. PICK f : f = [expected |-> revision, enabled |-> enabled, site |-> site,
                    secret |-> IF withSecret THEN meant \ {NoSite} ELSE {}]
    OBVIOUS
<1>3. /\ stage[a] = "idle"
      /\ form' = [form EXCEPT ![a] = f] /\ stage' = [stage EXCEPT ![a] = "filled"]
      /\ UNCHANGED <<saved, revision, unannounced, upstream, limits, metrics, live, liveLogin, holder>>
    BY <1>1, <1>2 DEF Fill, GotoStage, rowVars, componentVars
<1>4. /\ enabled \subseteq BOOLEAN /\ site \subseteq Keys /\ \A s \in site : \A t \in site : s = t
    BY DEF Pointers
<1>5. meant \ {NoSite} \subseteq Sites /\ revision \in Nat
    BY <1>1, <1>4 DEF IUpdates, UpdateTypes, Settings, Keys
<1>6. f \in Form
    BY <1>2, <1>4, <1>5 DEF Form
<1>7. UpdateTypes'
    BY <1>3, <1>6 DEF IUpdates, UpdateTypes, AdminStages
<1>8. MutexInv'
    BY <1>3 DEF IUpdates, UpdateTypes, MutexInv, AdminStages
<1>9. RevisionsInv'
    BY <1>3 DEF IUpdates, UpdateTypes, RevisionsInv
<1>10. FormInv(f)
    BY <1>1, <1>2, <1>4, <1>5 DEF FormInv, MeantSites
<1>11. FormsInv'
    BY <1>3, <1>10 DEF IUpdates, UpdateTypes, FormsInv, FormInv, MeantSites
<1> QED BY <1>3, <1>7, <1>8, <1>9, <1>11 DEF IUpdates, Paired, ValidSettings

LEMMA RefuseKeeps ==
    ASSUME IUpdates, NEW a \in Admins, Refuse(a)
    PROVE  IUpdates'
<1>1. /\ stage[a] = "filled"
      /\ form' = [form EXCEPT ![a] = NoForm] /\ stage' = [stage EXCEPT ![a] = "idle"]
      /\ UNCHANGED <<saved, revision, unannounced, upstream, limits, metrics, live, liveLogin, holder>>
    BY DEF Refuse, GotoStage, rowVars, componentVars
<1>2. NoForm \in Form
    BY DEF NoForm, Form
<1>3. UpdateTypes'
    BY <1>1, <1>2 DEF IUpdates, UpdateTypes, AdminStages
<1>4. MutexInv'
    BY <1>1 DEF IUpdates, UpdateTypes, MutexInv, AdminStages
<1>5. RevisionsInv'
    BY <1>1 DEF IUpdates, UpdateTypes, RevisionsInv
<1>6. FormsInv'
    BY <1>1 DEF IUpdates, UpdateTypes, FormsInv, FormInv, MeantSites
<1> QED BY <1>1, <1>3, <1>4, <1>5, <1>6 DEF IUpdates, Paired, ValidSettings

\* The row is written, whether the update goes on or has to answer with an error.
LEMMA WriteKeeps ==
    ASSUME IUpdates, NEW a \in Admins, Persist(a) \/ PersistFails(a)
    PROVE  /\ IUpdates' /\ live < revision' /\ unannounced'
           /\ UNCHANGED <<live, liveLogin, healthVars>>
<1>0. PICK next : next = IF holder' = {} THEN "idle" ELSE "persisted"
    OBVIOUS
<1>1. PICK new : new = MergeServerSettings(saved, form[a])
    OBVIOUS
<1>2. /\ stage[a] = "filled" /\ holder = {} /\ form[a].expected = revision
      /\ ~SiteKeyChangeRequiresSecret(saved, form[a]) /\ ValidSettings(new)
      /\ revision < MaxRevision /\ revision' = revision + 1 /\ saved' = new /\ unannounced' = TRUE
      /\ form' = [form EXCEPT ![a] = NoForm]
      /\ UNCHANGED <<upstream, limits, metrics, live, liveLogin, healthVars>>
    BY <1>1 DEF Persist, PersistFails, WriteRow, UpsertServerSettings, componentVars
<1>2a. /\ stage' = [stage EXCEPT ![a] = next]
       /\ (next = "idle" /\ holder' = {}) \/ (next = "persisted" /\ holder' = {a})
    BY <1>0, <1>2 DEF Persist, PersistFails, GotoStage
<1>3. NoForm \in Form
    BY DEF NoForm, Form
<1>4. new \in Settings /\ Paired(new)
    BY <1>1, <1>2, MergeIsPaired DEF IUpdates, UpdateTypes, FormsInv, FormInv
<1>5. UpdateTypes'
    BY <1>2, <1>2a, <1>3, <1>4, SettingsConstants DEF IUpdates, UpdateTypes, AdminStages
<1>6. \A b \in Admins : stage[b] \in {"idle", "filled"}
    BY <1>2 DEF IUpdates, UpdateTypes, MutexInv
<1>7. MutexInv'
    BY <1>2, <1>2a, <1>6 DEF IUpdates, UpdateTypes, MutexInv, AdminStages
<1>8. RevisionsInv' /\ live < revision'
    <2>1. upstream = live
        BY <1>6 DEF IUpdates, RevisionsInv
    <2>2. \A b \in Admins : stage'[b] \in {"idle", "filled", "persisted"}
        BY <1>2a, <1>6 DEF IUpdates, UpdateTypes
    <2> QED BY <1>2, <2>1, <2>2 DEF IUpdates, UpdateTypes, RevisionsInv
<1>9. ASSUME NEW b \in Admins, stage'[b] = "filled" PROVE FormInv(form[b])' /\ form'[b] = form[b]
    <2>1. b # a /\ stage[b] = "filled" /\ form'[b] = form[b]
        BY <1>2, <1>2a, <1>9 DEF IUpdates, UpdateTypes
    <2>2. FormInv(form[b]) /\ form[b].expected \in Nat /\ revision \in Nat
        BY <2>1 DEF IUpdates, FormsInv, UpdateTypes, Form
    <2> QED BY <1>2, <2>1, <2>2 DEF FormInv
<1>10. FormsInv'
    BY <1>9 DEF FormsInv, FormInv
<1> QED BY <1>2, <1>4, <1>5, <1>7, <1>8, <1>10 DEF IUpdates, Paired, ValidSettings

\* The steps of an update between the store and the release of the mutex.
LEMMA InvalidateBeforeKeeps ==
    ASSUME IUpdates, NEW a \in Admins, InvalidateBefore(a)
    PROVE  IUpdates' /\ stage' = [stage EXCEPT ![a] = "upstream"] /\ a \in holder /\ holder' = holder
<1>1. /\ stage[a] = "persisted" /\ stage' = [stage EXCEPT ![a] = "upstream"]
      /\ UNCHANGED <<saved, revision, upstream, limits, metrics, live, liveLogin, holder, form>>
    BY DEF InvalidateBefore, GotoStage, componentVars
<1>1a. unannounced' \in BOOLEAN /\ ~unannounced'
    BY DEF InvalidateBefore, InvalidateHealth
<1>2. UpdateTypes'
    BY <1>1, <1>1a DEF IUpdates, UpdateTypes, AdminStages
<1>3. MutexInv' /\ a \in holder
    BY <1>1 DEF IUpdates, UpdateTypes, MutexInv, AdminStages
<1>4. RevisionsInv'
    <2>1. \A b \in Admins \ {a} : stage[b] \in {"idle", "filled"}
        BY <1>1 DEF IUpdates, UpdateTypes, MutexInv, AdminStages
    <2> QED BY <1>1, <1>1a, <2>1 DEF IUpdates, UpdateTypes, RevisionsInv
<1>5. FormsInv'
    BY <1>1 DEF IUpdates, UpdateTypes, FormsInv, FormInv, MeantSites
<1> QED BY <1>1, <1>2, <1>3, <1>4, <1>5 DEF IUpdates, Paired, ValidSettings

\* Who ends an update leaves the mutex free.
LEMMA ReleaseKeeps ==
    ASSUME IUpdates, NEW a \in Admins, ApplyFails(a) \/ InvalidateAfter(a)
    PROVE  /\ IUpdates' /\ holder = {a} /\ holder' = {} /\ stage' = [stage EXCEPT ![a] = "idle"]
           /\ UNCHANGED <<revision, live, liveLogin>>
<1>1. /\ stage[a] \in {"upstream", "invalidate"} /\ holder' = {} /\ stage' = [stage EXCEPT ![a] = "idle"]
      /\ unannounced' = FALSE
      /\ UNCHANGED <<saved, revision, upstream, limits, metrics, live, liveLogin, form>>
    BY DEF ApplyFails, InvalidateAfter, InvalidateHealth, GotoStage, rowVars, componentVars, IUpdates,
           UpdateTypes, RevisionsInv
<1>2. holder = {a}
    BY <1>1 DEF IUpdates, MutexInv, AdminStages
<1>3. UpdateTypes'
    BY <1>1 DEF IUpdates, UpdateTypes, AdminStages
<1>4. MutexInv'
    BY <1>1, <1>2 DEF IUpdates, UpdateTypes, MutexInv, AdminStages
<1>5. RevisionsInv'
    BY <1>1 DEF IUpdates, UpdateTypes, RevisionsInv
<1>6. FormsInv'
    BY <1>1 DEF IUpdates, UpdateTypes, FormsInv, FormInv, MeantSites
<1> QED BY <1>1, <1>2, <1>3, <1>4, <1>5, <1>6 DEF IUpdates, Paired, ValidSettings

\* The components take over the revision one after the other, the login last.
LEMMA ApplyKeeps ==
    ASSUME IUpdates, NEW a \in Admins,
           ApplyUpstream(a) \/ ApplyLimits(a) \/ ApplyMetrics(a) \/ Publish(a)
    PROVE  /\ IUpdates' /\ holder # {} /\ UNCHANGED <<revision, unannounced, holder, healthVars>>
           /\ ~unannounced /\ live < revision
<1>1. /\ stage[a] \in {"upstream", "limits", "metrics", "publish"}
      /\ UNCHANGED <<saved, revision, unannounced, holder, form, healthVars>>
    BY DEF ApplyUpstream, ApplyLimits, ApplyMetrics, Publish, rowVars
<1>2. \A b \in Admins \ {a} : stage[b] \in {"idle", "filled"}
    BY <1>1 DEF IUpdates, UpdateTypes, MutexInv, AdminStages
<1>3. /\ stage \in [Admins -> AdminStages] /\ UpdateTypes /\ RevisionsInv
      /\ live < revision /\ ~unannounced
    BY <1>1 DEF IUpdates, UpdateTypes, RevisionsInv
<1>4. CASE ApplyUpstream(a)
    <2>1. /\ stage[a] = "upstream" /\ stage' = [stage EXCEPT ![a] = "limits"] /\ upstream' = revision
          /\ UNCHANGED <<limits, metrics, live, liveLogin>>
        BY <1>4 DEF ApplyUpstream, GotoStage
    <2>2. UpdateTypes' /\ MutexInv'
        BY <1>1, <2>1 DEF IUpdates, UpdateTypes, MutexInv, AdminStages
    <2>3. RevisionsInv'
        BY <1>1, <1>2, <1>3, <2>1 DEF UpdateTypes, RevisionsInv
    <2>4. FormsInv'
        BY <1>1, <1>2, <1>3, <2>1 DEF IUpdates, FormsInv, FormInv, MeantSites
    <2> QED BY <1>1, <1>3, <2>1, <2>2, <2>3, <2>4 DEF IUpdates, Paired, ValidSettings, MutexInv, AdminStages
<1>5. CASE ApplyLimits(a)
    <2>1. /\ stage[a] = "limits" /\ stage' = [stage EXCEPT ![a] = "metrics"] /\ limits' = revision
          /\ UNCHANGED <<upstream, metrics, live, liveLogin>>
        BY <1>5 DEF ApplyLimits, GotoStage
    <2>2. UpdateTypes' /\ MutexInv'
        BY <1>1, <2>1 DEF IUpdates, UpdateTypes, MutexInv, AdminStages
    <2>3. RevisionsInv'
        BY <1>1, <1>2, <1>3, <2>1 DEF UpdateTypes, RevisionsInv
    <2>4. FormsInv'
        BY <1>1, <1>2, <1>3, <2>1 DEF IUpdates, FormsInv, FormInv, MeantSites
    <2> QED BY <1>1, <1>3, <2>1, <2>2, <2>3, <2>4 DEF IUpdates, Paired, ValidSettings, MutexInv, AdminStages
<1>6. CASE ApplyMetrics(a)
    <2>1. /\ stage[a] = "metrics" /\ stage' = [stage EXCEPT ![a] = "publish"] /\ metrics' = revision
          /\ UNCHANGED <<upstream, limits, live, liveLogin>>
        BY <1>6 DEF ApplyMetrics, GotoStage
    <2>2. UpdateTypes' /\ MutexInv'
        BY <1>1, <2>1 DEF IUpdates, UpdateTypes, MutexInv, AdminStages
    <2>3. RevisionsInv'
        BY <1>1, <1>2, <1>3, <2>1 DEF UpdateTypes, RevisionsInv
    <2>4. FormsInv'
        BY <1>1, <1>2, <1>3, <2>1 DEF IUpdates, FormsInv, FormInv, MeantSites
    <2> QED BY <1>1, <1>3, <2>1, <2>2, <2>3, <2>4 DEF IUpdates, Paired, ValidSettings, MutexInv, AdminStages
<1>7. CASE Publish(a)
    <2>1. /\ stage[a] = "publish" /\ stage' = [stage EXCEPT ![a] = "invalidate"]
          /\ live' = revision /\ liveLogin' = saved
          /\ UNCHANGED <<upstream, limits, metrics>>
        BY <1>7 DEF Publish, GotoStage
    <2>2. UpdateTypes' /\ MutexInv'
        BY <1>1, <2>1 DEF IUpdates, UpdateTypes, MutexInv, AdminStages
    <2>3. RevisionsInv'
        BY <1>1, <1>2, <1>3, <2>1 DEF UpdateTypes, RevisionsInv
    <2>4. FormsInv'
        BY <1>1, <1>2, <1>3, <2>1 DEF IUpdates, FormsInv, FormInv, MeantSites
    <2> QED BY <1>1, <1>3, <2>1, <2>2, <2>3, <2>4 DEF IUpdates, Paired, ValidSettings, MutexInv, AdminStages
<1> QED BY <1>4, <1>5, <1>6, <1>7

\* The next process starts from the row.
LEMMA RestartKeepsUpdates == ASSUME IUpdates, Restart PROVE IUpdates' /\ live' > live /\ holder' = {}
<1>1. /\ revision < MaxRevision /\ revision' = revision + 1 /\ saved' = saved /\ liveLogin' = saved
      /\ upstream' = revision + 1 /\ limits' = revision + 1 /\ metrics' = revision + 1
      /\ live' = revision + 1 /\ holder' = {}
      /\ stage' = [a \in Admins |-> "idle"] /\ form' = [a \in Admins |-> NoForm]
    BY DEF Restart, UpsertServerSettings
<1>2. NoForm \in Form
    BY DEF NoForm, Form
<1>2a. unannounced' \in BOOLEAN /\ ~unannounced'
    BY DEF Restart
<1>3. UpdateTypes'
    BY <1>1, <1>2, <1>2a, SettingsConstants DEF IUpdates, UpdateTypes, AdminStages
<1>4. MutexInv' /\ RevisionsInv' /\ FormsInv' /\ live' > live
    BY <1>1, <1>2a DEF IUpdates, UpdateTypes, MutexInv, RevisionsInv, FormsInv, AdminStages
<1> QED BY <1>1, <1>3, <1>4 DEF IUpdates, Paired, ValidSettings

LEMMA SameUpdates ==
    ASSUME IUpdates, UNCHANGED <<rowVars, componentVars, adminVars>>
    PROVE  IUpdates'
BY DEF rowVars, componentVars, adminVars, IUpdates, UpdateTypes, Paired, ValidSettings, MutexInv, RevisionsInv,
       FormsInv, FormInv, MeantSites

LEMMA UpdatesInit == SettingsInit => IUpdates
<1> SUFFICES ASSUME SettingsInit PROVE IUpdates
    OBVIOUS
<1>1. NoForm \in Form
    BY DEF NoForm, Form
<1>1a. unannounced \in BOOLEAN /\ ~unannounced
    BY DEF SettingsInit
<1>2. UpdateTypes
    BY <1>1, <1>1a, SettingsConstants DEF SettingsInit, UpdateTypes, AdminStages
<1>3. MutexInv /\ RevisionsInv /\ FormsInv
    BY <1>1a DEF SettingsInit, MutexInv, RevisionsInv, FormsInv, AdminStages
<1> QED BY <1>2, <1>3 DEF SettingsInit, IUpdates, Paired

-----------------------------------------------------------------------------
(* The health of the upstream.  What counts is of the present generation,   *)
(* which began with the last invalidation: what was live has changed since *)
(* then only while nothing known had been found, and a row was written     *)
(* since then only if it is still unannounced.                             *)

HealthTypes ==
    /\ generation \in Nat
    /\ cached \subseteq Health /\ Cardinality(cached) <= 1
    /\ inFlight \in Probes \cup {NoProbe}
    /\ probe \in [Probes -> Probe]
    /\ waits \in [Viewers -> Probes \cup {"idle", "looking"}]

\* A probe whose response will count (runOverviewHealthProbe).
Current(p) == probe[p].state \notin {"free", "done"} /\ probe[p].generation = generation

\* A known health is of the settings in force.
Sound(h) == h.known => h.read = live /\ h.client = live

\* What was read is what is stored.
OfTheRow(h) == h.read = 0 \/ h.read = revision

Justified(h) == ~h.known /\ h.read # 0 => live # revision

ProbesInv ==
    \A p \in Probes :
        /\ probe[p].generation <= generation
        /\ probe[p].state = "read" => probe[p].health = Unknown

SoundInv ==
    /\ \A h \in cached : Sound(h)
    /\ \A p \in Probes : Current(p) =>
          /\ Sound(probe[p].health)
          /\ probe[p].state = "list" => probe[p].health.read = live

\* Between the write of a row and the next invalidation an older row may have been read.
RowInv ==
    /\ \A h \in cached : OfTheRow(h)
    /\ \A p \in Probes : Current(p) =>
          /\ OfTheRow(probe[p].health)
          /\ probe[p].state \in {"compare", "list"} => probe[p].health.read = revision

JustifiedInv ==
    /\ \A h \in cached : Justified(h)
    /\ \A p \in Probes : Current(p) /\ probe[p].state = "finish" => Justified(probe[p].health)

IHealth ==
    /\ HealthTypes
    /\ ProbesInv
    /\ SoundInv
    /\ ~unannounced => RowInv
    /\ holder = {} => JustifiedInv

\* An invalidation leaves nothing that counts.
LEMMA Invalidated ==
    ASSUME IHealth, InvalidateHealth, UNCHANGED <<probe, waits>>
    PROVE  IHealth'
<1>1. generation' = generation + 1 /\ cached' = {} /\ inFlight' = NoProbe /\ generation \in Nat
    BY DEF InvalidateHealth, NoHealth, IHealth, HealthTypes
<1>2. HealthTypes'
    <2>1. Cardinality({}) = 0
        BY FS_EmptySet
    <2> QED BY <1>1, <2>1 DEF IHealth, HealthTypes
<1>3. \A p \in Probes : probe[p].generation \in Nat /\ probe[p].generation <= generation
    BY DEF IHealth, HealthTypes, ProbesInv, Probe
<1>4. ProbesInv' /\ \A p \in Probes : ~Current(p)'
    BY <1>1, <1>3 DEF IHealth, ProbesInv, Current
<1>5. SoundInv' /\ RowInv' /\ JustifiedInv'
    BY <1>1, <1>4 DEF SoundInv, RowInv, JustifiedInv
<1> QED BY <1>2, <1>4, <1>5 DEF IHealth

\* An update that publishes nothing.
LEMMA UpdateKeepsHealth ==
    ASSUME IHealth, UNCHANGED <<live, healthVars>>,
           ~unannounced' => ~unannounced /\ revision' = revision,
           holder' = {} => (holder = {} /\ revision' = revision) \/ live # revision'
    PROVE  IHealth'
<1>1. HealthTypes' /\ ProbesInv'
    BY DEF IHealth, HealthTypes, ProbesInv, healthVars
<1>2. \A p \in Probes : Current(p)' = Current(p)
    BY DEF Current, healthVars
<1>3. SoundInv'
    BY <1>2 DEF IHealth, SoundInv, Sound, healthVars
<1>4. ~unannounced' => RowInv'
    BY <1>2 DEF IHealth, RowInv, OfTheRow, healthVars
<1>5. holder' = {} => JustifiedInv'
    BY <1>2 DEF IHealth, JustifiedInv, Justified, healthVars
<1> QED BY <1>1, <1>3, <1>4, <1>5 DEF IHealth

\* Before a revision is published nobody who read it found it in force.
LEMMA PublishKeepsHealth ==
    ASSUME IHealth, UNCHANGED <<revision, unannounced, holder, healthVars>>, ~unannounced, holder # {},
           live \in Nat, revision \in Nat, 1 <= live, live < revision
    PROVE  IHealth'
<1>1. HealthTypes' /\ ProbesInv'
    BY DEF IHealth, HealthTypes, ProbesInv, healthVars
<1>2. \A p \in Probes : Current(p)' = Current(p)
    BY DEF Current, healthVars
<1>3. RowInv /\ SoundInv
    BY DEF IHealth
<1>4. ASSUME NEW h, Sound(h), OfTheRow(h) PROVE ~h.known
    BY <1>4 DEF Sound, OfTheRow
<1>5. \A h \in cached : Sound(h)'
    BY <1>3, <1>4 DEF SoundInv, RowInv, Sound
<1>6. ASSUME NEW p \in Probes, Current(p)
      PROVE  Sound(probe[p].health)' /\ probe[p].state # "list"
    <2>1. ~probe[p].health.known
        BY <1>3, <1>4, <1>6 DEF SoundInv, RowInv
    <2>2. probe[p].state # "list"
        BY <1>3, <1>6 DEF SoundInv, RowInv
    <2> QED BY <2>1, <2>2 DEF Sound, healthVars
<1>7. SoundInv' /\ RowInv'
    BY <1>2, <1>3, <1>5, <1>6 DEF SoundInv, RowInv, OfTheRow, healthVars
<1> QED BY <1>1, <1>7 DEF IHealth

LEMMA UpdateHealth ==
    ASSUME IUpdates, IHealth, NEW a \in Admins, UpdateNext(a)
    PROVE  IHealth'
<1>0. live \in Nat /\ revision \in Nat /\ 1 <= live
    BY DEF IUpdates, UpdateTypes, RevisionsInv
<1>1. CASE Persist(a) \/ PersistFails(a)
    <2>1. live < revision' /\ unannounced' /\ UNCHANGED <<live, healthVars>>
        BY <1>1, WriteKeeps
    <2>2. revision' \in Nat
        BY <1>1, WriteKeeps DEF IUpdates, UpdateTypes
    <2> QED BY <1>0, <2>1, <2>2, UpdateKeepsHealth
<1>2. CASE Refuse(a)
    <2>1. UNCHANGED <<revision, unannounced, live, holder, healthVars>>
        BY <1>2 DEF Refuse, rowVars, componentVars
    <2> QED BY <2>1, UpdateKeepsHealth
<1>3. CASE InvalidateBefore(a) \/ InvalidateAfter(a)
    BY <1>3, Invalidated DEF InvalidateBefore, InvalidateAfter
<1>4. CASE ApplyFails(a)
    <2>1. stage[a] = "upstream" /\ UNCHANGED <<revision, unannounced, live, healthVars>>
        BY <1>4 DEF ApplyFails, rowVars, componentVars
    <2>2. live # revision
        BY <1>0, <2>1 DEF IUpdates, RevisionsInv
    <2> QED BY <2>1, <2>2, UpdateKeepsHealth
<1>5. CASE ApplyUpstream(a) \/ ApplyLimits(a) \/ ApplyMetrics(a) \/ Publish(a)
    <2>1. /\ holder # {} /\ UNCHANGED <<revision, unannounced, holder, healthVars>>
          /\ ~unannounced /\ live < revision
        BY <1>5, ApplyKeeps
    <2> QED BY <1>0, <2>1, PublishKeepsHealth
<1> QED BY <1>1, <1>2, <1>3, <1>4, <1>5 DEF UpdateNext

\* The row, what is live and the mutex stay where they are.
Still == UNCHANGED <<revision, unannounced, live, holder>>

\* A viewer's step.
LEMMA ViewersKeepHealth ==
    ASSUME IHealth, Still, UNCHANGED <<generation, probe>>, HealthTypes',
           cached' \subseteq cached
    PROVE  IHealth'
<1>1. /\ ProbesInv' /\ \A p \in Probes : Current(p)' = Current(p)
      /\ \A h : Sound(h)' = Sound(h) /\ OfTheRow(h)' = OfTheRow(h) /\ Justified(h)' = Justified(h)
    BY DEF IHealth, ProbesInv, Current, Sound, OfTheRow, Justified, Still
<1>2. SoundInv'
    BY <1>1 DEF IHealth, SoundInv, Still
<1>3. RowInv => RowInv'
    BY <1>1 DEF RowInv, Still
<1>4. JustifiedInv => JustifiedInv'
    BY <1>1 DEF JustifiedInv
<1> QED BY <1>1, <1>2, <1>3, <1>4 DEF IHealth, Still

\* What IHealth asks of a probe whose response will count.
Holds(new) ==
    /\ Sound(new.health)
    /\ new.state = "list" => new.health.read = live
    /\ ~unannounced => OfTheRow(new.health) /\ (new.state \in {"compare", "list"} => new.health.read = revision)
    /\ holder = {} /\ new.state = "finish" => Justified(new.health)

LEMMA CurrentHolds == ASSUME IHealth, NEW p \in Probes, Current(p) PROVE Holds(probe[p])
BY DEF IHealth, SoundInv, RowInv, JustifiedInv, Holds

\* One probe moves, and what it holds stays sound and justified.
LEMMA ProbeMoves ==
    ASSUME IHealth, Still, UNCHANGED <<generation, cached>>, HealthTypes',
           NEW p \in Probes, NEW new, probe' = [probe EXCEPT ![p] = new],
           new.generation <= generation, new.state = "read" => new.health = Unknown,
           new.state \notin {"free", "done"} /\ new.generation = generation => Holds(new)
    PROVE  IHealth'
<1>1. /\ probe'[p] = new /\ \A q \in Probes \ {p} : probe'[q] = probe[q]
      /\ \A h : Sound(h)' = Sound(h) /\ OfTheRow(h)' = OfTheRow(h) /\ Justified(h)' = Justified(h)
    BY DEF IHealth, HealthTypes, Sound, OfTheRow, Justified, Still
<1>2. \A q \in Probes \ {p} : Current(q)' = Current(q)
    BY <1>1 DEF Current
<1>3. Current(p)' = (new.state \notin {"free", "done"} /\ new.generation = generation)
    BY <1>1 DEF Current
<1>4. ProbesInv'
    BY <1>1 DEF IHealth, ProbesInv
<1>5. SoundInv'
    BY <1>1, <1>2, <1>3 DEF IHealth, SoundInv, Holds, Still
<1>6. ~unannounced => RowInv'
    BY <1>1, <1>2, <1>3 DEF IHealth, RowInv, Holds, Still
<1>7. holder = {} => JustifiedInv'
    BY <1>1, <1>2, <1>3 DEF IHealth, JustifiedInv, Holds
<1> QED BY <1>4, <1>5, <1>6, <1>7 DEF IHealth, Still

LEMMA HealthRecords ==
    /\ Unknown \in Health /\ ~Unknown.known /\ Unknown.read = 0
    /\ FreeProbe \in Probe /\ FreeProbe.generation = 0 /\ FreeProbe.state = "free" /\ FreeProbe.health = Unknown
BY DEF Unknown, Health, FreeProbe, Probe

\* What a health request does (loadOverviewHealth).
LEMMA ViewerHealth ==
    ASSUME IUpdates, IHealth, NEW v \in Viewers,
           ViewerNext(v) \/ AskForHealth(v) \/ LeaveHealth(v)
    PROVE  IHealth'
<1>0. Still
    BY DEF ViewerNext, AnswerFromCache, AskForHealth, LeaveHealth, JoinProbe, StartProbe, Still,
           rowVars, componentVars, adminVars
<1>1. ASSUME NEW goes \in Probes \cup {"idle", "looking"}, waits' = [waits EXCEPT ![v] = goes],
             UNCHANGED <<generation, cached, inFlight, probe>>
      PROVE  IHealth'
    <2>1. HealthTypes'
        BY <1>1 DEF IHealth, HealthTypes
    <2> QED BY <1>0, <1>1, <2>1, ViewersKeepHealth
<1>2. CASE AnswerFromCache(v) \/ AskForHealth(v) \/ LeaveHealth(v)
    BY <1>1, <1>2 DEF AnswerFromCache, AskForHealth, LeaveHealth
<1>3. CASE JoinProbe(v)
    <2>1. inFlight \in Probes
        BY <1>3 DEF JoinProbe, IHealth, HealthTypes
    <2> QED BY <1>1, <1>3, <2>1 DEF JoinProbe
<1>4. ASSUME NEW p \in Probes, StartProbe(v, p) PROVE IHealth'
    <2>1. PICK new : new = [FreeProbe EXCEPT !.state = "read", !.generation = generation]
        OBVIOUS
    <2>2. /\ probe' = [probe EXCEPT ![p] = new] /\ inFlight' = p /\ waits' = [waits EXCEPT ![v] = p]
          /\ UNCHANGED <<generation, cached>>
        BY <1>4, <2>1 DEF StartProbe
    <2>3. /\ new \in Probe /\ new.state = "read" /\ new.generation = generation /\ new.health = Unknown
          /\ generation \in Nat
        BY <2>1, HealthRecords DEF Probe, FreeProbe, IHealth, HealthTypes
    <2>4. HealthTypes'
        BY <2>2, <2>3 DEF IHealth, HealthTypes
    <2>5. Sound(Unknown) /\ OfTheRow(Unknown)
        BY HealthRecords DEF Sound, OfTheRow
    <2>6. new.generation <= generation /\ Holds(new)
        BY <2>3, <2>5 DEF Holds
    <2> QED BY <1>0, <2>2, <2>3, <2>4, <2>6, ProbeMoves
<1> QED BY <1>2, <1>3, <1>4 DEF ViewerNext

\* What a probe does (evaluateOverviewHealth, runOverviewHealthProbe).
LEMMA ProbeHealth ==
    ASSUME IUpdates, IHealth, NEW p \in Probes, ProbeNext(p)
    PROVE  IHealth'
<1>0. Still
    BY DEF ProbeNext, ProbeReads, ProbeReadFails, ProbeCompares, ProbeLists, ProbeFinishes, Still,
           rowVars, componentVars, adminVars
<1>1. PICK old, h : old = probe[p] /\ h = old.health
    OBVIOUS
<1>2. /\ old \in Probe /\ h \in Health /\ old.generation <= generation /\ generation \in Nat
      /\ old.state = "read" => h = Unknown
      /\ revision \in Nat /\ 1 <= revision /\ live \in Nat /\ upstream \in Nat
      /\ live <= upstream /\ upstream <= revision
    BY <1>1 DEF IHealth, HealthTypes, ProbesInv, Probe, IUpdates, UpdateTypes, RevisionsInv
<1>3. old.state \notin {"free", "done"} /\ old.generation = generation => Holds(old)
    BY <1>1, CurrentHolds DEF Current
<1>4. ASSUME NEW new \in Probe, probe' = [probe EXCEPT ![p] = new], UNCHANGED <<generation, cached, inFlight, waits>>
      PROVE  HealthTypes'
    BY <1>4 DEF IHealth, HealthTypes
<1>5. CASE ProbeReads(p)
    <2>1. PICK new : new = [old EXCEPT !.state = "compare", !.health.read = revision]
        OBVIOUS
    <2>2. old.state = "read" /\ probe' = [probe EXCEPT ![p] = new] /\ UNCHANGED <<generation, cached, inFlight, waits>>
        BY <1>1, <1>5, <2>1 DEF ProbeReads, IHealth, HealthTypes
    <2>3. /\ new \in Probe /\ new.state = "compare" /\ new.generation = old.generation
          /\ new.health.read = revision /\ ~new.health.known
        BY <1>1, <1>2, <2>1, <2>2, HealthRecords DEF Probe, Health
    <2>4. Holds(new)
        BY <2>3 DEF Holds, Sound, OfTheRow
    <2> QED BY <1>0, <1>2, <1>4, <2>2, <2>3, <2>4, ProbeMoves
<1>6. CASE ProbeReadFails(p)
    <2>1. PICK new : new = [old EXCEPT !.state = "finish"]
        OBVIOUS
    <2>2. old.state = "read" /\ probe' = [probe EXCEPT ![p] = new] /\ UNCHANGED <<generation, cached, inFlight, waits>>
        BY <1>1, <1>6, <2>1 DEF ProbeReadFails, IHealth, HealthTypes
    <2>3. new \in Probe /\ new.state = "finish" /\ new.generation = old.generation /\ new.health = Unknown
        BY <1>1, <1>2, <2>1, <2>2 DEF Probe
    <2>4. Sound(Unknown) /\ OfTheRow(Unknown) /\ Justified(Unknown)
        BY HealthRecords DEF Sound, OfTheRow, Justified
    <2>5. Holds(new)
        BY <2>3, <2>4 DEF Holds
    <2> QED BY <1>0, <1>2, <1>4, <2>2, <2>3, <2>5, ProbeMoves
<1>7. CASE ProbeCompares(p)
    <2>1. PICK new : new = [old EXCEPT !.state = IF h.read # live THEN "finish" ELSE "list"]
        OBVIOUS
    <2>2. old.state = "compare" /\ probe' = [probe EXCEPT ![p] = new] /\ UNCHANGED <<generation, cached, inFlight, waits>>
        BY <1>1, <1>7, <2>1 DEF ProbeCompares, Diverged, IHealth, HealthTypes
    <2>3. /\ new \in Probe /\ new.state = (IF h.read # live THEN "finish" ELSE "list")
          /\ new.generation = old.generation /\ new.health = h
        BY <1>1, <1>2, <2>1, <2>2 DEF Probe
    <2>4. ASSUME new.generation = generation PROVE Holds(new)
        <3>1. Holds(old)
            BY <1>3, <2>2, <2>3, <2>4
        <3>2. h.read # live => live # revision
            BY <1>1, <1>2, <2>2, <3>1 DEF Holds, IUpdates, RevisionsInv
        <3>3. new.state = "finish" => Justified(h)
            BY <2>3, <3>2 DEF Justified
        <3> QED BY <1>1, <2>2, <2>3, <3>1, <3>3 DEF Holds
    <2> QED BY <1>0, <1>2, <1>4, <2>2, <2>3, <2>4, ProbeMoves
<1>8. CASE ProbeLists(p)
    <2>1. PICK new : new = [old EXCEPT !.state = "finish", !.health.known = TRUE, !.health.client = upstream]
        OBVIOUS
    <2>2. old.state = "list" /\ probe' = [probe EXCEPT ![p] = new] /\ UNCHANGED <<generation, cached, inFlight, waits>>
        BY <1>1, <1>8, <2>1 DEF ProbeLists, IHealth, HealthTypes
    <2>3. /\ new \in Probe /\ new.state = "finish" /\ new.generation = old.generation
          /\ new.health.known /\ new.health.client = upstream /\ new.health.read = h.read
        BY <1>1, <1>2, <2>1, <2>2 DEF Probe, Health
    <2>4. ASSUME new.generation = generation PROVE Holds(new)
        <3>1. Holds(old)
            BY <1>3, <2>2, <2>3, <2>4
        <3>2. h.read = live /\ (~unannounced => h.read = revision)
            BY <1>1, <2>2, <3>1 DEF Holds
        <3>3. unannounced => \A a \in Admins : stage[a] \notin {"limits", "metrics", "publish"}
            BY DEF IUpdates, RevisionsInv
        <3>4. upstream = live
            BY <1>2, <3>2, <3>3 DEF IUpdates, RevisionsInv
        <3> QED BY <2>3, <3>2, <3>4 DEF Holds, Sound, OfTheRow, Justified
    <2> QED BY <1>0, <1>2, <1>4, <2>2, <2>3, <2>4, ProbeMoves
<1>9. CASE ProbeFinishes(p)
    <2>1. PICK new : new = [FreeProbe EXCEPT !.state = "done"]
        OBVIOUS
    <2>2. /\ old.state = "finish" /\ probe' = [probe EXCEPT ![p] = new]
          /\ inFlight' = IF inFlight = p THEN NoProbe ELSE inFlight
          /\ cached' = IF generation = old.generation THEN {h} ELSE cached
          /\ UNCHANGED <<generation, waits>>
        BY <1>1, <1>9, <2>1 DEF ProbeFinishes, IHealth, HealthTypes
    <2>3. new \in Probe /\ new.state = "done" /\ new.generation = 0
        BY <2>1, HealthRecords DEF Probe, FreeProbe
    <2>4. Cardinality({h}) = 1 /\ cached' \subseteq Health
        BY <1>2, <2>2, FS_Singleton DEF IHealth, HealthTypes
    <2>5. HealthTypes'
        BY <2>2, <2>3, <2>4 DEF IHealth, HealthTypes
    <2>6. old.generation = generation => Holds(old)
        BY <1>3, <2>2
    <2>7. /\ ~Current(p)' /\ \A q \in Probes \ {p} : probe'[q] = probe[q] /\ Current(q)' = Current(q)
          /\ \A x : Sound(x)' = Sound(x) /\ OfTheRow(x)' = OfTheRow(x) /\ Justified(x)' = Justified(x)
        BY <1>0, <2>2, <2>3 DEF Current, Sound, OfTheRow, Justified, Still, IHealth, HealthTypes
    <2>8. ProbesInv'
        BY <1>2, <2>2, <2>3, <2>7 DEF IHealth, ProbesInv, HealthTypes
    <2>9. SoundInv'
        BY <1>0, <1>1, <2>2, <2>6, <2>7 DEF IHealth, SoundInv, Holds, Still
    <2>10. ~unannounced => RowInv'
        BY <1>0, <1>1, <2>2, <2>6, <2>7 DEF IHealth, RowInv, Holds, Still
    <2>11. holder = {} => JustifiedInv'
        BY <1>1, <2>2, <2>6, <2>7 DEF IHealth, JustifiedInv, Holds
    <2> QED BY <1>0, <2>5, <2>8, <2>9, <2>10, <2>11 DEF IHealth, Still
<1> QED BY <1>5, <1>6, <1>7, <1>8, <1>9 DEF ProbeNext

LEMMA FillHealth ==
    ASSUME IUpdates, IHealth, NEW a \in Admins, NEW enabled, NEW site, NEW withSecret,
           Fill(a, enabled, site, withSecret)
    PROVE  IHealth'
<1>1. UNCHANGED <<revision, unannounced, live, holder, healthVars>>
    BY DEF Fill, rowVars, componentVars
<1> QED BY <1>1, UpdateKeepsHealth

\* Nothing is cached, so nothing that is cached can be wrong.
LEMMA ExpiryHealth ==
    ASSUME IHealth, HealthExpires
    PROVE  IHealth'
<1>1. cached' = {} /\ UNCHANGED <<generation, inFlight, probe, waits>> /\ Still
    BY DEF HealthExpires, NoHealth, Still, rowVars, componentVars, adminVars
<1>2. Cardinality({}) = 0
    BY FS_EmptySet
<1>3. HealthTypes'
    BY <1>1, <1>2 DEF IHealth, HealthTypes
<1> QED BY <1>1, <1>3, ViewersKeepHealth

\* A process that starts has no cache and no probe.
LEMMA FreshHealth ==
    ASSUME generation = 0, cached = NoHealth, inFlight = NoProbe,
           probe = [p \in Probes |-> FreeProbe], waits = [v \in Viewers |-> "idle"]
    PROVE  IHealth
<1>1. Cardinality({}) = 0
    BY FS_EmptySet
<1>2. HealthTypes
    BY <1>1, HealthRecords DEF HealthTypes, NoHealth
<1>3. \A p \in Probes : probe[p] = FreeProbe
    OBVIOUS
<1>4. ProbesInv /\ \A p \in Probes : ~Current(p)
    BY <1>3, HealthRecords DEF ProbesInv, Current
<1>5. SoundInv /\ RowInv /\ JustifiedInv
    BY <1>4 DEF SoundInv, RowInv, JustifiedInv, NoHealth
<1> QED BY <1>2, <1>4, <1>5 DEF IHealth

LEMMA RestartHealth ==
    ASSUME Restart
    PROVE  IHealth'
<1>1. /\ generation' = 0 /\ cached' = {} /\ inFlight' = NoProbe
      /\ probe' = [p \in Probes |-> FreeProbe] /\ waits' = [v \in Viewers |-> "idle"]
    BY DEF Restart, NoHealth
<1>2. Cardinality({}) = 0
    BY FS_EmptySet
<1>3. HealthTypes'
    BY <1>1, <1>2, HealthRecords DEF HealthTypes
<1>4. \A p \in Probes : probe'[p] = FreeProbe
    BY <1>1
<1>5. ProbesInv' /\ \A p \in Probes : ~Current(p)'
    BY <1>1, <1>4, HealthRecords DEF ProbesInv, Current
<1>6. SoundInv' /\ RowInv' /\ JustifiedInv'
    BY <1>1, <1>5 DEF SoundInv, RowInv, JustifiedInv
<1> QED BY <1>3, <1>5, <1>6 DEF IHealth

LEMMA SameHealth ==
    ASSUME IHealth, UNCHANGED settingsVars
    PROVE  IHealth'
<1>1. /\ Still /\ UNCHANGED <<generation, cached, inFlight, probe, waits>>
    BY DEF settingsVars, rowVars, componentVars, adminVars, healthVars, Still
<1>2. HealthTypes'
    BY <1>1 DEF IHealth, HealthTypes
<1> QED BY <1>1, <1>2, ViewersKeepHealth

-----------------------------------------------------------------------------
(* Updates and health together.                                             *)

ISettings == IUpdates /\ IHealth

\* What a step of the settings does to the published snapshot: nothing, or a
\* later revision is published.
Published ==
    \/ UNCHANGED <<live, liveLogin>>
    \/ live' > live

LEMMA UpdateStep ==
    ASSUME ISettings, NEW a \in Admins, UpdateNext(a)
    PROVE  ISettings' /\ Published
<1>1. IHealth'
    BY UpdateHealth DEF ISettings
<1>2. CASE Persist(a) \/ PersistFails(a)
    BY <1>1, <1>2, WriteKeeps DEF ISettings, Published
<1>3. CASE Refuse(a)
    BY <1>1, <1>3, RefuseKeeps DEF ISettings, Refuse, componentVars, Published
<1>4. CASE InvalidateBefore(a)
    BY <1>1, <1>4, InvalidateBeforeKeeps DEF ISettings, InvalidateBefore, componentVars, Published
<1>5. CASE ApplyFails(a) \/ InvalidateAfter(a)
    BY <1>1, <1>5, ReleaseKeeps DEF ISettings, Published
<1>6. CASE ApplyUpstream(a) \/ ApplyLimits(a) \/ ApplyMetrics(a)
    BY <1>1, <1>6, ApplyKeeps DEF ISettings, ApplyUpstream, ApplyLimits, ApplyMetrics, Published
<1>7. CASE Publish(a)
    <2>1. IUpdates'
        BY <1>7, ApplyKeeps DEF ISettings
    <2>2. live' = revision /\ live < revision
        BY <1>7 DEF Publish, ISettings, IUpdates, RevisionsInv
    <2>3. live \in Nat /\ revision \in Nat
        BY DEF ISettings, IUpdates, UpdateTypes
    <2> QED BY <1>1, <2>1, <2>2, <2>3 DEF ISettings, Published
<1> QED BY <1>2, <1>3, <1>4, <1>5, <1>6, <1>7 DEF UpdateNext

LEMMA SettingsStepKeeps ==
    ASSUME ISettings, SettingsStep
    PROVE  ISettings' /\ Published
<1>1. CASE Fills(Pointers(BOOLEAN), Pointers(Keys))
    <2>1. PICK a \in Admins, on \in Pointers(BOOLEAN), site \in Pointers(Keys), b \in BOOLEAN :
             Fill(a, on, site, b)
        BY <1>1 DEF Fills
    <2>2. IUpdates'
        BY <2>1, FillKeeps DEF ISettings
    <2>3. IHealth'
        BY <2>1, FillHealth DEF ISettings
    <2> QED BY <2>1, <2>2, <2>3 DEF ISettings, Published, Fill, componentVars
<1>2. CASE \E a \in Admins : UpdateNext(a)
    BY <1>2, UpdateStep
<1>3. CASE \E v \in Viewers : ViewerNext(v) \/ AskForHealth(v) \/ LeaveHealth(v)
    <2>1. UNCHANGED <<rowVars, componentVars, adminVars>>
        BY <1>3 DEF ViewerNext, AnswerFromCache, AskForHealth, LeaveHealth, JoinProbe, StartProbe
    <2>2. IUpdates'
        BY <2>1, SameUpdates DEF ISettings
    <2>3. IHealth'
        BY <1>3, ViewerHealth DEF ISettings
    <2> QED BY <2>1, <2>2, <2>3 DEF ISettings, Published, componentVars
<1>4. CASE \E p \in Probes : ProbeNext(p)
    <2>1. UNCHANGED <<rowVars, componentVars, adminVars>>
        BY <1>4 DEF ProbeNext, ProbeReads, ProbeReadFails, ProbeCompares, ProbeLists, ProbeFinishes
    <2>2. IUpdates'
        BY <2>1, SameUpdates DEF ISettings
    <2>3. IHealth'
        BY <1>4, ProbeHealth DEF ISettings
    <2> QED BY <2>1, <2>2, <2>3 DEF ISettings, Published, componentVars
<1>5. CASE HealthExpires
    <2>1. UNCHANGED <<rowVars, componentVars, adminVars>>
        BY <1>5 DEF HealthExpires
    <2>2. IUpdates' /\ IHealth'
        BY <1>5, <2>1, SameUpdates, ExpiryHealth DEF ISettings
    <2> QED BY <2>1, <2>2 DEF ISettings, Published, componentVars
<1> QED BY <1>1, <1>2, <1>3, <1>4, <1>5 DEF SettingsStep, RunsOn

LEMMA RestartKeeps ==
    ASSUME ISettings, Restart
    PROVE  ISettings' /\ Published
BY RestartKeepsUpdates, RestartHealth DEF ISettings, Published

LEMMA SameSettings ==
    ASSUME ISettings, UNCHANGED settingsVars
    PROVE  ISettings'
BY SameUpdates, SameHealth DEF ISettings, settingsVars

LEMMA SettingsStart == SettingsInit => ISettings
BY UpdatesInit, FreshHealth DEF ISettings, SettingsInit

LEMMA ISettingsImpliesSettingsInv == ISettings => SettingsInv
<1> SUFFICES ASSUME ISettings PROVE SettingsInv
    OBVIOUS
<1>1. Cardinality(holder) <= 1
    <2>1. CASE holder = {}
        BY <2>1, FS_EmptySet
    <2>2. CASE holder # {}
        <3>1. PICK a : a \in holder
            BY <2>2
        <3>2. holder = {a}
            BY <3>1 DEF ISettings, IUpdates, MutexInv
        <3>3. Cardinality({a}) = 1
            BY FS_Singleton
        <3> QED BY <3>2, <3>3
    <2> QED BY <2>1, <2>2
<1>2. holder \subseteq Admins /\ UpdateTypes /\ RevisionsInv /\ HealthTypes
    BY DEF ISettings, IUpdates, MutexInv, IHealth
<1>3. /\ upstream <= MaxRevision /\ limits <= MaxRevision /\ metrics <= MaxRevision
      /\ live <= MaxRevision /\ revision <= MaxRevision
    BY <1>2, SettingsConstants DEF UpdateTypes, RevisionsInv
<1>4. SettingsTypeOK
    BY <1>1, <1>2, <1>3, SettingsConstants DEF UpdateTypes, HealthTypes, SettingsTypeOK, Revisions
<1>5. KeyPairMatches
    BY DEF ISettings, IUpdates, Paired, KeyPairMatches
<1>6. LoginSwitchesLast
    BY <1>2 DEF RevisionsInv, LoginSwitchesLast
<1>7. SoundInv /\ (~unannounced => RowInv) /\ (holder = {} => JustifiedInv)
    BY DEF ISettings, IHealth
<1>8. HealthOfSettingsInForce
    <2>1. ASSUME NEW h \in cached, h.known, ~unannounced PROVE live = revision
        <3>1. h.read = live /\ OfTheRow(h)
            BY <1>7, <2>1 DEF SoundInv, RowInv, Sound
        <3> QED BY <1>2, <3>1 DEF OfTheRow, RevisionsInv, UpdateTypes
    <2> QED BY <1>2, <1>7, <2>1 DEF SoundInv, Sound, RevisionsInv, HealthOfSettingsInForce
<1>9. UnknownMeansDiverged
    BY <1>7 DEF JustifiedInv, Justified, UnknownMeansDiverged
<1> QED BY <1>4, <1>5, <1>6, <1>8, <1>9 DEF SettingsInv

\* Whatever administrators, browsers, probes and stops do to the settings
\* (panel/settings.go 46-120 and 168-231, panel/overview_health.go 24-84): one update
\* runs at a time, no site is left with the secret of another, the login follows the
\* components, and the cached health is of the settings in force, from which the
\* stored ones differ visibly when their writer was answered with an error.
THEOREM SettingsInvariant == SettingsSpec => []SettingsInv
<1>1. SettingsInit => ISettings
    BY SettingsStart
<1>2. ISettings /\ [SettingsNext]_settingsVars => ISettings'
    <2> SUFFICES ASSUME ISettings, [SettingsNext]_settingsVars PROVE ISettings'
        OBVIOUS
    <2>1. CASE SettingsStep
        BY <2>1, SettingsStepKeeps
    <2>2. CASE Restart
        BY <2>2, RestartKeeps
    <2>3. CASE UNCHANGED settingsVars
        BY <2>3, SameSettings
    <2> QED BY <2>1, <2>2, <2>3 DEF SettingsNext
<1>3. ISettings => SettingsInv
    BY ISettingsImpliesSettingsInv
<1> QED BY <1>1, <1>2, <1>3, PTL DEF SettingsSpec

-----------------------------------------------------------------------------
(* Logins beside updates.  A page and a reading are of a snapshot that was  *)
(* published, and two of one revision are the same snapshot.               *)

\* A snapshot that was in force at some time.
OfItsTime(read, revisionNow, settingsNow) ==
    /\ read.revision <= revisionNow
    /\ read.revision = revisionNow => read.settings = settingsNow

\* What holds of a login that has been judged.
JudgedWell(x) ==
    /\ x.arrived <= x.reading.revision
    /\ x.page.revision = x.reading.revision => x.page.settings = x.reading.settings
    /\ x.at \in {"judged", "verify"} =>
          /\ x.reading.settings.site = x.reading.settings.secret
          /\ x.token \notin {"missing", "oversized"}
    /\ x.at = "admitted" =>
          \/ ~x.reading.settings.enabled
          \/ x.token = "fresh" /\ x.page.settings.site = x.reading.settings.secret
    /\ x.at \in {"required", "rejected"} /\ x.token = "fresh" => x.page.revision # x.reading.revision

LoginInv(x, revisionNow, settingsNow) ==
    /\ x.at \in {"idle", "page", "sent"} => x.reading = NoReading
    /\ x.at # "idle" => OfItsTime(x.page, revisionNow, settingsNow)
    /\ x.at \notin {"idle", "page"} => x.arrived <= revisionNow
    /\ x.at \notin {"idle", "page", "sent"} => x.reading.revision <= revisionNow /\ JudgedWell(x)

Verifying == {l \in Logins : login[l].at = "verify"}

ILogins ==
    /\ TurnstileTypeOK
    /\ SlotsExact
    /\ \A l \in Logins : LoginInv(login[l], live, liveLogin)

\* One login moves; a slot goes with the call of the service.
LEMMA LoginMoves ==
    ASSUME ILogins, UNCHANGED <<live, liveLogin>>,
           NEW l \in Logins, NEW new \in Login, login' = [login EXCEPT ![l] = new],
           LoginInv(new, live, liveLogin),
           \/ slots' = slots /\ (new.at = "verify" <=> login[l].at = "verify")
           \/ slots' = slots + 1 /\ slots < AdmissionSlots /\ new.at = "verify" /\ login[l].at # "verify"
           \/ slots' = slots - 1 /\ new.at # "verify" /\ login[l].at = "verify"
    PROVE  ILogins'
<1>1. /\ login \in [Logins -> Login] /\ slots \in Nat /\ slots <= AdmissionSlots /\ AdmissionSlots \in Nat
      /\ slots = Cardinality(Verifying) /\ IsFiniteSet(Logins)
    BY TurnstileConstants DEF ILogins, TurnstileTypeOK, SlotsExact, Verifying
<1>2. /\ login' \in [Logins -> Login] /\ login'[l] = new
      /\ \A k \in Logins \ {l} : login'[k] = login[k]
    BY <1>1
<1>3. \A k \in Logins : LoginInv(login[k], live, liveLogin)'
    <2> SUFFICES ASSUME NEW k \in Logins PROVE LoginInv(login'[k], live', liveLogin')
        OBVIOUS
    <2> QED BY <1>2 DEF ILogins
<1>4. IsFiniteSet(Verifying)
    BY <1>1, FS_Subset DEF Verifying
<1>5. slots' \in 0 .. AdmissionSlots /\ slots' = Cardinality(Verifying')
    <2>1. CASE slots' = slots /\ (new.at = "verify" <=> login[l].at = "verify")
        <3>1. Verifying' = Verifying
            BY <1>2, <2>1 DEF Verifying
        <3> QED BY <1>1, <2>1, <3>1
    <2>2. CASE slots' = slots + 1 /\ slots < AdmissionSlots /\ new.at = "verify" /\ login[l].at # "verify"
        <3>1. Verifying' = Verifying \cup {l} /\ l \notin Verifying
            BY <1>2, <2>2 DEF Verifying
        <3>2. Cardinality(Verifying \cup {l}) = Cardinality(Verifying) + 1
            BY <1>4, <3>1, FS_AddElement
        <3> QED BY <1>1, <2>2, <3>1, <3>2
    <2>3. CASE slots' = slots - 1 /\ new.at # "verify" /\ login[l].at = "verify"
        <3>1. Verifying' = Verifying \ {l} /\ l \in Verifying
            BY <1>2, <2>3 DEF Verifying
        <3>2. Cardinality(Verifying \ {l}) = Cardinality(Verifying) - 1 /\ Verifying # {}
            BY <1>4, <3>1, FS_RemoveElement
        <3>3. slots # 0
            BY <1>1, <1>4, <3>2, FS_EmptySet
        <3> QED BY <1>1, <2>3, <3>1, <3>2, <3>3
    <2> QED BY <2>1, <2>2, <2>3
<1> QED BY <1>2, <1>3, <1>5 DEF ILogins, TurnstileTypeOK, SlotsExact, Verifying

\* The settings move on: what a login holds is of the past.
LEMMA SettingsMove ==
    ASSUME ILogins, live \in Nat, live' \in Nat, Published, UNCHANGED loginVars
    PROVE  ILogins'
<1>1. login' = login /\ slots' = slots /\ login \in [Logins -> Login]
    BY DEF loginVars, ILogins, TurnstileTypeOK
<1>2. ASSUME NEW x \in Login, LoginInv(x, live, liveLogin) PROVE LoginInv(x, live', liveLogin')
    <2>1. x.page.revision \in Nat /\ x.reading.revision \in Nat /\ x.arrived \in Nat
        BY DEF Login, Reading
    <2> QED BY <1>2, <2>1 DEF LoginInv, OfItsTime, Published
<1>3. \A l \in Logins : LoginInv(login'[l], live', liveLogin')
    BY <1>1, <1>2 DEF ILogins
<1> QED BY <1>1, <1>3 DEF ILogins, TurnstileTypeOK, SlotsExact

LEMMA LoginRecords ==
    /\ NoReading \in Reading /\ NoReading.revision = 0
    /\ NoLogin \in Login /\ NoLogin.at = "idle" /\ NoLogin.reading = NoReading
BY DEF NoReading, Reading, Settings, Keys, NoLogin, Login, TokenKinds

\* One load of the snapshot (liveLoginVerificationSettings).
LEMMA SnapshotIsOfItsTime ==
    ASSUME IUpdates, NEW read, read = LiveLoginVerificationSettings
    PROVE  /\ read \in Reading /\ read.revision = live /\ read.settings = liveLogin
           /\ OfItsTime(read, live, liveLogin) /\ live \in Nat
<1>1. live \in Nat /\ liveLogin \in Settings
    BY DEF IUpdates, UpdateTypes
<1> QED BY <1>1 DEF LiveLoginVerificationSettings, Reading, OfItsTime

\* What the handler decides without the service (verifyLoginTurnstile).
LEMMA ReadIsJudgedWell ==
    ASSUME ILogins, IUpdates, NEW l \in Logins, ReadSettings(l)
    PROVE  ILogins'
<1>1. PICK old, read : old = login[l] /\ read = LiveLoginVerificationSettings
    OBVIOUS
<1>2. PICK verdict : verdict = JudgedAs(read.settings, old.token)
    OBVIOUS
<1>3. PICK new : new = [old EXCEPT !.at = verdict, !.reading = read]
    OBVIOUS
<1>4. /\ login \in [Logins -> Login] /\ old \in Login /\ old.at = "sent"
      /\ login' = [login EXCEPT ![l] = new] /\ UNCHANGED <<settingsVars, slots>>
    BY <1>1, <1>2, <1>3 DEF ReadSettings, ILogins, TurnstileTypeOK
<1>5. /\ read \in Reading /\ read.revision = live /\ read.settings = liveLogin /\ live \in Nat
    BY <1>1, SnapshotIsOfItsTime
<1>6. OfItsTime(old.page, live, liveLogin) /\ old.arrived <= live
    BY <1>1, <1>4 DEF ILogins, LoginInv
<1>7. /\ verdict \in {"admitted", "unavailable", "required", "rejected", "judged"}
      /\ verdict = "admitted" => ~read.settings.enabled
      /\ verdict = "required" => old.token = "missing"
      /\ verdict = "rejected" => old.token = "oversized"
      /\ verdict = "judged" => /\ read.settings.site # NoSite /\ read.settings.secret # NoSite
                               /\ old.token \notin {"missing", "oversized"}
    BY <1>2 DEF JudgedAs
<1>8. /\ new \in Login /\ new.at = verdict /\ new.reading = read
      /\ new.page = old.page /\ new.token = old.token /\ new.arrived = old.arrived
    BY <1>3, <1>4, <1>5, <1>7 DEF Login, Verdicts
<1>9. verdict = "judged" => read.settings.site = read.settings.secret
    BY <1>5, <1>7 DEF IUpdates, Paired
<1>10. JudgedWell(new)
    <2>1. new.arrived <= new.reading.revision
        BY <1>5, <1>6, <1>8
    <2>2. new.page.revision = new.reading.revision => new.page.settings = new.reading.settings
        BY <1>5, <1>6, <1>8 DEF OfItsTime
    <2>3. /\ new.at \in {"judged", "verify"} =>
                /\ new.reading.settings.site = new.reading.settings.secret
                /\ new.token \notin {"missing", "oversized"}
        BY <1>7, <1>8, <1>9
    <2>4. new.at = "admitted" =>
              \/ ~new.reading.settings.enabled
              \/ new.token = "fresh" /\ new.page.settings.site = new.reading.settings.secret
        BY <1>7, <1>8
    <2>5. new.at \in {"required", "rejected"} /\ new.token = "fresh" =>
              new.page.revision # new.reading.revision
        BY <1>7, <1>8
    <2> QED BY <2>1, <2>2, <2>3, <2>4, <2>5 DEF JudgedWell
<1>11. LoginInv(new, live, liveLogin)
    BY <1>5, <1>6, <1>7, <1>8, <1>10 DEF LoginInv
<1>12. UNCHANGED <<live, liveLogin>> /\ slots' = slots
    BY <1>4 DEF settingsVars, componentVars
<1>13. new.at # "verify" /\ login[l].at # "verify"
    BY <1>1, <1>4, <1>7, <1>8
<1> QED BY <1>4, <1>8, <1>11, <1>12, <1>13, LoginMoves

\* The service blames a fresh token of the page's site for nothing, and lets nothing
\* else through (Verify, classifyTurnstileFailure).
LEMMA Verdict ==
    ASSUME NEW secret, NEW token \in {"fresh", "expired", "otherAction"}, NEW site,
           NEW answer \in Siteverify(secret, token, site)
    PROVE  /\ VerdictOn(answer) \in {"admitted", "rejected", "unavailable"}
           /\ VerdictOn(answer) = "admitted" => token = "fresh" /\ secret = site
           /\ VerdictOn(answer) = "rejected" /\ token = "fresh" => secret # site
<1>1. CASE answer \in {NoAnswer, Failure({}), Failure({""}), Failure({"internal-error"}),
                       Failure({"internal-error", "timeout-or-duplicate"})}
    <2>1. PICK codes \in {{"no answer"}, {}, {""}, {"internal-error"},
                          {"internal-error", "timeout-or-duplicate"}} : answer = Failure(codes)
        BY <1>1 DEF NoAnswer
    <2>2. ~answer.success /\ answer.codes = codes
        BY <2>1 DEF Failure
    <2>3. PICK usable : usable = codes \ {""}
        OBVIOUS
    <2>4. usable = {} \/ "no answer" \in usable \/ "internal-error" \in usable
        BY <2>1, <2>3
    <2>5. ClassifyTurnstileFailure(codes) = "unavailable"
        BY <2>3, <2>4 DEF ClassifyTurnstileFailure, ClientTokenErrors
    <2> QED BY <2>2, <2>5 DEF VerdictOn
<1>2. CASE token = "expired" /\ answer = Failure({"timeout-or-duplicate"})
    <2>1. ~answer.success
        BY <1>2 DEF Failure
    <2> QED BY <1>2, <2>1 DEF VerdictOn, ClassifyTurnstileFailure
<1>3. CASE token # "expired" /\ secret # site /\ answer = Failure({"invalid-input-response", ""})
    <2>1. ~answer.success
        BY <1>3 DEF Failure
    <2> QED BY <1>3, <2>1 DEF VerdictOn, ClassifyTurnstileFailure
<1>4. CASE token # "expired" /\ secret = site /\ answer = Success(IF token = "fresh" THEN "login" ELSE "other")
    <2>1. answer.success /\ answer.action = (IF token = "fresh" THEN "login" ELSE "other")
        BY <1>4 DEF Success
    <2> QED BY <1>4, <2>1 DEF VerdictOn
<1> QED BY <1>1, <1>2, <1>3, <1>4 DEF Siteverify

LEMMA AnswerIsJudgedWell ==
    ASSUME ILogins, NEW l \in Logins, SiteverifyAnswers(l)
    PROVE  ILogins'
<1>1. PICK old : old = login[l]
    OBVIOUS
<1>2. PICK answer \in Siteverify(old.reading.settings.secret, old.token, old.page.settings.site) :
          login' = [login EXCEPT ![l].at = VerdictOn(answer)]
    BY <1>1 DEF SiteverifyAnswers
<1>3. PICK verdict : verdict = VerdictOn(answer)
    OBVIOUS
<1>4. PICK new : new = [old EXCEPT !.at = verdict]
    OBVIOUS
<1>5. /\ login \in [Logins -> Login] /\ old \in Login /\ old.at = "verify"
      /\ login' = [login EXCEPT ![l] = new] /\ slots' = slots - 1 /\ UNCHANGED settingsVars
    BY <1>1, <1>2, <1>3, <1>4 DEF SiteverifyAnswers, ILogins, TurnstileTypeOK
<1>6. LoginInv(old, live, liveLogin)
    BY <1>1 DEF ILogins
<1>7. /\ OfItsTime(old.page, live, liveLogin) /\ old.arrived <= live
      /\ old.reading.revision <= live /\ JudgedWell(old)
      /\ old.token \notin {"missing", "oversized"}
      /\ old.reading.settings.site = old.reading.settings.secret
    BY <1>5, <1>6 DEF LoginInv, JudgedWell
<1>8. old.token \in {"fresh", "expired", "otherAction"}
    BY <1>5, <1>7 DEF Login, TokenKinds
<1>9. /\ verdict \in {"admitted", "rejected", "unavailable"}
      /\ verdict = "admitted" => old.token = "fresh" /\ old.reading.settings.secret = old.page.settings.site
      /\ verdict = "rejected" /\ old.token = "fresh" => old.reading.settings.secret # old.page.settings.site
    BY <1>2, <1>3, <1>8, Verdict
<1>10. /\ new \in Login /\ new.at = verdict /\ new.reading = old.reading
       /\ new.page = old.page /\ new.token = old.token /\ new.arrived = old.arrived
    BY <1>4, <1>5, <1>9 DEF Login, Verdicts
<1>11. JudgedWell(new)
    BY <1>7, <1>9, <1>10 DEF JudgedWell
<1>12. LoginInv(new, live, liveLogin)
    BY <1>7, <1>9, <1>10, <1>11 DEF LoginInv
<1>13. UNCHANGED <<live, liveLogin>> /\ new.at # "verify" /\ login[l].at = "verify"
    BY <1>1, <1>5, <1>9, <1>10 DEF settingsVars, componentVars
<1> QED BY <1>5, <1>10, <1>12, <1>13, LoginMoves

\* What changes nothing that was judged: the page, the token, the slot, the end.
LEMMA OtherLoginSteps ==
    ASSUME ILogins, IUpdates, NEW l \in Logins,
           \/ OpenPage(l) \/ TakeSlot(l) \/ LoginLeaves(l)
           \/ \E t \in TokenKinds : SendLogin(l, t)
    PROVE  ILogins'
<1>1. PICK old : old = login[l]
    OBVIOUS
<1>2. /\ login \in [Logins -> Login] /\ old \in Login /\ LoginInv(old, live, liveLogin)
      /\ live \in Nat
    BY <1>1 DEF ILogins, TurnstileTypeOK, IUpdates, UpdateTypes
<1>3. UNCHANGED <<live, liveLogin>>
    BY DEF OpenPage, TakeSlot, LoginLeaves, SendLogin, settingsVars, componentVars
<1>4. CASE OpenPage(l)
    <2>1. PICK read : read = LiveLoginVerificationSettings
        OBVIOUS
    <2>2. PICK new : new = [old EXCEPT !.at = "page", !.page = read]
        OBVIOUS
    <2>3. old.at = "idle" /\ login' = [login EXCEPT ![l] = new] /\ slots' = slots
        BY <1>1, <1>2, <1>4, <2>1, <2>2 DEF OpenPage
    <2>4. read \in Reading /\ OfItsTime(read, live, liveLogin)
        BY <2>1, SnapshotIsOfItsTime
    <2>5. /\ new \in Login /\ new.at = "page" /\ new.page = read
          /\ new.reading = old.reading /\ new.arrived = old.arrived
        BY <1>2, <2>2, <2>4 DEF Login
    <2>6. old.reading = NoReading
        BY <1>2, <2>3 DEF LoginInv
    <2>7. LoginInv(new, live, liveLogin)
        BY <2>4, <2>5, <2>6 DEF LoginInv
    <2> QED BY <1>1, <1>3, <2>3, <2>5, <2>7, LoginMoves
<1>5. ASSUME NEW t \in TokenKinds, SendLogin(l, t) PROVE ILogins'
    <2>1. PICK new : new = [old EXCEPT !.at = "sent", !.token = t, !.arrived = live]
        OBVIOUS
    <2>2. old.at = "page" /\ login' = [login EXCEPT ![l] = new] /\ slots' = slots
        BY <1>1, <1>2, <1>5, <2>1 DEF SendLogin
    <2>3. /\ new \in Login /\ new.at = "sent" /\ new.page = old.page
          /\ new.reading = old.reading /\ new.arrived = live
        BY <1>2, <2>1 DEF Login
    <2>4. LoginInv(new, live, liveLogin)
        BY <1>2, <2>2, <2>3 DEF LoginInv
    <2> QED BY <1>1, <1>3, <2>2, <2>3, <2>4, LoginMoves
<1>6. CASE TakeSlot(l)
    <2>1. PICK verdict \in {"verify", "overloaded", "unavailable"} :
             /\ login' = [login EXCEPT ![l].at = verdict]
             /\ IF verdict = "verify" THEN slots < AdmissionSlots /\ slots' = slots + 1
                                      ELSE slots' = slots
        BY <1>6 DEF TakeSlot
    <2>2. PICK new : new = [old EXCEPT !.at = verdict]
        OBVIOUS
    <2>3. old.at = "judged" /\ login' = [login EXCEPT ![l] = new]
        BY <1>1, <1>2, <1>6, <2>1, <2>2 DEF TakeSlot
    <2>4. /\ new \in Login /\ new.at = verdict /\ new.page = old.page /\ new.token = old.token
          /\ new.reading = old.reading /\ new.arrived = old.arrived
        BY <1>2, <2>1, <2>2 DEF Login, Verdicts
    <2>5. /\ OfItsTime(old.page, live, liveLogin) /\ old.arrived <= live
          /\ old.reading.revision <= live /\ JudgedWell(old)
        BY <1>2, <2>3 DEF LoginInv
    <2>6. JudgedWell(new)
        BY <2>1, <2>3, <2>4, <2>5 DEF JudgedWell
    <2>7. LoginInv(new, live, liveLogin)
        BY <2>1, <2>4, <2>5, <2>6 DEF LoginInv
    <2> QED BY <1>1, <1>3, <2>1, <2>3, <2>4, <2>7, LoginMoves
<1>7. CASE LoginLeaves(l)
    <2>1. old.at \in Verdicts /\ login' = [login EXCEPT ![l] = NoLogin] /\ slots' = slots
        BY <1>1, <1>7 DEF LoginLeaves
    <2>2. LoginInv(NoLogin, live, liveLogin)
        BY LoginRecords DEF LoginInv
    <2>3. NoLogin.at # "verify" /\ old.at # "verify"
        BY <2>1, LoginRecords DEF Verdicts
    <2> QED BY <1>1, <1>3, <2>1, <2>2, <2>3, LoginRecords, LoginMoves
<1> QED BY <1>4, <1>5, <1>6, <1>7

\* No request of an earlier process is there.
LEMMA FreshLogins ==
    ASSUME login = [l \in Logins |-> NoLogin], slots = 0
    PROVE  ILogins
<1>1. \A l \in Logins : login[l] = NoLogin
    OBVIOUS
<1>2. Verifying = {}
    BY <1>1, LoginRecords DEF Verifying
<1>3. SlotsExact
    BY <1>2, FS_EmptySet DEF SlotsExact, Verifying
<1>4. TurnstileTypeOK
    BY LoginRecords, TurnstileConstants DEF TurnstileTypeOK
<1>5. \A l \in Logins : LoginInv(login[l], live, liveLogin)
    BY <1>1, LoginRecords DEF LoginInv
<1> QED BY <1>3, <1>4, <1>5 DEF ILogins

LEMMA RestartLogins ==
    ASSUME RestartAll
    PROVE  ILogins'
<1>1. login' = [l \in Logins |-> NoLogin] /\ slots' = 0
    BY DEF RestartAll
<1>2. \A l \in Logins : login'[l] = NoLogin
    BY <1>1
<1>3. Verifying' = {}
    BY <1>2, LoginRecords DEF Verifying
<1>4. SlotsExact'
    BY <1>1, <1>3, FS_EmptySet DEF SlotsExact, Verifying
<1>5. TurnstileTypeOK'
    BY <1>1, LoginRecords, TurnstileConstants DEF TurnstileTypeOK
<1>6. \A l \in Logins : LoginInv(login'[l], live', liveLogin')
    BY <1>2, LoginRecords DEF LoginInv
<1> QED BY <1>4, <1>5, <1>6 DEF ILogins

LEMMA ILoginsImpliesTurnstileInv ==
    ASSUME IUpdates, ILogins
    PROVE  TurnstileInv
<1>1. ASSUME NEW l \in Logins
      PROVE  /\ login[l].reading.revision # 0 =>
                   login[l].arrived <= login[l].reading.revision /\ login[l].reading.revision <= live
             /\ login[l].at = "admitted" =>
                   \/ ~login[l].reading.settings.enabled
                   \/ login[l].token = "fresh" /\ login[l].page.settings.site = login[l].reading.settings.secret
             /\ login[l].at \in {"required", "rejected"} /\ login[l].token = "fresh" =>
                   login[l].page.revision # login[l].reading.revision
    <2>1. LoginInv(login[l], live, liveLogin)
        BY DEF ILogins
    <2>2. CASE login[l].at \in {"idle", "page", "sent"}
        <3>1. login[l].reading.revision = 0
            BY <2>1, <2>2, LoginRecords DEF LoginInv
        <3> QED BY <2>2, <3>1
    <2>3. CASE login[l].at \notin {"idle", "page", "sent"}
        BY <2>1, <2>3 DEF LoginInv, JudgedWell
    <2> QED BY <2>2, <2>3
<1> QED BY <1>1 DEF ILogins, TurnstileInv, JudgedInForce, FailsClosed, HonestBrowserServed

\* However logins, updates of the settings and stops of the server interleave
\* (panel/session_handlers.go 118-203, panel/turnstile.go 94-187): every call of the
\* service holds a slot, a login is judged by settings that were in force while it was
\* handled, it is let through only by them or by a token of their site, and a browser
\* is blamed for no fresh token unless new settings came between its page and its login.
THEOREM TurnstileInvariant == TurnstileSpec => []TurnstileInv
<1> DEFINE Inv == ISettings /\ ILogins
<1>1. TurnstileInit => Inv
    BY SettingsStart, FreshLogins DEF TurnstileInit
<1>2. Inv /\ [TurnstileNext]_turnstileVars => Inv'
    <2> SUFFICES ASSUME Inv, [TurnstileNext]_turnstileVars PROVE Inv'
        OBVIOUS
    <2>0. live \in Nat /\ IUpdates
        BY DEF ISettings, IUpdates, UpdateTypes
    <2>1. CASE SettingsStep /\ UNCHANGED loginVars
        <3>1. ISettings' /\ Published
            BY <2>1, SettingsStepKeeps
        <3>2. live' \in Nat
            BY <3>1 DEF ISettings, IUpdates, UpdateTypes
        <3> QED BY <2>0, <2>1, <3>1, <3>2, SettingsMove
    <2>2. CASE LoginStep
        <3>1. PICK l \in Logins : OpenPage(l) \/ VerifyLogin(l) \/ \E t \in TokenKinds : SendLogin(l, t)
            BY <2>2 DEF LoginStep
        <3>2. ILogins'
            BY <2>0, <3>1, OtherLoginSteps, ReadIsJudgedWell, AnswerIsJudgedWell DEF VerifyLogin
        <3>3. UNCHANGED settingsVars
            BY <3>1 DEF OpenPage, VerifyLogin, ReadSettings, TakeSlot, SiteverifyAnswers, LoginLeaves, SendLogin
        <3> QED BY <3>2, <3>3, SameSettings
    <2>3. CASE RestartAll
        <3>1. ISettings'
            BY <2>3, RestartKeeps DEF RestartAll
        <3> QED BY <2>3, <3>1, RestartLogins
    <2>4. CASE UNCHANGED turnstileVars
        <3>1. UNCHANGED settingsVars /\ UNCHANGED loginVars
            BY <2>4 DEF turnstileVars
        <3>2. ISettings'
            BY <3>1, SameSettings
        <3>3. live' = live /\ liveLogin' = liveLogin
            BY <3>1 DEF settingsVars, componentVars
        <3>4. Published
            BY <3>3 DEF Published
        <3> QED BY <2>0, <3>1, <3>2, <3>3, <3>4, SettingsMove
    <2> QED BY <2>1, <2>2, <2>3, <2>4 DEF TurnstileNext
<1>3. Inv => TurnstileInv
    BY ILoginsImpliesTurnstileInv DEF ISettings
<1> QED BY <1>1, <1>2, <1>3, PTL DEF TurnstileSpec

-----------------------------------------------------------------------------
(* The bootstrap of the administrator.  A row that makes its account an     *)
(* administrator with a password that nobody knows is only there while the *)
(* disk can hold nothing but the file with that password.                  *)

Rows == [password : Passwords, enabledAdmin : BOOLEAN]

\* The administrators a power failure may leave.
Administrators == {row \in dbImages : row # Absent /\ row.enabledAdmin}

AllKnown == \A row \in Administrators : row.password \in known

InTheFile(row) == fileImages = {row.password} /\ account \in Rows /\ account.password = row.password

FileTypes ==
    /\ dbImages \subseteq Accounts
    /\ fileImages \subseteq {Absent, Torn} \cup Passwords
    /\ pc = "write" => file = Torn
    /\ pc \in {"sync", "syncdir", "account"} => credential = file /\ file \in Passwords

KnownOrInTheFile ==
    ~reused =>
        /\ pc = "account" => fileImages = {file}
        /\ pc \in {"write", "sync", "syncdir", "cleaning"} => AllKnown
        /\ \A row \in Administrators : row.password \in known \/ InTheFile(row)

IBootstrap == BootstrapTypeOK /\ FileTypes /\ KnownOrInTheFile

LEMMA BootstrapKeepsTypes ==
    ASSUME BootstrapTypeOK, FileTypes, [BootstrapNext]_bootVars
    PROVE  BootstrapTypeOK' /\ FileTypes'
<1> USE DEF BootstrapTypeOK, FileTypes
<1>1. CASE Start
    BY <1>1 DEF Start, StartsAt
<1>2. CASE OpenNew
    BY <1>2 DEF OpenNew
<1>3. CASE OpenExisting
    BY <1>3 DEF OpenExisting
<1>4. CASE OpenTorn
    BY <1>4 DEF OpenTorn
<1>5. CASE WriteFile
    BY <1>5 DEF WriteFile, Passwords
<1>6. CASE SyncFile
    BY <1>6 DEF SyncFile
<1>7. CASE SyncDirectory
    BY <1>7 DEF SyncDirectory, ImagesAfterSyncDir
<1>8. CASE WriteAccount
    <2>1. PICK row : row = [password |-> credential, enabledAdmin |-> TRUE]
        OBVIOUS
    <2>2. row \in Accounts
        BY <1>8, <2>1 DEF WriteAccount, Accounts
    <2>3. account' = row /\ dbImages' = dbImages \cup {row}
        BY <1>8, <2>1 DEF WriteAccount, Commit
    <2> QED BY <1>8, <2>2, <2>3 DEF WriteAccount
<1>9. CASE RemoveFile
    BY <1>9 DEF RemoveFile
<1>10. CASE ReadFile
    BY <1>10 DEF ReadFile
<1>11. CASE ChangePassword
    <2>1. PICK q \in ChosenPasswords : /\ Commit([account EXCEPT !.password = q]) /\ known' = known \cup {q}
        BY <1>11 DEF ChangePassword
    <2>2. account \in [password : Passwords, enabledAdmin : BOOLEAN] /\ q \in Passwords
        BY <1>11 DEF ChangePassword, EnabledAdmin, Accounts, Passwords
    <2>3. [account EXCEPT !.password = q] \in Accounts
        BY <2>2 DEF Accounts
    <2> QED BY <1>11, <2>1, <2>2, <2>3 DEF ChangePassword, Commit
<1>12. CASE AdminLost
    <2>1. account \in [password : Passwords, enabledAdmin : BOOLEAN]
        BY <1>12 DEF AdminLost, EnabledAdmin, Accounts
    <2>2. [account EXCEPT !.enabledAdmin = FALSE] \in Accounts
        BY <2>1 DEF Accounts
    <2> QED BY <1>12, <2>2 DEF AdminLost, Commit
<1>13. CASE WriteFails
    BY <1>13 DEF WriteFails
<1>14. CASE Crash
    BY <1>14 DEF Crash
<1>15. CASE PowerFailure
    BY <1>15 DEF PowerFailure
<1>16. CASE Checkpoint
    BY <1>16 DEF Checkpoint
<1>17. CASE UNCHANGED bootVars
    BY <1>17 DEF bootVars
<1> QED BY <1>1, <1>2, <1>3, <1>4, <1>5, <1>6, <1>7, <1>8, <1>9, <1>10, <1>11, <1>12, <1>13, <1>14,
           <1>15, <1>16, <1>17 DEF BootstrapNext, ServerStep

\* Rows and files stay, and what is known stays known.
LEMMA RowsStay ==
    ASSUME KnownOrInTheFile, UNCHANGED <<fileImages, account, dbImages>>, known \subseteq known',
           reused => reused', ~reused' => (pc' = "account" => fileImages' = {file'}),
           ~reused' => (pc' \in {"write", "sync", "syncdir", "cleaning"} => AllKnown)
    PROVE  KnownOrInTheFile'
<1>1. Administrators' = Administrators /\ \A row : InTheFile(row)' = InTheFile(row)
    BY DEF Administrators, InTheFile
<1> QED BY <1>1 DEF KnownOrInTheFile, AllKnown

\* Everything is known, so the files do not matter.
LEMMA KnownStays ==
    ASSUME AllKnown, UNCHANGED <<known, dbImages>>, pc' = "account" => fileImages' = {file'}
    PROVE  KnownOrInTheFile'
<1>1. Administrators' = Administrators
    BY DEF Administrators
<1> QED BY <1>1 DEF KnownOrInTheFile, AllKnown

LEMMA BootstrapKeepsKnown ==
    ASSUME IBootstrap, [BootstrapNext]_bootVars
    PROVE  KnownOrInTheFile'
<1> USE DEF IBootstrap
<1>0. /\ \A row \in dbImages : row # Absent => row \in Rows
      /\ file \in fileImages /\ reused \in BOOLEAN /\ account \in dbImages
      /\ Absent \notin Passwords /\ Torn \notin Passwords
    BY BootstrapAssumption DEF BootstrapTypeOK, FileTypes, Accounts, Rows, Passwords
<1>1. CASE Start
    BY <1>1, RowsStay DEF Start, StartsAt
<1>2. CASE OpenNew
    <2>1. CASE reused
        BY <1>2, <2>1 DEF OpenNew, KnownOrInTheFile
    <2>2. CASE ~reused
        <3>1. file = Absent
            BY <1>2 DEF OpenNew
        <3>2. \A row \in Administrators : ~InTheFile(row)
            BY <1>0, <3>1 DEF Administrators, InTheFile, Rows
        <3>3. AllKnown
            BY <2>2, <3>2 DEF KnownOrInTheFile, AllKnown
        <3> QED BY <1>2, <3>3, KnownStays DEF OpenNew
    <2> QED BY <2>1, <2>2
<1>3. CASE OpenExisting
    BY <1>3, RowsStay DEF OpenExisting
<1>4. CASE OpenTorn
    BY <1>4, RowsStay DEF OpenTorn
<1>5. CASE WriteFile \/ SyncFile \/ SyncDirectory \/ WriteFails \/ RemoveFile
    <2>1. reused' = reused /\ pc \in {"write", "sync", "syncdir", "cleaning"} /\ UNCHANGED <<known, dbImages>>
        BY <1>5 DEF WriteFile, SyncFile, SyncDirectory, WriteFails, RemoveFile
    <2>2. pc' = "account" => fileImages' = {file'}
        BY <1>5 DEF WriteFile, SyncFile, SyncDirectory, ImagesAfterSyncDir, WriteFails, RemoveFile
    <2>3. CASE reused
        BY <2>1, <2>3 DEF KnownOrInTheFile
    <2>4. CASE ~reused
        <3>1. AllKnown
            BY <2>1, <2>4 DEF KnownOrInTheFile
        <3> QED BY <2>1, <2>2, <3>1, KnownStays
    <2> QED BY <2>3, <2>4
<1>6. CASE WriteAccount
    <2>1. PICK new : new = [password |-> credential, enabledAdmin |-> TRUE]
        OBVIOUS
    <2>2. /\ account' = new /\ dbImages' = dbImages \cup {new} /\ pc = "account" /\ pc' = "serving"
          /\ UNCHANGED <<file, fileImages, known, reused>>
        BY <1>6, <2>1 DEF WriteAccount, Commit
    <2>3. new.password = file /\ new \in Rows
        BY <2>1, <2>2 DEF FileTypes, Rows
    <2>4. ASSUME ~reused, NEW row \in Administrators' PROVE row.password \in known \/ InTheFile(row)'
        <3>1. fileImages = {file}
            BY <2>2, <2>4 DEF KnownOrInTheFile
        <3>2. CASE row = new
            BY <2>2, <2>3, <3>1, <3>2 DEF InTheFile
        <3>3. CASE row # new
            <4>1. row \in Administrators
                BY <2>2, <2>4, <3>3 DEF Administrators
            <4>2. row.password \in known \/ fileImages = {row.password}
                BY <2>4, <4>1 DEF KnownOrInTheFile, InTheFile
            <4> QED BY <2>2, <2>3, <3>1, <4>2 DEF InTheFile
        <3> QED BY <3>2, <3>3
    <2> QED BY <2>2, <2>4 DEF KnownOrInTheFile
<1>7. CASE ReadFile
    BY <1>7, RowsStay DEF ReadFile, KnownOrInTheFile, AllKnown
<1>8. CASE ChangePassword
    <2>1. PICK q \in ChosenPasswords : /\ Commit([account EXCEPT !.password = q]) /\ known' = known \cup {q}
        BY <1>8 DEF ChangePassword
    <2>2. /\ account \in Rows /\ account.password \in known /\ reused' = reused /\ pc' = "cleaning"
        BY <1>0, <1>8 DEF ChangePassword, EnabledAdmin
    <2>3. PICK new : new = [account EXCEPT !.password = q]
        OBVIOUS
    <2>4. new.password = q /\ dbImages' = dbImages \cup {new}
        BY <2>1, <2>2, <2>3 DEF Commit, Rows
    <2>5. ~reused => AllKnown
        BY <2>2 DEF KnownOrInTheFile, AllKnown, InTheFile
    <2>6. ~reused => AllKnown'
        BY <2>1, <2>4, <2>5 DEF AllKnown, Administrators
    <2> QED BY <2>2, <2>6 DEF KnownOrInTheFile, AllKnown
<1>9. CASE AdminLost
    <2>1. PICK new : new = [account EXCEPT !.enabledAdmin = FALSE]
        OBVIOUS
    <2>2. /\ account \in Rows /\ account' = new /\ dbImages' = dbImages \cup {new} /\ pc = "down"
          /\ UNCHANGED <<pc, fileImages, known, reused>>
        BY <1>0, <1>9, <2>1 DEF AdminLost, EnabledAdmin, Commit
    <2>3. new \in Rows /\ new.password = account.password /\ ~new.enabledAdmin
        BY <2>1, <2>2 DEF Rows
    <2>4. Administrators' \subseteq Administrators
        BY <2>2, <2>3 DEF Administrators
    <2>5. \A row : InTheFile(row) => InTheFile(row)'
        BY <2>2, <2>3 DEF InTheFile
    <2> QED BY <2>2, <2>4, <2>5 DEF KnownOrInTheFile
<1>10. CASE Crash
    BY <1>10, RowsStay DEF Crash
<1>11. CASE PowerFailure
    <2>1. /\ file' \in fileImages /\ fileImages' = {file'} /\ account' \in dbImages /\ dbImages' = {account'}
          /\ pc' = "down" /\ UNCHANGED <<known, reused>>
        BY <1>11 DEF PowerFailure
    <2>2. ASSUME ~reused, NEW row \in Administrators' PROVE row.password \in known \/ InTheFile(row)'
        <3>1. row = account' /\ row \in Administrators /\ row \in Rows
            BY <1>0, <2>1, <2>2 DEF Administrators
        <3>2. row.password \in known \/ fileImages = {row.password}
            BY <2>2, <3>1 DEF KnownOrInTheFile, InTheFile
        <3> QED BY <2>1, <3>1, <3>2 DEF InTheFile
    <2> QED BY <2>1, <2>2 DEF KnownOrInTheFile
<1>12. CASE Checkpoint
    <2>1. dbImages' = {account} /\ UNCHANGED <<pc, file, fileImages, account, known, reused>>
        BY <1>12 DEF Checkpoint
    <2>2. Administrators' \subseteq Administrators /\ \A row : InTheFile(row)' = InTheFile(row)
        BY <1>0, <2>1 DEF Administrators, InTheFile
    <2> QED BY <2>1, <2>2 DEF KnownOrInTheFile, AllKnown
<1>13. CASE UNCHANGED bootVars
    BY <1>13, RowsStay DEF bootVars, KnownOrInTheFile
<1> QED BY <1>1, <1>2, <1>3, <1>4, <1>5, <1>6, <1>7, <1>8, <1>9, <1>10, <1>11, <1>12, <1>13
        DEF BootstrapNext, ServerStep

LEMMA IBootstrapImpliesBootstrapInv == IBootstrap => BootstrapInv
BY DEF IBootstrap, KnownOrInTheFile, Administrators, InTheFile, BootstrapTypeOK, BootstrapInv,
       AdminReachable, EnabledAdmin

\* Wherever the server is stopped, the machine loses power or a call fails
\* (bootstrap_credentials.go 58 and 145-212, and the password change of
\* session_handlers.go), the password of an enabled bootstrap administrator stands in
\* the credential file or is known to the operator, unless a start took over a file
\* that an earlier one did not come to sync.
THEOREM BootstrapInvariant == BootstrapSpec => []BootstrapInv
<1>1. BootstrapInit => IBootstrap
    BY DEF BootstrapInit, IBootstrap, BootstrapTypeOK, FileTypes, KnownOrInTheFile, Administrators, Accounts
<1>2. IBootstrap /\ [BootstrapNext]_bootVars => IBootstrap'
    BY BootstrapKeepsTypes, BootstrapKeepsKnown DEF IBootstrap
<1>3. IBootstrap => BootstrapInv
    BY IBootstrapImpliesBootstrapInv
<1> QED BY <1>1, <1>2, <1>3, PTL DEF BootstrapSpec

=============================================================================
