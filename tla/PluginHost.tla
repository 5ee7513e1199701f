----------------------------- MODULE PluginHost ------------------------------
(* The boot of every plugin, one directory after the other, with its gates,   *)
(* time-out and networking, the event layer that is built on first use, and   *)
(* the teardown of a plugin and of the host                                   *)
(* (src/core/src/plugin-host/plugin-host.ts), over two parts it composes.     *)
(* The review layer (src/core/src/certification): the certificate beside a    *)
(* plugin and the register of revoked content hashes.  The register is one    *)
(* file, which the host reads once at boot and the operator's command line    *)
(* tool reads, extends and writes back.  A plugin directory stands for the    *)
(* hash of its content; a record that is malformed, expired, signed by a      *)
(* stranger or about other content is "invalid".                              *)
(* What the code of a plugin does to the registries it shares with the        *)
(* others: the context loadPlugin hands to activate, the DisposerBag that     *)
(* collects what it registered, the skills of the broker and the listeners of *)
(* the HookRegistry (src/core/src/plugin-loader, disposable.ts, hooks).       *)
(* The code of a plugin runs when it likes: it may register before activate   *)
(* returns, from a handler, and after the host gave it up.  A plugin has one  *)
(* skill and one listener (which stands for filters and timers too).          *)
EXTENDS Sequences

CONSTANTS Dirs,          \* the subdirectories of the plugins directory
          Certificate,   \* per directory, what its record may be found to be:
                         \* "none", "invalid", "valid" or "corrupt"
          Revokers       \* the runs of the command line tool

VARIABLES
    revocationList, \* the register on disk: whether it can be read, its entries
    revocation,   \* the entries the host holds
    revokers,     \* per run of the tool: its step and the entries it holds
    revoked       \* history: the hashes a run of the tool has revoked

certification == <<revocationList, revocation, revokers, revoked>>

ReviewTypeOK ==
    /\ revocationList \in [ok : BOOLEAN, entries : SUBSET Dirs]
    /\ revocation \subseteq Dirs /\ revoked \subseteq Dirs
    /\ revokers \in [Revokers -> [step : {"idle", "loaded"}, entries : SUBSET Dirs]]

InitCertification ==
    /\ revocationList \in [ok : BOOLEAN, entries : {{}}]
    /\ revocation = {} /\ revoked = {}
    /\ revokers = [c \in Revokers |-> [step |-> "idle", entries |-> {}]]

\* Mutant: the register is only looked for.
loadLenient(entries) == revocation' = {}

\* What the host holds after load.
load(entries) == revocation' = entries

\* The verdict on one plugin: a record that cannot be parsed throws.
Verdict(d, found) ==
    CASE found = "corrupt" -> "throws"
      [] found = "valid" /\ d \notin revocation -> "certified"
      [] OTHER -> "uncertified"

verifyPluginCertification(d) == {Verdict(d, found) : found \in Certificate[d]}

\* revokePluginCertification: load, then revokeCertificate; the tool stops at a
\* register it cannot read.
loadRegister(c) ==
    /\ revokers[c].step = "idle" /\ revocationList.ok
    /\ revokers' = [revokers EXCEPT ![c] = [step |-> "loaded", entries |-> revocationList.entries]]
    /\ UNCHANGED <<revocationList, revocation, revoked>>

revokeCertificate(c, d) ==
    /\ revokers[c].step = "loaded"
    /\ revocationList' = [revocationList EXCEPT !.entries = revokers[c].entries \cup {d}]
    /\ revokers' = [revokers EXCEPT ![c] = [step |-> "idle", entries |-> {}]]
    /\ revoked' = revoked \cup {d}
    /\ UNCHANGED revocation

Reviewed == {d \in Dirs : "valid" \in Certificate[d]}

RevokerStep == \E c \in Revokers : loadRegister(c) \/ \E d \in Reviewed : revokeCertificate(c, d)

-----------------------------------------------------------------------------
CONSTANTS Plugins,    \* the directories whose code may run
          Id,         \* the id in the manifest of each
          NoPlugin    \* nobody

VARIABLES
    bags,        \* per directory: its DisposerBag, if loadPlugin got one
    skills,      \* the broker: per plugin id, whose handler its skill has
    listeners,   \* the HookRegistry: the directories with a listener
    running      \* the directories whose activate has not settled

context == <<bags, skills, listeners, running>>

Ids == {Id[d] : d \in Plugins}

ContextTypeOK ==
    /\ bags \in [Plugins -> [made : BOOLEAN, disposed : BOOLEAN, skill : BOOLEAN, hook : BOOLEAN]]
    /\ skills \in [Ids -> Plugins \cup {NoPlugin}]
    /\ listeners \subseteq Plugins /\ running \subseteq Plugins

NoBag == [made |-> FALSE, disposed |-> FALSE, skill |-> FALSE, hook |-> FALSE]

InitContext ==
    /\ bags = [d \in Plugins |-> NoBag]
    /\ skills = [i \in Ids |-> NoPlugin]
    /\ listeners = {} /\ running = {}

\* Mutant: a disposer that comes after dispose waits in the bag.
DisposesNever(d) == FALSE

\* DisposerBag.add after dispose runs the disposer at once.
Disposes(d) == bags[d].disposed

\* registerSkill replaces whatever had the name, and unregisterSkill goes by name.
register(d) ==
    /\ bags[d].made
    /\ skills' = [skills EXCEPT ![Id[d]] = IF Disposes(d) THEN NoPlugin ELSE d]
    /\ bags' = [bags EXCEPT ![d].skill = @ \/ ~Disposes(d)]
    /\ UNCHANGED <<listeners, running>>

unregister(d) ==
    /\ bags[d].made
    /\ skills' = [skills EXCEPT ![Id[d]] = NoPlugin]
    /\ UNCHANGED <<bags, listeners, running>>

on(d) ==
    /\ bags[d].made
    /\ listeners' = IF Disposes(d) THEN listeners \ {d} ELSE listeners \cup {d}
    /\ bags' = [bags EXCEPT ![d].hook = @ \/ ~Disposes(d)]
    /\ UNCHANGED <<skills, running>>

PluginStep == \E d \in Plugins : register(d) \/ unregister(d) \/ on(d)

\* loadPlugin begins with an empty bag; what comes after runs as the plugin's code.
loadPlugin(d) ==
    /\ bags' = [bags EXCEPT ![d] = [NoBag EXCEPT !.made = TRUE]]
    /\ running' = running \cup {d}
    /\ UNCHANGED <<skills, listeners>>

\* DisposerBag.dispose.
dispose(d) ==
    /\ skills' = IF bags[d].skill THEN [skills EXCEPT ![Id[d]] = NoPlugin] ELSE skills
    /\ listeners' = listeners \ {d}
    /\ bags' = [bags EXCEPT ![d] = [NoBag EXCEPT !.made = TRUE, !.disposed = TRUE]]

-----------------------------------------------------------------------------
CONSTANTS Order,             \* the directories, sorted by name
          Manifest,          \* per directory: "broken", "unsigned" or "signed"
          Exposes,           \* per directory: the event topics its manifest exposes
          RequireSigned,
          RequireCertified,
          EnableNetworking

ASSUME HostAssumption ==
    /\ Plugins = Dirs /\ NoPlugin \notin Dirs
    /\ Order \in Seq(Dirs) /\ \A i, j \in DOMAIN Order : Order[i] = Order[j] => i = j
    /\ {RequireSigned, RequireCertified, EnableNetworking} \subseteq BOOLEAN

VARIABLES
    phase,       \* where the boot is
    left,        \* the directories it has still to go through
    activated,   \* per plugin id: the directory that is active under it, and its bag
    states,      \* per plugin id: PluginState
    exposed,     \* exposedEvents, the union
    layer,       \* eventLayerPromise, and the topics its hub serves
    syncing,     \* a refresh of the hub is queued
    provider,    \* the transport the host started
    greeting,    \* the listeners that core:ready has still to call
    stopping,    \* stop is under way
    barred       \* history: the hashes revoked before the boot read the register

host == <<phase, left, activated, states, exposed, layer, syncing,
          provider, greeting, stopping, barred>>
boots == <<activated, states, exposed, syncing>>
nets  == <<layer, provider, greeting, stopping>>
vars  == <<certification, context, host>>

Phases == {"off", "register", "next", "certify", "activate", "network", "start", "announce",
           "greet", "ready", "rejected"}
States == {"unset", "ACTIVE", "FAILED_ACTIVATION", "FAILED_ACTIVATION_TIMEOUT"}

NoLayer == [is |-> "none", hub |-> {}]
Exposable == UNION {Exposes[d] : d \in Dirs}
Turn == Head(left)

TypeOK ==
    /\ ReviewTypeOK /\ ContextTypeOK
    /\ phase \in Phases /\ states \in [Ids -> States]
    /\ activated \in [Ids -> Dirs \cup {NoPlugin}]
    /\ exposed \subseteq Exposable
    /\ layer \in [is : {"none", "building", "built", "failed"}, hub : SUBSET Exposable]
    /\ provider \in {"none", "up", "stopping"} /\ {stopping, syncing} \subseteq BOOLEAN
    /\ greeting \subseteq Dirs /\ barred \subseteq Dirs

Init ==
    /\ InitCertification /\ InitContext
    /\ phase = "off" /\ left = <<>>
    /\ activated = [i \in Ids |-> NoPlugin] /\ states = [i \in Ids |-> "unset"]
    /\ exposed = {} /\ layer = NoLayer /\ syncing = FALSE
    /\ provider = "none" /\ greeting = {} /\ stopping = FALSE /\ barred = {}

Reject == phase' = "rejected" /\ UNCHANGED left
Goes(to) == phase' = to /\ UNCHANGED left
Skip == phase' = "next" /\ left' = Tail(left)

----------------------------------------------------------------------------
(* boot *)

readdir ==
    /\ phase = "off"
    /\ \/ Reject
       \/ phase' = "register" /\ left' = Order
    /\ UNCHANGED <<certification, context, boots, nets, barred>>

ReadRegister ==
    /\ phase = "register"
    /\ IF revocationList.ok THEN load(revocationList.entries) /\ Goes("next")
                      ELSE Reject /\ UNCHANGED revocation
    /\ barred' = revoked
    /\ UNCHANGED <<revocationList, revokers, revoked, context, boots, nets>>

\* Not readable, not valid, or with a signature that is wrong.
Invalid(d) == Manifest[d] = "broken"

loadManifest ==
    /\ phase = "next" /\ left # <<>>
    /\ IF Invalid(Turn) \/ (RequireSigned /\ Manifest[Turn] = "unsigned")
       THEN Skip ELSE Goes("certify")
    /\ UNCHANGED <<certification, context, boots, nets, barred>>

Certify ==
    /\ phase = "certify"
    /\ \E verdict \in verifyPluginCertification(Turn) :
          \/ verdict = "throws" /\ Reject /\ UNCHANGED <<context, states>>
          \/ /\ RequireCertified /\ verdict = "uncertified"
             /\ states' = [states EXCEPT ![Id[Turn]] = "FAILED_ACTIVATION"]
             /\ Skip /\ UNCHANGED context
          \/ /\ verdict # "throws" /\ ~(RequireCertified /\ verdict = "uncertified")
             /\ loadPlugin(Turn) /\ Goes("activate") /\ UNCHANGED states
    /\ UNCHANGED <<certification, activated, exposed, syncing, nets, barred>>

\* Mutant: the hub learns of a plugin only when it is built.
syncNever == UNCHANGED syncing

syncExposedEvents == syncing' = (syncing \/ layer.is \in {"building", "built"})

\* activate returned in time.
Activated(d) ==
    /\ activated' = [activated EXCEPT ![Id[d]] = d]
    /\ states' = [states EXCEPT ![Id[d]] = "ACTIVE"]
    /\ exposed' = exposed \cup Exposes[d]
    /\ syncExposedEvents

Failed(d, state) ==
    /\ dispose(d)
    /\ states' = [states EXCEPT ![Id[d]] = state]
    /\ UNCHANGED <<activated, exposed, syncing>>

Waited(d) == phase = "activate" /\ d = Turn

\* The promise of activate settles; a host that gave up does not look.
Settle(d) ==
    /\ d \in running
    /\ running' = running \ {d}
    /\ \/ Waited(d) /\ Activated(d) /\ Skip /\ UNCHANGED <<bags, skills, listeners>>
       \/ Waited(d) /\ Failed(d, "FAILED_ACTIVATION") /\ Skip
       \/ ~Waited(d) /\ UNCHANGED <<bags, skills, listeners, boots, phase, left>>
    /\ UNCHANGED <<certification, nets, barred>>

\* Mutant: the boot waits for the plugin.
TimeOutNever ==
    /\ phase = "activate" /\ Turn \notin running
    /\ Failed(Turn, "FAILED_ACTIVATION_TIMEOUT") /\ Skip
    /\ UNCHANGED <<running, certification, nets, barred>>

TimeOut ==
    /\ phase = "activate"
    /\ Failed(Turn, "FAILED_ACTIVATION_TIMEOUT") /\ Skip
    /\ UNCHANGED <<running, certification, nets, barred>>

Loaded ==
    /\ phase = "next" /\ left = <<>>
    /\ Goes(IF EnableNetworking THEN "network" ELSE "announce")
    /\ UNCHANGED <<certification, context, boots, nets, barred>>

\* The identity may fail; whatever fails here is swallowed.
startNetworking ==
    /\ phase = "network"
    /\ Goes("start") \/ Goes("announce")
    /\ UNCHANGED <<certification, context, boots, nets, barred>>

Started ==
    /\ phase = "start"
    /\ Goes("announce")
    /\ provider' \in {"none", "up"}
    /\ UNCHANGED <<certification, context, boots, layer, greeting, stopping, barred>>

\* emit("core:ready") awaits the handlers of the moment, one after the other,
\* and a failing one does not keep the next from its turn.
emit ==
    /\ phase = "announce"
    /\ Goes("greet") /\ greeting' = listeners
    /\ UNCHANGED <<certification, context, boots, layer, provider, stopping, barred>>

Greeted(d) ==
    /\ phase = "greet" /\ d \in greeting
    /\ greeting' = greeting \ {d}
    /\ UNCHANGED <<certification, context, boots, layer, provider, stopping, phase, left, barred>>

Ready ==
    /\ phase = "greet" /\ greeting = {}
    /\ Goes("ready")
    /\ UNCHANGED <<certification, context, boots, nets, barred>>

----------------------------------------------------------------------------
(* The event layer, which a plugin or an inbound frame asks for *)

\* An inbound frame, or the code of a plugin through ctx.events.
EventsAsked == provider = "up" \/ \E d \in Dirs : bags[d].made

ensureEventLayer ==
    /\ layer.is = "none" /\ EventsAsked
    /\ layer' = [is |-> "building", hub |-> {}]
    /\ UNCHANGED <<certification, context, boots, phase, left, provider, greeting, stopping, barred>>

\* It waits for the identity, which may fail.
LayerBuilt ==
    /\ layer.is = "building"
    /\ layer' \in {[is |-> "built", hub |-> exposed], [is |-> "failed", hub |-> {}]}
    /\ syncing' = (syncing /\ layer'.is = "built")
    /\ UNCHANGED <<certification, context, activated, states, exposed, phase, left, provider,
                   greeting, stopping, barred>>

setExposedEvents ==
    /\ syncing /\ layer.is = "built"
    /\ layer' = [layer EXCEPT !.hub = exposed] /\ syncing' = FALSE
    /\ UNCHANGED <<certification, context, activated, states, exposed, phase, left, provider,
                   greeting, stopping, barred>>

----------------------------------------------------------------------------
(* Teardown *)

deactivate(i) ==
    /\ activated[i] # NoPlugin
    /\ dispose(activated[i])
    /\ activated' = [activated EXCEPT ![i] = NoPlugin]
    /\ states' = [states EXCEPT ![i] = "unset"]
    /\ UNCHANGED <<running, certification, exposed, syncing, nets, phase, left, barred>>

stop ==
    /\ phase \in {"greet", "ready"} /\ ~stopping
    /\ stopping' = TRUE
    /\ provider' = IF provider = "up" THEN "stopping" ELSE "none"
    /\ UNCHANGED <<certification, context, boots, layer, greeting, phase, left, barred>>

\* The transport is down and the promise of the layer has settled.
Stopped ==
    /\ stopping /\ layer.is # "building"
    /\ provider' = "none" /\ layer' = NoLayer /\ stopping' = FALSE /\ syncing' = FALSE
    /\ UNCHANGED <<certification, context, activated, states, exposed, greeting, phase, left, barred>>

\* The process ends, at any point, and starts again.
Restart ==
    /\ phase # "off"
    /\ phase' = "off" /\ left' = <<>>
    /\ activated' = [i \in Ids |-> NoPlugin] /\ states' = [i \in Ids |-> "unset"]
    /\ exposed' = {} /\ layer' = NoLayer /\ syncing' = FALSE
    /\ provider' = "none" /\ greeting' = {} /\ stopping' = FALSE /\ barred' = {}
    /\ bags' = [d \in Plugins |-> NoBag] /\ skills' = [i \in Ids |-> NoPlugin]
    /\ listeners' = {} /\ running' = {} /\ revocation' = {}
    /\ UNCHANGED <<revocationList, revokers, revoked>>

----------------------------------------------------------------------------
BootStep ==
    \/ readdir \/ ReadRegister \/ loadManifest \/ Certify \/ Loaded \/ startNetworking \/ Started \/ emit
    \/ Ready \/ TimeOut

Next ==
    \/ BootStep
    \/ \E d \in Dirs : Settle(d) \/ Greeted(d)
    \/ PluginStep /\ UNCHANGED <<certification, host>>
    \/ RevokerStep /\ UNCHANGED <<context, host>>
    \/ ensureEventLayer \/ LayerBuilt \/ setExposedEvents
    \/ \E i \in Ids : deactivate(i)
    \/ stop \/ Stopped \/ Restart

\* The event loop runs the host's own steps and its timer; nothing makes the
\* code of a plugin settle.
Spec == Init /\ [][Next]_vars /\ WF_vars(BootStep)

----------------------------------------------------------------------------
Live(d) == activated[Id[d]] = d \/ Waited(d)

\* However late the code of a plugin registers, and however its activation
\* ended, the shared registries hold nothing of a plugin that is neither being
\* activated nor active.
NothingDangles ==
    /\ \A i \in Ids : skills[i] # NoPlugin => Live(skills[i])
    /\ \A d \in listeners : Live(d)

\* Once no refresh is under way the hub serves what the host says it exposes,
\* whether it was built before, between or after the activations.
ExposureInStep == layer.is = "built" /\ ~syncing => layer.hub = exposed

\* What the broker, the bus and the hub hold is what the plugins that are there
\* have put into them.
RegistriesInStep == NothingDangles /\ ExposureInStep

\* With certificates required, no content runs whose revocation had ended before
\* the boot began, after any number of restarts.
RevokedNeverRuns == RequireCertified => \A i \in Ids : activated[i] \notin barred

\* A plugin that never settles, fails or lacks a manifest does not keep the boot
\* from the directories after it.
AllVisited == phase = "next" ~> (left = <<>> \/ phase \in {"off", "rejected"})

=============================================================================
