----------------------------- MODULE HostProofs ------------------------------
(* For any plugins directory whose manifests have ids of their own: the        *)
(* broker, the bus and the hub hold what the plugins that are there have put   *)
(* into them.  For a register that one run of the tool at a time extends: no   *)
(* content runs whose revocation had ended before the boot began.  For any      *)
(* number of rules and mutations under way: a rule proposes as its agent, the    *)
(* engine follows the rule set, and every budget holds.  And for any number of   *)
(* peers and writes: the permission matrix only narrows.                        *)
EXTENDS PluginHost, Rules, Governance, SequenceTheorems, FiniteSetTheorems,
        WellFoundedInduction, TLAPS

\* A bag that takes what a plugin registers.
In(d) == bags[d].made /\ ~bags[d].disposed

\* The directories that have no bag yet.
Coming == IF phase = "activate" THEN Tail(left) ELSE left

Distinct(s) == \A i, j \in 1..Len(s) : s[i] = s[j] => i = j

\* The boot comes to every directory once.
QueueInv ==
    /\ left \in Seq(Dirs) /\ Distinct(left)
    /\ \A i \in 1..Len(Coming) : ~bags[Coming[i]].made
    /\ phase \in {"certify", "activate"} => left # <<>>
    /\ phase \in {"off", "register"} => \A d \in Plugins : ~bags[d].made

\* What is active or being activated got a bag in this boot, under its own id.
ActiveInv ==
    /\ \A i \in Ids : activated[i] # NoPlugin => Id[activated[i]] = i /\ bags[activated[i]].made
    /\ phase = "activate" => bags[Turn].made

\* What the bus and the broker hold belongs to an open bag, which knows the skill,
\* and an open bag belongs to a plugin that is being activated or active.
OwnInv ==
    /\ \A d \in listeners : In(d)
    /\ \A i \in Ids : skills[i] # NoPlugin =>
          Id[skills[i]] = i /\ In(skills[i]) /\ bags[skills[i]].skill
    /\ \A d \in Plugins : In(d) => Live(d)

\* Every manifest has an id of its own.
OwnIds == \A d, e \in Plugins : Id[d] = Id[e] => d = e

-----------------------------------------------------------------------------
(* The types, and the queue of the boot *)

LEMMA TailFacts ==
    ASSUME NEW s \in Seq(Dirs), s # <<>>, Distinct(s)
    PROVE  /\ Head(s) \in Dirs /\ Tail(s) \in Seq(Dirs) /\ Distinct(Tail(s))
           /\ \A i \in 1..Len(Tail(s)) :
                 /\ Tail(s)[i] # Head(s) /\ Tail(s)[i] \in Dirs
                 /\ \E j \in 1..Len(s) : Tail(s)[i] = s[j]
  <1>1. Len(s) \in Nat /\ Len(s) >= 1
    OBVIOUS
  <1>2. Head(s) = s[1] /\ s[1] \in Dirs
    BY <1>1
  <1>3. Tail(s) \in Seq(Dirs) /\ Len(Tail(s)) = Len(s) - 1
    OBVIOUS
  <1>4. \A i \in 1..Len(Tail(s)) : i + 1 \in 1..Len(s) /\ Tail(s)[i] = s[i + 1]
    BY <1>1, <1>3
  <1>5. \A i \in 1..Len(s) : s[i] \in Dirs
    OBVIOUS
  <1>6. Distinct(Tail(s))
    BY <1>1, <1>3, <1>4 DEF Distinct
  <1>7. ASSUME NEW i \in 1..Len(Tail(s))
        PROVE  /\ Tail(s)[i] # Head(s) /\ Tail(s)[i] \in Dirs
               /\ \E j \in 1..Len(s) : Tail(s)[i] = s[j]
    BY <1>1, <1>2, <1>4, <1>5, <1>7 DEF Distinct
  <1>. QED
    BY <1>2, <1>3, <1>6, <1>7

Bag == [made : BOOLEAN, disposed : BOOLEAN, skill : BOOLEAN, hook : BOOLEAN]

LEMMA InitTypeOK == Init => TypeOK
  <1> SUFFICES ASSUME Init PROVE TypeOK
    OBVIOUS
  <1>1. ReviewTypeOK
    <2>1. revokers = [c \in Revokers |-> [step |-> "idle", entries |-> {}]]
          /\ revocation = {} /\ revoked = {} /\ revocationList \in [ok : BOOLEAN, entries : {{}}]
      BY DEF Init, InitCertification
    <2>. QED BY <2>1 DEF ReviewTypeOK
  <1>2. ContextTypeOK
    BY DEF Init, InitContext, ContextTypeOK, NoBag
  <1>. QED
    BY <1>1, <1>2 DEF Init, TypeOK, NoLayer, Phases, States

\* Disposing leaves registries and bags of their types.
LEMMA DisposeType ==
    ASSUME TypeOK, NEW d \in Plugins, dispose(d)
    PROVE  /\ skills' \in [Ids -> Plugins \cup {NoPlugin}] /\ listeners' \subseteq Plugins
           /\ bags' \in [Plugins -> Bag]
  BY DEF TypeOK, ContextTypeOK, dispose, NoBag, Ids, Bag

LEMMA ReviewType == TypeOK /\ QueueInv /\ [Next]_vars => ReviewTypeOK'
  <1> SUFFICES ASSUME TypeOK, QueueInv, [Next]_vars PROVE ReviewTypeOK'
    OBVIOUS
  <1>1. ReviewTypeOK
    BY DEF TypeOK
  <1>2. CASE UNCHANGED certification
    BY <1>1, <1>2 DEF certification, ReviewTypeOK
  <1>3. CASE ReadRegister
    BY <1>1, <1>3 DEF ReadRegister, load, ReviewTypeOK
  <1>4. CASE Restart
    BY <1>1, <1>4 DEF Restart, ReviewTypeOK
  <1>5. ASSUME NEW c \in Revokers, loadRegister(c) PROVE ReviewTypeOK'
    BY <1>1, <1>5 DEF loadRegister, ReviewTypeOK
  <1>6. ASSUME NEW c \in Revokers, NEW d \in Reviewed, revokeCertificate(c, d) PROVE ReviewTypeOK'
    BY <1>1, <1>6 DEF revokeCertificate, ReviewTypeOK, Reviewed
  <1>7. ASSUME NEW d \in Dirs, Settle(d) \/ Greeted(d) PROVE UNCHANGED certification
    BY <1>7 DEF Settle, Greeted
  <1>8. ASSUME NEW i \in Ids, deactivate(i) PROVE UNCHANGED certification
    BY <1>8 DEF deactivate
  <1>9. CASE BootStep /\ ~ReadRegister
    <2>1. UNCHANGED certification
      BY <1>9 DEF BootStep, readdir, loadManifest, Certify, Loaded, startNetworking, Started, emit,
         Ready, TimeOut
    <2>. QED BY <2>1, <1>2
  <1>10. CASE ensureEventLayer \/ LayerBuilt \/ setExposedEvents \/ stop \/ Stopped
    <2>1. UNCHANGED certification
      BY <1>10 DEF ensureEventLayer, LayerBuilt, setExposedEvents, stop, Stopped
    <2>. QED BY <2>1, <1>2
  <1>. QED
    BY <1>2, <1>3, <1>4, <1>5, <1>6, <1>7, <1>8, <1>9, <1>10 DEF Next, RevokerStep, BootStep, vars


\* While a manifest is looked at there is one.
LEMMA TurnType == TypeOK /\ QueueInv /\ phase \in {"certify", "activate"} => Turn \in Dirs /\ Turn \in Plugins
  BY TailFacts, HostAssumption DEF QueueInv, Turn

LEMMA ContextType == TypeOK /\ QueueInv /\ [Next]_vars => ContextTypeOK'
  <1> SUFFICES ASSUME TypeOK, QueueInv, [Next]_vars PROVE ContextTypeOK'
    OBVIOUS
  <1>1. ContextTypeOK
    BY DEF TypeOK
  <1>2. CASE UNCHANGED context
    BY <1>1, <1>2 DEF context, ContextTypeOK
  <1>3. ASSUME NEW d \in Plugins, dispose(d), running' \subseteq Plugins PROVE ContextTypeOK'
    BY <1>3, DisposeType DEF ContextTypeOK, Bag
  <1>4. CASE Certify
    <2>1. Turn \in Plugins
      BY <1>4, TurnType DEF Certify
    <2>2. CASE loadPlugin(Turn)
      BY <1>1, <2>1, <2>2 DEF loadPlugin, ContextTypeOK, NoBag
    <2>3. UNCHANGED context \/ loadPlugin(Turn)
      BY <1>4 DEF Certify
    <2>. QED BY <2>2, <2>3, <1>2
  <1>5. ASSUME NEW d \in Dirs, Settle(d) PROVE ContextTypeOK'
    <2>1. running' \subseteq Plugins /\ d \in Plugins
      BY <1>1, <1>5, HostAssumption DEF Settle, ContextTypeOK
    <2>2. dispose(d) \/ UNCHANGED <<bags, skills, listeners>>
      BY <1>5 DEF Settle, Failed
    <2>. QED BY <2>1, <2>2, <1>1, <1>3 DEF ContextTypeOK
  <1>6. CASE TimeOut
    <2>1. Turn \in Plugins
      BY <1>6, TurnType DEF TimeOut
    <2>2. dispose(Turn) /\ running' \subseteq Plugins
      BY <1>1, <1>6 DEF TimeOut, Failed, ContextTypeOK
    <2>. QED BY <2>1, <2>2, <1>3
  <1>7. ASSUME NEW d \in Plugins, register(d) PROVE ContextTypeOK'
    BY <1>1, <1>7 DEF register, ContextTypeOK, Ids, Disposes
  <1>8. ASSUME NEW d \in Plugins, unregister(d) \/ on(d) PROVE ContextTypeOK'
    BY <1>1, <1>8 DEF unregister, on, ContextTypeOK, Ids, Disposes
  <1>9. ASSUME NEW i \in Ids, deactivate(i) PROVE ContextTypeOK'
    <2>1. activated[i] \in Plugins
      BY <1>9, HostAssumption DEF deactivate, TypeOK
    <2>2. dispose(activated[i]) /\ running' \subseteq Plugins
      BY <1>1, <1>9 DEF deactivate, ContextTypeOK
    <2>. QED BY <2>1, <2>2, <1>3
  <1>10. CASE Restart
    BY <1>10 DEF Restart, ContextTypeOK, NoBag
  <1>11. ASSUME NEW d \in Dirs, Greeted(d) PROVE UNCHANGED context
    BY <1>11 DEF Greeted
  <1>12. CASE BootStep /\ ~Certify /\ ~TimeOut
    <2>1. UNCHANGED context
      BY <1>12 DEF BootStep, readdir, ReadRegister, loadManifest, Loaded, startNetworking, Started, emit,
         Ready
    <2>. QED BY <2>1, <1>2
  <1>13. CASE ensureEventLayer \/ LayerBuilt \/ setExposedEvents \/ stop \/ Stopped
    <2>1. UNCHANGED context
      BY <1>13 DEF ensureEventLayer, LayerBuilt, setExposedEvents, stop, Stopped
    <2>. QED BY <2>1, <1>2
  <1>. QED
    BY <1>2, <1>4, <1>5, <1>6, <1>7, <1>8, <1>9, <1>10, <1>11, <1>12, <1>13
       DEF Next, PluginStep, BootStep, vars

LEMMA BootType == TypeOK /\ QueueInv /\ BootStep => phase' \in Phases /\ states' \in [Ids -> States]
  <1> SUFFICES ASSUME TypeOK, QueueInv, BootStep PROVE phase' \in Phases /\ states' \in [Ids -> States]
    OBVIOUS
  <1> USE DEF Goes, Skip, Reject, Phases
  <1>1. phase \in Phases /\ states \in [Ids -> States]
    BY DEF TypeOK
  <1>2. CASE UNCHANGED states /\ ~Certify /\ ~TimeOut
    <2>1. phase' \in Phases
      BY <1>1, <1>2 DEF BootStep, readdir, ReadRegister, loadManifest, Loaded, startNetworking, Started,
         emit, Ready
    <2>. QED BY <2>1, <1>1, <1>2
  <1>3. CASE Certify
    <2>1. Turn \in Plugins
      BY <1>3, TurnType DEF Certify
    <2>2. phase' \in Phases
      BY <1>3 DEF Certify
    <2>3. states' = states \/ states' = [states EXCEPT ![Id[Turn]] = "FAILED_ACTIVATION"]
      BY <1>3 DEF Certify
    <2>. QED BY <1>1, <2>1, <2>2, <2>3 DEF States, Ids
  <1>4. CASE TimeOut
    <2>1. Turn \in Plugins
      BY <1>4, TurnType DEF TimeOut
    <2>. QED BY <1>1, <1>4, <2>1 DEF TimeOut, Failed, States, Ids
  <1>5. CASE ~Certify /\ ~TimeOut
    <2>1. UNCHANGED states
      BY <1>5 DEF BootStep, readdir, ReadRegister, loadManifest, Loaded, startNetworking, Started, emit,
         Ready, boots
    <2>. QED BY <2>1, <1>5, <1>2
  <1>. QED
    BY <1>3, <1>4, <1>5


\* The types of what the host keeps besides the registries.
HostTypeOK ==
    /\ phase \in Phases /\ states \in [Ids -> States]
    /\ activated \in [Ids -> Dirs \cup {NoPlugin}]
    /\ exposed \subseteq Exposable
    /\ layer \in [is : {"none", "building", "built", "failed"}, hub : SUBSET Exposable]
    /\ provider \in {"none", "up", "stopping"} /\ {stopping, syncing} \subseteq BOOLEAN
    /\ greeting \subseteq Dirs /\ barred \subseteq Dirs

LEMMA HostType == TypeOK /\ QueueInv /\ [Next]_vars => HostTypeOK'
  <1> SUFFICES ASSUME TypeOK, QueueInv, [Next]_vars PROVE HostTypeOK'
    OBVIOUS
  <1>1. HostTypeOK /\ ContextTypeOK /\ ReviewTypeOK
    BY DEF TypeOK, HostTypeOK
  <1>2. CASE UNCHANGED host
    BY <1>1, <1>2 DEF host, HostTypeOK
  <1>3. ASSUME BootStep PROVE HostTypeOK'
    <2>1. phase' \in Phases /\ states' \in [Ids -> States]
      BY <1>3, BootType
    <2>2. UNCHANGED <<activated, exposed, layer, syncing, stopping>> /\ provider' \in {provider, "none", "up"}
      BY <1>3 DEF BootStep, readdir, ReadRegister, loadManifest, Certify, Loaded, startNetworking,
         Started, emit, Ready, TimeOut, Failed, boots, nets
    <2>3. greeting' \in {greeting, listeners} /\ barred' \in {barred, revoked}
      BY <1>3 DEF BootStep, readdir, ReadRegister, loadManifest, Certify, Loaded, startNetworking,
         Started, emit, Ready, TimeOut, nets
    <2>. QED BY <1>1, <2>1, <2>2, <2>3, HostAssumption DEF HostTypeOK, ContextTypeOK, ReviewTypeOK
  <1>4. ASSUME NEW d \in Dirs, Settle(d) PROVE HostTypeOK'
    <2>1. d \in Plugins
      BY HostAssumption
    <2>2. UNCHANGED <<layer, provider, greeting, stopping, barred>>
      BY <1>4 DEF Settle, nets
    <2>3. phase' \in Phases
      BY <1>1, <1>4 DEF Settle, Skip, Phases, HostTypeOK
    <2>4. states' \in [Ids -> States]
      BY <1>1, <1>4, <2>1 DEF Settle, Activated, Failed, HostTypeOK, States, Ids, boots
    <2>5. activated' \in [Ids -> Dirs \cup {NoPlugin}]
      BY <1>1, <1>4, <2>1 DEF Settle, Activated, Failed, HostTypeOK, Ids, boots
    <2>6. syncing' \in BOOLEAN
      BY <1>1, <1>4 DEF Settle, Activated, Failed, HostTypeOK, boots, syncExposedEvents
    <2>7. exposed' \subseteq Exposable
      BY <1>1, <1>4 DEF Settle, Activated, Failed, HostTypeOK, boots, Exposable
    <2>. QED BY <1>1, <2>2, <2>3, <2>4, <2>5, <2>6, <2>7 DEF HostTypeOK
  <1>5. ASSUME NEW d \in Dirs, Greeted(d) PROVE HostTypeOK'
    BY <1>1, <1>5 DEF Greeted, HostTypeOK, boots
  <1>6. ASSUME NEW i \in Ids, deactivate(i) PROVE HostTypeOK'
    BY <1>1, <1>6 DEF deactivate, HostTypeOK, States, nets
  <1>7. CASE ensureEventLayer
    BY <1>1, <1>7 DEF ensureEventLayer, HostTypeOK, boots
  <1>8. CASE LayerBuilt
    BY <1>1, <1>8 DEF LayerBuilt, HostTypeOK
  <1>9. CASE setExposedEvents
    BY <1>1, <1>9 DEF setExposedEvents, HostTypeOK
  <1>10. CASE stop
    BY <1>1, <1>10 DEF stop, HostTypeOK, boots
  <1>11. CASE Stopped
    BY <1>1, <1>11 DEF Stopped, HostTypeOK, NoLayer
  <1>12. CASE Restart
    BY <1>12 DEF Restart, HostTypeOK, NoLayer, Phases, States
  <1>. QED
    BY <1>2, <1>3, <1>4, <1>5, <1>6, <1>7, <1>8, <1>9, <1>10, <1>11, <1>12 DEF Next, vars

LEMMA TypeStep == TypeOK /\ QueueInv /\ [Next]_vars => TypeOK'
  BY ReviewType, ContextType, HostType DEF TypeOK, HostTypeOK

-----------------------------------------------------------------------------
(* The queue *)

LEMMA InitQueue == Init => QueueInv
  <1> SUFFICES ASSUME Init PROVE QueueInv
    OBVIOUS
  <1>1. left = <<>> /\ phase = "off" /\ \A d \in Plugins : ~bags[d].made
    BY DEF Init, InitContext, NoBag
  <1>2. Coming = <<>>
    BY <1>1 DEF Coming
  <1>. QED
    BY <1>1, <1>2 DEF QueueInv, Distinct

\* A step that leaves the boot where it is and gives nobody a bag.
LEMMA QueueQuiet ==
    ASSUME QueueInv, UNCHANGED <<phase, left>>,
           \A d \in Plugins : bags'[d].made = bags[d].made
    PROVE  QueueInv'
  <1>1. Coming' = Coming
    BY DEF Coming
  <1>2. left \in Seq(Dirs) /\ Distinct(left)
    BY DEF QueueInv
  <1>3. \A i \in 1..Len(Coming) : Coming[i] \in Plugins
    <2>1. CASE phase # "activate"
      BY <1>2, <2>1, HostAssumption DEF Coming
    <2>2. CASE phase = "activate"
      BY <1>2, <2>2, HostAssumption, TailFacts DEF Coming, QueueInv
    <2>. QED BY <2>1, <2>2
  <1>. QED
    BY <1>1, <1>3 DEF QueueInv

\* The boot goes on to the next directory.
LEMMA QueueSkip ==
    ASSUME QueueInv, left # <<>>, Skip,
           \A d \in Plugins : (d = Turn /\ phase = "activate") \/ bags'[d].made = bags[d].made
    PROVE  QueueInv'
  <1>1. left \in Seq(Dirs) /\ Distinct(left)
    BY DEF QueueInv
  <1>2. phase' = "next" /\ left' = Tail(left) /\ Coming' = Tail(left)
    BY DEF Skip, Coming
  <1>3. left' \in Seq(Dirs) /\ Distinct(left')
    BY <1>1, <1>2, TailFacts
  <1>4. ASSUME NEW i \in 1..Len(Coming') PROVE ~bags'[Coming'[i]].made
    <2>1. Tail(left)[i] \in Plugins /\ Tail(left)[i] # Turn
      BY <1>1, <1>2, <1>4, TailFacts, HostAssumption DEF Turn
    <2>2. ~bags[Tail(left)[i]].made
      <3>1. CASE phase = "activate"
        BY <1>2, <1>4, <3>1 DEF Coming, QueueInv
      <3>2. CASE phase # "activate"
        <4>1. PICK j \in 1..Len(left) : Tail(left)[i] = left[j]
          BY <1>1, <1>2, <1>4, TailFacts
        <4>. QED BY <4>1, <3>2 DEF Coming, QueueInv
      <3>. QED BY <3>1, <3>2
    <2>. QED BY <1>2, <2>1, <2>2
  <1>. QED
    BY <1>2, <1>3, <1>4 DEF QueueInv


\* Opening and closing a bag, as far as the queue looks at it.
LEMMA DisposeMade ==
    ASSUME TypeOK, NEW d \in Plugins, dispose(d)
    PROVE  \A e \in Plugins : bags'[e].made = IF e = d THEN TRUE ELSE bags[e].made
  BY DEF TypeOK, ContextTypeOK, dispose, NoBag

LEMMA QueueStep == TypeOK /\ QueueInv /\ ActiveInv /\ [Next]_vars => QueueInv'
  <1> SUFFICES ASSUME TypeOK, QueueInv, ActiveInv, [Next]_vars PROVE QueueInv'
    OBVIOUS
  <1>1. bags \in [Plugins -> Bag]
    BY DEF TypeOK, ContextTypeOK, Bag
  <1>2. CASE UNCHANGED <<phase, left, bags>>
    BY <1>2, QueueQuiet
  <1>3. CASE readdir
    <2>1. bags' = bags /\ \A d \in Plugins : ~bags[d].made
      BY <1>3 DEF readdir, context, QueueInv
    <2>2. CASE Reject
      BY <1>3, <2>1, <2>2 DEF Reject, QueueInv, Coming, readdir
    <2>3. CASE phase' = "register" /\ left' = Order
      BY <2>1, <2>3, HostAssumption DEF QueueInv, Coming, Distinct
    <2>. QED BY <1>3, <2>2, <2>3 DEF readdir
  <1>4. CASE ReadRegister \/ Loaded \/ startNetworking \/ Started \/ emit \/ Ready
    <2>1. UNCHANGED <<left, bags>> /\ phase \notin {"certify", "activate"}
          /\ phase' \notin {"off", "register", "certify", "activate"}
      BY <1>4 DEF ReadRegister, Loaded, startNetworking, Started, emit, Ready, Goes, Reject, context
    <2>. QED BY <2>1 DEF QueueInv, Coming
  <1>5. CASE loadManifest
    <2>1. phase = "next" /\ left # <<>> /\ bags' = bags
      BY <1>5 DEF loadManifest, context
    <2>2. CASE Skip
      BY <2>1, <2>2, QueueSkip
    <2>3. CASE Goes("certify")
      BY <2>1, <2>3 DEF QueueInv, Coming, Goes
    <2>. QED BY <1>5, <2>2, <2>3 DEF loadManifest
  <1>6. CASE Certify
    <2>1. phase = "certify" /\ left # <<>> /\ Coming = left
      BY <1>6 DEF Certify, QueueInv, Coming
    <2>2. CASE Reject /\ UNCHANGED bags
      BY <2>1, <2>2 DEF Reject, QueueInv, Coming
    <2>3. CASE Skip /\ UNCHANGED bags
      BY <2>1, <2>3, QueueSkip
    <2>4. CASE loadPlugin(Turn) /\ Goes("activate")
      <3>1. left \in Seq(Dirs) /\ Distinct(left)
        BY DEF QueueInv
      <3>2. left' = left /\ phase' = "activate" /\ Coming' = Tail(left)
        BY <2>4 DEF Goes, Coming
      <3>3. ASSUME NEW i \in 1..Len(Coming') PROVE ~bags'[Coming'[i]].made
        <4>1. Tail(left)[i] \in Plugins /\ Tail(left)[i] # Turn
          BY <2>1, <3>1, <3>2, <3>3, TailFacts, HostAssumption DEF Turn
        <4>2. PICK j \in 1..Len(left) : Tail(left)[i] = left[j]
          BY <2>1, <3>1, <3>2, <3>3, TailFacts
        <4>3. ~bags[Tail(left)[i]].made
          BY <2>1, <4>2 DEF QueueInv
        <4>4. bags'[Tail(left)[i]] = bags[Tail(left)[i]]
          BY <1>1, <2>4, <4>1 DEF loadPlugin
        <4>. QED BY <3>2, <4>3, <4>4
      <3>. QED BY <2>1, <3>1, <3>2, <3>3 DEF QueueInv
    <2>. QED BY <1>6, <2>2, <2>3, <2>4 DEF Certify, context
  <1>7. ASSUME NEW d \in Dirs, Settle(d) PROVE QueueInv'
    <2>1. CASE ~Waited(d)
      BY <1>7, <2>1, <1>2 DEF Settle
    <2>2. CASE Waited(d)
      <3>1. phase = "activate" /\ d = Turn /\ d \in Plugins /\ left # <<>> /\ Skip
        BY <1>7, <2>2, HostAssumption DEF Waited, Settle, QueueInv
      <3>2. UNCHANGED bags \/ dispose(d)
        BY <1>7, <2>2 DEF Settle, Failed
      <3>3. \A e \in Plugins : e = Turn \/ bags'[e].made = bags[e].made
        BY <3>1, <3>2, DisposeMade
      <3>. QED BY <3>1, <3>3, QueueSkip
    <2>. QED BY <2>1, <2>2
  <1>8. CASE TimeOut
    <2>1. phase = "activate" /\ left # <<>> /\ Skip /\ dispose(Turn) /\ Turn \in Plugins
      BY <1>8, TurnType DEF TimeOut, Failed, QueueInv
    <2>2. \A e \in Plugins : e = Turn \/ bags'[e].made = bags[e].made
      BY <2>1, DisposeMade
    <2>. QED BY <2>1, <2>2, QueueSkip
  <1>9. ASSUME NEW d \in Plugins, register(d) \/ unregister(d) \/ on(d), UNCHANGED host PROVE QueueInv'
    <2>1. UNCHANGED <<phase, left>>
      BY <1>9 DEF host
    <2>2. \A e \in Plugins : bags'[e].made = bags[e].made
      BY <1>1, <1>9 DEF register, unregister, on, Bag
    <2>. QED BY <2>1, <2>2, QueueQuiet
  <1>10. ASSUME NEW i \in Ids, deactivate(i) PROVE QueueInv'
    <2>1. activated[i] \in Plugins /\ bags[activated[i]].made /\ dispose(activated[i])
      BY <1>10, HostAssumption DEF deactivate, TypeOK, ActiveInv
    <2>2. \A e \in Plugins : bags'[e].made = bags[e].made
      BY <2>1, DisposeMade
    <2>3. UNCHANGED <<phase, left>>
      BY <1>10 DEF deactivate
    <2>. QED BY <2>2, <2>3, QueueQuiet
  <1>11. CASE Restart
    <2>1. left' = <<>> /\ phase' = "off" /\ \A d \in Plugins : ~bags'[d].made
      BY <1>11 DEF Restart, NoBag
    <2>. QED BY <2>1 DEF QueueInv, Coming, Distinct
  <1>12. ASSUME NEW d \in Dirs, Greeted(d) PROVE UNCHANGED <<phase, left, bags>>
    BY <1>12 DEF Greeted, context
  <1>13. CASE ensureEventLayer \/ LayerBuilt \/ setExposedEvents \/ stop \/ Stopped
    <2>1. UNCHANGED <<phase, left, bags>>
      BY <1>13 DEF ensureEventLayer, LayerBuilt, setExposedEvents, stop, Stopped, context
    <2>. QED BY <2>1, <1>2
  <1>14. CASE RevokerStep /\ UNCHANGED <<context, host>>
    BY <1>14, <1>2 DEF context, host
  <1>15. CASE UNCHANGED vars
    BY <1>15, <1>2 DEF vars, context, host
  <1>. QED
    BY <1>2, <1>3, <1>4, <1>5, <1>6, <1>7, <1>8, <1>9, <1>10, <1>11, <1>12, <1>13, <1>14, <1>15
       DEF Next, PluginStep, BootStep


-----------------------------------------------------------------------------
(* What is active, and what it has registered *)

LEMMA ActiveStep == TypeOK /\ QueueInv /\ ActiveInv /\ [Next]_vars => ActiveInv'
  <1> SUFFICES ASSUME TypeOK, QueueInv, ActiveInv, [Next]_vars PROVE ActiveInv'
    OBVIOUS
  <1>1. bags \in [Plugins -> Bag] /\ activated \in [Ids -> Plugins \cup {NoPlugin}]
    BY HostAssumption DEF TypeOK, ContextTypeOK, Bag
  <1>2. ASSUME \A i \in Ids : activated'[i] \in {activated[i], NoPlugin},
               \A d \in Plugins : bags[d].made => bags'[d].made,
               phase' # "activate" \/ UNCHANGED <<phase, left>>
        PROVE  ActiveInv'
    <2>1. ASSUME phase' = "activate" PROVE bags'[Turn'].made
      <3>1. Turn' = Turn /\ phase = "activate"
        BY <1>2, <2>1 DEF Turn
      <3>2. Turn \in Plugins
        BY <3>1, TurnType
      <3>. QED BY <1>2, <3>1, <3>2 DEF ActiveInv
    <2>2. ASSUME NEW i \in Ids, activated'[i] # NoPlugin
          PROVE  Id[activated'[i]] = i /\ bags'[activated'[i]].made
      BY <1>1, <1>2, <2>2 DEF ActiveInv
    <2>. QED BY <2>1, <2>2 DEF ActiveInv
  <1>3. ASSUME NEW d \in Plugins, dispose(d) PROVE \A e \in Plugins : bags[e].made => bags'[e].made
    BY <1>3, DisposeMade
  <1>4. CASE BootStep /\ ~Certify /\ ~TimeOut
    <2>1. UNCHANGED <<activated, bags>> /\ phase' # "activate"
      BY <1>4 DEF BootStep, readdir, ReadRegister, loadManifest, Loaded, startNetworking, Started, emit,
         Ready, boots, context, Reject, Skip, Goes
    <2>. QED BY <2>1, <1>2
  <1>5. CASE Certify
    <2>1. UNCHANGED activated /\ Turn \in Plugins
      BY <1>5, TurnType DEF Certify
    <2>2. CASE UNCHANGED bags /\ phase' # "activate"
      BY <2>1, <2>2, <1>2
    <2>3. CASE loadPlugin(Turn) /\ Goes("activate")
      <3>1. Turn' = Turn /\ bags'[Turn].made
        BY <1>1, <2>1, <2>3 DEF loadPlugin, Goes, Turn, NoBag
      <3>2. \A e \in Plugins : bags[e].made => bags'[e].made
        BY <1>1, <2>1, <2>3 DEF loadPlugin, NoBag
      <3>. QED BY <1>1, <2>1, <3>1, <3>2 DEF ActiveInv
    <2>. QED BY <1>5, <2>2, <2>3 DEF Certify, Reject, Skip, context
  <1>6. CASE TimeOut
    <2>1. UNCHANGED activated /\ dispose(Turn) /\ phase' # "activate" /\ Turn \in Plugins
      BY <1>6, TurnType DEF TimeOut, Failed, Skip
    <2>. QED BY <2>1, <1>2, <1>3
  <1>7. ASSUME NEW d \in Dirs, Settle(d) PROVE ActiveInv'
    <2>1. d \in Plugins
      BY HostAssumption
    <2>2. CASE UNCHANGED <<bags, activated, phase, left>>
      BY <2>2, <1>2
    <2>3. CASE dispose(d) /\ UNCHANGED activated /\ Skip
      BY <2>1, <2>3, <1>2, <1>3 DEF Skip
    <2>4. CASE Waited(d) /\ Activated(d) /\ Skip /\ UNCHANGED bags
      <3>1. activated' = [activated EXCEPT ![Id[d]] = d] /\ bags[d].made /\ phase' # "activate"
        BY <2>4 DEF Activated, Waited, Skip, ActiveInv
      <3>. QED BY <1>1, <2>1, <2>4, <3>1 DEF ActiveInv
    <2>. QED BY <1>7, <2>2, <2>3, <2>4 DEF Settle, Failed, boots
  <1>8. ASSUME NEW d \in Plugins, register(d) \/ unregister(d) \/ on(d), UNCHANGED host PROVE ActiveInv'
    <2>1. UNCHANGED <<phase, left, activated>>
      BY <1>8 DEF host
    <2>2. \A e \in Plugins : bags'[e].made = bags[e].made
      BY <1>1, <1>8 DEF register, unregister, on, Bag
    <2>. QED BY <2>1, <2>2, <1>2
  <1>9. ASSUME NEW i \in Ids, deactivate(i) PROVE ActiveInv'
    <2>1. activated[i] \in Plugins /\ dispose(activated[i]) /\ UNCHANGED <<phase, left>>
          /\ activated' = [activated EXCEPT ![i] = NoPlugin]
      BY <1>1, <1>9 DEF deactivate
    <2>2. \A j \in Ids : activated'[j] \in {activated[j], NoPlugin}
      BY <1>1, <2>1
    <2>. QED BY <2>1, <2>2, <1>2, <1>3
  <1>10. CASE Restart
    BY <1>10 DEF Restart, ActiveInv
  <1>11. ASSUME NEW d \in Dirs, Greeted(d) PROVE UNCHANGED <<phase, left, bags, activated>>
    BY <1>11 DEF Greeted, context, boots
  <1>12. CASE ensureEventLayer \/ LayerBuilt \/ setExposedEvents \/ stop \/ Stopped
    <2>1. UNCHANGED <<phase, left, bags, activated>>
      BY <1>12 DEF ensureEventLayer, LayerBuilt, setExposedEvents, stop, Stopped, context, boots
    <2>. QED BY <2>1, <1>2
  <1>13. CASE RevokerStep /\ UNCHANGED <<context, host>>
    BY <1>13, <1>2 DEF context, host
  <1>14. CASE UNCHANGED vars
    BY <1>14, <1>2 DEF vars, context, host
  <1>. QED
    BY <1>2, <1>4, <1>5, <1>6, <1>7, <1>8, <1>9, <1>10, <1>11, <1>12, <1>13, <1>14
       DEF Next, PluginStep, BootStep

\* What disposing leaves in the bus and the broker belongs to open bags.
Belongs ==
    /\ \A d \in listeners : In(d)
    /\ \A i \in Ids : skills[i] # NoPlugin =>
          Id[skills[i]] = i /\ In(skills[i]) /\ bags[skills[i]].skill

LEMMA DisposeBelongs ==
    ASSUME TypeOK, Belongs, NEW d \in Plugins, dispose(d)
    PROVE  Belongs' /\ \A e \in Plugins : In(e)' => In(e) /\ e # d
  <1>1. /\ bags \in [Plugins -> Bag] /\ listeners \subseteq Plugins
        /\ skills \in [Ids -> Plugins \cup {NoPlugin}]
    BY DEF TypeOK, ContextTypeOK, Bag
  <1>2. bags'[d].disposed /\ \A e \in Plugins : e # d => bags'[e] = bags[e]
    BY <1>1 DEF dispose, NoBag
  <1>3. \A e \in Plugins : In(e)' => In(e) /\ e # d
    BY <1>2 DEF In
  <1>4. \A e \in Plugins : e # d /\ In(e) => In(e)'
    BY <1>2 DEF In
  <1>5. \A e \in listeners' : In(e)'
    BY <1>1, <1>4 DEF dispose, Belongs
  <1>6. ASSUME NEW i \in Ids, skills'[i] # NoPlugin
        PROVE  /\ Id[skills'[i]] = i /\ bags'[skills'[i]].skill
               /\ bags'[skills'[i]].made /\ ~bags'[skills'[i]].disposed
    <2>1. skills'[i] = skills[i] /\ skills[i] \in Plugins
      BY <1>1, <1>6 DEF dispose
    <2>2. Id[skills[i]] = i /\ In(skills[i]) /\ bags[skills[i]].skill
      BY <1>6, <2>1 DEF Belongs
    <2>3. skills[i] # d
      BY <1>1, <1>6, <2>1, <2>2 DEF dispose
    <2>4. PICK e \in Plugins : e = skills[i]
      BY <2>1
    <2>. QED BY <1>2, <1>4, <2>1, <2>2, <2>3, <2>4 DEF In
  <1>. QED
    BY <1>3, <1>5, <1>6 DEF Belongs, In


LEMMA OwnStep ==
    ASSUME OwnIds, TypeOK, QueueInv, ActiveInv, OwnInv, [Next]_vars
    PROVE  OwnInv'
  <1>1. /\ bags \in [Plugins -> Bag] /\ activated \in [Ids -> Plugins \cup {NoPlugin}]
        /\ skills \in [Ids -> Plugins \cup {NoPlugin}] /\ listeners \subseteq Plugins
        /\ \A d \in Plugins : Id[d] \in Ids
    BY HostAssumption DEF TypeOK, ContextTypeOK, Bag, Ids
  <1>2. Belongs /\ \A d \in Plugins : In(d) => Live(d)
    BY DEF OwnInv, Belongs
  <1>3. CASE UNCHANGED <<bags, skills, listeners, activated, phase, left>>
    BY <1>3 DEF OwnInv, In, Live, Waited, Turn
  <1>4. ASSUME UNCHANGED <<bags, skills, listeners, activated>>, phase # "activate" \/ UNCHANGED <<phase, left>>
        PROVE  OwnInv'
    BY <1>4 DEF OwnInv, In, Live, Waited, Turn
  <1>5. CASE BootStep /\ ~Certify /\ ~TimeOut
    <2>1. UNCHANGED <<bags, skills, listeners, activated>> /\ phase # "activate"
      BY <1>5 DEF BootStep, readdir, ReadRegister, loadManifest, Loaded, startNetworking, Started, emit,
         Ready, boots, context
    <2>. QED BY <2>1, <1>4
  <1>6. CASE Certify
    <2>1. UNCHANGED activated /\ Turn \in Plugins /\ phase = "certify" /\ left # <<>>
      BY <1>6, TurnType DEF Certify, QueueInv
    <2>2. CASE UNCHANGED context
      BY <2>1, <2>2, <1>4 DEF context
    <2>3. CASE loadPlugin(Turn) /\ Goes("activate")
      <3>1. UNCHANGED <<skills, listeners>> /\ Turn' = Turn /\ phase' = "activate"
            /\ bags' = [bags EXCEPT ![Turn] = [NoBag EXCEPT !.made = TRUE]]
        BY <2>3 DEF loadPlugin, Goes, Turn
      <3>2. ~bags[Turn].made
        <4>1. Coming = left /\ 1 \in 1..Len(left) /\ left[1] = Turn
          BY <2>1 DEF QueueInv, Coming, Turn
        <4>. QED BY <4>1 DEF QueueInv
      <3>3. \A e \in Plugins : e # Turn => bags'[e] = bags[e]
        BY <1>1, <2>1, <3>1
      <3>4. \A e \in listeners' : In(e)'
        BY <1>1, <1>2, <3>1, <3>2, <3>3 DEF Belongs, In
      <3>5. ASSUME NEW i \in Ids, skills'[i] # NoPlugin
            PROVE  /\ Id[skills'[i]] = i /\ bags'[skills'[i]].skill
                   /\ bags'[skills'[i]].made /\ ~bags'[skills'[i]].disposed
        <4>1. PICK e \in Plugins : e = skills[i]
          BY <1>1, <3>1, <3>5
        <4>2. Id[e] = i /\ In(e) /\ bags[e].skill
          BY <1>2, <3>1, <3>5, <4>1 DEF Belongs
        <4>. QED BY <3>1, <3>2, <3>3, <4>1, <4>2 DEF In
      <3>6. ASSUME NEW e \in Plugins, In(e)' PROVE Live(e)'
        <4>1. CASE e = Turn
          BY <3>1, <4>1 DEF Live, Waited
        <4>2. CASE e # Turn
          <5>1. In(e)
            BY <3>3, <3>6, <4>2 DEF In
          <5>2. activated[Id[e]] = e
            BY <1>2, <2>1, <5>1 DEF Live, Waited
          <5>. QED BY <2>1, <5>2 DEF Live
        <4>. QED BY <4>1, <4>2
      <3>. QED BY <3>4, <3>5, <3>6 DEF OwnInv, In
    <2>. QED BY <1>6, <2>2, <2>3 DEF Certify
  <1>7. ASSUME NEW d \in Plugins, dispose(d),
               \A e \in Plugins : e # d /\ Live(e) => Live(e)'
        PROVE  OwnInv'
    <2>1. Belongs' /\ \A e \in Plugins : In(e)' => In(e) /\ e # d
      BY <1>2, <1>7, DisposeBelongs
    <2>. QED BY <1>2, <1>7, <2>1 DEF OwnInv, Belongs
  <1>8. CASE TimeOut
    <2>1. UNCHANGED activated /\ dispose(Turn) /\ Turn \in Plugins
      BY <1>8, TurnType DEF TimeOut, Failed
    <2>2. \A e \in Plugins : e # Turn /\ Live(e) => Live(e)'
      BY <2>1 DEF Live, Waited
    <2>. QED BY <2>1, <2>2, <1>7
  <1>9. ASSUME NEW d \in Dirs, Settle(d) PROVE OwnInv'
    <2>1. d \in Plugins
      BY HostAssumption
    <2>2. CASE ~Waited(d)
      BY <1>9, <2>2, <1>3 DEF Settle, boots
    <2>3. CASE Waited(d) /\ Failed(d, "FAILED_ACTIVATION")
      <3>1. UNCHANGED activated /\ dispose(d) /\ d = Turn
        BY <2>3 DEF Failed, Waited
      <3>2. \A e \in Plugins : e # d /\ Live(e) => Live(e)'
        BY <3>1 DEF Live, Waited
      <3>. QED BY <2>1, <3>1, <3>2, <1>7
    <2>4. CASE Waited(d) /\ Activated(d) /\ UNCHANGED <<bags, skills, listeners>>
      <3>1. activated' = [activated EXCEPT ![Id[d]] = d] /\ d = Turn
        BY <2>4 DEF Activated, Waited
      <3>2. \A e \in Plugins : Live(e) => Live(e)'
        BY <1>1, <2>1, <3>1 DEF Live, Waited, OwnIds
      <3>. QED BY <2>4, <3>2 DEF OwnInv, In
    <2>. QED BY <1>9, <2>2, <2>3, <2>4 DEF Settle
  <1>10. ASSUME NEW d \in Plugins, register(d) \/ unregister(d) \/ on(d), UNCHANGED host PROVE OwnInv'
    <2>1. UNCHANGED <<phase, left, activated>>
      BY <1>10 DEF host
    <2>2. \A e \in Plugins : bags'[e].made = bags[e].made /\ bags'[e].disposed = bags[e].disposed
                             /\ (bags[e].skill => bags'[e].skill)
      BY <1>1, <1>10 DEF register, unregister, on, Bag
    <2>3. \A e \in Plugins : In(e)' <=> In(e)
      BY <2>2 DEF In
    <2>4. \A e \in Plugins : In(e)' => Live(e)'
      BY <1>2, <2>1, <2>3 DEF Live, Waited, Turn
    <2>5. bags[d].made
      BY <1>10 DEF register, unregister, on
    <2>6. ASSUME NEW e \in listeners' PROVE In(e)'
      <3>1. e \in listeners \/ (e = d /\ ~bags[d].disposed)
        BY <1>10, <2>6 DEF register, unregister, on, Disposes
      <3>. QED BY <1>1, <1>2, <2>3, <2>5, <3>1 DEF Belongs, In
    <2>7. ASSUME NEW i \in Ids, skills'[i] # NoPlugin
          PROVE  /\ Id[skills'[i]] = i /\ bags'[skills'[i]].skill
                 /\ bags'[skills'[i]].made /\ ~bags'[skills'[i]].disposed
      <3>1. CASE skills'[i] = skills[i]
        <4>1. PICK e \in Plugins : e = skills[i]
          BY <1>1, <2>7, <3>1
        <4>2. Id[e] = i /\ In(e) /\ bags[e].skill
          BY <1>2, <2>7, <3>1, <4>1 DEF Belongs
        <4>. QED BY <2>2, <3>1, <4>1, <4>2 DEF In
      <3>2. CASE skills'[i] # skills[i]
        <4>1. register(d) /\ i = Id[d] /\ skills'[i] = d /\ ~bags[d].disposed
          BY <1>1, <1>10, <2>7, <3>2 DEF register, unregister, on, Disposes
        <4>2. bags'[d].skill
          BY <1>1, <4>1 DEF register, Disposes, Bag
        <4>. QED BY <2>2, <2>5, <4>1, <4>2
      <3>. QED BY <3>1, <3>2
    <2>. QED BY <1>1, <1>10, <2>4, <2>6, <2>7 DEF OwnInv, In
  <1>11. ASSUME NEW i \in Ids, deactivate(i) PROVE OwnInv'
    <2>1. PICK d \in Plugins : d = activated[i]
      BY <1>1, <1>11 DEF deactivate
    <2>2. dispose(d) /\ UNCHANGED <<phase, left>> /\ activated' = [activated EXCEPT ![i] = NoPlugin]
      BY <1>11, <2>1 DEF deactivate
    <2>3. \A e \in Plugins : e # d /\ Live(e) => Live(e)'
      BY <1>1, <2>1, <2>2 DEF Live, Waited, Turn
    <2>. QED BY <2>2, <2>3, <1>7
  <1>12. CASE Restart
    BY <1>1, <1>12 DEF Restart, OwnInv, In, NoBag
  <1>13. ASSUME NEW d \in Dirs, Greeted(d)
         PROVE  UNCHANGED <<bags, skills, listeners, activated, phase, left>>
    BY <1>13 DEF Greeted, context, boots
  <1>14. CASE ensureEventLayer \/ LayerBuilt \/ setExposedEvents \/ stop \/ Stopped
    <2>1. UNCHANGED <<bags, skills, listeners, activated, phase, left>>
      BY <1>14 DEF ensureEventLayer, LayerBuilt, setExposedEvents, stop, Stopped, context, boots
    <2>. QED BY <2>1, <1>3
  <1>15. CASE RevokerStep /\ UNCHANGED <<context, host>>
    BY <1>15, <1>3 DEF context, host
  <1>16. CASE UNCHANGED vars
    BY <1>16, <1>3 DEF vars, context, host
  <1>. QED
    BY <1>3, <1>5, <1>6, <1>8, <1>9, <1>10, <1>11, <1>12, <1>13, <1>14, <1>15, <1>16
       DEF Next, PluginStep, BootStep


-----------------------------------------------------------------------------
(* What the hub serves *)

LEMMA ExposureStep ==
    ASSUME TypeOK, ExposureInStep, [Next]_vars
    PROVE  ExposureInStep'
  <1> USE DEF ExposureInStep
  <1>1. layer \in [is : {"none", "building", "built", "failed"}, hub : SUBSET Exposable]
    BY DEF TypeOK
  <1>2. CASE UNCHANGED <<exposed, layer, syncing>>
    BY <1>2
  <1>3. ASSUME NEW d \in Dirs, Settle(d) PROVE ExposureInStep'
    <2>1. UNCHANGED layer
      BY <1>3 DEF Settle, nets
    <2>2. CASE Activated(d)
      BY <2>1, <2>2 DEF Activated, syncExposedEvents
    <2>3. CASE UNCHANGED <<exposed, syncing>>
      BY <2>1, <2>3
    <2>. QED BY <1>3, <2>2, <2>3 DEF Settle, Failed, boots
  <1>4. CASE BootStep
    <2>1. UNCHANGED <<exposed, layer, syncing>>
      BY <1>4 DEF BootStep, readdir, ReadRegister, loadManifest, Certify, Loaded, startNetworking,
         Started, emit, Ready, TimeOut, Failed, boots, nets
    <2>. QED BY <2>1
  <1>5. CASE ensureEventLayer
    BY <1>5 DEF ensureEventLayer
  <1>6. CASE LayerBuilt
    BY <1>6 DEF LayerBuilt
  <1>7. CASE setExposedEvents
    BY <1>1, <1>7 DEF setExposedEvents
  <1>8. CASE stop
    BY <1>8 DEF stop, boots
  <1>9. CASE Stopped \/ Restart
    BY <1>9 DEF Stopped, Restart, NoLayer
  <1>10. ASSUME NEW d \in Dirs, Greeted(d) PROVE UNCHANGED <<exposed, layer, syncing>>
    BY <1>10 DEF Greeted, boots
  <1>11. ASSUME NEW i \in Ids, deactivate(i) PROVE UNCHANGED <<exposed, layer, syncing>>
    BY <1>11 DEF deactivate, nets
  <1>12. CASE UNCHANGED host \/ UNCHANGED vars
    BY <1>12 DEF host, vars
  <1>. QED
    BY <1>2, <1>3, <1>4, <1>5, <1>6, <1>7, <1>8, <1>9, <1>10, <1>11, <1>12 DEF Next

HostInv == TypeOK /\ QueueInv /\ ActiveInv

LEMMA HostInvariant == Spec => []HostInv
  <1>1. Init => HostInv
    <2> SUFFICES ASSUME Init PROVE HostInv
      OBVIOUS
    <2>1. ActiveInv
      BY DEF Init, ActiveInv
    <2>. QED BY <2>1, InitTypeOK, InitQueue DEF HostInv
  <1>2. HostInv /\ [Next]_vars => HostInv'
    BY TypeStep, QueueStep, ActiveStep DEF HostInv
  <1>. QED
    BY <1>1, <1>2, PTL DEF Spec

\* The broker, the bus and the hub hold what the plugins that are there have put
\* into them, however late the code of a plugin registers and however its
\* activation ended: loadPlugin, the DisposerBag and the host's deactivate and stop.
THEOREM RegistriesAgree ==
    ASSUME OwnIds
    PROVE  Spec => []RegistriesInStep
  <1> DEFINE I == HostInv /\ OwnInv /\ ExposureInStep
  <1>1. Init => OwnInv /\ ExposureInStep
    <2> SUFFICES ASSUME Init PROVE OwnInv /\ ExposureInStep
      OBVIOUS
    <2>1. listeners = {} /\ (\A i \in Ids : skills[i] = NoPlugin) /\ \A d \in Plugins : ~bags[d].made
      BY DEF Init, InitContext, NoBag
    <2>. QED BY <2>1 DEF Init, NoLayer, OwnInv, In, ExposureInStep
  <1>2. OwnInv /\ ExposureInStep /\ HostInv /\ [Next]_vars => (OwnInv /\ ExposureInStep)'
    BY OwnIds, OwnStep, ExposureStep DEF HostInv
  <1>3. HostInv /\ OwnInv /\ ExposureInStep => RegistriesInStep
    <2> SUFFICES ASSUME HostInv, OwnInv, ExposureInStep PROVE RegistriesInStep
      OBVIOUS
    <2>1. (\A d \in listeners : d \in Plugins)
          /\ \A i \in Ids : skills[i] # NoPlugin => skills[i] \in Plugins
      BY DEF HostInv, TypeOK, ContextTypeOK
    <2>. QED BY <2>1 DEF OwnInv, RegistriesInStep, NothingDangles
  <1>. QED
    BY <1>1, <1>2, <1>3, HostInvariant, PTL DEF Spec

-----------------------------------------------------------------------------
(* The register of revoked content *)

\* One run of the tool at a time: two that overlap lose the one's entry.
OneRevoker == \A c, e \in Revokers : c = e

\* The register keeps every hash revoked, the host knows those of its boot, and it
\* goes on to no plugin whose content is among them.
CertInv ==
    /\ revoked \subseteq revocationList.entries
    /\ \A c \in Revokers : revokers[c].step = "loaded" => revokers[c].entries = revocationList.entries
    /\ phase \notin {"off", "register", "rejected"} => barred \subseteq revocation
    /\ phase \in {"off", "register"} => \A i \in Ids : activated[i] = NoPlugin
    /\ phase = "activate" /\ RequireCertified => Turn \notin barred
    /\ RevokedNeverRuns

\* What the register and the loaded copy say, and what was revoked.
LEMMA RegisterStep ==
    ASSUME OneRevoker, TypeOK, CertInv, RevokerStep, UNCHANGED host
    PROVE  CertInv'
  <1>1. /\ revokers \in [Revokers -> [step : {"idle", "loaded"}, entries : SUBSET Dirs]]
        /\ revocationList \in [ok : BOOLEAN, entries : SUBSET Dirs]
    BY DEF TypeOK, ReviewTypeOK
  <1>2. UNCHANGED revocation
    BY DEF RevokerStep, loadRegister, revokeCertificate
  <1>3. ASSUME NEW c \in Revokers, loadRegister(c)
        PROVE  /\ revoked' \subseteq revocationList'.entries
               /\ \A e \in Revokers : revokers'[e].step = "loaded" => revokers'[e].entries = revocationList'.entries
    BY <1>1, <1>3 DEF loadRegister, CertInv
  <1>4. ASSUME NEW c \in Revokers, NEW d \in Reviewed, revokeCertificate(c, d)
        PROVE  /\ revoked' \subseteq revocationList'.entries
               /\ \A e \in Revokers : revokers'[e].step = "loaded" => revokers'[e].entries = revocationList'.entries
    <2>1. revocationList'.entries = revocationList.entries \cup {d} /\ revoked' = revoked \cup {d}
      BY <1>1, <1>4 DEF revokeCertificate, CertInv
    <2>2. \A e \in Revokers : e = c /\ revokers'[e].step = "idle"
      BY <1>1, <1>4, OneRevoker DEF revokeCertificate, OneRevoker
    <2>. QED BY <2>1, <2>2 DEF CertInv
  <1>. QED
    BY <1>2, <1>3, <1>4 DEF RevokerStep, CertInv, RevokedNeverRuns, host, Turn


LEMMA CertStep ==
    ASSUME OneRevoker, TypeOK, QueueInv, CertInv, [Next]_vars
    PROVE  CertInv'
  <1>1. activated \in [Ids -> Plugins \cup {NoPlugin}] /\ barred \subseteq Dirs /\ NoPlugin \notin Dirs
    BY HostAssumption DEF TypeOK
  <1>2. ASSUME UNCHANGED <<certification, barred>>,
               phase' \in {"off", "register"} => phase \in {"off", "register"},
               phase' \notin {"off", "register", "rejected"} => phase \notin {"off", "register", "rejected"},
               phase' = "activate" => phase = "activate" /\ UNCHANGED left,
               \A i \in Ids : activated'[i] \in {activated[i], NoPlugin}
        PROVE  CertInv'
    <2>1. RequireCertified => \A i \in Ids : activated'[i] \notin barred
      BY <1>1, <1>2 DEF CertInv, RevokedNeverRuns
    <2>2. phase' \in {"off", "register"} => \A i \in Ids : activated'[i] = NoPlugin
      BY <1>2 DEF CertInv
    <2>. QED BY <1>2, <2>1, <2>2 DEF CertInv, RevokedNeverRuns, certification, Turn
  <1>3. CASE readdir
    BY <1>3, <1>2 DEF readdir, boots, Reject
  <1>4. CASE ReadRegister
    <2>1. UNCHANGED <<revocationList, revokers, revoked, activated>> /\ barred' = revoked
          /\ \A i \in Ids : activated[i] = NoPlugin
      BY <1>4 DEF ReadRegister, boots, CertInv
    <2>2. phase' = "rejected" \/ (phase' = "next" /\ revocation' = revocationList.entries)
      BY <1>4 DEF ReadRegister, Reject, Goes, load
    <2>3. revoked \subseteq Dirs
      BY DEF TypeOK, ReviewTypeOK
    <2>. QED BY <1>1, <2>1, <2>2, <2>3 DEF CertInv, RevokedNeverRuns
  <1>5. CASE loadManifest \/ Loaded \/ startNetworking \/ Started \/ emit \/ Ready
    <2>1. UNCHANGED <<certification, activated, barred>>
      BY <1>5 DEF loadManifest, Loaded, startNetworking, Started, emit, Ready, boots
    <2>2. /\ phase \in {"next", "network", "start", "announce", "greet"}
          /\ phase' \in {"next", "certify", "network", "start", "announce", "greet", "ready"}
      BY <1>5 DEF loadManifest, Loaded, startNetworking, Started, emit, Ready, Goes, Skip
    <2>. QED BY <2>1, <2>2, <1>2
  <1>6. CASE Certify
    <2>1. UNCHANGED <<certification, activated, barred>> /\ phase = "certify"
      BY <1>6 DEF Certify
    <2>2. CASE Reject \/ Skip
      BY <2>1, <2>2, <1>2 DEF Reject, Skip
    <2>3. CASE ~Reject /\ ~Skip
      <3>1. PICK verdict \in verifyPluginCertification(Turn) :
               verdict # "throws" /\ ~(RequireCertified /\ verdict = "uncertified") /\ Goes("activate")
        BY <1>6, <2>3 DEF Certify
      <3>2. RequireCertified => Turn \notin revocation
        BY <3>1 DEF verifyPluginCertification, Verdict
      <3>3. barred \subseteq revocation
        BY <2>1 DEF CertInv
      <3>4. Turn' = Turn /\ phase' = "activate"
        BY <3>1 DEF Goes, Turn
      <3>. QED BY <2>1, <3>2, <3>3, <3>4 DEF CertInv, RevokedNeverRuns, certification
    <2>. QED BY <2>2, <2>3
  <1>7. CASE TimeOut
    <2>1. UNCHANGED <<certification, activated, barred>> /\ phase = "activate" /\ phase' = "next"
      BY <1>7 DEF TimeOut, Failed, nets, Skip
    <2>. QED BY <2>1, <1>2
  <1>8. ASSUME NEW d \in Dirs, Settle(d) PROVE CertInv'
    <2>1. UNCHANGED <<certification, barred>>
      BY <1>8 DEF Settle
    <2>2. CASE UNCHANGED <<activated, phase, left>>
      BY <2>1, <2>2, <1>2
    <2>3. CASE UNCHANGED activated /\ phase = "activate" /\ phase' = "next"
      BY <2>1, <2>3, <1>2
    <2>4. CASE Waited(d) /\ Activated(d) /\ Skip
      <3>1. /\ phase = "activate" /\ phase' = "next" /\ d = Turn
            /\ activated' = [activated EXCEPT ![Id[d]] = d]
        BY <2>4 DEF Waited, Activated, Skip
      <3>2. RequireCertified => d \notin barred
        BY <3>1 DEF CertInv
      <3>3. RequireCertified => \A i \in Ids : activated'[i] \notin barred
        BY <1>1, <3>1, <3>2 DEF CertInv, RevokedNeverRuns
      <3>4. barred \subseteq revocation
        BY <3>1 DEF CertInv
      <3>. QED BY <2>1, <3>1, <3>3, <3>4 DEF CertInv, RevokedNeverRuns, certification
    <2>. QED BY <1>8, <2>2, <2>3, <2>4 DEF Settle, Failed, Waited, Skip, boots
  <1>9. ASSUME NEW i \in Ids, deactivate(i) PROVE CertInv'
    <2>1. UNCHANGED <<certification, phase, left, barred>>
          /\ activated' = [activated EXCEPT ![i] = NoPlugin]
      BY <1>9 DEF deactivate
    <2>2. \A j \in Ids : activated'[j] \in {activated[j], NoPlugin}
      BY <1>1, <2>1
    <2>. QED BY <2>1, <2>2, <1>2
  <1>10. CASE Restart
    BY <1>1, <1>10 DEF Restart, CertInv, RevokedNeverRuns
  <1>11. ASSUME NEW d \in Dirs, Greeted(d) PROVE UNCHANGED <<certification, phase, left, barred, activated>>
    BY <1>11 DEF Greeted, boots
  <1>12. CASE ensureEventLayer \/ LayerBuilt \/ setExposedEvents \/ stop \/ Stopped
    <2>1. UNCHANGED <<certification, phase, left, barred, activated>>
      BY <1>12 DEF ensureEventLayer, LayerBuilt, setExposedEvents, stop, Stopped, boots
    <2>. QED BY <2>1, <1>2
  <1>13. CASE UNCHANGED <<certification, host>> \/ UNCHANGED vars
    <2>1. UNCHANGED <<certification, phase, left, barred, activated>>
      BY <1>13 DEF host, vars
    <2>. QED BY <2>1, <1>2
  <1>14. CASE RevokerStep /\ UNCHANGED <<context, host>>
    BY <1>14, OneRevoker, RegisterStep
  <1>15. ASSUME NEW d \in Dirs, UNCHANGED <<certification, phase, left, barred, activated>> PROVE CertInv'
    BY <1>15, <1>2
  <1>. QED
    BY <1>3, <1>4, <1>5, <1>6, <1>7, <1>8, <1>9, <1>10, <1>11, <1>12, <1>13, <1>14, <1>15
       DEF Next, BootStep

\* While certificates are required and one run of the tool at a time extends the
\* register: no content runs whose revocation had ended before the boot began, after
\* any number of restarts (RevocationList.load, CertificationService.verify,
\* PluginHost.boot).
THEOREM RevokedStaysOut ==
    ASSUME OneRevoker
    PROVE  Spec => []RevokedNeverRuns
  <1>1. Init => CertInv
    <2> SUFFICES ASSUME Init PROVE CertInv
      OBVIOUS
    <2>1. /\ revoked = {} /\ barred = {} /\ phase = "off" /\ \A i \in Ids : activated[i] = NoPlugin
          /\ \A c \in Revokers : revokers[c].step = "idle"
      BY DEF Init, InitCertification
    <2>. QED BY <2>1 DEF CertInv, RevokedNeverRuns
  <1>2. CertInv /\ HostInv /\ [Next]_vars => CertInv'
    BY OneRevoker, CertStep DEF HostInv
  <1>3. CertInv => RevokedNeverRuns
    BY DEF CertInv
  <1>. QED
    BY <1>1, <1>2, <1>3, HostInvariant, PTL DEF Spec


-----------------------------------------------------------------------------
(* The agent of a rule *)

Entry == [op : {"set", "delete"}, rule : Rules, half : {"private", "public", "certificate"},
          by : Mutations \cup {NoRule}]

\* A write of a derivation waits in the vault's queue: its rule is the one the
\* mutation is at, and before the last half comes the public one has landed, unless
\* the operator deleted the agent meanwhile.
Waits(w) ==
    w.op = "set" =>
       /\ w.by \in Mutations /\ mutations[w.by].step = "write" /\ At(w.by) = w.rule
       /\ w.half = "certificate" /\ ~mutations[w.by].deleted => "public" \in child[w.rule]

\* A derivation has one write in the queue at a time.
OneEach(q) ==
    \A i, j \in 1..Len(q) : q[i].op = "set" /\ q[j].op = "set" /\ q[i].by = q[j].by => i = j

\* What is judged is at a rule.
Fit(k) == "deleted" \in DOMAIN k /\ (k.step = "judge" => Head(k.rest) \in Rules)

AgentInv ==
    /\ mutations = [m \in Mutations |-> mutations[m]] /\ child = [r \in Rules |-> child[r]]
    /\ \A m \in Mutations : Fit(mutations[m])
    /\ vaultQueue \in Seq(Entry) /\ OneEach(vaultQueue)
    /\ \A i \in 1..Len(vaultQueue) : Waits(vaultQueue[i])
    /\ ProposalHasAgent

USE DEF At

\* A mutation that waits for no write goes on, to be judged only with an agent.
LEMMA MoveStep ==
    ASSUME AgentInv, UNCHANGED <<child, vaultQueue>>, NEW m \in Mutations, NEW k,
           Moves(m, k), mutations[m].step # "write", Fit(k),
           k.step = "judge" /\ ~k.deleted => "public" \in child[Head(k.rest)]
    PROVE  AgentInv'
  <1>1. /\ mutations' = [n \in Mutations |-> mutations'[n]] /\ mutations'[m] = k
        /\ \A n \in Mutations : n # m => mutations'[n] = mutations[n]
    BY DEF AgentInv, Moves
  <1>2. ASSUME NEW i \in 1..Len(vaultQueue) PROVE Waits(vaultQueue[i])'
    <2>1. PICK w \in Entry : w = vaultQueue[i]
      BY DEF AgentInv
    <2>2. Waits(w)
      BY <2>1 DEF AgentInv
    <2>3. Waits(w)'
      BY <1>1, <2>2 DEF Waits
    <2>. QED BY <2>1, <2>3
  <1>3. ProposalHasAgent'
    BY <1>1 DEF AgentInv, ProposalHasAgent
  <1>. QED
    BY <1>1, <1>2, <1>3 DEF AgentInv


\* What the end of a handler makes of a mutation is not to be judged.
HandledTo(k) == k.step \in {"idle", "handle"}

LEMMA HandledFacts ==
    ASSUME NEW m, Fit(mutations[m]), Handled(m)
    PROVE  \E k : Moves(m, k) /\ HandledTo(k) /\ Fit(k)
  <1> DEFINE k == [mutations[m] EXCEPT !.step = "handle", !.deleted = FALSE, !.rest = Tail(mutations[m].rest)]
  <1>1. HandledTo(NoMutation) /\ Fit(NoMutation)
    BY DEF HandledTo, Fit, NoMutation
  <1>2. HandledTo(k) /\ Fit(k)
    BY DEF HandledTo, Fit
  <1>. QED
    BY <1>1, <1>2 DEF Handled

\* What the queue holds behind its first entry.
LEMMA TailOfQueue ==
    ASSUME NEW q \in Seq(Entry), q # <<>>, OneEach(q)
    PROVE  /\ Head(q) = q[1] /\ Head(q) \in Entry /\ 1 \in 1..Len(q)
           /\ Tail(q) \in Seq(Entry) /\ OneEach(Tail(q))
           /\ \A i \in 1..Len(Tail(q)) :
                 /\ Tail(q)[i] \in Entry /\ i + 1 \in 1..Len(q) /\ Tail(q)[i] = q[i + 1]
                 /\ q[1].op = "set" /\ Tail(q)[i].op = "set" => Tail(q)[i].by # q[1].by
  <1>1. Len(q) \in Nat /\ Len(q) >= 1 /\ Head(q) = q[1] /\ q[1] \in Entry /\ 1 \in 1..Len(q)
    OBVIOUS
  <1>2. Tail(q) \in Seq(Entry) /\ Len(Tail(q)) = Len(q) - 1
    OBVIOUS
  <1>3. \A i \in 1..Len(Tail(q)) : i + 1 \in 1..Len(q) /\ Tail(q)[i] = q[i + 1] /\ Tail(q)[i] \in Entry
    BY <1>1, <1>2
  <1>4. OneEach(Tail(q))
    BY <1>1, <1>2, <1>3 DEF OneEach
  <1>5. \A i \in 1..Len(Tail(q)) : q[1].op = "set" /\ Tail(q)[i].op = "set" => Tail(q)[i].by # q[1].by
    BY <1>1, <1>2, <1>3 DEF OneEach
  <1>. QED
    BY <1>1, <1>2, <1>3, <1>4, <1>5, Zenon

\* A write is queued for a derivation that has no other in the queue.
LEMMA AppendToQueue ==
    ASSUME NEW q \in Seq(Entry), OneEach(q), NEW w \in Entry,
           \A i \in 1..Len(q) : q[i].op = "set" /\ w.op = "set" => q[i].by # w.by
    PROVE  /\ Append(q, w) \in Seq(Entry) /\ OneEach(Append(q, w))
           /\ \A i \in 1..Len(Append(q, w)) : (i \in 1..Len(q) /\ Append(q, w)[i] = q[i]) \/ Append(q, w)[i] = w
  <1>1. Len(q) \in Nat /\ Append(q, w) \in Seq(Entry) /\ Len(Append(q, w)) = Len(q) + 1
    OBVIOUS
  <1>2. Append(q, w)[Len(q) + 1] = w /\ \A i \in 1..Len(q) : Append(q, w)[i] = q[i]
    OBVIOUS
  <1>3. \A i \in 1..Len(Append(q, w)) : i \in 1..Len(q) \/ i = Len(q) + 1
    BY <1>1
  <1>. QED
    BY <1>1, <1>2, <1>3 DEF OneEach

LEMMA DeriveStep ==
    ASSUME AgentInv, NEW m \in Mutations, NEW r \in Rules, deriveChildIdentity(m, r)
    PROVE  AgentInv'
  <1>1. mutations[m].step = "derive" /\ At(m) = r /\ UNCHANGED child
    BY DEF deriveChildIdentity
  <1>2. CASE childExists(r)
    <2>1. Moves(m, [mutations[m] EXCEPT !.step = "judge"]) /\ UNCHANGED vaultQueue
      BY <1>2 DEF deriveChildIdentity
    <2>2. "public" \in child[r]
      <3>1. Halves[2] = "public" /\ 2 \in DOMAIN Halves
        BY DEF Halves
      <3>. QED BY <1>2, <3>1 DEF childExists, Whole, Range
    <2>3. PICK k : k = [mutations[m] EXCEPT !.step = "judge"]
      OBVIOUS
    <2>4. k.step = "judge" /\ Head(k.rest) = r /\ Moves(m, k) /\ Fit(k)
      BY <1>1, <2>1, <2>3 DEF Fit, AgentInv
    <2>. QED BY <1>1, <2>1, <2>2, <2>4, MoveStep
  <1>3. CASE ~childExists(r)
    <2>1. PICK k : k = [mutations[m] EXCEPT !.step = "write"]
      OBVIOUS
    <2>2. k.step = "write" /\ Head(k.rest) = r /\ k.deleted = mutations[m].deleted /\ Fit(k)
      BY <1>1, <2>1 DEF Fit, AgentInv
    <2>3. PICK w : w = Write("set", r, "private", m)
      OBVIOUS
    <2>4. w \in Entry /\ w.op = "set" /\ w.rule = r /\ w.half = "private" /\ w.by = m
      BY <2>3 DEF Write, Entry
    <2>5. /\ mutations' = [n \in Mutations |-> mutations'[n]] /\ mutations'[m] = k
          /\ \A n \in Mutations : n # m => mutations'[n] = mutations[n]
      BY <1>3, <2>1 DEF deriveChildIdentity, Moves, AgentInv
    <2>6. vaultQueue' = Append(vaultQueue, w)
      BY <1>3, <2>3 DEF deriveChildIdentity
    <2>7. \A i \in 1..Len(vaultQueue) : vaultQueue[i].op = "set" => vaultQueue[i].by # m
      BY <1>1 DEF AgentInv, Waits
    <2>8. /\ vaultQueue' \in Seq(Entry) /\ OneEach(vaultQueue')
          /\ \A i \in 1..Len(vaultQueue') :
                (i \in 1..Len(vaultQueue) /\ vaultQueue'[i] = vaultQueue[i]) \/ vaultQueue'[i] = w
      BY <2>4, <2>6, <2>7, AppendToQueue DEF AgentInv
    <2>9. Waits(w)'
      BY <1>1, <2>2, <2>4, <2>5 DEF Waits
    <2>10. ASSUME NEW i \in 1..Len(vaultQueue') PROVE Waits(vaultQueue[i])'
      <3>1. PICK u : u = vaultQueue'[i]
        OBVIOUS
      <3>2. CASE u # w
        <4>1. Waits(u) /\ (u.op = "set" => u.by # m)
          BY <2>7, <2>8, <3>1, <3>2 DEF AgentInv
        <4>2. Waits(u)'
          BY <1>1, <2>5, <4>1 DEF Waits
        <4>. QED BY <3>1, <4>2
      <3>. QED BY <2>9, <3>1, <3>2
    <2>11. ProposalHasAgent'
      BY <1>1, <2>2, <2>5 DEF AgentInv, ProposalHasAgent
    <2>. QED BY <1>1, <2>2, <2>5, <2>8, <2>10, <2>11 DEF AgentInv
  <1>. QED
    BY <1>2, <1>3


\* The first write of the queue lands: a half of a derivation.
LEMMA SetStep ==
    ASSUME AgentInv, vaultQueue # <<>>, First.op = "set", secretIsSet
    PROVE  AgentInv'
  <1> DEFINE m == First.by
  <1>1. /\ vaultQueue \in Seq(Entry) /\ OneEach(vaultQueue) /\ First = vaultQueue[1] /\ First \in Entry
        /\ Tail(vaultQueue) \in Seq(Entry) /\ OneEach(Tail(vaultQueue)) /\ 1 \in 1..Len(vaultQueue)
        /\ \A i \in 1..Len(Tail(vaultQueue)) :
              /\ Tail(vaultQueue)[i] \in Entry /\ i + 1 \in 1..Len(vaultQueue)
              /\ Tail(vaultQueue)[i] = vaultQueue[i + 1]
              /\ Tail(vaultQueue)[i].op = "set" => Tail(vaultQueue)[i].by # m
    BY TailOfQueue DEF AgentInv, First
  <1>2. /\ m \in Mutations /\ mutations[m].step = "write" /\ At(m) = First.rule /\ First.rule \in Rules
        /\ First.half = "certificate" /\ ~mutations[m].deleted => "public" \in child[First.rule]
    BY <1>1 DEF AgentInv, Waits, Entry
  <1>3. /\ child' = [r \in Rules |-> child'[r]] /\ \A r \in Rules : child[r] \subseteq child'[r]
        /\ First.half \in child'[First.rule]
    BY <1>2 DEF secretIsSet, AgentInv
  <1>4. CASE First.half = "certificate"
    <2>1. PICK k : k = [mutations[m] EXCEPT !.step = "judge"]
      OBVIOUS
    <2>2. k.step = "judge" /\ k.rest = mutations[m].rest /\ k.deleted = mutations[m].deleted /\ Fit(k)
      BY <1>2, <2>1 DEF Fit, AgentInv
    <2>3. /\ mutations' = [n \in Mutations |-> mutations'[n]] /\ mutations'[m] = k
          /\ \A n \in Mutations : n # m => mutations'[n] = mutations[n]
      BY <1>2, <1>4, <2>1 DEF secretIsSet, Moves, AgentInv
    <2>4. vaultQueue' = Tail(vaultQueue)
      BY <1>4 DEF secretIsSet
    <2>5. ASSUME NEW i \in 1..Len(vaultQueue') PROVE Waits(vaultQueue[i])'
      <3>1. PICK u \in Entry : u = vaultQueue'[i]
        BY <1>1, <2>4
      <3>2. Waits(u) /\ (u.op = "set" => u.by # m) /\ u.rule \in Rules
        BY <1>1, <2>4, <3>1 DEF AgentInv, Entry
      <3>3. Waits(u)'
        BY <1>3, <2>3, <3>2 DEF Waits
      <3>. QED BY <3>1, <3>3
    <2>6. ProposalHasAgent'
      <3>1. ASSUME NEW n \in Mutations, mutations'[n].step = "judge", ~mutations'[n].deleted
            PROVE  "public" \in child'[Head(mutations'[n].rest)]
        <4>1. CASE n = m
          BY <1>2, <1>3, <1>4, <2>2, <2>3, <3>1, <4>1
        <4>2. CASE n # m
          <5>1. /\ mutations'[n] = mutations[n] /\ "public" \in child[Head(mutations[n].rest)]
                /\ Head(mutations[n].rest) \in Rules
            BY <2>3, <3>1, <4>2 DEF AgentInv, ProposalHasAgent, Fit
          <5>. QED BY <1>3, <5>1
        <4>. QED BY <4>1, <4>2
      <3>. QED BY <3>1 DEF ProposalHasAgent
    <2>. QED BY <1>1, <1>3, <2>2, <2>3, <2>4, <2>5, <2>6 DEF AgentInv
  <1>5. CASE First.half # "certificate"
    <2>1. PICK w : w = [First EXCEPT !.half = IF @ = "private" THEN "public" ELSE "certificate"]
      OBVIOUS
    <2>2. /\ w \in Entry /\ w.op = "set" /\ w.rule = First.rule /\ w.by = m
          /\ w.half = "certificate" => First.half = "public"
      BY <1>1, <1>5, <2>1 DEF Entry
    <2>3. vaultQueue' = Append(Tail(vaultQueue), w) /\ UNCHANGED mutations
      BY <1>5, <2>1 DEF secretIsSet
    <2>4. /\ vaultQueue' \in Seq(Entry) /\ OneEach(vaultQueue')
          /\ \A i \in 1..Len(vaultQueue') :
                (i \in 1..Len(Tail(vaultQueue)) /\ vaultQueue'[i] = Tail(vaultQueue)[i]) \/ vaultQueue'[i] = w
      <3>1. PICK q : q = Tail(vaultQueue)
        OBVIOUS
      <3>2. /\ q \in Seq(Entry) /\ OneEach(q) /\ vaultQueue' = Append(q, w)
            /\ \A i \in 1..Len(q) : q[i].op = "set" /\ w.op = "set" => q[i].by # w.by
        BY <1>1, <2>2, <2>3, <3>1
      <3>3. /\ Append(q, w) \in Seq(Entry) /\ OneEach(Append(q, w))
            /\ \A i \in 1..Len(Append(q, w)) :
                  (i \in 1..Len(q) /\ Append(q, w)[i] = q[i]) \/ Append(q, w)[i] = w
        BY <2>2, <3>2, AppendToQueue
      <3>. QED BY <3>1, <3>2, <3>3
    <2>5. Waits(w)'
      BY <1>2, <1>3, <2>2, <2>3 DEF Waits
    <2>6. ASSUME NEW i \in 1..Len(vaultQueue') PROVE Waits(vaultQueue[i])'
      <3>1. PICK u : u = vaultQueue'[i]
        OBVIOUS
      <3>2. CASE u # w
        <4>1. Waits(u) /\ u \in Entry
          BY <1>1, <2>4, <3>1, <3>2 DEF AgentInv
        <4>2. Waits(u)'
          BY <1>3, <2>3, <4>1 DEF Waits, Entry
        <4>. QED BY <3>1, <4>2
      <3>. QED BY <2>5, <3>1, <3>2
    <2>7. ProposalHasAgent'
      <3>1. \A n \in Mutations : mutations[n].step = "judge" => Head(mutations[n].rest) \in Rules
        BY DEF AgentInv, Fit
      <3>. QED BY <1>3, <2>3, <3>1 DEF AgentInv, ProposalHasAgent
    <2>. QED BY <1>3, <2>3, <2>4, <2>6, <2>7 DEF AgentInv
  <1>. QED
    BY <1>4, <1>5



\* The first write of the queue takes a half away, and the mutations at that rule know.
LEMMA DeleteStep ==
    ASSUME AgentInv, vaultQueue # <<>>, secretIsDeleted
    PROVE  AgentInv'
  <1>1. /\ vaultQueue' = Tail(vaultQueue) /\ Tail(vaultQueue) \in Seq(Entry) /\ OneEach(Tail(vaultQueue))
        /\ \A i \in 1..Len(Tail(vaultQueue)) :
              /\ Tail(vaultQueue)[i] \in Entry /\ i + 1 \in 1..Len(vaultQueue)
              /\ Tail(vaultQueue)[i] = vaultQueue[i + 1]
    BY TailOfQueue DEF AgentInv, secretIsDeleted
  <1>2. /\ child' = [r \in Rules |-> child'[r]]
        /\ \A r \in Rules : r # First.rule => child'[r] = child[r]
    BY DEF secretIsDeleted, AgentInv
  <1>3. mutations' = [m \in Mutations |-> mutations'[m]]
    BY DEF secretIsDeleted
  <1>4. ASSUME NEW m \in Mutations
        PROVE  /\ mutations'[m].step = mutations[m].step /\ mutations'[m].rest = mutations[m].rest
               /\ mutations[m].step \in {"write", "judge"} /\ At(m) = First.rule => mutations'[m].deleted
               /\ ~mutations'[m].deleted => mutations'[m] = mutations[m]
    <2>1. PICK k : k = [mutations[m] EXCEPT !.deleted = TRUE]
      OBVIOUS
    <2>2. k.step = mutations[m].step /\ k.rest = mutations[m].rest /\ k.deleted = TRUE
      BY <2>1 DEF AgentInv, Fit
    <2>3. CASE mutations[m].step \in {"write", "judge"} /\ At(m) = First.rule
      <3>1. mutations'[m] = k
        BY <2>1, <2>3 DEF secretIsDeleted
      <3>. QED BY <2>2, <2>3, <3>1
    <2>4. CASE ~(mutations[m].step \in {"write", "judge"} /\ At(m) = First.rule)
      <3>1. mutations'[m] = mutations[m]
        BY <2>4 DEF secretIsDeleted
      <3>. QED BY <2>4, <3>1
    <2>. QED BY <2>3, <2>4
  <1>5. ASSUME NEW m \in Mutations PROVE Fit(mutations[m])'
    <2>1. PICK k : k = [mutations[m] EXCEPT !.deleted = TRUE]
      OBVIOUS
    <2>2. Fit(k)
      BY <2>1 DEF AgentInv, Fit
    <2>3. mutations'[m] = k \/ mutations'[m] = mutations[m]
      BY <2>1 DEF secretIsDeleted
    <2>. QED BY <2>2, <2>3 DEF AgentInv, Fit
  <1>6. ASSUME NEW i \in 1..Len(vaultQueue') PROVE Waits(vaultQueue[i])'
    <2>1. PICK u \in Entry : u = vaultQueue'[i]
      BY <1>1
    <2>2. Waits(u) /\ u.rule \in Rules
      BY <1>1, <2>1 DEF AgentInv, Entry
    <2>3. Waits(u)'
      BY <1>2, <1>4, <2>2 DEF Waits
    <2>. QED BY <2>1, <2>3
  <1>7. ProposalHasAgent'
    <2>1. ASSUME NEW m \in Mutations, mutations'[m].step = "judge", ~mutations'[m].deleted
          PROVE  "public" \in child'[Head(mutations'[m].rest)]
      <3>1. /\ mutations'[m] = mutations[m] /\ Head(mutations[m].rest) \in Rules
            /\ Head(mutations[m].rest) # First.rule /\ "public" \in child[Head(mutations[m].rest)]
        BY <1>4, <2>1 DEF AgentInv, Fit, ProposalHasAgent
      <3>. QED BY <1>2, <3>1
    <2>. QED BY <2>1 DEF ProposalHasAgent
  <1>. QED
    BY <1>1, <1>2, <1>3, <1>5, <1>6, <1>7 DEF AgentInv


\* The first write of the queue fails, and with it the proposal of its derivation.
LEMMA FailStep ==
    ASSUME AgentInv, vaultFails
    PROVE  AgentInv'
  <1>1. /\ vaultQueue' = Tail(vaultQueue) /\ Tail(vaultQueue) \in Seq(Entry) /\ OneEach(Tail(vaultQueue))
        /\ First = vaultQueue[1] /\ First \in Entry /\ 1 \in 1..Len(vaultQueue) /\ UNCHANGED child
        /\ \A i \in 1..Len(Tail(vaultQueue)) :
              /\ Tail(vaultQueue)[i] \in Entry /\ i + 1 \in 1..Len(vaultQueue)
              /\ Tail(vaultQueue)[i] = vaultQueue[i + 1]
              /\ First.op = "set" /\ Tail(vaultQueue)[i].op = "set" => Tail(vaultQueue)[i].by # First.by
    BY TailOfQueue DEF AgentInv, vaultFails, First
  <1>2. CASE First.op = "set"
    <2>1. First.by \in Mutations
      BY <1>1, <1>2 DEF AgentInv, Waits
    <2>2. Handled(First.by) /\ Fit(mutations[First.by])
      BY <1>2, <2>1 DEF vaultFails, AgentInv
    <2>3. PICK k : Moves(First.by, k) /\ HandledTo(k) /\ Fit(k)
      BY <2>2, HandledFacts
    <2>4. /\ mutations' = [n \in Mutations |-> mutations'[n]] /\ mutations'[First.by] = k
          /\ \A n \in Mutations : n # First.by => mutations'[n] = mutations[n]
      BY <2>1, <2>3 DEF AgentInv, Moves
    <2>5. ASSUME NEW i \in 1..Len(vaultQueue') PROVE Waits(vaultQueue[i])'
      <3>1. PICK u \in Entry : u = vaultQueue'[i]
        BY <1>1
      <3>2. Waits(u) /\ (u.op = "set" => u.by # First.by)
        BY <1>1, <1>2, <3>1 DEF AgentInv
      <3>3. Waits(u)'
        BY <1>1, <2>4, <3>2 DEF Waits
      <3>. QED BY <3>1, <3>3
    <2>6. ProposalHasAgent' /\ \A n \in Mutations : Fit(mutations[n])'
      BY <1>1, <2>3, <2>4 DEF AgentInv, ProposalHasAgent, HandledTo, Fit
    <2>. QED BY <1>1, <2>4, <2>5, <2>6 DEF AgentInv
  <1>3. CASE First.op # "set"
    <2>1. UNCHANGED mutations
      BY <1>3 DEF vaultFails
    <2>2. ASSUME NEW i \in 1..Len(vaultQueue') PROVE Waits(vaultQueue[i])'
      <3>1. PICK u \in Entry : u = vaultQueue'[i]
        BY <1>1
      <3>2. Waits(u)
        BY <1>1, <3>1 DEF AgentInv
      <3>. QED BY <1>1, <2>1, <3>1, <3>2 DEF Waits
    <2>3. ProposalHasAgent' /\ \A n \in Mutations : Fit(mutations[n])'
      BY <1>1, <2>1 DEF AgentInv, ProposalHasAgent, Fit
    <2>. QED BY <1>1, <2>1, <2>2, <2>3 DEF AgentInv
  <1>. QED
    BY <1>2, <1>3

\* The operator's deletion queues three writes that no derivation made.
LEMMA OperatorStep ==
    ASSUME AgentInv, NEW r \in Rules, deleteChildIdentity(r)
    PROVE  AgentInv'
  <1>1. PICK d : d = [i \in 1..3 |-> Write("delete", r, Halves[i], NoRule)]
    OBVIOUS
  <1>2. /\ d \in Seq(Entry) /\ Len(d) = 3 /\ \A i \in 1..3 : d[i].op = "delete"
    <2>1. Halves[1] = "private" /\ Halves[2] = "public" /\ Halves[3] = "certificate"
      BY DEF Halves
    <2>2. \A i \in 1..3 : Halves[i] \in {"private", "public", "certificate"}
      BY <2>1
    <2>3. \A i \in 1..3 : d[i] \in Entry /\ d[i].op = "delete"
      BY <1>1, <2>2 DEF Entry, Write
    <2>4. d \in [1..3 -> Entry]
      BY <1>1, <2>3
    <2>5. d \in Seq(Entry)
      BY <2>4, SeqDef
    <2>6. Len(d) = 3
      BY <1>1
    <2>. QED BY <2>3, <2>5, <2>6
  <1>3. vaultQueue' = vaultQueue \o d /\ UNCHANGED <<mutations, child>>
    BY <1>1 DEF deleteChildIdentity
  <1>4. vaultQueue \in Seq(Entry) /\ Len(vaultQueue) \in Nat
    BY DEF AgentInv
  <1>5. /\ vaultQueue' \in Seq(Entry) /\ Len(vaultQueue') = Len(vaultQueue) + 3
        /\ \A i \in 1..Len(vaultQueue') : i \in 1..Len(vaultQueue) => vaultQueue'[i] = vaultQueue[i]
        /\ \A i \in 1..Len(vaultQueue') : i \notin 1..Len(vaultQueue) => vaultQueue'[i].op = "delete"
    <2>1. /\ vaultQueue' \in Seq(Entry) /\ Len(vaultQueue') = Len(vaultQueue) + 3
          /\ \A i \in 1..Len(vaultQueue') :
                vaultQueue'[i] = IF i <= Len(vaultQueue) THEN vaultQueue[i] ELSE d[i - Len(vaultQueue)]
      <3>1. PICK c : c = vaultQueue \o d
        OBVIOUS
      <3>2. /\ c \in Seq(Entry) /\ Len(c) = Len(vaultQueue) + Len(d)
            /\ \A i \in 1..Len(vaultQueue) + Len(d) :
                  c[i] = IF i <= Len(vaultQueue) THEN vaultQueue[i] ELSE d[i - Len(vaultQueue)]
        BY <1>2, <1>4, <3>1, ConcatProperties, Zenon
      <3>. QED BY <1>2, <1>3, <3>1, <3>2
    <2>2. \A i \in 1..Len(vaultQueue') : i \notin 1..Len(vaultQueue) => i - Len(vaultQueue) \in 1..3
      BY <1>4, <2>1
    <2>3. ASSUME NEW i \in 1..Len(vaultQueue')
          PROVE  /\ i \in 1..Len(vaultQueue) => vaultQueue'[i] = vaultQueue[i]
                 /\ i \notin 1..Len(vaultQueue) => vaultQueue'[i].op = "delete"
      <3>1. vaultQueue'[i] = IF i <= Len(vaultQueue) THEN vaultQueue[i] ELSE d[i - Len(vaultQueue)]
        BY <2>1
      <3>2. i \in 1..Len(vaultQueue) <=> i <= Len(vaultQueue)
        BY <1>4, <2>1
      <3>3. CASE i <= Len(vaultQueue)
        BY <3>1, <3>2, <3>3
      <3>4. CASE ~(i <= Len(vaultQueue))
        <4>1. PICK j \in 1..3 : j = i - Len(vaultQueue)
          BY <2>2, <3>2, <3>4
        <4>2. vaultQueue'[i] = d[j] /\ d[j].op = "delete"
          BY <1>2, <3>1, <3>4, <4>1
        <4>. QED BY <3>2, <3>4, <4>2
      <3>. QED BY <3>3, <3>4
    <2>. QED BY <2>1, <2>3, Zenon
  <1>6. OneEach(vaultQueue')
    BY <1>4, <1>5 DEF OneEach, AgentInv
  <1>7. ASSUME NEW i \in 1..Len(vaultQueue') PROVE Waits(vaultQueue[i])'
    <2>1. PICK u : u = vaultQueue'[i]
      OBVIOUS
    <2>2. Waits(u)
      BY <1>5, <2>1 DEF AgentInv, Waits
    <2>. QED BY <1>3, <2>1, <2>2 DEF Waits
  <1>8. ProposalHasAgent' /\ \A n \in Mutations : Fit(mutations[n])'
    BY <1>3 DEF AgentInv, ProposalHasAgent, Fit
  <1>. QED
    BY <1>3, <1>5, <1>6, <1>7, <1>8 DEF AgentInv

\* What leaves mutations, agents and their queue alone leaves the invariant alone.
LEMMA AgentFrame ==
    ASSUME AgentInv, UNCHANGED <<mutations, child, vaultQueue>>
    PROVE  AgentInv'
  <1>1. ProposalHasAgent' /\ \A n \in Mutations : Fit(mutations[n])'
    BY DEF AgentInv, ProposalHasAgent, Fit
  <1>2. \A i \in 1..Len(vaultQueue') : Waits(vaultQueue[i])'
    BY DEF AgentInv, Waits
  <1>. QED
    BY <1>1, <1>2 DEF AgentInv


\* A mutation that is at none of the writes: it loads, saves, publishes or handles.
LEMMA MutationStep ==
    ASSUME AgentInv, NEW m \in Mutations,
           \/ \E k \in Kinds, r \in Records, v \in {"absent", "plain", "matching"} : loadTable(m, k, r, v)
           \/ saveDatabase(m) \/ emitEvent(m) \/ handleEvent(m) \/ handleRemote(m)
    PROVE  AgentInv'
  <1>1. UNCHANGED <<child, vaultQueue>> /\ mutations[m].step # "write" /\ Fit(mutations[m])
    BY DEF loadTable, saveDatabase, emitEvent, handleEvent, handleRemote, agents, AgentInv
  <1>2. \A k : Moves(m, k) /\ Fit(k) /\ k.step # "judge" => AgentInv'
    BY <1>1, MoveStep
  <1>3. Fit(NoMutation) /\ NoMutation.step # "judge"
    BY DEF Fit, NoMutation
  <1>4. CASE \E k \in Kinds, r \in Records, v \in {"absent", "plain", "matching"} : loadTable(m, k, r, v)
    <2>1. PICK k \in Kinds, r \in Records, v \in {"absent", "plain", "matching"} : loadTable(m, k, r, v)
      BY <1>4
    <2>2. PICK e : e = [step |-> "save", kind |-> k, record |-> r, value |-> v,
                        copy |-> [table EXCEPT ![r] = v], rest |-> <<>>, deleted |-> FALSE]
      OBVIOUS
    <2>3. Moves(m, e) /\ Fit(e) /\ e.step # "judge"
      BY <2>1, <2>2 DEF loadTable, Fit
    <2>. QED BY <1>2, <2>3
  <1>5. CASE saveDatabase(m)
    <2>1. PICK e : e = [mutations[m] EXCEPT !.step = "publish", !.copy = NoCopy]
      OBVIOUS
    <2>2. Fit(e) /\ e.step # "judge"
      BY <1>1, <1>5, <2>1 DEF Fit, saveDatabase
    <2>3. Moves(m, e) \/ Moves(m, NoMutation)
      BY <1>5, <2>1 DEF saveDatabase
    <2>. QED BY <1>2, <1>3, <2>2, <2>3
  <1>6. CASE emitEvent(m)
    <2>1. PICK heard : heard = Only(bus, {r \in Rules : Trigger[r] = mutations[m].kind})
      OBVIOUS
    <2>2. PICK e : e = [mutations[m] EXCEPT !.step = "handle", !.rest = heard]
      OBVIOUS
    <2>3. Fit(e) /\ e.step # "judge"
      BY <1>1, <1>6, <2>2 DEF Fit, emitEvent
    <2>4. Moves(m, e) \/ Moves(m, NoMutation)
      BY <1>6, <2>1, <2>2 DEF emitEvent
    <2>. QED BY <1>2, <1>3, <2>3, <2>4
  <1>7. CASE handleEvent(m)
    <2>1. PICK e : e = [mutations[m] EXCEPT !.step = "derive"]
      OBVIOUS
    <2>2. Fit(e) /\ e.step # "judge"
      BY <1>1, <1>7, <2>1 DEF Fit, handleEvent
    <2>3. Moves(m, e) \/ Handled(m)
      BY <1>7, <2>1 DEF handleEvent
    <2>. QED BY <1>1, <1>2, <2>2, <2>3, HandledFacts DEF HandledTo
  <1>8. CASE handleRemote(m)
    <2>1. Handled(m)
      BY <1>8 DEF handleRemote
    <2>. QED BY <1>1, <1>2, <2>1, HandledFacts DEF HandledTo
  <1>. QED
    BY <1>4, <1>5, <1>6, <1>7, <1>8

LEMMA AgentInvariant == RulesSpec => []AgentInv
  <1>1. InitRules => AgentInv
    <2> SUFFICES ASSUME InitRules PROVE AgentInv
      OBVIOUS
    <2>1. /\ mutations = [m \in Mutations |-> NoMutation] /\ vaultQueue = <<>>
          /\ child = [r \in Rules |-> child[r]]
      BY DEF InitRules
    <2>2. Fit(NoMutation) /\ NoMutation.step # "judge"
      BY DEF Fit, NoMutation
    <2>3. Len(vaultQueue) = 0 /\ vaultQueue \in Seq(Entry)
      BY <2>1
    <2>. QED BY <2>1, <2>2, <2>3 DEF AgentInv, OneEach, ProposalHasAgent
  <1>2. AgentInv /\ [RulesStep \/ AIStep]_rulesVars => AgentInv'
    <2> SUFFICES ASSUME AgentInv, [RulesStep \/ AIStep]_rulesVars PROVE AgentInv'
      OBVIOUS
    <2>1. CASE vaultWrites
      BY <2>1, SetStep, DeleteStep DEF vaultWrites
    <2>2. CASE vaultFails
      BY <2>2, FailStep
    <2>3. CASE \E r \in Rules : deleteChildIdentity(r)
      BY <2>3, OperatorStep
    <2>4. CASE \E m \in Mutations, r \in Rules : deriveChildIdentity(m, r)
      BY <2>4, DeriveStep
    <2>5. CASE \E m \in Mutations :
                  \/ \E k \in Kinds, r \in Records, v \in {"absent", "plain", "matching"} :
                        loadTable(m, k, r, v)
                  \/ saveDatabase(m) \/ emitEvent(m) \/ handleEvent(m) \/ handleRemote(m)
      BY <2>5, MutationStep
    <2>6. CASE exitProcess
      <3>1. /\ mutations' = [m \in Mutations |-> NoMutation] /\ vaultQueue' = <<>> /\ UNCHANGED child
        BY <2>6 DEF exitProcess
      <3>2. Fit(NoMutation) /\ NoMutation.step # "judge"
        BY DEF Fit, NoMutation
      <3>3. Fit(NoMutation)'
        BY <3>2 DEF Fit
      <3>4. Len(vaultQueue') = 0 /\ vaultQueue' \in Seq(Entry)
        BY <3>1
      <3>5. ProposalHasAgent' /\ \A m \in Mutations : Fit(mutations[m])'
        BY <3>1, <3>2 DEF ProposalHasAgent, Fit
      <3>. QED BY <3>1, <3>4, <3>5 DEF AgentInv, OneEach
    <2>7. CASE \/ startRules \/ stopRules \/ tickRules \/ UNCHANGED rulesVars \/ AIStep
               \/ \E e \in Edits : editRules(e) \/ listForFile(e) \/ persisted(e) \/ persistFails(e)
      <3>1. UNCHANGED <<mutations, child, vaultQueue>>
        BY <2>7 DEF startRules, stopRules, tickRules, listForFile, persisted, persistFails, editRules,
                    addRule, removeRule, Persists, AIStep, generateText, agents, rulesVars
      <3>. QED BY <3>1, AgentFrame
    <2>. QED
      BY <2>1, <2>2, <2>3, <2>4, <2>5, <2>6, <2>7 DEF RulesStep
  <1>. QED
    BY <1>1, <1>2, PTL DEF RulesSpec

\* What the broker judges comes from a rule whose agent's public half is listed, for
\* any number of rules, of mutations under way and of writes that wait for the
\* vault, over every failure and restart; only the operator's own deletion takes the
\* agent from under a proposal (pal/index.ts buildPALDispatch and
\* identity-manager.ts deriveChildIdentity).
THEOREM ProposesAsAgent ==
    RulesSpec => []ProposalHasAgent
  <1>1. AgentInv => ProposalHasAgent
    BY DEF AgentInv
  <1>. QED
    BY <1>1, AgentInvariant, PTL

-----------------------------------------------------------------------------
(* What of a sequence is in a set *)

\* A set of numbers has a least one.
LEMMA LeastOf ==
    ASSUME NEW T, T \subseteq Nat, T # {}
    PROVE  \E n \in T : \A m \in T : n <= m
  <1>1. PICK n \in T : \A m \in T : ~ (<<m, n>> \in OpToRel(<, Nat))
    BY NatLessThanWellFounded, WFMin
  <1>2. ASSUME NEW m \in T PROVE n <= m
    <2>1. ~ (m < n)
      BY <1>1 DEF OpToRel
    <2>. QED BY <2>1
  <1>. QED
    BY <1>2

\* The first m elements of s that are in the set: what a filter has kept by then.
KeptOf(k, s, m, set) ==
    /\ k \in Seq(Range(s))
    /\ \A i \in 1..Len(k) : k[i] \in set /\ \E j \in 1..m : s[j] = k[i]
    /\ \A j \in 1..m : s[j] \in set => \E i \in 1..Len(k) : k[i] = s[j]
    /\ IsInjective(s) => IsInjective(k)

\* One element more.
LEMMA KeepsOneMore ==
    ASSUME NEW S, NEW s \in Seq(S), NEW set, NEW m \in 1..Len(s), NEW k, KeptOf(k, s, m - 1, set)
    PROVE  /\ s[m] \in set => KeptOf(Append(k, s[m]), s, m, set)
           /\ s[m] \notin set => KeptOf(k, s, m, set)
  <1>1. /\ Len(s) \in Nat /\ m \in Nat /\ m >= 1 /\ DOMAIN s = 1..Len(s) /\ s[m] \in Range(s)
        /\ \A j \in 1..m : j \in 1..Len(s) /\ (j = m \/ j \in 1..(m - 1))
        /\ \A j \in 1..(m - 1) : j \in 1..m /\ j # m
    BY DEF Range
  <1>2. /\ k \in Seq(Range(s)) /\ Len(k) \in Nat /\ DOMAIN k = 1..Len(k)
        /\ \A i \in 1..Len(k) : k[i] \in set /\ \E j \in 1..(m - 1) : s[j] = k[i]
        /\ \A j \in 1..(m - 1) : s[j] \in set => \E i \in 1..Len(k) : k[i] = s[j]
        /\ IsInjective(s) => IsInjective(k)
    BY DEF KeptOf
  <1>3. CASE s[m] \notin set
    <2>1. \A j \in 1..m : s[j] \in set => \E i \in 1..Len(k) : k[i] = s[j]
      BY <1>1, <1>2, <1>3
    <2>2. \A i \in 1..Len(k) : k[i] \in set /\ \E j \in 1..m : s[j] = k[i]
      BY <1>1, <1>2
    <2>. QED BY <1>2, <1>3, <2>1, <2>2 DEF KeptOf
  <1>4. CASE s[m] \in set
    <2>1. PICK a : a = Append(k, s[m])
      OBVIOUS
    <2>2. /\ a \in Seq(Range(s)) /\ Len(a) = Len(k) + 1 /\ DOMAIN a = 1..Len(a) /\ a[Len(a)] = s[m]
          /\ \A i \in 1..Len(k) : a[i] = k[i]
      BY <1>1, <1>2, <2>1
    <2>3. /\ \A i \in 1..Len(a) : i \in 1..Len(k) \/ i = Len(a)
          /\ \A i \in 1..Len(k) : i \in 1..Len(a) /\ i # Len(a)
          /\ Len(a) \in 1..Len(a) /\ m \in 1..m
      BY <1>1, <1>2, <2>2
    <2>4. \A i \in 1..Len(a) : a[i] \in set /\ \E j \in 1..m : s[j] = a[i]
      BY <1>1, <1>2, <1>4, <2>2, <2>3
    <2>5. \A j \in 1..m : s[j] \in set => \E i \in 1..Len(a) : a[i] = s[j]
      BY <1>1, <1>2, <2>2, <2>3
    <2>6. ASSUME IsInjective(s), NEW i \in 1..Len(a), NEW j \in 1..Len(a), a[i] = a[j] PROVE i = j
      <3>1. \A l \in 1..Len(k) : k[l] # s[m]
        BY <1>1, <1>2, <2>6 DEF IsInjective
      <3>. QED BY <1>2, <2>2, <2>3, <2>6, <3>1 DEF IsInjective
    <2>7. IsInjective(s) => IsInjective(a)
      BY <2>2, <2>6 DEF IsInjective
    <2>. QED BY <1>4, <2>1, <2>2, <2>4, <2>5, <2>7 DEF KeptOf
  <1>. QED
    BY <1>3, <1>4

\* What Only keeps of a sequence is a sequence of those of its elements that are in
\* the set, each as often as in s when s has none twice.  There is the recursive
\* function that its definition takes, for otherwise there is a least number up to
\* which there is none; and it does so, for otherwise there is a first value that
\* does not.
LEMMA OnlyFacts ==
    ASSUME NEW S, NEW s \in Seq(S), NEW set
    PROVE  /\ Only(s, set) \in Seq(S) /\ Range(Only(s, set)) = Range(s) \cap set
           /\ IsInjective(s) => IsInjective(Only(s, set))
  <1> DEFINE Grown(f, n) == IF n = 0 THEN <<>>
                           ELSE IF s[n] \in set THEN Append(f[n - 1], s[n]) ELSE f[n - 1]
             Has(f, m) == f = [n \in 0..m |-> Grown(f, n)]
             Bad == {m \in 0..Len(s) : \A f : ~Has(f, m)}
  <1>0. Len(s) \in Nat /\ DOMAIN s = 1..Len(s)
    OBVIOUS
  <1>1. Bad = {}
    <2> SUFFICES ASSUME Bad # {} PROVE FALSE
      OBVIOUS
    <2>0. Bad \subseteq Nat
      BY <1>0
    <2> HIDE DEF Bad
    <2>1. PICK m \in Bad : \A k \in Bad : m <= k
      BY <2>0, LeastOf
    <2> USE DEF Bad
    <2>2. m \in Nat /\ m <= Len(s) /\ \A f : ~Has(f, m)
      <3> HIDE DEF Has
      <3>. QED BY <1>0, <2>1
    <2>3. m # 0
      <3> DEFINE e == [n \in 0..0 |-> <<>>]
      <3>1. e = [n \in 0..0 |-> Grown(e, n)]
        OBVIOUS
      <3>2. Has(e, 0)
        BY <3>1
      <3>. QED BY <2>2, <3>2
    <2>4. m - 1 \in 0..Len(s)
      BY <1>0, <2>2, <2>3
    <2>5. m - 1 \notin Bad
      <3> HIDE DEF Bad
      <3>. QED BY <2>1, <2>2
    <2>6. PICK f : Has(f, m - 1)
      BY <2>4, <2>5
    <2> DEFINE g == [n \in 0..m |-> IF n = m THEN Grown(f, n) ELSE f[n]]
    <2>7. ASSUME NEW n \in 0..m PROVE g[n] = Grown(g, n)
      <3>1. g[n] = Grown(f, n)
        <4>1. CASE n = m
          BY <4>1
        <4>2. CASE n # m
          <5>1. n \in 0..(m - 1)
            BY <2>2, <4>2
          <5>2. f = [i \in 0..(m - 1) |-> Grown(f, i)]
            BY <2>6
          <5> HIDE DEF Grown
          <5>3. f[n] = Grown(f, n)
            BY <5>1, <5>2
          <5>. QED BY <4>2, <5>3
        <4>. QED BY <4>1, <4>2
      <3>2. n # 0 => g[n - 1] = f[n - 1]
        BY <2>2
      <3>3. Grown(g, n) = Grown(f, n)
        BY <3>2
      <3>. QED BY <3>1, <3>3
    <2>8. g = [n \in 0..m |-> Grown(g, n)]
      <3>1. g = [n \in 0..m |-> g[n]]
        OBVIOUS
      <3> HIDE DEF g, Grown
      <3>. QED BY <2>7, <3>1
    <2>. QED BY <2>2, <2>8
  <1>2. \E f : Has(f, Len(s))
    <2> HIDE DEF Has
    <2>. QED BY <1>0, <1>1
  <1> DEFINE kept == CHOOSE f : Has(f, Len(s))
  <1>3. Has(kept, Len(s))
    <2> HIDE DEF Has
    <2>. QED BY <1>2
  <1>4. Only(s, set) = kept[Len(s)]
    BY DEF Only
  <1> HIDE DEF kept
  <1> DEFINE Odd == {m \in 0..Len(s) : ~KeptOf(kept[m], s, m, set)}
  <1>5. Odd = {}
    <2> SUFFICES ASSUME Odd # {} PROVE FALSE
      OBVIOUS
    <2>0. Odd \subseteq Nat
      BY <1>0
    <2> HIDE DEF Odd
    <2>1. PICK m \in Odd : \A k \in Odd : m <= k
      BY <2>0, LeastOf
    <2>2. m \in 0..Len(s) /\ ~KeptOf(kept[m], s, m, set)
      BY <2>1 DEF Odd
    <2>3. kept[m] = Grown(kept, m)
      <3>1. kept = [n \in 0..Len(s) |-> Grown(kept, n)]
        BY <1>3
      <3> HIDE DEF Grown
      <3>. QED BY <2>2, <3>1
    <2>4. KeptOf(<<>>, s, 0, set)
      <3>1. <<>> \in Seq(Range(s)) /\ Len(<<>>) = 0 /\ DOMAIN <<>> = {}
        OBVIOUS
      <3>. QED BY <3>1 DEF KeptOf, IsInjective
    <2>5. m # 0
      BY <2>2, <2>3, <2>4
    <2>6. m - 1 \in 0..Len(s) /\ m - 1 < m /\ m \in 1..Len(s)
      BY <1>0, <2>2, <2>5
    <2>7. m - 1 \notin Odd
      BY <2>1, <2>6, <2>2
    <2>8. KeptOf(kept[m - 1], s, m - 1, set)
      BY <2>6, <2>7 DEF Odd
    <2>9. KeptOf(Grown(kept, m), s, m, set)
      BY <2>5, <2>6, <2>8, KeepsOneMore
    <2>. QED BY <2>2, <2>3, <2>9
  <1>6. KeptOf(Only(s, set), s, Len(s), set)
    BY <1>0, <1>4, <1>5
  <1>7. PICK k : k = Only(s, set)
    OBVIOUS
  <1>8. Range(s) \subseteq S
    BY <1>0 DEF Range
  <1>9. k \in Seq(S) /\ DOMAIN k = 1..Len(k)
    BY <1>6, <1>7, <1>8, SeqMonotonic DEF KeptOf
  <1>10. Range(k) = Range(s) \cap set
    <2>1. ASSUME NEW v \in Range(k) PROVE v \in Range(s) \cap set
      BY <1>0, <1>6, <1>7, <1>9 DEF KeptOf, Range
    <2>2. ASSUME NEW v \in Range(s) \cap set PROVE v \in Range(k)
      <3>1. PICK j \in 1..Len(s) : s[j] = v
        BY <1>0 DEF Range
      <3>2. PICK i \in 1..Len(k) : k[i] = v
        BY <1>6, <1>7, <3>1 DEF KeptOf
      <3>. QED BY <1>9, <3>2 DEF Range
    <2>. QED BY <2>1, <2>2
  <1>. QED
    BY <1>6, <1>7, <1>9, <1>10 DEF KeptOf

-----------------------------------------------------------------------------
(* The engine and the rule set *)

\* What is left to hear an event is rules, none of them twice; a mutation that a
\* handler has in hand has its rule at the head.
Left(k) ==
    /\ {"step", "rest", "deleted"} \subseteq DOMAIN k
    /\ k.rest \in Seq(Rules) /\ IsInjective(k.rest)
    /\ k.step \in {"handle", "derive", "write", "judge"} => k.rest # <<>>

RestInv == \A m \in Mutations : Left(mutations[m])

\* The bus holds the handlers of the engine and no others, and an engine that is not
\* behind serves the rules in memory unless an edit is under way.
EngineInv ==
    /\ bus \in Seq(Rules) /\ IsInjective(bus) /\ Range(bus) = engine
    /\ rulebook \in [memory : SUBSET Rules, file : SUBSET Rules]
    /\ edits \in [Edits -> [step : {"idle", "mkdir", "write"}, data : SUBSET Rules]]
    /\ behind \in BOOLEAN
    /\ server # "up" => bus = <<>> /\ engine = {}
    /\ server = "up" /\ ~behind /\ (\A e \in Edits : edits[e].step = "idle") => engine = rulebook.memory

\* A new engine subscribes the rules set, in the order of the rule set and once each.
LEMMA SortedFacts ==
    ASSUME NEW set \in SUBSET Rules
    PROVE  /\ Sorted(set) \in Seq(Rules) /\ IsInjective(Sorted(set)) /\ Range(Sorted(set)) = set
           /\ Subscribed(<<>>, set) = Sorted(set)
  <1>1. ById \in Seq(Rules) /\ IsInjective(ById) /\ Range(ById) = Rules
    BY RulesAssumption
  <1>2. PICK k : k = Sorted(set)
    OBVIOUS
  <1>3. k \in Seq(Rules) /\ IsInjective(k) /\ Range(k) = Rules \cap set
    BY <1>1, <1>2, OnlyFacts DEF Sorted
  <1>4. <<>> \o k = k
    BY <1>3, ConcatEmptySeq
  <1>. QED
    BY <1>2, <1>3, <1>4 DEF Subscribed

\* What is left of the bus without the handlers of its engine is nothing.
LEMMA NothingIsLeft ==
    ASSUME bus \in Seq(Rules), Range(bus) = engine
    PROVE  Without(bus, engine) = <<>>
  <1>1. PICK k : k = Without(bus, engine)
    OBVIOUS
  <1>2. k \in Seq(Rules) /\ Range(k) = engine \cap (Rules \ engine)
    BY <1>1, OnlyFacts DEF Without
  <1>3. DOMAIN k = 1..Len(k) /\ Len(k) \in Nat /\ \A i \in 1..Len(k) : k[i] \in Range(k)
    BY <1>2 DEF Range
  <1>4. Len(k) = 0
    <2> SUFFICES ASSUME Len(k) # 0 PROVE FALSE
      OBVIOUS
    <2>1. 1 \in 1..Len(k)
      BY <1>3
    <2>. QED BY <1>2, <1>3, <2>1
  <1>. QED
    BY <1>1, <1>2, <1>4

\* A rebuild leaves the handlers of the rules set, or none when the server stopped.
LEMMA RebuildFacts ==
    ASSUME EngineInv, Rebuilt(rulebook.memory)
    PROVE  /\ bus' \in Seq(Rules) /\ IsInjective(bus') /\ Range(bus') = engine'
           /\ server # "up" => bus' = <<>> /\ engine' = {}
           /\ server = "up" => engine' = rulebook.memory
           /\ behind' = FALSE
  <1>1. Without(bus, engine) = <<>>
    BY NothingIsLeft DEF EngineInv
  <1>2. PICK live \in SUBSET Rules : live = IF server = "up" THEN rulebook.memory ELSE {}
    BY DEF EngineInv
  <1>3. bus' = Subscribed(<<>>, live) /\ engine' = live /\ behind' = FALSE
    BY <1>1, <1>2 DEF Rebuilt
  <1>4. bus' = Sorted(live) /\ bus' \in Seq(Rules) /\ IsInjective(bus') /\ Range(bus') = live
    BY <1>3, SortedFacts
  <1>5. ASSUME server # "up" PROVE bus' = <<>>
    <2>1. Range(bus') = {}
      BY <1>2, <1>4, <1>5
    <2>2. Len(bus') \in Nat /\ \A i \in 1..Len(bus') : bus'[i] \in Range(bus')
      BY <1>4 DEF Range
    <2>3. Len(bus') = 0
      BY <2>1, <2>2
    <2>. QED BY <1>4, <2>3
  <1>. QED
    BY <1>2, <1>3, <1>4, <1>5

\* Every step of the rules but a rebuild keeps the engine with its rules.
LEMMA EngineStep ==
    ASSUME EngineInv, [RulesStep \/ AIStep]_rulesVars
    PROVE  EngineInv'
  <1>0. /\ rulebook.memory \in SUBSET Rules /\ rulebook.file \in SUBSET Rules
        /\ \A e \in Edits : edits[e].data \in SUBSET Rules
    BY DEF EngineInv
  <1>1. CASE startRules
    <2>1. /\ bus' = Sorted(rulebook.file) /\ engine' = rulebook.file /\ behind' = FALSE
          /\ rulebook' \in [memory : {rulebook.file}, file : {rulebook.file}] /\ edits' = edits
          /\ server' = "up"
      BY <1>0, <1>1, SortedFacts DEF startRules, EngineInv
    <2>. QED BY <1>0, <2>1, SortedFacts DEF EngineInv
  <1>2. ASSUME NEW e \in Edits, editRules(e) PROVE EngineInv'
    <2>1. PICK r \in Rules : addRule(e, r) \/ removeRule(e, r)
      BY <1>2 DEF editRules
    <2>2. PICK set \in SUBSET Rules : Persists(e, set)
      BY <1>0, <2>1 DEF addRule, removeRule
    <2>3. rulebook' \in [memory : SUBSET Rules, file : SUBSET Rules]
      BY <2>2 DEF Persists, EngineInv
    <2>4. /\ edits' \in [Edits -> [step : {"idle", "mkdir", "write"}, data : SUBSET Rules]]
          /\ edits'[e].step = "mkdir"
      BY <2>2 DEF Persists, EngineInv
    <2>. QED BY <2>2, <2>3, <2>4 DEF Persists, EngineInv
  <1>3. ASSUME NEW e \in Edits, listForFile(e) PROVE EngineInv'
    <2>1. PICK w \in [step : {"write"}, data : SUBSET Rules] : w = [step |-> "write", data |-> rulebook.memory]
      BY <1>0
    <2>2. edits' = [edits EXCEPT ![e] = w] /\ UNCHANGED <<server, rulebook, bus, engine, behind>>
      BY <1>3, <2>1 DEF listForFile
    <2>3. /\ edits' \in [Edits -> [step : {"idle", "mkdir", "write"}, data : SUBSET Rules]]
          /\ edits'[e].step = "write"
      BY <2>1, <2>2 DEF EngineInv
    <2>. QED BY <2>2, <2>3 DEF EngineInv
  <1>4. NoEdit \in [step : {"idle"}, data : SUBSET Rules]
    BY DEF NoEdit
  <1>5. ASSUME NEW e \in Edits, persisted(e) PROVE EngineInv'
    <2>1. rulebook' \in [memory : {rulebook.memory}, file : SUBSET Rules]
      BY <1>0, <1>5 DEF persisted, EngineInv
    <2>2. edits' \in [Edits -> [step : {"idle", "mkdir", "write"}, data : SUBSET Rules]]
      BY <1>4, <1>5 DEF persisted, EngineInv
    <2>3. Rebuilt(rulebook.memory) /\ server' = server
      BY <1>5 DEF persisted
    <2>. QED BY <2>1, <2>2, <2>3, RebuildFacts DEF EngineInv
  <1>6. ASSUME NEW e \in Edits, persistFails(e) PROVE EngineInv'
    <2>1. edits' \in [Edits -> [step : {"idle", "mkdir", "write"}, data : SUBSET Rules]]
      BY <1>4, <1>6 DEF persistFails, EngineInv
    <2>. QED BY <1>6, <2>1 DEF persistFails, EngineInv
  <1>7. CASE stopRules \/ exitProcess
    <2>1. Len(<<>>) = 0 /\ DOMAIN <<>> = {} /\ <<>> \in Seq(Rules)
      OBVIOUS
    <2>2. IsInjective(<<>>) /\ Range(<<>>) = {}
      BY <2>1 DEF IsInjective, Range
    <2>3. rulebook' \in [memory : SUBSET Rules, file : SUBSET Rules]
      BY <1>7 DEF stopRules, exitProcess, EngineInv
    <2>4. edits' \in [Edits -> [step : {"idle", "mkdir", "write"}, data : SUBSET Rules]]
      BY <1>4, <1>7 DEF stopRules, exitProcess, EngineInv
    <2>5. bus' = <<>> /\ engine' = {} /\ server' # "up" /\ behind' \in BOOLEAN
      BY <1>7 DEF stopRules, exitProcess, EngineInv
    <2>. QED BY <2>1, <2>2, <2>3, <2>4, <2>5 DEF EngineInv
  <1>8. ASSUME UNCHANGED store, server' = "up" <=> server = "up" PROVE EngineInv'
    BY <1>8 DEF store, EngineInv
  <1>9. CASE \/ tickRules \/ vaultWrites \/ vaultFails \/ UNCHANGED rulesVars \/ AIStep
             \/ \E r \in Rules : deleteChildIdentity(r)
             \/ \E m \in Mutations, k \in Kinds, r \in Records, v \in {"absent", "plain", "matching"} :
                   loadTable(m, k, r, v)
             \/ \E m \in Mutations :
                   \/ saveDatabase(m) \/ emitEvent(m) \/ handleEvent(m)
                   \/ handleRemote(m) \/ \E r \in Rules : deriveChildIdentity(m, r)
    <2>1. UNCHANGED <<store, server>>
      BY <1>9 DEF tickRules, vaultWrites, vaultFails, rulesVars, deleteChildIdentity, loadTable, saveDatabase,
                  emitEvent, handleEvent, handleRemote, deriveChildIdentity, AIStep, generateText
    <2>. QED BY <1>8, <2>1
  <1>. QED
    BY <1>1, <1>2, <1>3, <1>5, <1>6, <1>7, <1>9 DEF RulesStep

-----------------------------------------------------------------------------
(* What is left to hear an event *)

LEMMA LeftMoves ==
    ASSUME RestInv, AgentInv, NEW m \in Mutations, NEW k, Moves(m, k), Left(k)
    PROVE  RestInv'
  <1>1. mutations'[m] = k /\ \A n \in Mutations : n # m => mutations'[n] = mutations[n]
    BY DEF AgentInv, Moves
  <1>. QED
    BY <1>1 DEF RestInv, Left

LEMMA NothingLeft == Left(NoMutation)
  <1>1. DOMAIN <<>> = {} /\ <<>> \in Seq(Rules)
    OBVIOUS
  <1>. QED
    BY <1>1 DEF Left, NoMutation, IsInjective

\* The handler is through: its rule goes, and after the last one the mutation.
LEMMA LeftHandled ==
    ASSUME RestInv, AgentInv, NEW m \in Mutations, Handled(m),
           mutations[m].step \in {"handle", "derive", "write", "judge"}
    PROVE  RestInv'
  <1>1. PICK s \in Seq(Rules) : s = mutations[m].rest
    BY DEF RestInv, Left
  <1>2. s # <<>> /\ IsInjective(s) /\ {"step", "rest", "deleted"} \subseteq DOMAIN mutations[m]
    BY <1>1 DEF RestInv, Left
  <1>3. Len(s) \in Nat /\ Len(s) >= 1 /\ DOMAIN s = 1..Len(s)
    BY <1>2
  <1>4. PICK t : t = Tail(s)
    OBVIOUS
  <1>5. t \in Seq(Rules) /\ Len(t) = Len(s) - 1 /\ DOMAIN t = 1..Len(t) /\ \A i \in 1..Len(t) : t[i] = s[i + 1]
    BY <1>2, <1>4
  <1>6. IsInjective(t)
    <2>1. ASSUME NEW i \in 1..Len(t), NEW j \in 1..Len(t), t[i] = t[j]
          PROVE  i = j
      <3>1. i + 1 \in DOMAIN s /\ j + 1 \in DOMAIN s /\ i \in Int /\ j \in Int
        BY <1>3, <1>5
      <3>2. s[i + 1] = s[j + 1]
        BY <1>5, <2>1
      <3>3. i + 1 = j + 1
        BY <1>2, <3>1, <3>2 DEF IsInjective
      <3>. QED BY <3>1, <3>3
    <2>. QED BY <1>5, <2>1 DEF IsInjective
  <1>7. PICK k : k = [mutations[m] EXCEPT !.step = "handle", !.deleted = FALSE, !.rest = t]
    OBVIOUS
  <1>8. CASE Len(s) = 1
    BY <1>1, <1>8, LeftMoves, NothingLeft DEF Handled
  <1>9. CASE Len(s) # 1
    <2>1. Moves(m, k)
      BY <1>1, <1>4, <1>7, <1>9 DEF Handled
    <2>2. k.rest = t /\ DOMAIN k = DOMAIN mutations[m]
      BY <1>2, <1>7
    <2>3. t # <<>>
      BY <1>3, <1>5, <1>9
    <2>4. Left(k)
      BY <1>2, <1>5, <1>6, <2>2, <2>3 DEF Left
    <2>. QED BY <2>1, <2>4, LeftMoves
  <1>. QED
    BY <1>8, <1>9

\* A step of a mutation that keeps what is left.
LEMMA LeftStays ==
    ASSUME RestInv, AgentInv, NEW m \in Mutations, NEW k, Moves(m, k),
           DOMAIN k = DOMAIN mutations[m], k.rest = mutations[m].rest,
           k.step \in {"handle", "derive", "write", "judge"}
              => mutations[m].step \in {"handle", "derive", "write", "judge"}
    PROVE  RestInv'
  <1>1. Left(k)
    BY DEF RestInv, Left
  <1>. QED
    BY <1>1, LeftMoves

LEMMA RestStep ==
    ASSUME RestInv, AgentInv, EngineInv, [RulesStep \/ AIStep]_rulesVars
    PROVE  RestInv'
  <1>0. \A m \in Mutations : {"step", "rest", "deleted"} \subseteq DOMAIN mutations[m]
    BY DEF RestInv, Left
  <1>1. ASSUME NEW m \in Mutations, NEW k \in Kinds, NEW r \in Records, NEW v \in {"absent", "plain", "matching"},
               loadTable(m, k, r, v)
        PROVE  RestInv'
    <2>1. PICK e : e = [step |-> "save", kind |-> k, record |-> r, value |-> v,
                        copy |-> [table EXCEPT ![r] = v], rest |-> <<>>, deleted |-> FALSE]
      OBVIOUS
    <2>2. Moves(m, e)
      BY <1>1, <2>1 DEF loadTable
    <2>3. Left(e)
      <3>1. DOMAIN <<>> = {} /\ <<>> \in Seq(Rules)
        OBVIOUS
      <3>2. e.rest = <<>> /\ e.step = "save" /\ {"step", "rest", "deleted"} \subseteq DOMAIN e
        BY <2>1
      <3>. QED BY <3>1, <3>2 DEF Left, IsInjective
    <2>. QED BY <2>2, <2>3, LeftMoves
  <1>2. ASSUME NEW m \in Mutations, saveDatabase(m) PROVE RestInv'
    <2>1. PICK e : e = [mutations[m] EXCEPT !.step = "publish", !.copy = NoCopy]
      OBVIOUS
    <2>2. e.rest = mutations[m].rest /\ e.step = "publish" /\ DOMAIN e = DOMAIN mutations[m]
      BY <1>0, <2>1
    <2>3. Moves(m, e) \/ Moves(m, NoMutation)
      BY <1>2, <2>1 DEF saveDatabase
    <2>. QED BY <2>2, <2>3, LeftStays, LeftMoves, NothingLeft
  <1>3. ASSUME NEW m \in Mutations, emitEvent(m) PROVE RestInv'
    <2>1. PICK heard : heard = Only(bus, {r \in Rules : Trigger[r] = mutations[m].kind})
      OBVIOUS
    <2>2. heard \in Seq(Rules) /\ IsInjective(heard)
      BY <2>1, OnlyFacts DEF EngineInv
    <2>3. PICK e : e = [mutations[m] EXCEPT !.step = "handle", !.rest = heard]
      OBVIOUS
    <2>4. e.rest = heard /\ DOMAIN e = DOMAIN mutations[m]
      BY <1>0, <2>3
    <2>5. (heard # <<>> /\ Moves(m, e)) \/ Moves(m, NoMutation)
      BY <1>3, <2>1, <2>3 DEF emitEvent
    <2>6. heard # <<>> => Left(e)
      BY <1>0, <2>2, <2>4 DEF Left
    <2>. QED BY <2>5, <2>6, LeftMoves, NothingLeft
  <1>4. ASSUME NEW m \in Mutations, handleEvent(m) PROVE RestInv'
    <2>1. PICK e : e = [mutations[m] EXCEPT !.step = "derive"]
      OBVIOUS
    <2>2. e.rest = mutations[m].rest /\ DOMAIN e = DOMAIN mutations[m] /\ mutations[m].step = "handle"
      BY <1>0, <1>4, <2>1 DEF handleEvent
    <2>3. Moves(m, e) \/ Handled(m)
      BY <1>4, <2>1 DEF handleEvent
    <2>. QED BY <2>2, <2>3, LeftStays, LeftHandled
  <1>5. ASSUME NEW m \in Mutations, handleRemote(m) PROVE RestInv'
    BY <1>5, LeftHandled DEF handleRemote
  <1>6. ASSUME NEW m \in Mutations, NEW r \in Rules, deriveChildIdentity(m, r) PROVE RestInv'
    <2>1. PICK e : e = [mutations[m] EXCEPT !.step = "judge"]
      OBVIOUS
    <2>2. PICK f : f = [mutations[m] EXCEPT !.step = "write"]
      OBVIOUS
    <2>3. /\ e.rest = mutations[m].rest /\ DOMAIN e = DOMAIN mutations[m] /\ mutations[m].step = "derive"
          /\ f.rest = mutations[m].rest /\ DOMAIN f = DOMAIN mutations[m]
      BY <1>0, <1>6, <2>1, <2>2 DEF deriveChildIdentity
    <2>4. Moves(m, e) \/ Moves(m, f)
      BY <1>6, <2>1, <2>2 DEF deriveChildIdentity
    <2>. QED BY <2>3, <2>4, LeftStays
  <1>7. ASSUME vaultQueue # <<>>
        PROVE  First.op = "set" => First.by \in Mutations /\ mutations[First.by].step = "write"
    <2>1. 1 \in 1..Len(vaultQueue) /\ First = vaultQueue[1]
      BY <1>7, TailOfQueue DEF AgentInv, First
    <2>. QED BY <2>1 DEF AgentInv, Waits
  <1>8. CASE vaultWrites
    <2>1. CASE First.op = "set"
      <3>1. PICK m \in Mutations : m = First.by /\ mutations[m].step = "write"
        BY <1>7, <1>8, <2>1 DEF vaultWrites
      <3>2. PICK e : e = [mutations[m] EXCEPT !.step = "judge"]
        OBVIOUS
      <3>3. e.rest = mutations[m].rest /\ DOMAIN e = DOMAIN mutations[m]
        BY <1>0, <3>2
      <3>4. Moves(m, e) \/ UNCHANGED mutations
        BY <1>8, <2>1, <3>1, <3>2 DEF vaultWrites, secretIsSet
      <3>. QED BY <3>1, <3>3, <3>4, LeftStays DEF RestInv, Left
    <2>2. CASE First.op # "set"
      <3>1. secretIsDeleted
        BY <1>8, <2>2 DEF vaultWrites
      <3>2. ASSUME NEW m \in Mutations PROVE Left(mutations'[m])
        <4>1. PICK e : e = [mutations[m] EXCEPT !.deleted = TRUE]
          OBVIOUS
        <4>2. e.rest = mutations[m].rest /\ DOMAIN e = DOMAIN mutations[m] /\ e.step = mutations[m].step
          BY <1>0, <4>1
        <4>3. mutations'[m] = e \/ mutations'[m] = mutations[m]
          BY <3>1, <4>1 DEF secretIsDeleted
        <4>. QED BY <4>2, <4>3 DEF RestInv, Left
      <3>. QED BY <3>2 DEF RestInv, Left
    <2>. QED BY <2>1, <2>2
  <1>9. CASE vaultFails
    <2>1. CASE First.op = "set"
      BY <1>7, <1>9, <2>1, LeftHandled DEF vaultFails
    <2>2. CASE First.op # "set"
      BY <1>9, <2>2 DEF vaultFails, RestInv, Left
    <2>. QED BY <2>1, <2>2
  <1>10. CASE exitProcess
    <2>1. mutations' = [m \in Mutations |-> NoMutation]
      BY <1>10 DEF exitProcess
    <2>. QED BY <2>1, NothingLeft DEF RestInv, Left
  <1>11. CASE \/ startRules \/ stopRules \/ tickRules \/ UNCHANGED rulesVars \/ AIStep
              \/ \E e \in Edits : editRules(e) \/ listForFile(e) \/ persisted(e) \/ persistFails(e)
              \/ \E r \in Rules : deleteChildIdentity(r)
    <2>1. UNCHANGED mutations
      BY <1>11 DEF startRules, stopRules, tickRules, listForFile, persisted, persistFails, editRules,
                   addRule, removeRule, Persists, deleteChildIdentity, AIStep, generateText, rulesVars
    <2>. QED BY <2>1 DEF RestInv, Left
  <1>. QED
    BY <1>1, <1>2, <1>3, <1>4, <1>5, <1>6, <1>8, <1>9, <1>10, <1>11 DEF RulesStep

\* What a life of the rules keeps: the agents, the engine and what is left to hear.
RulesInv == AgentInv /\ EngineInv /\ RestInv

LEMMA RulesInvariant == RulesSpec => []RulesInv
  <1>1. InitRules => EngineInv /\ RestInv
    <2> SUFFICES ASSUME InitRules PROVE EngineInv /\ RestInv
      OBVIOUS
    <2>1. /\ bus = <<>> /\ engine = {} /\ behind = FALSE /\ server = "down"
          /\ edits = [e \in Edits |-> NoEdit] /\ mutations = [m \in Mutations |-> NoMutation]
      BY DEF InitRules
    <2>2. DOMAIN <<>> = {} /\ <<>> \in Seq(Rules)
      OBVIOUS
    <2>3. IsInjective(bus) /\ Range(bus) = engine /\ bus \in Seq(Rules)
      BY <2>1, <2>2 DEF IsInjective, Range
    <2>4. rulebook \in [memory : SUBSET Rules, file : SUBSET Rules]
      BY DEF InitRules
    <2>5. edits \in [Edits -> [step : {"idle", "mkdir", "write"}, data : SUBSET Rules]]
      BY <2>1 DEF NoEdit
    <2>6. RestInv
      BY <2>1, NothingLeft DEF RestInv
    <2>. QED BY <2>1, <2>3, <2>4, <2>5, <2>6 DEF EngineInv
  <1>2. EngineInv /\ RestInv /\ AgentInv /\ [RulesStep \/ AIStep]_rulesVars => EngineInv' /\ RestInv'
    BY EngineStep, RestStep
  <1>. QED
    BY <1>1, <1>2, AgentInvariant, PTL DEF RulesInv, RulesSpec

\* Through any number of edits that overlap, fail or outlive the engine, and for any
\* rules and mutations: an event reaches no rule twice, the bus serves exactly the
\* rules in memory once no edit is under way and the engine is not behind, and a
\* server that is not up listens to nothing (manager.ts rebuildEngine, engine.ts
\* start and stop).
THEOREM EngineServesRules ==
    RulesSpec => []EngineFollowsRules
  <1>1. RulesInv => EngineFollowsRules
    BY DEF RulesInv, EngineInv, RestInv, Left, EngineFollowsRules
  <1>. QED
    BY <1>1, RulesInvariant, PTL

-----------------------------------------------------------------------------
(* The budgets *)

\* What a limiter records of a call of somebody in the set who.
Recorded(who) == [by : who, age : Nat, n : Nat]

\* A window holds at most so many calls.
Holds(calls, limit) == IsFiniteSet(calls) /\ Cardinality(calls) <= limit

\* The calls of this instant have the numbers up to how many they are.
Numbered(calls) == \A x \in calls : x.age = 0 => x.n <= Cardinality({y \in calls : y.age = 0})

\* The calls later are those of earlier that still count, a tick older.
Ticked(later, earlier, window, who) ==
    /\ later \in SUBSET Recorded(who) /\ Numbered(later)
    /\ \A x \in later : x.age <= window /\ \E y \in earlier : x.age = y.age + 1 /\ x.by = y.by /\ x = Later(y)
    /\ \A y \in earlier : y.age + 1 <= window => Later(y) \in later

LEMMA OlderFacts ==
    ASSUME NEW who, NEW calls \in SUBSET Recorded(who), NEW window \in Int
    PROVE  Ticked(Older(calls, window), calls, window, who)
  <1>1. ASSUME NEW y \in calls
        PROVE  Later(y) \in Recorded(who) /\ Later(y).age = y.age + 1 /\ Later(y).by = y.by
    BY DEF Recorded, Later
  <1>2. ASSUME NEW x \in Older(calls, window)
        PROVE  x.age <= window /\ \E y \in calls : x.age = y.age + 1 /\ x.by = y.by /\ x = Later(y)
    BY <1>1 DEF Older
  <1>3. Older(calls, window) \in SUBSET Recorded(who)
    BY <1>1, <1>2
  <1>4. ASSUME NEW x \in Older(calls, window) PROVE x.age # 0
    <2>1. PICK y \in calls : x.age = y.age + 1
      BY <1>2
    <2>2. y.age \in Nat
      BY DEF Recorded
    <2>. QED BY <2>1, <2>2
  <1>5. Numbered(Older(calls, window))
    BY <1>4 DEF Numbered
  <1>6. \A y \in calls : y.age + 1 <= window => Later(y) \in Older(calls, window)
    BY <1>1 DEF Older
  <1>. QED
    BY <1>2, <1>3, <1>5, <1>6 DEF Ticked

\* No window grows by the clock.
LEMMA OlderHolds ==
    ASSUME NEW calls, NEW window \in Int, NEW limit \in Nat, Holds(calls, limit)
    PROVE  Holds(Older(calls, window), limit)
  <1> DEFINE aged == [y \in calls |-> Later(y)]
             all  == {Later(y) : y \in calls}
  <1>1. aged \in Surjection(calls, all)
    BY DEF Surjection
  <1>2. Older(calls, window) \subseteq all
    BY DEF Older
  <1> HIDE DEF aged, all
  <1>3. IsFiniteSet(all) /\ Cardinality(all) <= Cardinality(calls)
    BY <1>1, FS_Surjection DEF Holds
  <1>4. IsFiniteSet(Older(calls, window)) /\ Cardinality(Older(calls, window)) <= Cardinality(all)
    BY <1>2, <1>3, FS_Subset
  <1>5. Cardinality(calls) \in Nat /\ Cardinality(all) \in Nat /\ Cardinality(Older(calls, window)) \in Nat
    BY <1>3, <1>4, FS_CardinalityType DEF Holds
  <1>. QED
    BY <1>3, <1>4, <1>5 DEF Holds

\* The number of a new call is one that no recorded call of this instant has, so that
\* the window grows by one.
LEMMA CallFacts ==
    ASSUME NEW who, NEW w \in who, NEW calls \in SUBSET Recorded(who), IsFiniteSet(calls), Numbered(calls)
    PROVE  /\ Call(w, calls) \in [by : {w}, age : {0}, n : Nat] /\ Call(w, calls) \in Recorded(who)
           /\ \A v \in who : Call(v, calls) \notin calls
           /\ Numbered(calls \cup {Call(w, calls)})
  <1> DEFINE instant == {x \in calls : x.age = 0}
  <1>1. IsFiniteSet(instant) /\ Cardinality(instant) \in Nat
    BY FS_Subset, FS_CardinalityType
  <1>2. PICK k : k = Cardinality(instant)
    OBVIOUS
  <1>3. ASSUME NEW v \in who
        PROVE  /\ Call(v, calls) \in [by : {v}, age : {0}, n : {k + 1}]
               /\ Call(v, calls) \in Recorded(who) /\ Call(v, calls) \notin calls
    <2>1. Call(v, calls) \in [by : {v}, age : {0}, n : {k + 1}]
      BY <1>2 DEF Call
    <2>2. Call(v, calls) \in Recorded(who)
      BY <1>1, <1>2, <2>1 DEF Recorded
    <2>3. \A x \in calls : x.age = 0 => x.n <= k
      BY <1>2 DEF Numbered
    <2>. QED BY <1>1, <1>2, <2>1, <2>2, <2>3
  <1>4. PICK c : c = Call(w, calls)
    OBVIOUS
  <1>5. c \in [by : {w}, age : {0}, n : {k + 1}] /\ c \notin calls
    BY <1>3, <1>4
  <1>6. Numbered(calls \cup {c})
    <2>1. {x \in calls \cup {c} : x.age = 0} = instant \cup {c}
      BY <1>5
    <2>2. Cardinality(instant \cup {c}) = k + 1
      BY <1>1, <1>2, <1>5, FS_AddElement
    <2>3. \A x \in calls \cup {c} : x.age = 0 => x.n <= k + 1
      <3>1. \A x \in calls : x.age = 0 => x.n \in Nat /\ x.n <= k
        BY <1>2 DEF Numbered, Recorded
      <3>. QED BY <1>1, <1>2, <1>5, <3>1
    <2>. QED BY <2>1, <2>2, <2>3 DEF Numbered
  <1>. QED
    BY <1>1, <1>2, <1>3, <1>4, <1>5, <1>6

LEMMA HoldsOneMore ==
    ASSUME NEW calls, NEW limit \in Nat, NEW c, IsFiniteSet(calls), Cardinality(calls) < limit
    PROVE  Holds(calls \cup {c}, limit)
  <1>1. Cardinality(calls) \in Nat
    BY FS_CardinalityType
  <1>2. IsFiniteSet(calls \cup {c})
        /\ (Cardinality(calls \cup {c}) = Cardinality(calls)
              \/ Cardinality(calls \cup {c}) = Cardinality(calls) + 1)
    BY FS_AddElement
  <1>. QED
    BY <1>1, <1>2 DEF Holds

\* Every call of a rule that went through within a window is in that window, and no
\* window is over its limit.
SpentInv ==
    /\ spent \in [rule : [Rules -> SUBSET Recorded(Rules)], node : SUBSET Recorded(Rules)]
    /\ ran \in SUBSET Recorded(Rules)
    /\ \A r \in Rules : Holds(spent.rule[r], RuleLimit)
    /\ Holds(spent.node, NodeLimit) /\ Numbered(spent.node)
    /\ \A x \in ran : x \in spent.rule[x.by] /\ (x.age <= NodeWindow => x \in spent.node)

\* The same of the AI calls; what a window holds was asked since it was last touched,
\* so that a sweep drops no call that counts.
QuotaInv ==
    /\ quota \in [callers : [Callers -> [calls : SUBSET Recorded(Callers), idle : Nat]],
                  node : SUBSET Recorded(Callers), swept : Nat]
    /\ asked \in SUBSET Recorded(Callers)
    /\ \A c \in Callers :
          /\ Holds(quota.callers[c].calls, CallerLimit) /\ Numbered(quota.callers[c].calls)
          /\ \A x \in quota.callers[c].calls : x.by = c /\ quota.callers[c].idle <= x.age /\ x.age < CallerWindow
    /\ Holds(quota.node, AILimit)
    /\ \A x \in asked : /\ x.age < CallerWindow => x \in quota.callers[x.by].calls
                        /\ x.age < AIWindow => x \in quota.node

LEMMA LimitsAreNumbers ==
    /\ MaxRules \in Nat \ {0} /\ RuleLimit \in Nat \ {0} /\ RuleWindow \in Nat \ {0} /\ NodeLimit \in Nat \ {0}
    /\ NodeWindow \in Nat \ {0} /\ CallerLimit \in Nat \ {0} /\ CallerWindow \in Nat \ {0}
    /\ AILimit \in Nat \ {0} /\ AIWindow \in Nat \ {0} /\ Longer \in Nat \ {0}
    /\ CallerWindow <= Longer /\ AIWindow <= Longer /\ NodeWindow <= RuleWindow
  BY RulesAssumption DEF Longer

LEMMA NothingHeld ==
    ASSUME NEW limit \in Nat
    PROVE  Holds({}, limit) /\ Numbered({})
  BY FS_EmptySet DEF Holds, Numbered

\* The clock ticks for the windows of the rules and for what ran.
LEMMA SpentTick ==
    ASSUME SpentInv, spent' = [rule |-> [r \in Rules |-> Older(spent.rule[r], RuleWindow)],
                               node |-> Older(spent.node, NodeWindow)],
           ran' = Older(ran, RuleWindow)
    PROVE  SpentInv'
  <1>0. /\ RuleWindow \in Int /\ NodeWindow \in Int /\ RuleLimit \in Nat /\ NodeLimit \in Nat
        /\ spent.node \in SUBSET Recorded(Rules) /\ ran \in SUBSET Recorded(Rules)
        /\ \A r \in Rules : spent.rule[r] \in SUBSET Recorded(Rules) /\ Holds(spent.rule[r], RuleLimit)
    BY LimitsAreNumbers DEF SpentInv
  <1>1. ASSUME NEW r \in Rules
        PROVE  /\ Ticked(Older(spent.rule[r], RuleWindow), spent.rule[r], RuleWindow, Rules)
               /\ Holds(Older(spent.rule[r], RuleWindow), RuleLimit)
    BY <1>0, OlderFacts, OlderHolds, Zenon
  <1>2. /\ Ticked(Older(spent.node, NodeWindow), spent.node, NodeWindow, Rules)
        /\ Holds(Older(spent.node, NodeWindow), NodeLimit)
    BY <1>0, OlderFacts, OlderHolds, Zenon DEF SpentInv
  <1>3. Ticked(ran', ran, RuleWindow, Rules)
    BY <1>0, OlderFacts, Zenon
  <1>4. /\ spent'.rule = [r \in Rules |-> Older(spent.rule[r], RuleWindow)]
        /\ spent'.node = Older(spent.node, NodeWindow)
    OBVIOUS
  <1>5. spent' \in [rule : [Rules -> SUBSET Recorded(Rules)], node : SUBSET Recorded(Rules)]
    <2>1. [r \in Rules |-> Older(spent.rule[r], RuleWindow)] \in [Rules -> SUBSET Recorded(Rules)]
      BY <1>1 DEF Ticked
    <2>. QED BY <1>2, <2>1 DEF Ticked
  <1>6. ASSUME NEW x \in ran'
        PROVE  x \in spent'.rule[x.by] /\ (x.age <= NodeWindow => x \in spent'.node)
    <2>1. PICK y \in ran : x.age = y.age + 1 /\ x.by = y.by /\ x = Later(y) /\ x.age <= RuleWindow
      BY <1>3 DEF Ticked
    <2>2. y \in spent.rule[y.by] /\ (y.age <= NodeWindow => y \in spent.node) /\ y.by \in Rules /\ y.age \in Nat
      BY DEF SpentInv, Recorded
    <2>3. x.age <= NodeWindow => y.age <= NodeWindow
      BY <2>1, <2>2, LimitsAreNumbers
    <2>. QED BY <1>1, <1>2, <1>4, <2>1, <2>2, <2>3 DEF Ticked
  <1>. QED
    BY <1>1, <1>2, <1>3, <1>4, <1>5, <1>6 DEF SpentInv, Ticked

\* A rule with room in both windows runs.
LEMMA SpentMore ==
    ASSUME SpentInv, NEW r \in Rules, allows(r), NEW c, c = Call(r, spent.node),
           spent' = [spent EXCEPT !.rule[r] = @ \cup {c}, !.node = @ \cup {c}], ran' = ran \cup {c}
    PROVE  SpentInv' /\ c \notin ran
  <1>1. /\ c \in [by : {r}, age : {0}, n : Nat] /\ c \in Recorded(Rules) /\ c \notin spent.node
        /\ Numbered(spent.node \cup {c})
    BY CallFacts DEF SpentInv, Holds
  <1>2. /\ spent'.rule \in [Rules -> SUBSET Recorded(Rules)] /\ spent'.node = spent.node \cup {c}
        /\ spent'.rule[r] = spent.rule[r] \cup {c}
        /\ \A q \in Rules : q # r => spent'.rule[q] = spent.rule[q]
        /\ spent' \in [rule : [Rules -> SUBSET Recorded(Rules)], node : SUBSET Recorded(Rules)]
    BY <1>1 DEF SpentInv
  <1>3. Holds(spent.rule[r] \cup {c}, RuleLimit) /\ Holds(spent.node \cup {c}, NodeLimit)
    BY HoldsOneMore, LimitsAreNumbers DEF SpentInv, Holds, allows
  <1>4. ASSUME NEW x \in ran'
        PROVE  x \in spent'.rule[x.by] /\ (x.age <= NodeWindow => x \in spent'.node)
    <2>1. CASE x = c
      BY <1>1, <1>2, <2>1
    <2>2. CASE x \in ran
      <3>1. x.by \in Rules
        BY <2>2 DEF SpentInv, Recorded
      <3>. QED BY <1>2, <2>2, <3>1 DEF SpentInv
    <2>. QED BY <2>1, <2>2
  <1>5. c \notin ran
    <2>1. c.age <= NodeWindow
      BY <1>1, LimitsAreNumbers
    <2>. QED BY <1>1, <2>1 DEF SpentInv
  <1>6. \A q \in Rules : Holds(spent'.rule[q], RuleLimit)
    BY <1>2, <1>3 DEF SpentInv
  <1>7. ran' \in SUBSET Recorded(Rules)
    BY <1>1 DEF SpentInv
  <1>. QED
    BY <1>1, <1>2, <1>3, <1>4, <1>5, <1>6, <1>7 DEF SpentInv

\* The clock ticks for the windows of the quota and for what was asked.
LEMMA QuotaTick ==
    ASSUME QuotaInv, quota' = Aged, asked' = Older(asked, Longer - 1)
    PROVE  QuotaInv'
  <1> DEFINE w(c) == quota.callers[c]
             old(c) == Older(w(c).calls, CallerWindow - 1)
  <1>0. /\ CallerWindow - 1 \in Int /\ AIWindow - 1 \in Int /\ Longer - 1 \in Int
        /\ CallerLimit \in Nat /\ AILimit \in Nat /\ CallerWindow \in Nat
        /\ quota.node \in SUBSET Recorded(Callers) /\ asked \in SUBSET Recorded(Callers)
        /\ Holds(quota.node, AILimit)
    BY LimitsAreNumbers DEF QuotaInv
  <1>1. ASSUME NEW c \in Callers
        PROVE  /\ w(c) \in [calls : SUBSET Recorded(Callers), idle : Nat] /\ Holds(w(c).calls, CallerLimit)
               /\ \A x \in w(c).calls : x.by = c /\ w(c).idle <= x.age /\ x.age < CallerWindow
    BY DEF QuotaInv
  <1>2. ASSUME NEW c \in Callers
        PROVE  Ticked(old(c), w(c).calls, CallerWindow - 1, Callers) /\ Holds(old(c), CallerLimit)
    <2>1. w(c).calls \in SUBSET Recorded(Callers) /\ Holds(w(c).calls, CallerLimit)
      BY <1>1
    <2> HIDE DEF w
    <2>. QED BY <1>0, <2>1, OlderFacts, OlderHolds, Zenon
  <1>3. /\ Ticked(Older(quota.node, AIWindow - 1), quota.node, AIWindow - 1, Callers)
        /\ Holds(Older(quota.node, AIWindow - 1), AILimit)
    BY <1>0, OlderFacts, OlderHolds, Zenon
  <1>4. Ticked(asked', asked, Longer - 1, Callers)
    BY <1>0, OlderFacts, Zenon
  <1>5. \A time \in Nat : WindowMore(time) \in Nat /\ WindowMore(time) <= time + 1
    BY <1>0 DEF WindowMore
  <1>6. ASSUME NEW c \in Callers
        PROVE  [calls |-> old(c), idle |-> WindowMore(w(c).idle)] \in
                  [calls : {old(c)}, idle : {WindowMore(w(c).idle)}]
    OBVIOUS
  <1> DEFINE v(c) == [calls |-> old(c), idle |-> WindowMore(w(c).idle)]
             all  == [c \in Callers |-> v(c)]
  <1>7. quota' = [callers |-> all, node |-> Older(quota.node, AIWindow - 1), swept |-> WindowMore(quota.swept)]
    BY DEF Aged
  <1>8. ASSUME NEW c \in Callers
        PROVE  /\ v(c) \in [calls : SUBSET Recorded(Callers), idle : Nat]
               /\ v(c).calls = old(c) /\ v(c).idle <= w(c).idle + 1
    BY <1>1, <1>2, <1>5, <1>6 DEF Ticked
  <1>9. ASSUME NEW c \in Callers, NEW x \in old(c)
        PROVE  x.by = c /\ v(c).idle <= x.age /\ x.age < CallerWindow
    <2>1. PICK y \in w(c).calls : x.age = y.age + 1 /\ x.by = y.by /\ x.age <= CallerWindow - 1
      BY <1>2, <1>9 DEF Ticked
    <2>2. y.by = c /\ w(c).idle <= y.age /\ y.age \in Nat /\ w(c).idle \in Nat /\ v(c).idle \in Nat
      BY <1>1, <1>8 DEF Recorded
    <2>. QED BY <1>0, <1>8, <2>1, <2>2
  <1> HIDE DEF v, old, w
  <1>10. /\ quota'.callers = all /\ quota'.node = Older(quota.node, AIWindow - 1)
         /\ \A c \in Callers : quota'.callers[c] = v(c)
         /\ quota' \in [callers : [Callers -> [calls : SUBSET Recorded(Callers), idle : Nat]],
                        node : SUBSET Recorded(Callers), swept : Nat]
    <2>1. all \in [Callers -> [calls : SUBSET Recorded(Callers), idle : Nat]]
      BY <1>8
    <2>2. WindowMore(quota.swept) \in Nat
      BY <1>5 DEF QuotaInv
    <2>. QED BY <1>3, <1>7, <2>1, <2>2 DEF Ticked
  <1>11. ASSUME NEW x \in asked'
         PROVE  /\ x.age < CallerWindow => x \in quota'.callers[x.by].calls
                /\ x.age < AIWindow => x \in quota'.node
    <2>1. PICK y \in asked : x.age = y.age + 1 /\ x.by = y.by /\ x = Later(y)
      BY <1>4 DEF Ticked
    <2>2. /\ y.by \in Callers /\ y.age \in Nat
          /\ y.age < CallerWindow => y \in w(y.by).calls
          /\ y.age < AIWindow => y \in quota.node
      BY DEF QuotaInv, Recorded, w
    <2>3. ASSUME x.age < CallerWindow PROVE x \in quota'.callers[x.by].calls
      <3>1. y \in w(y.by).calls /\ y.age + 1 <= CallerWindow - 1
        BY <1>0, <2>1, <2>2, <2>3
      <3>2. x \in old(y.by)
        BY <1>2, <2>1, <2>2, <3>1 DEF Ticked
      <3>. QED BY <1>8, <1>10, <2>1, <2>2, <3>2
    <2>4. ASSUME x.age < AIWindow PROVE x \in quota'.node
      <3>1. y \in quota.node /\ y.age + 1 <= AIWindow - 1
        BY <2>1, <2>2, <2>4, LimitsAreNumbers
      <3>. QED BY <1>3, <1>10, <2>1, <3>1 DEF Ticked
    <2>. QED BY <2>3, <2>4
  <1>12. \A c \in Callers :
           /\ Holds(quota'.callers[c].calls, CallerLimit) /\ Numbered(quota'.callers[c].calls)
           /\ \A x \in quota'.callers[c].calls :
                 x.by = c /\ quota'.callers[c].idle <= x.age /\ x.age < CallerWindow
    BY <1>2, <1>8, <1>9, <1>10 DEF Ticked
  <1>. QED
    BY <1>3, <1>4, <1>10, <1>11, <1>12 DEF QuotaInv, Ticked

\* What the sweep drops held no call that counts.
LEMMA SweepFacts ==
    ASSUME QuotaInv
    PROVE  /\ maybeSweep \in [callers : [Callers -> [calls : SUBSET Recorded(Callers), idle : Nat]],
                              node : {quota.node}, swept : Nat]
           /\ \A c \in Callers : maybeSweep.callers[c].calls = quota.callers[c].calls
           /\ \A c \in Callers : \A x \in maybeSweep.callers[c].calls : maybeSweep.callers[c].idle <= x.age
  <1>1. ASSUME NEW c \in Callers
        PROVE  /\ Drops(quota.callers[c]) \in [calls : {quota.callers[c].calls}, idle : Nat]
               /\ \A x \in quota.callers[c].calls : Drops(quota.callers[c]).idle <= x.age
    <2>1. /\ quota.callers[c] \in [calls : SUBSET Recorded(Callers), idle : Nat]
          /\ \A x \in quota.callers[c].calls : quota.callers[c].idle <= x.age /\ x.age < CallerWindow /\ x.age \in Nat
      BY DEF QuotaInv, Recorded
    <2>2. CASE quota.callers[c].idle >= CallerWindow
      <3>1. quota.callers[c].calls = {}
        BY <2>1, <2>2, LimitsAreNumbers
      <3>. QED BY <2>2, <3>1, LimitsAreNumbers DEF Drops, NoWindow
    <2>3. CASE ~(quota.callers[c].idle >= CallerWindow)
      BY <2>1, <2>3 DEF Drops
    <2>. QED BY <2>2, <2>3
  <1>2. CASE quota.swept < CallerWindow
    BY <1>2 DEF maybeSweep, QuotaInv
  <1>3. CASE ~(quota.swept < CallerWindow)
    <2>1. PICK f : f = [c \in Callers |-> Drops(quota.callers[c])]
      OBVIOUS
    <2>2. f \in [Callers -> [calls : SUBSET Recorded(Callers), idle : Nat]]
      BY <1>1, <2>1 DEF QuotaInv
    <2>3. maybeSweep = [quota EXCEPT !.callers = f, !.swept = 0]
      BY <1>3, <2>1 DEF maybeSweep
    <2>4. maybeSweep \in [callers : {f}, node : {quota.node}, swept : {0}]
      BY <2>3 DEF QuotaInv
    <2>5. maybeSweep.callers = f /\ \A c \in Callers : f[c] = Drops(quota.callers[c])
      BY <2>1, <2>4
    <2>. QED BY <1>1, <2>2, <2>4, <2>5
  <1>. QED
    BY <1>2, <1>3

\* Before the first call every window is empty and long idle.
LEMMA NothingFacts ==
    /\ NothingSpent \in [rule : [Rules -> {{}}], node : {{}}]
    /\ FullQuota \in [callers : [Callers -> [calls : {{}}, idle : Nat]], node : {{}}, swept : Nat]
    /\ Holds({}, RuleLimit) /\ Holds({}, NodeLimit) /\ Holds({}, CallerLimit) /\ Holds({}, AILimit)
    /\ Numbered({})
  <1>1. NoWindow \in [calls : {{}}, idle : Nat]
    BY LimitsAreNumbers DEF NoWindow
  <1>2. FullQuota \in [callers : [Callers -> [calls : {{}}, idle : Nat]], node : {{}}, swept : Nat]
    BY <1>1, LimitsAreNumbers DEF FullQuota
  <1>3. NothingSpent \in [rule : [Rules -> {{}}], node : {{}}]
    BY DEF NothingSpent
  <1>. QED
    BY <1>2, <1>3, NothingHeld, LimitsAreNumbers

\* What is part of a window fits its limit.
LEMMA FewerFit ==
    ASSUME NEW limit \in Nat, NEW calls, Holds(calls, limit), NEW some \in SUBSET calls
    PROVE  Cardinality(some) <= limit
  <1>1. IsFiniteSet(some) /\ Cardinality(some) <= Cardinality(calls)
    BY FS_Subset DEF Holds
  <1>2. Cardinality(some) \in Nat /\ Cardinality(calls) \in Nat
    BY <1>1, FS_CardinalityType DEF Holds
  <1>. QED
    BY <1>1, <1>2 DEF Holds

\* A call is asked of the caller's window and of the node's.
LEMMA ConsumeStep ==
    ASSUME QuotaInv, NEW c \in Callers, consume(c)
    PROVE  /\ QuotaInv'
           /\ asked' # asked => \E x \in asked' : x \notin asked /\ x.by = c /\ asked' = asked \cup {x}
  <1>1. PICK kept : kept = maybeSweep
    OBVIOUS
  <1>2. /\ kept \in [callers : [Callers -> [calls : SUBSET Recorded(Callers), idle : Nat]],
                     node : {quota.node}, swept : Nat]
        /\ \A d \in Callers : kept.callers[d].calls = quota.callers[d].calls
        /\ \A d \in Callers : \A x \in kept.callers[d].calls : kept.callers[d].idle <= x.age
    BY <1>1, SweepFacts, Zenon
  <1>3. PICK calls \in SUBSET Recorded(Callers) : calls = kept.callers[c].calls
    BY <1>2
  <1>4. /\ calls = quota.callers[c].calls /\ Holds(calls, CallerLimit) /\ Numbered(calls)
        /\ Holds(quota.node, AILimit) /\ quota.node \in SUBSET Recorded(Callers)
        /\ \A x \in calls : x.by = c /\ x.age < CallerWindow
    BY <1>2, <1>3 DEF QuotaInv
  <1>5. PICK x : x = Call(c, calls)
    OBVIOUS
  <1>6. /\ x \in [by : {c}, age : {0}, n : Nat] /\ x \in Recorded(Callers) /\ x \notin calls
        /\ Numbered(calls \cup {x})
    BY <1>4, <1>5, CallFacts DEF Holds
  <1>7. PICK mine \in {TRUE, FALSE} : mine = TRUE <=> Cardinality(calls) < CallerLimit
    OBVIOUS
  <1>8. PICK allowed \in {TRUE, FALSE} :
           allowed = TRUE <=> Cardinality(calls) < CallerLimit /\ Cardinality(quota.node) < AILimit
    OBVIOUS
  <1>9. PICK held : held = IF mine = TRUE THEN calls \cup {x} ELSE calls
    OBVIOUS
  <1>10. PICK node : node = IF allowed = TRUE THEN quota.node \cup {x} ELSE quota.node
    OBVIOUS
  <1>11. asked' = IF allowed = TRUE THEN asked \cup {x} ELSE asked
    BY <1>1, <1>2, <1>3, <1>5, <1>8 DEF consume
  <1>12. quota' = [kept EXCEPT !.callers[c] = [calls |-> held, idle |-> 0], !.node = node]
    <2>1. kept.node = quota.node
      BY <1>2
    <2>2. quota' = [kept EXCEPT !.callers[c] = [calls |-> IF Cardinality(calls) < CallerLimit
                                                           THEN calls \cup {x} ELSE calls, idle |-> 0],
                                !.node = IF Cardinality(calls) < CallerLimit /\ Cardinality(kept.node) < AILimit
                                         THEN @ \cup {x} ELSE @]
      BY <1>1, <1>3, <1>5 DEF consume
    <2>. QED BY <1>2, <1>7, <1>8, <1>9, <1>10, <2>1, <2>2
  <1>13. /\ held \in SUBSET Recorded(Callers) /\ node \in SUBSET Recorded(Callers)
         /\ Holds(held, CallerLimit) /\ Numbered(held) /\ Holds(node, AILimit)
         /\ \A y \in held : y.by = c /\ 0 <= y.age /\ y.age < CallerWindow
    <2>1. held \in SUBSET Recorded(Callers) /\ node \in SUBSET Recorded(Callers)
      BY <1>4, <1>6, <1>9, <1>10
    <2>2. Holds(held, CallerLimit) /\ Numbered(held)
      BY <1>4, <1>6, <1>7, <1>9, HoldsOneMore, LimitsAreNumbers DEF Holds
    <2>3. Holds(node, AILimit)
      BY <1>4, <1>8, <1>10, HoldsOneMore, LimitsAreNumbers DEF Holds
    <2>4. \A y \in held : y.by = c /\ 0 <= y.age /\ y.age < CallerWindow
      BY <1>4, <1>6, <1>9, <2>1, LimitsAreNumbers DEF Recorded
    <2>. QED BY <2>1, <2>2, <2>3, <2>4
  <1>14. PICK w \in [calls : {held}, idle : {0}] : w = [calls |-> held, idle |-> 0]
    OBVIOUS
  <1>15. /\ quota' \in [callers : [Callers -> [calls : SUBSET Recorded(Callers), idle : Nat]],
                        node : {node}, swept : Nat]
         /\ quota'.callers[c] = w /\ \A d \in Callers : d # c => quota'.callers[d] = kept.callers[d]
    <2>1. PICK f : f = [kept.callers EXCEPT ![c] = w]
      OBVIOUS
    <2>2. /\ f \in [Callers -> [calls : SUBSET Recorded(Callers), idle : Nat]]
          /\ f[c] = w /\ \A d \in Callers : d # c => f[d] = kept.callers[d]
      BY <1>2, <1>13, <1>14, <2>1
    <2>3. quota' = [kept EXCEPT !.callers = f, !.node = node]
      BY <1>12, <1>14, <2>1
    <2>4. quota' \in [callers : {f}, node : {node}, swept : Nat]
      BY <1>2, <2>3
    <2>. QED BY <2>2, <2>4
  <1>16. ASSUME NEW d \in Callers
         PROVE  /\ Holds(quota'.callers[d].calls, CallerLimit) /\ Numbered(quota'.callers[d].calls)
                /\ \A y \in quota'.callers[d].calls :
                      y.by = d /\ quota'.callers[d].idle <= y.age /\ y.age < CallerWindow
    <2>1. CASE d = c
      BY <1>13, <1>14, <1>15, <2>1
    <2>2. CASE d # c
      BY <1>2, <1>15, <2>2 DEF QuotaInv
    <2>. QED BY <2>1, <2>2
  <1>17. ASSUME NEW y \in asked'
         PROVE  /\ y.age < CallerWindow => y \in quota'.callers[y.by].calls
                /\ y.age < AIWindow => y \in quota'.node
    <2>1. quota'.node = node /\ quota'.callers[c].calls = held
      BY <1>14, <1>15
    <2>2. CASE y \in asked
      <3>1. y.by \in Callers
        BY <2>2 DEF QuotaInv, Recorded
      <3>2. CASE y.by = c
        BY <1>4, <1>9, <1>10, <2>1, <2>2, <3>2 DEF QuotaInv
      <3>3. CASE y.by # c
        BY <1>2, <1>10, <1>15, <2>1, <2>2, <3>1, <3>3 DEF QuotaInv
      <3>. QED BY <3>2, <3>3
    <2>3. CASE y \notin asked
      <3>1. y = x /\ allowed = TRUE /\ mine = TRUE
        BY <1>7, <1>8, <1>11, <2>3
      <3>. QED BY <1>6, <1>9, <1>10, <2>1, <3>1
    <2>. QED BY <2>2, <2>3
  <1>18. asked' \in SUBSET Recorded(Callers)
    BY <1>6, <1>11 DEF QuotaInv
  <1>19. x \notin asked
    <2>1. x.age < CallerWindow /\ x.by = c
      BY <1>6, LimitsAreNumbers
    <2>. QED BY <1>4, <1>6, <2>1 DEF QuotaInv
  <1>20. QuotaInv'
    BY <1>13, <1>15, <1>16, <1>17, <1>18 DEF QuotaInv
  <1>. QED
    BY <1>6, <1>11, <1>19, <1>20

LEMMA BudgetStep ==
    ASSUME SpentInv, QuotaInv, RestInv, [RulesStep \/ AIStep]_rulesVars
    PROVE  SpentInv' /\ QuotaInv'
  <1>1. CASE tickRules
    BY <1>1, SpentTick, QuotaTick DEF tickRules
  <1>2. ASSUME UNCHANGED <<quota, asked>> PROVE QuotaInv'
    BY <1>2 DEF QuotaInv
  <1>3. ASSUME UNCHANGED <<spent, ran>> PROVE SpentInv'
    BY <1>3 DEF SpentInv
  <1>4. ASSUME NEW m \in Mutations, handleEvent(m) PROVE SpentInv' /\ QuotaInv'
    <2>1. PICK r \in Rules : r = At(m)
      <3>1. mutations[m].rest \in Seq(Rules) /\ mutations[m].rest # <<>>
        BY <1>4 DEF RestInv, Left, handleEvent
      <3>. QED BY <3>1, HeadTailProperties DEF At
    <2>2. PICK c : c = Call(r, spent.node)
      OBVIOUS
    <2>3. \/ UNCHANGED <<spent, ran>>
          \/ /\ allows(r) /\ ran' = ran \cup {c}
             /\ spent' = [spent EXCEPT !.rule[r] = @ \cup {c}, !.node = @ \cup {c}]
      BY <1>4, <2>1, <2>2 DEF handleEvent
    <2>4. UNCHANGED <<quota, asked>>
      BY <1>4 DEF handleEvent
    <2>. QED BY <1>2, <1>3, <2>2, <2>3, <2>4, SpentMore
  <1>5. CASE AIStep
    <2>1. PICK c \in Callers : generateText(c)
      BY <1>5 DEF AIStep
    <2>2. consume(c) /\ UNCHANGED <<spent, ran>>
      BY <2>1 DEF generateText
    <2>. QED BY <1>3, <2>2, ConsumeStep
  <1>6. CASE exitProcess
    <2>1. spent' = NothingSpent /\ ran' = {} /\ quota' = FullQuota /\ asked' = {}
      BY <1>6 DEF exitProcess
    <2>2. SpentInv'
      BY <2>1, NothingFacts DEF SpentInv
    <2>3. QuotaInv'
      BY <2>1, NothingFacts DEF QuotaInv
    <2>. QED BY <2>2, <2>3
  <1>7. CASE \/ startRules \/ stopRules \/ vaultWrites \/ vaultFails \/ UNCHANGED rulesVars
             \/ \E e \in Edits : editRules(e) \/ listForFile(e) \/ persisted(e) \/ persistFails(e)
             \/ \E r \in Rules : deleteChildIdentity(r)
             \/ \E m \in Mutations, k \in Kinds, r \in Records, v \in {"absent", "plain", "matching"} :
                   loadTable(m, k, r, v)
             \/ \E m \in Mutations :
                   \/ saveDatabase(m) \/ emitEvent(m) \/ handleRemote(m)
                   \/ \E r \in Rules : deriveChildIdentity(m, r)
    <2>1. UNCHANGED budgets
      BY <1>7 DEF startRules, stopRules, vaultWrites, vaultFails, rulesVars, editRules, addRule, removeRule,
                  Persists, listForFile, persisted, persistFails, deleteChildIdentity, loadTable,
                  saveDatabase, emitEvent, handleRemote, deriveChildIdentity
    <2>. QED BY <1>2, <1>3, <2>1 DEF budgets
  <1>. QED
    BY <1>1, <1>4, <1>5, <1>6, <1>7 DEF RulesStep

\* No rule runs more often than its budget, no rules together more often than the
\* node's, and no caller, nor all of them, gets more calls of the AI through than the
\* quota: for any rules, callers, limits and windows, over rebuilds of the engine, dropped
\* windows and restarts (rate-limiter.ts allow, ai-budget-manager.ts consume).
THEOREM BudgetsHold ==
    RulesSpec => []WithinBudget
  <1>1. InitRules => SpentInv /\ QuotaInv
    <2> SUFFICES ASSUME InitRules PROVE SpentInv /\ QuotaInv
      OBVIOUS
    <2>1. spent = NothingSpent /\ ran = {} /\ quota = FullQuota /\ asked = {}
      BY DEF InitRules
    <2>2. SpentInv
      BY <2>1, NothingFacts DEF SpentInv
    <2>3. QuotaInv
      BY <2>1, NothingFacts DEF QuotaInv
    <2>. QED BY <2>2, <2>3
  <1>2. SpentInv /\ QuotaInv /\ RulesInv /\ [RulesStep \/ AIStep]_rulesVars => SpentInv' /\ QuotaInv'
    BY BudgetStep DEF RulesInv
  <1>3. SpentInv /\ QuotaInv => WithinBudget
    <2> SUFFICES ASSUME SpentInv, QuotaInv PROVE WithinBudget
      OBVIOUS
    <2>1. ASSUME NEW r \in Rules PROVE Cardinality({x \in ran : x.by = r}) <= RuleLimit
      <3>1. {x \in ran : x.by = r} \subseteq spent.rule[r]
        BY DEF SpentInv
      <3>. QED BY <3>1, FewerFit, LimitsAreNumbers DEF SpentInv
    <2>2. Cardinality({x \in ran : x.age <= NodeWindow}) <= NodeLimit
      <3>1. {x \in ran : x.age <= NodeWindow} \subseteq spent.node
        BY DEF SpentInv
      <3>. QED BY <3>1, FewerFit, LimitsAreNumbers DEF SpentInv
    <2>3. ASSUME NEW c \in Callers
          PROVE  Cardinality({x \in asked : x.by = c /\ x.age < CallerWindow}) <= CallerLimit
      <3>1. {x \in asked : x.by = c /\ x.age < CallerWindow} \subseteq quota.callers[c].calls
        BY DEF QuotaInv
      <3>. QED BY <3>1, FewerFit, LimitsAreNumbers DEF QuotaInv
    <2>4. Cardinality({x \in asked : x.age < AIWindow}) <= AILimit
      <3>1. {x \in asked : x.age < AIWindow} \subseteq quota.node
        BY DEF QuotaInv
      <3>. QED BY <3>1, FewerFit, LimitsAreNumbers DEF QuotaInv
    <2>. QED BY <2>1, <2>2, <2>3, <2>4 DEF WithinBudget
  <1>. QED
    BY <1>1, <1>2, <1>3, RulesInvariant, PTL DEF RulesSpec

-----------------------------------------------------------------------------
(* The permission matrix: memory, file and the lists that writes carry have   *)
(* an entry for each peer, however writes overlap and whatever a crash loses. *)
Lists == [Grantees -> Entries]

MatrixShape ==
    /\ matrix \in [memory : Lists, file : Lists]
    /\ writes \in [Admins -> [step : {"idle", "confirm", "persist"}, peer : Grantees \cup {NoWrite.peer},
                              entry : Entries, list : Lists]]

LEMMA MatrixShapeStays ==
    ASSUME MatrixShape, [GovernanceStep]_governance
    PROVE  MatrixShape'
  <1>1. NoEntries \in Lists /\ Unset \in Entries
    BY DEF NoEntries, Lists, Entries
  <1>2. NoWrite \in [step : {"idle"}, peer : {NoWrite.peer}, entry : Entries, list : Lists]
    BY <1>1 DEF NoWrite
  <1> HIDE DEF NoWrite
  <1>3. CASE initGovernance \/ endGovernance
    BY <1>1, <1>2, <1>3 DEF initGovernance, loadMatrix, endGovernance, MatrixShape
  <1>4. ASSUME UNCHANGED <<matrix, writes>>
        PROVE  MatrixShape'
    BY <1>4 DEF MatrixShape
  <1>5. ASSUME NEW w \in Admins, NEW p \in Grantees, NEW e \in Entries, setPermissions(w, p, e)
        PROVE  MatrixShape'
    <2>1. PICK r : r = [NoWrite EXCEPT !.step = "confirm", !.peer = p, !.entry = e]
      OBVIOUS
    <2>2. r \in [step : {"confirm"}, peer : {p}, entry : {e}, list : Lists]
      BY <1>2, <2>1
    <2>3. writes' = [writes EXCEPT ![w] = r] /\ UNCHANGED matrix
      BY <1>5, <2>1 DEF setPermissions, Becomes
    <2> QED
      BY <2>2, <2>3 DEF MatrixShape
  <1>6. ASSUME NEW w \in Admins, NEW p \in Grantees, registerGovernanceSkills(w, p)
        PROVE  MatrixShape'
    <2>1. \A a \in SUBSET Surfaces : [set |-> TRUE, allows |-> a] \in Entries
      BY DEF Entries
    <2> QED
      BY <1>1, <1>5, <1>6, <2>1 DEF registerGovernanceSkills, removePermissions
  <1>7. ASSUME NEW w \in Admins, denied(w) \/ matrixWriteFails(w)
        PROVE  MatrixShape'
    BY <1>2, <1>7 DEF denied, matrixWriteFails, Becomes, MatrixShape
  <1>8. ASSUME NEW w \in Admins, persist(w)
        PROVE  MatrixShape'
    BY <1>2, <1>8 DEF persist, Becomes, MatrixShape
  <1>9. ASSUME NEW w \in Admins, storeEntry(w)
        PROVE  MatrixShape'
    <2>1. PICK list : list = [matrix.memory EXCEPT ![writes[w].peer] = writes[w].entry]
      OBVIOUS
    <2>2. list \in Lists
      BY <2>1 DEF MatrixShape, Lists
    <2>3. PICK r : r = [writes[w] EXCEPT !.step = "persist", !.list = list]
      OBVIOUS
    <2>4. r \in [step : {"persist"}, peer : {writes[w].peer}, entry : {writes[w].entry}, list : {list}]
      BY <2>3 DEF MatrixShape
    <2>5. \/ matrix' = [matrix EXCEPT !.memory = list] /\ writes' = [writes EXCEPT ![w] = r]
          \/ UNCHANGED matrix /\ writes' = [writes EXCEPT ![w] = NoWrite]
      BY <1>9, <2>1, <2>3 DEF storeEntry, Becomes
    <2> QED
      BY <1>2, <2>2, <2>4, <2>5 DEF MatrixShape
  <1>10. CASE \/ tick \/ stopStream \/ UNCHANGED governance
              \/ \E s \in Surfaces : pluginChanges(s)
              \/ \E v \in Viewers : subscribe(v) \/ unsubscribe(v)
    BY <1>4, <1>10 DEF tick, stopStream, pluginChanges, subscribe, unsubscribe, governance
  <1> QED
    BY <1>3, <1>6, <1>7, <1>8, <1>9, <1>10 DEF GovernanceStep

LEMMA MatrixShapeStarts == InitGovernance => MatrixShape
  <1>1. NoEntries \in Lists /\ Unset \in Entries
    BY DEF NoEntries, Lists, Entries
  <1>2. NoWrite \in [step : {"idle"}, peer : {NoWrite.peer}, entry : Entries, list : Lists]
    BY <1>1 DEF NoWrite
  <1> HIDE DEF NoWrite
  <1> QED
    BY <1>1, <1>2 DEF InitGovernance, MatrixShape

\* Whatever a crash, an overlap or a failed write does: a peer is let through to a
\* surface it was kept from only when an active plugin exposes it as the write is
\* stored, or when its entry is gone (storeEntry, after the operator confirmed).
THEOREM MatrixNarrows == InitGovernance /\ [][GovernanceStep]_governance => NothingIsWidened
  <1>1. ASSUME MatrixShape, [GovernanceStep]_governance, governed # "down", governed' # "down",
               NEW p \in Grantees, NEW s \in Surfaces,
               isAllowed(matrix'.memory, p, s), ~isAllowed(matrix.memory, p, s)
        PROVE  s \in offered \/ ~matrix'.memory[p].set
    <2>1. PICK w \in Admins : storeEntry(w)
      <3>1. matrix'.memory # matrix.memory
        BY <1>1 DEF isAllowed
      <3>2. \A w \in Admins : denied(w) \/ persist(w) \/ matrixWriteFails(w) => matrix'.memory = matrix.memory
        BY <1>1 DEF denied, persist, matrixWriteFails, MatrixShape
      <3>3. \A w \in Admins, q \in Grantees : registerGovernanceSkills(w, q) => matrix' = matrix
        BY DEF registerGovernanceSkills, removePermissions, setPermissions
      <3>4. ~initGovernance /\ ~endGovernance
        BY <1>1 DEF initGovernance, endGovernance
      <3>5. (tick \/ stopStream \/ UNCHANGED governance) => matrix' = matrix
        BY DEF tick, stopStream, governance
      <3>6. \A t \in Surfaces : pluginChanges(t) => matrix' = matrix
        BY DEF pluginChanges
      <3>7. \A v \in Viewers : subscribe(v) \/ unsubscribe(v) => matrix' = matrix
        BY DEF subscribe, unsubscribe
      <3> QED
        BY <1>1, <3>1, <3>2, <3>3, <3>4, <3>5, <3>6, <3>7 DEF GovernanceStep
    <2>2. PICK list : list = [matrix.memory EXCEPT ![writes[w].peer] = writes[w].entry]
      OBVIOUS
    <2>3. matrix' = matrix \/ (Storable(writes[w].entry) /\ matrix' = [matrix EXCEPT !.memory = list])
      BY <2>1, <2>2 DEF storeEntry
    <2>4. matrix'.memory = matrix.memory \/ (writes[w].entry.allows \subseteq offered /\ matrix'.memory = list)
      BY <1>1, <2>3 DEF MatrixShape, Storable
    <2>5. matrix'.memory = list /\ writes[w].entry.allows \subseteq offered
      BY <1>1, <2>4 DEF isAllowed
    <2>6. p = writes[w].peer /\ list[p] = writes[w].entry
      BY <1>1, <2>2, <2>5 DEF isAllowed, MatrixShape, Lists
    <2> QED
      BY <1>1, <2>5, <2>6 DEF isAllowed
  <1>2. MatrixShape /\ [GovernanceStep]_governance =>
          [governed # "down" /\ governed' # "down" =>
             \A p \in Grantees, s \in Surfaces :
                 isAllowed(matrix'.memory, p, s) /\ ~isAllowed(matrix.memory, p, s)
                    => s \in offered \/ ~matrix'.memory[p].set]_governance
    BY <1>1
  <1> QED
    BY <1>2, MatrixShapeStarts, MatrixShapeStays, PTL DEF NothingIsWidened

=============================================================================
