-------------------------------- MODULE Sites --------------------------------
(* A site that one node publishes to its peers (src/plugins/peersite), the    *)
(* passes that let strangers in, and the mirror every peer keeps of it         *)
(* (routes/sites.ts, site-mirror.ts).  A stranger knocks with a signed and     *)
(* dated claim; anyone may deliver the knock, late or again.  Approved by the  *)
(* operator in time, it earns a pass, which lives in memory only.             *)
(* Time passes in ticks of the publisher's clock; the peers' clocks need not   *)
(* agree with it.  Paths and contents are left out: what a path resolves to    *)
(* stays inside the root or is refused.                                       *)
EXTENDS Integers, Sequences, FiniteSets

CONSTANTS Guests,         \* the peers
          Visits,         \* requests of the peers' own browsers that may be under way together
          Visitor,        \* per visit, the peer whose browser asks
          ReplayWindow,   \* KNOCK_REPLAY_WINDOW_MS, in ticks
          RateLimit,      \* KNOCK_RATE_LIMIT_MS
          PassTtl,        \* ACCESS_PASS_TTL_MS
          RequestTtl,     \* ACCESS_REQUEST_TTL_MS
          DialLimit,      \* REMOTE_SITE_FETCH_RATE_LIMIT
          DialWindow,     \* its window
          MaxClock        \* bound: how far the clock runs

\* A knock may be dated ReplayWindow ahead and be replayed ReplayWindow late.
ASSUME SitesAssumption ==
    /\ {ReplayWindow, RateLimit, PassTtl, RequestTtl, DialLimit, DialWindow, MaxClock} \subseteq Nat
    /\ RateLimit > 2 * ReplayWindow

VARIABLES
    clock,
    site,      \* the publisher's memory: [root, accepting, knocked, pending, passes]
    kept,      \* the siteRoot key is stored
    friends,   \* the peers the contact book calls verified
    signed,    \* the knocks that were ever signed: [peer, at]
    visits,    \* per visit: its step
    mirror,    \* the peers whose mirror has the asset
    dials,     \* per peer, the fetches its remoteFetchLimiter remembers: [at, n]
    answers,   \* history: what the operator answered in this life of the publisher
    dialled    \* history: per peer, the fetches of it that went out of late

sites == <<clock, site, kept, friends, signed, visits, mirror, dials, answers, dialled>>

Never == -1

Knocks == [peer : Guests, at : 0..MaxClock]

NewSite == [root |-> FALSE, accepting |-> FALSE, knocked |-> [p \in Guests |-> Never],
            pending |-> {}, passes |-> [p \in Guests |-> Never]]

Asks == [knock : Knocks, createdAt : 0..MaxClock]

SitesTypeOK ==
    /\ clock \in 0..MaxClock /\ kept \in BOOLEAN
    /\ site \in [root : BOOLEAN, accepting : BOOLEAN, knocked : [Guests -> (0..MaxClock) \cup {Never}],
                 pending : SUBSET Asks, passes : [Guests -> Nat \cup {Never}]]
    /\ answers \subseteq [request : Asks, said : 0..MaxClock, approved : BOOLEAN]
    /\ signed \subseteq Knocks /\ friends \subseteq Guests /\ mirror \subseteq Guests
    /\ visits \in [Visits -> {"idle", "sent", "gated", "checked", "answered"}]

InitSites ==
    /\ clock = 0 /\ site = NewSite /\ kept = FALSE
    /\ friends = {} /\ signed = {} /\ mirror = {}
    /\ visits = [v \in Visits |-> "idle"]
    /\ dials = [p \in Guests |-> {}] /\ dialled = [p \in Guests |-> {}]
    /\ answers = {}

ClockTicks ==
    /\ clock < MaxClock /\ clock' = clock + 1
    /\ UNCHANGED <<site, kept, friends, signed, visits, mirror, dials, answers, dialled>>

----------------------------------------------------------------------------
(* The publisher. *)

Publisher(s) ==
    /\ site' = s
    /\ UNCHANGED <<clock, friends, signed, visits, mirror, dials, dialled>>

\* What the operator's choice turns out to be, now or when it is loaded again.
Directories == {"a directory", "inside the data directory", "gone"}

resolveSiteRootOutsideDataDir(dir) == dir = "a directory"

\* The memory changes first, the key is written after an await.
setSiteRoot(dir) ==
    /\ resolveSiteRootOutsideDataDir(dir)
    /\ Publisher([site EXCEPT !.root = TRUE])
    /\ UNCHANGED <<kept, answers>>

SiteRootStored ==
    /\ site.root /\ ~kept /\ kept' = TRUE
    /\ UNCHANGED <<clock, site, friends, signed, visits, mirror, dials, answers, dialled>>

setAcceptIncomingRequests ==
    /\ \E enabled \in BOOLEAN : Publisher([site EXCEPT !.accepting = enabled])
    /\ UNCHANGED <<kept, answers>>

\* The root as it is read back: one that cannot be resolved any more counts as none.
getSiteRoot(dir) == kept /\ resolveSiteRootOutsideDataDir(dir)

Restart ==
    /\ \E dir \in Directories : site' = [NewSite EXCEPT !.root = getSiteRoot(dir)]
    /\ answers' = {}
    /\ visits' = [v \in Visits |-> IF visits[v] \in {"gated", "checked"} THEN "idle" ELSE visits[v]]
    /\ UNCHANGED <<clock, kept, friends, signed, mirror, dials, dialled>>

setTrust ==
    /\ \E p \in Guests : friends' = IF p \in friends THEN friends \ {p} ELSE friends \cup {p}
    /\ UNCHANGED <<clock, site, kept, signed, visits, mirror, dials, answers, dialled>>

\* A peer signs a knock by its own clock.  Bound: once.
buildKnockData(p) ==
    /\ \A k \in signed : k.peer # p
    /\ \E at \in 0..MaxClock : signed' = signed \cup {[peer |-> p, at |-> at]}
    /\ UNCHANGED <<clock, site, kept, friends, visits, mirror, dials, answers, dialled>>

Timely(k) == clock - k.at \in -ReplayWindow..ReplayWindow

\* Mutant: a limit of one replay window looks enough.
LimitedForReplays(p) == site.knocked[p] # Never /\ clock - site.knocked[p] < ReplayWindow

Limited(p) == site.knocked[p] # Never /\ clock - site.knocked[p] < RateLimit

\* The knock of p is recorded and what no longer limits anybody is dropped.
Recorded(p) ==
    [q \in Guests |-> CASE q = p -> clock
                        [] q # p /\ clock - site.knocked[q] >= RateLimit -> Never
                        [] OTHER -> site.knocked[q]]

\* A knock nobody signed is refused after the checks and changes nothing.
requestAccess(k) ==
    /\ k \in signed /\ Timely(k) /\ ~Limited(k.peer)
    /\ LET heard == [site EXCEPT !.knocked = Recorded(k.peer)] IN
          Publisher(IF site.accepting
                    THEN [heard EXCEPT !.pending = @ \cup {[knock |-> k, createdAt |-> clock]}]
                    ELSE heard)
    /\ UNCHANGED <<kept, answers>>

InTime(r) == clock - r.createdAt <= RequestTtl

\* issue: the pass replaces the one the peer had.
issue(p) == [site.passes EXCEPT ![p] = clock + PassTtl]

\* The prompt that the hook peersite:accessRequested raised is answered, however late.
resolveAccessRequest(r, approved) ==
    LET grants == approved /\ InTime(r) IN
        /\ r \in site.pending
        /\ Publisher([site EXCEPT !.pending = @ \ {r}, !.passes = IF grants THEN issue(r.knock.peer) ELSE @])
        /\ answers' = answers \cup {[request |-> r, said |-> clock, approved |-> approved]}
        /\ UNCHANGED kept

\* The operator's answer; without a confirmer, or when it fails, a denial.
confirmPeerAccess == BOOLEAN

handlePeerAccessRequest(r) == \E approved \in confirmPeerAccess : resolveAccessRequest(r, approved)

hasValidPass(p) == site.passes[p] # Never /\ clock <= site.passes[p]

\* checkPeerAccess with the modes verified-contact and access-pass.
Granted(p) == p \in friends \/ hasValidPass(p)

Visit(v, step) == visits' = [visits EXCEPT ![v] = step]

Serving == <<clock, site, kept, friends, signed, answers>>

\* The broker's gate, then the plugin asks again, then the root.
BrokerGate(v) ==
    /\ visits[v] = "sent"
    /\ Visit(v, IF Granted(Visitor[v]) THEN "gated" ELSE "idle")
    /\ UNCHANGED <<Serving, mirror, dials, dialled>>

checkPeerAccess(v) ==
    /\ visits[v] = "gated"
    /\ Visit(v, IF Granted(Visitor[v]) THEN "checked" ELSE "idle")
    /\ UNCHANGED <<Serving, mirror, dials, dialled>>

\* What a path asks for: hidden segments, and where it leads, through every link.
Paths == [dotted : BOOLEAN, leads : {"file", "directory", "outside", "nowhere"},
          index : {"file", "outside", "nowhere"}]

resolveAndContainFile(a) ==
    ~a.dotted /\ (a.leads = "file" \/ (a.leads = "directory" /\ a.index = "file"))

fetchAsset(v, a) ==
    /\ visits[v] = "checked"
    /\ Visit(v, IF site.root /\ resolveAndContainFile(a) THEN "answered" ELSE "idle")
    /\ UNCHANGED <<Serving, mirror, dials, dialled>>

----------------------------------------------------------------------------
(* The peers and their mirrors. *)

InDialWindow(fetches) == {f \in fetches : f.at >= clock - DialWindow}

allow(p) == Cardinality(InDialWindow(dials[p])) < DialLimit

\* A fetch is when it was let through; n tells those of one tick apart.
Fetch(p) == [at |-> clock, n |-> Cardinality({f \in dials[p] : f.at = clock}) + 1]

Dialled(fetches, p) == [fetches EXCEPT ![p] = InDialWindow(@) \cup {Fetch(p)}]

\* The path is checked before anything is asked of anybody.
mirrorDestination(a) == ~a.dotted

\* What the mirror has is served from it, for good.  A miss dials the publisher,
\* if the limiter allows.
serveRemoteSite(v, a) ==
    LET p == Visitor[v] IN
        /\ visits[v] = "idle" /\ mirrorDestination(a) /\ p \notin mirror /\ allow(p)
        /\ Visit(v, "sent")
        /\ dials' = Dialled(dials, p) /\ dialled' = Dialled(dialled, p)
        /\ UNCHANGED <<Serving, mirror>>

\* The answer is written to the mirror and read back from there.
mirrorFetchAndStore(v) ==
    /\ visits[v] = "answered"
    /\ mirror' = mirror \cup {Visitor[v]}
    /\ Visit(v, "idle")
    /\ UNCHANGED <<Serving, dials, dialled>>

\* The call or its answer is lost, too late, malformed or too large.
FetchFails(v) ==
    /\ visits[v] # "idle"
    /\ Visit(v, "idle")
    /\ UNCHANGED <<Serving, mirror, dials, dialled>>

SitesStep ==
    \/ ClockTicks \/ SiteRootStored \/ setAcceptIncomingRequests \/ Restart \/ setTrust
    \/ \E dir \in Directories : setSiteRoot(dir)
    \/ \E p \in Guests : buildKnockData(p)
    \/ \E k \in signed : requestAccess(k)
    \/ \E r \in site.pending : handlePeerAccessRequest(r)
    \/ \E v \in Visits : \/ BrokerGate(v) \/ checkPeerAccess(v)
                          \/ mirrorFetchAndStore(v) \/ FetchFails(v)
    \/ \E v \in Visits, a \in Paths : serveRemoteSite(v, a) \/ fetchAsset(v, a)

----------------------------------------------------------------------------
\* Whoever replays a knock, and however late the operator answers, a stranger holds
\* a pass only because the operator approved, in time and not longer ago than a pass
\* lasts, what the peer itself asked for; and one knock is put before the operator
\* once in a life of the publisher.
AccessByLeave ==
    /\ \A p \in Guests : hasValidPass(p) =>
          \E a \in answers : /\ a.approved /\ a.request.knock.peer = p
                            /\ a.said - a.request.createdAt <= RequestTtl
                            /\ clock - a.said <= PassTtl
    /\ \A r, q \in site.pending \cup {a.request : a \in answers} : r.knock = q.knock => r = q

\* No window sees more fetches of a peer than its limiter has room for.
DialsBounded == \A p \in Guests : Cardinality(InDialWindow(dialled[p])) <= DialLimit

=============================================================================
