--------------------------- MODULE MCPeerPlugins ---------------------------
(* The plugins that deal with peers, on one page: the messages and contacts of *)
(* a node, the calls between two nodes, the media sessions of a node, and the  *)
(* site a node publishes.  They meet in the access gate only, whose answer     *)
(* each of them takes as it comes, so a behaviour is one of the four (scene)   *)
(* and not their product.                                                     *)
(* Messages: of two peers each sends one, genuine and forged, and the node     *)
(* sends one of its own.  Calls: one in each direction.  Sessions: two, one    *)
(* with a smaller budget than the default.  Site: one peer, which visits it.     *)
EXTENDS Chat, Media, Sites, TLC

CONSTANTS peer1, peer2, real, forged, own, c1, c2, t1, t2, A, B, call1, call2, s1, s2, v1

Senders == (real :> peer1) @@ (forged :> peer2) @@ (own :> NoMessage)
Callers == (call1 :> A) @@ (call2 :> B)
Callees == (call1 :> B) @@ (call2 :> A)
Budgets == (s1 :> [messages |-> 1, bytes |-> 2]) @@ (s2 :> [messages |-> 2, bytes |-> 2])
Defaults == [messages |-> 2, bytes |-> 3]
ForPeer == (s1 :> peer1) @@ (s2 :> peer1)
Visitors == [v \in {v1} |-> peer1]

VARIABLE scene

Scenes == {"messages", "calls", "sessions", "site"}

allvars == <<vars, media, telemetry, sessions, sites, scene>>

InitPlugins == Init /\ InitMedia /\ InitSessions /\ InitSites /\ scene \in Scenes

NextMessages == scene = "messages" /\ Next /\ UNCHANGED <<media, telemetry, sessions, sites, scene>>

Plays(Act) == scene = "calls" /\ Act /\ UNCHANGED <<vars, telemetry, sessions, sites, scene>>

NextCalls == Plays(MediaStep)

NextSessions == scene = "sessions" /\ SessionsStep /\ UNCHANGED <<vars, media, sites, scene>>

NextSite == scene = "site" /\ SitesStep /\ UNCHANGED <<vars, media, telemetry, sessions, scene>>

NextPlugins == NextMessages \/ NextCalls \/ NextSessions \/ NextSite

\* Timers fire and handlers run on; no operator need answer and no task return.
FairPlugins ==
    /\ InitPlugins /\ [][NextPlugins]_allvars
    /\ \A c \in Calls : WF_allvars(Plays(Proceeds(c)))
    /\ \A n \in Nodes, c \in Calls : WF_allvars(Plays(RequestExpires(n, c)))

----------------------------------------------------------------------------
\* Operations are interchangeable.  The liveness of CallsEndTruly is about the scene
\* "calls", where every clerk and talk is idle: the permutations leave its states
\* alone.
OpsSymmetry == Permutations(Clerks) \cup Permutations(Talks)

\* Bound: at most two operations on messages and contacts are under way, two of the
\* messages are sent, and the opt-in is off once a message is stored.
TwoAtOnce ==
    /\ Cardinality({c \in Clerks : clerks[c].step # "idle"})
          + Cardinality({t \in Talks : talks[t].step # "idle"}) <= 2
    /\ fresh # {}
    /\ notify => index = {}

\* No window of any limiter lets through more than its cap: the frames of a media
\* channel and the fetches a peer's browser makes its node dial.
WindowsHold == WindowHolds /\ DialsBounded

=============================================================================
