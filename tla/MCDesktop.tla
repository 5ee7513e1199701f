------------------------------ MODULE MCDesktop ------------------------------
(* Instances of what goes on around one data directory on a desktop: the lock *)
(* of a file in it, the apps and the servers they spawn, and the webview of   *)
(* one of them.  None reads the state of another, so a behaviour is one of    *)
(* them (part) and not their product.                                         *)
(* File: one call in each of two processes.  Launch: two apps.  Webview: one   *)
(* app and another client of its server.                                      *)
EXTENDS FileLock, Launch, Webview, TLC

CONSTANTS p1, p2, c1, c2

VARIABLE part

OneCallEach == c1 :> p1 @@ c2 :> p2

allvars == <<vars, launchVars, webviewVars, part>>

\* The parts that a behaviour is not about stay at an initial state of theirs.
InitParts ==
    /\ Init /\ InitLaunch /\ InitWebview
    /\ part \in {"file", "launch", "webview"}
    /\ part # "webview" => gate.locked /\ ~bridge.dev
    /\ changes = IF bridge.dev \/ gate.locked THEN 1 ELSE 2

OfFile(A)    == part = "file"    /\ UNCHANGED <<launchVars, webviewVars, part>> /\ A
OfLaunch(A)  == part = "launch"  /\ UNCHANGED <<vars, webviewVars, part>> /\ A
OfWebview(A) == part = "webview" /\ UNCHANGED <<vars, launchVars, part>> /\ A

NextParts == OfFile(Next) \/ OfLaunch(LaunchStep) \/ OfWebview(WebviewStep)

\* What each part says of its event loops and timers; nothing makes an app start
\* or an operator act.
FairParts ==
    /\ \A c \in Callers :
          /\ WF_allvars(OfFile(Step(c))) /\ WF_allvars(OfFile(Start(c)))
          /\ SF_allvars(OfFile(OpenExclusive(c)))
          /\ SF_allvars(OfFile(JudgeOwner(c)))
          /\ SF_allvars(OfFile(StealUnlink(c)))
    /\ WF_allvars(OfWebview(BridgeStep))
    /\ \A c \in Chains : WF_allvars(OfWebview(poll(c)))
    /\ \A c \in Clients : WF_allvars(OfWebview(AskStep(c)))
    /\ \A s \in Sockets : WF_allvars(OfWebview(onmessage(s)))

SpecParts == InitParts /\ [][NextParts]_allvars /\ FairParts

\* What the operator sees follows the node: one stream of events, and a view that
\* comes to agree with the gate (core-bridge.ts, AppState.tsx).
ViewFollows == []OneFeed /\ (part = "webview" => ViewConverges)
=============================================================================
