------------------------------ MODULE PeerProofs -----------------------------
(* The plugins that deal with peers, for any number of peers, operations under  *)
(* way, messages, calls, sessions and requests: the contact book and the         *)
(* messages judged by it, the calls between two nodes, the windows of streams    *)
(* and of fetches, and the passes to a site; at the end, the four on one page.   *)
EXTENDS MCPeerPlugins, FiniteSetTheorems, TLAPS

\* What every copy of the book says of a verified contact is proven.
BookInv ==
    /\ ContactsTypeOK /\ VerifiedIsProven
    /\ \A c \in Clerks : clerks[c].step # "idle" =>
          /\ clerks[c].book \in [Peers -> TrustStates]
          /\ \A p \in Peers : clerks[c].book[p] = "verified" => p \in proven
    /\ \A c \in Clerks : clerks[c].step = "asked" => clerks[c].peer \in Peers

\* A talk whose sender was blocked all along is still to be judged, and a received
\* message that is to be kept as verified is genuine.
TalkInv ==
    /\ ChatTypeOK
    /\ \A t \in Talks :
          /\ talks[t].step # "idle" => talks[t].msg \in Messages
          /\ talks[t].step = "sending" => talks[t].msg \notin Incoming
          /\ talks[t].step \in {"kept", "loaded"} /\ talks[t].flag /\ talks[t].msg \in Incoming
                => talks[t].msg \in Genuine
    /\ \A t \in barred : /\ talks[t].step = "judging" /\ talks[t].msg \in Incoming
                         /\ book[Sender[talks[t].msg]] = "blocked"

-----------------------------------------------------------------------------
(* The contact book *)

\* An operation that changes its copy writes the copy back: so many marks of a
\* verified contact as the copy had, and one more only for a peer that has proven it.
LEMMA SaveStep ==
    ASSUME BookInv, NEW c \in Clerks, clerks[c].step # "idle",
           NEW p \in Peers, NEW state \in TrustStates,
           state = "verified" => p \in proven',
           proven' = proven \/ proven' = proven \cup {p},
           saveBook(c, [clerks[c].book EXCEPT ![p] = state])
    PROVE  BookInv'
  <1> DEFINE b == [clerks[c].book EXCEPT ![p] = state]
  <1>1. b \in [Peers -> TrustStates] /\ b[p] = state
        /\ \A q \in Peers : q # p => b[q] = clerks[c].book[q]
    BY DEF BookInv
  <1>2. book' = b /\ clerks' = [clerks EXCEPT ![c] = Resting]
    BY DEF saveBook
  <1>3. \A e \in Clerks : clerks'[e] = IF e = c THEN Resting ELSE clerks[e]
    BY <1>2 DEF BookInv, ContactsTypeOK
  <1>4. clerks' \in [Clerks -> [step : {"idle", "loaded", "asked"}, peer : Peers \cup {NoBook},
                                book : [Peers -> TrustStates] \cup {NoBook}]]
    BY <1>2 DEF BookInv, ContactsTypeOK, Resting
  <1>5. \A q \in Peers : b[q] = "verified" => q \in proven'
    BY <1>1 DEF BookInv
  <1>. HIDE DEF b
  <1>. QED
    BY <1>1, <1>2, <1>3, <1>4, <1>5 DEF BookInv, ContactsTypeOK, VerifiedIsProven, Resting

LEMMA BookStep == BookInv /\ [Next]_vars => BookInv'
  <1> SUFFICES ASSUME BookInv, [Next]_vars PROVE BookInv'
    OBVIOUS
  <1>1. CASE UNCHANGED contacts
    BY <1>1 DEF contacts, BookInv, ContactsTypeOK, VerifiedIsProven
  <1>2. CASE Crash
    BY <1>2 DEF Crash, BookInv, ContactsTypeOK, VerifiedIsProven, Resting
  <1>3. ASSUME NEW c \in Clerks, loadBook(c) PROVE BookInv'
    <2>1. /\ \A e \in Clerks : e # c => clerks'[e] = clerks[e]
          /\ clerks'[c].step = "loaded" /\ clerks'[c].book = book
      BY <1>3 DEF loadBook, BookInv, ContactsTypeOK
    <2>2. clerks' \in [Clerks -> [step : {"idle", "loaded", "asked"}, peer : Peers \cup {NoBook},
                                  book : [Peers -> TrustStates] \cup {NoBook}]]
      BY <1>3 DEF loadBook, BookInv, ContactsTypeOK
    <2>. QED BY <1>3, <2>1, <2>2 DEF loadBook, BookInv, ContactsTypeOK, VerifiedIsProven
  <1>4. ASSUME NEW c \in Clerks, addContact(c) PROVE BookInv'
    <2>1. PICK p \in Peers : saveBook(c, IF findContact(c, p) THEN clerks[c].book
                                         ELSE [clerks[c].book EXCEPT ![p] = "pending"])
      BY <1>4 DEF addContact
    <2>2. UNCHANGED proven /\ clerks[c].step # "idle"
      BY <1>4 DEF addContact
    <2>3. CASE findContact(c, p)
      <3>1. clerks[c].book = [clerks[c].book EXCEPT ![p] = clerks[c].book[p]]
            /\ clerks[c].book[p] \in TrustStates
        BY <2>2 DEF BookInv
      <3>2. saveBook(c, [clerks[c].book EXCEPT ![p] = clerks[c].book[p]])
        BY <2>1, <2>3, <3>1
      <3>. QED BY <2>2, <3>1, <3>2, SaveStep DEF BookInv
    <2>4. CASE ~findContact(c, p)
      BY <2>1, <2>2, <2>4, SaveStep DEF TrustStates
    <2>. QED BY <2>3, <2>4
  <1>5. ASSUME NEW c \in Clerks, removeContact(c) PROVE BookInv'
    BY <1>5, SaveStep DEF removeContact, TrustStates
  <1>6. ASSUME NEW c \in Clerks, setTrustState(c) PROVE BookInv'
    BY <1>6, SaveStep DEF setTrustState, TrustStates
  <1>7. ASSUME NEW c \in Clerks, Challenge(c) PROVE BookInv'
    <2>1. PICK p \in Peers : clerks' = [clerks EXCEPT ![c].step = "asked", ![c].peer = p]
      BY <1>7 DEF Challenge
    <2>2. PICK mine : mine = [clerks[c] EXCEPT !.step = "asked", !.peer = p]
      OBVIOUS
    <2>3. /\ mine \in [step : {"idle", "loaded", "asked"}, peer : Peers \cup {NoBook},
                      book : [Peers -> TrustStates] \cup {NoBook}]
          /\ mine.step = "asked" /\ mine.peer = p /\ mine.book = clerks[c].book
      BY <2>2 DEF BookInv, ContactsTypeOK
    <2>4. clerks' = [clerks EXCEPT ![c] = mine]
      BY <2>1, <2>2 DEF BookInv, ContactsTypeOK
    <2>5. clerks' \in [Clerks -> [step : {"idle", "loaded", "asked"}, peer : Peers \cup {NoBook},
                                  book : [Peers -> TrustStates] \cup {NoBook}]]
          /\ \A e \in Clerks : clerks'[e] = IF e = c THEN mine ELSE clerks[e]
      BY <2>3, <2>4 DEF BookInv, ContactsTypeOK
    <2>. QED BY <1>7, <2>3, <2>5 DEF Challenge, BookInv, ContactsTypeOK, VerifiedIsProven
  <1>8. ASSUME NEW c \in Clerks, verifyPeer(c) PROVE BookInv'
    <2>1. clerks[c].step = "asked" /\ clerks[c].peer \in Peers
      BY <1>8 DEF verifyPeer, BookInv
    <2>. QED BY <1>8, <2>1, SaveStep DEF verifyPeer, TrustStates
  <1>9. ASSUME NEW c \in Clerks, GiveUp(c) PROVE BookInv'
    <2>1. \A e \in Clerks : clerks'[e] = IF e = c THEN Resting ELSE clerks[e]
      BY <1>9 DEF GiveUp, BookInv, ContactsTypeOK
    <2>2. clerks' \in [Clerks -> [step : {"idle", "loaded", "asked"}, peer : Peers \cup {NoBook},
                                  book : [Peers -> TrustStates] \cup {NoBook}]]
      BY <1>9 DEF GiveUp, BookInv, ContactsTypeOK, Resting
    <2>. QED BY <1>9, <2>1, <2>2 DEF GiveUp, BookInv, ContactsTypeOK, VerifiedIsProven, Resting
  <1>. QED
    BY <1>1, <1>2, <1>3, <1>4, <1>5, <1>6, <1>7, <1>8, <1>9 DEF Next, Step, ContactsStep, vars

\* A contact is on record as verified only if it signed a challenge once, whatever
\* copies of the book the operations of contacts write over one another.
THEOREM VerifiedHolds == Spec => []VerifiedIsProven
  <1>1. Init => BookInv
    BY DEF Init, InitContacts, BookInv, ContactsTypeOK, VerifiedIsProven, Resting, TrustStates
  <1>2. BookInv => VerifiedIsProven
    BY DEF BookInv
  <1>. QED
    BY <1>1, <1>2, BookStep, PTL DEF Spec


-----------------------------------------------------------------------------
(* The messages *)

Talk == [step : {"idle", "sending", "judging", "kept", "loaded", "saved"},
         msg : Messages \cup {NoMessage}, flag : BOOLEAN, index : SUBSET (Messages \X BOOLEAN)]

\* What TalkInv says of one operation.
Sound(k) ==
    /\ k.step # "idle" => k.msg \in Messages
    /\ k.step = "sending" => k.msg \notin Incoming
    /\ k.step \in {"kept", "loaded"} /\ k.flag /\ k.msg \in Incoming => k.msg \in Genuine

\* An operation that was not blocked all along does not become so, and of one that
\* was only what is still to be judged stays so.
LEMMA BarredStep ==
    ASSUME TalkInv, Remember, NEW t \in barred'
    PROVE  /\ t \in Talks /\ talks'[t].step # "idle" /\ talks'[t].msg \in Incoming
           /\ book'[Sender[talks'[t].msg]] = "blocked"
           /\ talks[t].step \in {"idle", "judging"}
  BY DEF Remember, TalkInv

\* One operation of chat goes on.
LEMMA OneTalks ==
    ASSUME TalkInv, Remember, NEW t \in Talks, NEW k \in Talk, Sound(k),
           talks' = [talks EXCEPT ![t] = k],
           UNCHANGED book, index' \subseteq (Messages \X BOOLEAN), notify' \in BOOLEAN,
           fresh' \subseteq Messages,
           k.step \in {"idle", "sending", "judging"}
              \/ talks[t].step \notin {"idle", "judging"}
              \/ (talks[t].step = "judging" /\ k.msg = talks[t].msg
                     /\ book[Sender[k.msg]] # "blocked"),
           k.step = "sending" => k.msg \notin Incoming
    PROVE  TalkInv'
  <1>1. talks \in [Talks -> Talk]
    BY DEF TalkInv, ChatTypeOK, Talk
  <1>2. talks' \in [Talks -> Talk] /\ \A u \in Talks : talks'[u] = IF u = t THEN k ELSE talks[u]
    BY <1>1
  <1>3. barred' \subseteq Talks /\ ChatTypeOK'
    BY <1>2 DEF Remember, ChatTypeOK, Talk
  <1>4. \A u \in Talks : Sound(talks[u])
    BY DEF TalkInv, Sound
  <1>5. \A u \in Talks : Sound(talks'[u])
    BY <1>2, <1>4
  <1>6. ASSUME NEW u \in barred' PROVE talks'[u].step = "judging"
    <2>1. /\ u \in Talks /\ talks'[u].step # "idle" /\ talks'[u].msg \in Incoming
          /\ book'[Sender[talks'[u].msg]] = "blocked"
          /\ talks[u].step \in {"idle", "judging"}
      BY <1>6, BarredStep
    <2>2. CASE u # t
      BY <1>2, <2>1, <2>2
    <2>3. CASE u = t
      BY <1>2, <2>1, <2>3 DEF Talk
    <2>. QED BY <2>2, <2>3
  <1>7. \A u \in barred' : talks'[u].msg \in Incoming /\ book'[Sender[talks'[u].msg]] = "blocked"
    BY BarredStep
  <1>. QED
    BY <1>3, <1>5, <1>6, <1>7 DEF TalkInv, Sound

LEMMA BeginStep ==
    ASSUME TalkInv, Remember, UNCHANGED contacts, NEW t \in Talks, NEW m \in Messages,
           NEW step \in {"sending", "judging"}, step = "sending" => m \notin Incoming, Begin(t, m, step)
    PROVE  TalkInv'
  <1>1. talks[t] \in Talk /\ fresh \subseteq Messages
    BY DEF TalkInv, ChatTypeOK, Talk
  <1>2. PICK k : k = [talks[t] EXCEPT !.step = step, !.msg = m]
    OBVIOUS
  <1>3. k \in Talk /\ k.step = step /\ k.msg = m
    BY <1>1, <1>2 DEF Talk
  <1>4. talks' = [talks EXCEPT ![t] = k]
    BY <1>2 DEF Begin
  <1>5. UNCHANGED book /\ index' = index /\ notify' = notify /\ fresh' \subseteq Messages
    BY <1>1 DEF Begin, contacts
  <1>. QED
    BY <1>3, <1>4, <1>5, OneTalks DEF Sound, TalkInv, ChatTypeOK

LEMMA TalkStep == TalkInv /\ [Next]_vars => TalkInv'
  <1> SUFFICES ASSUME TalkInv, [Next]_vars PROVE TalkInv'
    OBVIOUS
  <1>1. CASE UNCHANGED vars
    BY <1>1 DEF vars, chat, contacts, TalkInv, ChatTypeOK
  <1> SUFFICES ASSUME Step, Remember PROVE TalkInv'
    BY <1>1 DEF Next
  <1>2. CASE UNCHANGED chat
    <2>1. \A t \in barred' : t \in Talks /\ talks[t].step = "judging" /\ talks[t].msg \in Incoming
                             /\ book'[Sender[talks[t].msg]] = "blocked"
      BY <1>2, BarredStep DEF chat
    <2>. QED BY <1>2, <2>1 DEF chat, TalkInv, ChatTypeOK
  <1>3. CASE Crash
    <2>1. \A t \in Talks : talks'[t] = Silent
      BY <1>3 DEF Crash
    <2>2. barred' = {}
      BY <2>1 DEF Remember, Silent
    <2>3. ChatTypeOK'
      BY <1>3 DEF Crash, TalkInv, ChatTypeOK, Silent
    <2>. QED BY <2>1, <2>2, <2>3 DEF TalkInv, Silent
  <1> SUFFICES ASSUME ChatStep, UNCHANGED contacts PROVE TalkInv'
    BY <1>2, <1>3 DEF Step
  <1>4. talks \in [Talks -> Talk] /\ UNCHANGED book
        /\ index \subseteq (Messages \X BOOLEAN) /\ notify \in BOOLEAN /\ fresh \subseteq Messages
    BY DEF TalkInv, ChatTypeOK, Talk, contacts
  <1>5. CASE setAutoNotifyAssignments
    <2>1. UNCHANGED talks
      BY <1>5 DEF setAutoNotifyAssignments
    <2>2. \A t \in barred' : t \in Talks /\ talks[t].step = "judging" /\ talks[t].msg \in Incoming
                             /\ book'[Sender[talks[t].msg]] = "blocked"
      BY <2>1, BarredStep
    <2>. QED BY <1>4, <1>5, <2>1, <2>2 DEF setAutoNotifyAssignments, TalkInv, ChatTypeOK
  <1>6. ASSUME NEW t \in Talks, sendMessage(t) PROVE TalkInv'
    BY <1>6, BeginStep DEF sendMessage
  <1>7. ASSUME NEW t \in Talks, receiveMessage(t) PROVE TalkInv'
    BY <1>7, BeginStep DEF receiveMessage, Incoming
  <1>8. ASSUME NEW t \in Talks, Delivered(t) PROVE TalkInv'
    <2>1. PICK k : k = [talks[t] EXCEPT !.step = "kept", !.flag = TRUE]
      OBVIOUS
    <2>2. k \in Talk /\ k.step = "kept" /\ k.msg = talks[t].msg
      BY <1>4, <2>1 DEF Talk
    <2>3. talks' = [talks EXCEPT ![t] = k] /\ talks[t].step = "sending"
      BY <1>8, <2>1 DEF Delivered, Becomes, At
    <2>4. Sound(k)
      BY <2>2, <2>3 DEF Sound, TalkInv
    <2>. QED BY <1>4, <1>8, <2>2, <2>3, <2>4, OneTalks DEF Delivered
  <1>9. ASSUME NEW t \in Talks, Judge(t) PROVE TalkInv'
    <2>1. talks[t].step = "judging" /\ talks[t].msg \in Messages /\ UNCHANGED <<index, notify, fresh>>
      BY <1>9 DEF Judge, At, TalkInv
    <2>2. CASE Refuses(talks[t].msg)
      <3>1. talks' = [talks EXCEPT ![t] = Silent]
        BY <1>9, <2>2 DEF Judge
      <3>2. Silent \in Talk /\ Sound(Silent) /\ Silent.step = "idle"
        BY DEF Silent, Talk, Sound
      <3>. QED BY <1>4, <2>1, <3>1, <3>2, OneTalks
    <2>3. CASE ~Refuses(talks[t].msg)
      <3>1. PICK k : k = [talks[t] EXCEPT !.step = "kept", !.flag = Trusts(talks[t].msg)]
        OBVIOUS
      <3>2. Trusts(talks[t].msg) \in BOOLEAN
        BY DEF Trusts
      <3>3. k \in Talk /\ k.step = "kept" /\ k.msg = talks[t].msg /\ k.flag = Trusts(talks[t].msg)
        BY <1>4, <3>1, <3>2 DEF Talk
      <3>4. talks' = [talks EXCEPT ![t] = k]
        BY <1>9, <2>3, <3>1 DEF Judge, Becomes
      <3>5. Sound(k)
        BY <2>1, <2>3, <3>3 DEF Sound, Refuses
      <3>6. book[Sender[k.msg]] # "blocked"
        BY <2>3, <3>3 DEF Refuses
      <3>. QED BY <1>4, <2>1, <3>3, <3>4, <3>5, <3>6, OneTalks
    <2>. QED BY <2>2, <2>3
  <1>10. ASSUME NEW t \in Talks, loadIndex(t) PROVE TalkInv'
    <2>1. PICK k : k = [talks[t] EXCEPT !.step = "loaded", !.index = index]
      OBVIOUS
    <2>2. k \in Talk /\ k.step = "loaded" /\ k.msg = talks[t].msg /\ k.flag = talks[t].flag
      BY <1>4, <2>1 DEF Talk
    <2>3. talks' = [talks EXCEPT ![t] = k] /\ talks[t].step = "kept"
      BY <1>10, <2>1 DEF loadIndex, At
    <2>4. Sound(k)
      BY <2>2, <2>3 DEF Sound, TalkInv
    <2>. QED BY <1>4, <1>10, <2>2, <2>3, <2>4, OneTalks DEF loadIndex
  <1>11. ASSUME NEW t \in Talks, appendMessage(t) PROVE TalkInv'
    <2>1. PICK k : k = [talks[t] EXCEPT !.step = "saved", !.index = {}]
      OBVIOUS
    <2>2. k \in Talk /\ k.step = "saved" /\ k.msg = talks[t].msg
      BY <1>4, <2>1 DEF Talk
    <2>3. talks' = [talks EXCEPT ![t] = k] /\ talks[t].step = "loaded"
      BY <1>11, <2>1 DEF appendMessage, At
    <2>4. Sound(k) /\ talks[t].msg \in Messages
      BY <2>2, <2>3 DEF Sound, TalkInv
    <2>5. index' \subseteq (Messages \X BOOLEAN)
      BY <1>4, <1>11, <2>4 DEF appendMessage, Talk
    <2>. QED BY <1>4, <1>11, <2>2, <2>3, <2>4, <2>5, OneTalks DEF appendMessage
  <1>12. ASSUME NEW t \in Talks, Answer(t) PROVE TalkInv'
    <2>1. Silent \in Talk /\ Sound(Silent) /\ Silent.step = "idle"
      BY DEF Silent, Talk, Sound
    <2>. QED BY <1>4, <1>12, <2>1, OneTalks DEF Answer
  <1>. QED
    BY <1>5, <1>6, <1>7, <1>8, <1>9, <1>10, <1>11, <1>12 DEF ChatStep, onTaskUpdated

\* A message whose sender was blocked from its arrival on is not kept, and one kept
\* as verified was signed by its sender, though receiveMessage awaits between the
\* look-up of the sender and the save.
THEOREM JudgedKept == Spec => KeptAsJudged
  <1> DEFINE Kept(t) == At(t, "loaded") /\ talks'[t].step = "saved" =>
                 LET m == talks[t].msg IN
                    /\ t \notin barred'
                    /\ talks[t].flag /\ m \in Incoming => m \in Genuine
  <1>1. ASSUME Init PROVE TalkInv
    <2>1. Silent \in Talk
      BY DEF Silent, Talk
    <2>2. talks \in [Talks -> Talk] /\ \A t \in Talks : talks[t].step = "idle"
      BY <1>1, <2>1 DEF Init, InitChat, Silent
    <2>3. ChatTypeOK
      BY <1>1, <2>2 DEF Init, InitChat, ChatTypeOK, Talk
    <2>. QED BY <1>1, <2>2, <2>3 DEF Init, TalkInv
  <1>2. TalkInv /\ [Next]_vars => [\A t \in Talks : Kept(t)]_vars
    <2> SUFFICES ASSUME TalkInv, Next, NEW t \in Talks, At(t, "loaded") PROVE Kept(t)
      BY DEF At
    <2>1. t \notin barred'
      BY BarredStep DEF Next, At
    <2>. QED BY <2>1 DEF At, TalkInv
  <1>. QED
    BY <1>1, <1>2, TalkStep, PTL DEF Spec, KeptAsJudged


-----------------------------------------------------------------------------
(* The passes to a site *)

Site == [root : BOOLEAN, accepting : BOOLEAN, knocked : [Guests -> (0..MaxClock) \cup {Never}],
         pending : SUBSET Asks, passes : [Guests -> Nat \cup {Never}]]

Publishing ==
    /\ clock \in 0..MaxClock /\ site \in Site /\ signed \subseteq Knocks
    /\ answers \subseteq [request : Asks, said : 0..MaxClock, approved : BOOLEAN]

\* What was put before the operator in this life of the publisher.
Heard == site.pending \cup {a.request : a \in answers}

\* Behind every pass is the approval that it dates from.
PassInv ==
    \A p \in Guests : site.passes[p] # Never =>
       \E a \in answers : /\ a.approved /\ a.request.knock.peer = p
                          /\ a.said - a.request.createdAt <= RequestTtl
                          /\ site.passes[p] = a.said + PassTtl

\* A request was made within a replay window of its knock's date, its peer is limited
\* as long as the limit lasts, and no other request has the knock.
KnockInv ==
    /\ \A r \in Heard : /\ r.createdAt <= clock
                        /\ r.createdAt - r.knock.at \in -ReplayWindow..ReplayWindow
                        /\ clock - r.createdAt < RateLimit => site.knocked[r.knock.peer] >= r.createdAt
    /\ \A p \in Guests : site.knocked[p] <= clock
    /\ \A r, q \in Heard : r.knock = q.knock => r = q

SiteInv == Publishing /\ PassInv /\ KnockInv

LEMMA HeardType == Publishing => Heard \subseteq Asks
  BY DEF Publishing, Heard, Site

LEMMA RequestStep ==
    ASSUME SiteInv, NEW k \in signed, requestAccess(k)
    PROVE  SiteInv'
  <1>1. /\ clock \in 0..MaxClock /\ site \in Site /\ k \in Knocks /\ Heard \subseteq Asks
        /\ answers' = answers /\ clock' = clock /\ signed' = signed
        /\ MaxClock \in Nat /\ ReplayWindow \in Nat /\ RateLimit \in Nat /\ RateLimit > 2 * ReplayWindow
    BY SitesAssumption, HeardType DEF SiteInv, Publishing, requestAccess, Publisher
  <1>2. k.peer \in Guests /\ k.at \in 0..MaxClock
    BY <1>1 DEF Knocks
  <1>3. PICK r : r = [knock |-> k, createdAt |-> clock]
    OBVIOUS
  <1>4. r \in Asks /\ r.knock = k /\ r.createdAt = clock
    BY <1>1, <1>3 DEF Asks
  <1>5. PICK heard : heard = [site EXCEPT !.knocked = Recorded(k.peer)]
    OBVIOUS
  <1>6. Recorded(k.peer) \in [Guests -> (0..MaxClock) \cup {Never}]
    BY <1>1 DEF Recorded, Site
  <1>7. heard \in Site /\ heard.knocked = Recorded(k.peer) /\ heard.pending = site.pending
        /\ heard.passes = site.passes
    BY <1>1, <1>5, <1>6 DEF Site
  <1>8. PICK asked : asked = [heard EXCEPT !.pending = @ \cup {r}]
    OBVIOUS
  <1>9. asked \in Site /\ asked.knocked = Recorded(k.peer) /\ asked.passes = site.passes
        /\ asked.pending = site.pending \cup {r}
    BY <1>4, <1>7, <1>8 DEF Site
  <1>10. site' = heard \/ site' = asked
    BY <1>3, <1>5, <1>8 DEF requestAccess, Publisher
  <1>11. site' \in Site /\ site'.knocked = Recorded(k.peer) /\ site'.passes = site.passes
         /\ Heard' \subseteq Heard \cup {r}
    BY <1>7, <1>9, <1>10, <1>1 DEF Heard
  <1>12. Publishing'
    BY <1>1, <1>11 DEF SiteInv, Publishing
  <1>13. PassInv'
    BY <1>1, <1>11 DEF SiteInv, PassInv
  <1>14. \A p \in Guests : site'.knocked[p] <= clock
    BY <1>1, <1>11 DEF SiteInv, KnockInv, Recorded, Never
  <1>15. ASSUME NEW q \in Heard
         PROVE  /\ q.knock # k
                /\ clock - q.createdAt < RateLimit => site'.knocked[q.knock.peer] >= q.createdAt
    <2>1. /\ q.createdAt \in 0..MaxClock /\ q.knock.peer \in Guests /\ q.knock.at \in 0..MaxClock
          /\ site.knocked[q.knock.peer] \in (0..MaxClock) \cup {Never}
      BY <1>1 DEF Asks, Knocks, Site
    <2>2. /\ q.createdAt <= clock
          /\ q.createdAt - q.knock.at \in -ReplayWindow..ReplayWindow
          /\ clock - q.createdAt < RateLimit => site.knocked[q.knock.peer] >= q.createdAt
      BY DEF SiteInv, KnockInv
    <2>3. clock - q.createdAt < RateLimit => site'.knocked[q.knock.peer] >= q.createdAt
      BY <1>1, <1>11, <2>1, <2>2 DEF Recorded, Never
    <2>4. ASSUME q.knock = k PROVE FALSE
      <3>1. clock - k.at \in -ReplayWindow..ReplayWindow /\ ~Limited(k.peer)
        BY DEF requestAccess, Timely
      <3>2. q.createdAt - k.at \in -ReplayWindow..ReplayWindow
        BY <2>2, <2>4
      <3>3. clock - q.createdAt < RateLimit
        BY <1>1, <1>2, <2>1, <3>1, <3>2
      <3>4. site.knocked[k.peer] >= q.createdAt
        BY <2>2, <2>4, <3>3
      <3>5. site.knocked[k.peer] # Never /\ clock - site.knocked[k.peer] < RateLimit
        BY <1>1, <2>1, <2>4, <3>3, <3>4 DEF Never
      <3>. QED BY <3>1, <3>5 DEF Limited
    <2>. QED BY <2>3, <2>4
  <1>16. clock - clock < RateLimit => site'.knocked[k.peer] >= clock
    BY <1>1, <1>2, <1>11 DEF Recorded
  <1>17. r.createdAt <= clock /\ r.createdAt - r.knock.at \in -ReplayWindow..ReplayWindow
    BY <1>1, <1>4 DEF requestAccess, Timely
  <1>18. KnockInv'
    <2>1. \A q \in Heard' : /\ q.createdAt <= clock
                            /\ q.createdAt - q.knock.at \in -ReplayWindow..ReplayWindow
                            /\ clock - q.createdAt < RateLimit => site'.knocked[q.knock.peer] >= q.createdAt
      BY <1>4, <1>11, <1>15, <1>16, <1>17 DEF SiteInv, KnockInv
    <2>2. \A q1, q2 \in Heard' : q1.knock = q2.knock => q1 = q2
      BY <1>4, <1>11, <1>15 DEF SiteInv, KnockInv
    <2>. QED BY <1>1, <1>14, <2>1, <2>2 DEF KnockInv
  <1>. QED
    BY <1>12, <1>13, <1>18 DEF SiteInv

LEMMA ResolveStep ==
    ASSUME SiteInv, NEW r \in site.pending, NEW approved \in BOOLEAN, resolveAccessRequest(r, approved)
    PROVE  SiteInv'
  <1>1. /\ clock \in 0..MaxClock /\ site \in Site /\ r \in Asks /\ MaxClock \in Nat
        /\ clock' = clock /\ signed' = signed /\ {PassTtl, RequestTtl} \subseteq Nat
    BY SitesAssumption DEF SiteInv, Publishing, resolveAccessRequest, Publisher, Site
  <1>2. r.knock.peer \in Guests /\ r.createdAt \in 0..MaxClock
    BY <1>1 DEF Asks, Knocks
  <1>3. PICK a : a = [request |-> r, said |-> clock, approved |-> approved]
    OBVIOUS
  <1>4. a \in [request : Asks, said : 0..MaxClock, approved : BOOLEAN]
        /\ a.request = r /\ a.said = clock /\ a.approved = approved
    BY <1>1, <1>3
  <1>5. answers' = answers \cup {a}
    BY <1>3 DEF resolveAccessRequest
  <1>6. PICK passes : passes = IF approved /\ InTime(r) THEN issue(r.knock.peer) ELSE site.passes
    OBVIOUS
  <1>7. passes \in [Guests -> Nat \cup {Never}]
    <2>1. clock + PassTtl \in Nat /\ site.passes \in [Guests -> Nat \cup {Never}]
      BY <1>1 DEF Site
    <2>. QED BY <1>6, <2>1 DEF issue
  <1>8. site' = [site EXCEPT !.pending = @ \ {r}, !.passes = passes]
    BY <1>6 DEF resolveAccessRequest, Publisher
  <1>9. site' \in Site /\ site'.pending = site.pending \ {r} /\ site'.passes = passes
        /\ site'.knocked = site.knocked
    BY <1>1, <1>7, <1>8 DEF Site
  <1>10. Heard' \subseteq Heard
    <2>1. r \in Heard
      BY DEF Heard
    <2>. QED BY <1>4, <1>5, <1>9, <2>1 DEF Heard
  <1>11. Publishing'
    BY <1>1, <1>4, <1>5, <1>9 DEF SiteInv, Publishing
  <1>12. KnockInv'
    BY <1>1, <1>9, <1>10 DEF SiteInv, KnockInv
  <1>13. ASSUME NEW p \in Guests, passes[p] # Never
         PROVE  \E b \in answers' : /\ b.approved /\ b.request.knock.peer = p
                                    /\ b.said - b.request.createdAt <= RequestTtl
                                    /\ passes[p] = b.said + PassTtl
    <2>1. CASE approved /\ InTime(r) /\ p = r.knock.peer
      <3>1. passes[p] = clock + PassTtl
        BY <1>1, <1>2, <1>6, <2>1 DEF issue, Site
      <3>. QED BY <1>4, <1>5, <2>1, <3>1 DEF InTime
    <2>2. CASE ~(approved /\ InTime(r) /\ p = r.knock.peer)
      <3>1. passes[p] = site.passes[p]
        BY <1>1, <1>6, <2>2 DEF issue, Site
      <3>. QED BY <1>5, <1>13, <3>1 DEF SiteInv, PassInv
    <2>. QED BY <2>1, <2>2
  <1>14. PassInv'
    BY <1>9, <1>13 DEF PassInv
  <1>. QED
    BY <1>11, <1>12, <1>14 DEF SiteInv


LEMMA SiteStep == SiteInv /\ [SitesStep]_sites => SiteInv'
  <1> SUFFICES ASSUME SiteInv, [SitesStep]_sites PROVE SiteInv'
    OBVIOUS
  <1>1. /\ clock \in 0..MaxClock /\ site \in Site /\ MaxClock \in Nat /\ Heard \subseteq Asks
        /\ {RateLimit, ReplayWindow} \subseteq Nat
    BY SitesAssumption, HeardType DEF SiteInv, Publishing
  <1>2. ASSUME UNCHANGED <<clock, answers, signed>>, site' \in Site, site'.pending = site.pending,
               site'.passes = site.passes, site'.knocked = site.knocked
        PROVE  SiteInv'
    BY <1>2 DEF SiteInv, Publishing, PassInv, KnockInv, Heard
  <1>3. CASE UNCHANGED <<clock, site, answers, signed>>
    BY <1>1, <1>2, <1>3
  <1>4. CASE ClockTicks
    <2>1. clock' = clock + 1 /\ clock' \in 0..MaxClock /\ UNCHANGED <<site, answers, signed>>
      BY <1>1, <1>4 DEF ClockTicks
    <2>2. \A q \in Heard : /\ q.createdAt \in 0..MaxClock /\ q.knock.peer \in Guests
                           /\ site.knocked[q.knock.peer] \in (0..MaxClock) \cup {Never}
      BY <1>1 DEF Asks, Knocks, Site
    <2>3. \A p \in Guests : site.knocked[p] \in (0..MaxClock) \cup {Never}
      BY <1>1 DEF Site
    <2>. QED BY <1>1, <2>1, <2>2, <2>3 DEF SiteInv, Publishing, PassInv, KnockInv, Heard, Never
  <1>5. ASSUME NEW dir \in Directories, setSiteRoot(dir) PROVE SiteInv'
    BY <1>1, <1>2, <1>5 DEF setSiteRoot, Publisher, Site
  <1>6. CASE setAcceptIncomingRequests
    <2>1. PICK enabled \in BOOLEAN : site' = [site EXCEPT !.accepting = enabled]
      BY <1>6 DEF setAcceptIncomingRequests, Publisher
    <2>2. UNCHANGED <<clock, answers, signed>>
      BY <1>6 DEF setAcceptIncomingRequests, Publisher
    <2>. QED BY <1>1, <1>2, <2>1, <2>2 DEF Site
  <1>7. CASE Restart
    <2>1. PICK dir \in Directories : site' = [NewSite EXCEPT !.root = getSiteRoot(dir)]
      BY <1>7 DEF Restart
    <2>2. getSiteRoot(dir) \in BOOLEAN
      BY DEF getSiteRoot
    <2>3. NewSite \in Site
      BY <1>1 DEF NewSite, Site
    <2>4. site' \in Site /\ site'.pending = {} /\ \A p \in Guests : site'.passes[p] = Never /\ site'.knocked[p] = Never
      BY <2>1, <2>2, <2>3 DEF NewSite, Site
    <2>5. answers' = {} /\ UNCHANGED <<clock, signed>>
      BY <1>7 DEF Restart
    <2>6. Heard' = {}
      BY <2>4, <2>5 DEF Heard
    <2>. QED BY <1>1, <2>4, <2>5, <2>6 DEF SiteInv, Publishing, PassInv, KnockInv, Never
  <1>8. ASSUME NEW p \in Guests, buildKnockData(p) PROVE SiteInv'
    <2>1. signed' \subseteq Knocks /\ UNCHANGED <<clock, site, answers>>
      BY <1>8 DEF buildKnockData, SiteInv, Publishing, Knocks
    <2>. QED BY <2>1 DEF SiteInv, Publishing, PassInv, KnockInv, Heard
  <1>9. CASE SiteRootStored \/ setTrust
    BY <1>9, <1>3 DEF SiteRootStored, setTrust
  <1>10. ASSUME NEW k \in signed, requestAccess(k) PROVE SiteInv'
    BY <1>10, RequestStep
  <1>11. ASSUME NEW r \in site.pending, handlePeerAccessRequest(r) PROVE SiteInv'
    BY <1>11, ResolveStep DEF handlePeerAccessRequest, confirmPeerAccess
  <1>12. ASSUME NEW v \in Visits, BrokerGate(v) \/ checkPeerAccess(v) \/ mirrorFetchAndStore(v) \/ FetchFails(v)
         PROVE  UNCHANGED <<clock, site, answers, signed>>
    BY <1>12 DEF BrokerGate, checkPeerAccess, mirrorFetchAndStore, FetchFails, Serving
  <1>13. ASSUME NEW v \in Visits, NEW a \in Paths, serveRemoteSite(v, a) \/ fetchAsset(v, a)
         PROVE  UNCHANGED <<clock, site, answers, signed>>
    BY <1>13 DEF serveRemoteSite, fetchAsset, Serving
  <1>14. CASE UNCHANGED sites
    BY <1>14, <1>3 DEF sites
  <1>. QED
    BY <1>3, <1>4, <1>5, <1>6, <1>7, <1>8, <1>9, <1>10, <1>11, <1>12, <1>13, <1>14 DEF SitesStep

\* A stranger holds a pass only by the operator's approval, in time and not longer ago
\* than a pass lasts, of what the peer itself asked for, and one knock is put before
\* the operator once: requestAccess, resolveAccessRequest and AccessPasses.issue, with
\* a limit on knocks that outlasts their replays.
THEOREM LeaveNeeded == InitSites /\ [][SitesStep]_sites => []AccessByLeave
  <1>1. InitSites => SiteInv
    <2> SUFFICES ASSUME InitSites PROVE SiteInv
      OBVIOUS
    <2>1. MaxClock \in Nat /\ clock = 0 /\ site = NewSite /\ signed = {} /\ answers = {}
      BY SitesAssumption DEF InitSites
    <2>2. site \in Site /\ site.pending = {} /\ \A p \in Guests : site.passes[p] = Never /\ site.knocked[p] = Never
      BY <2>1 DEF NewSite, Site
    <2>3. Heard = {}
      BY <2>1, <2>2 DEF Heard
    <2>. QED BY <2>1, <2>2, <2>3 DEF SiteInv, Publishing, PassInv, KnockInv, Never
  <1>2. SiteInv => AccessByLeave
    <2> SUFFICES ASSUME SiteInv PROVE AccessByLeave
      OBVIOUS
    <2>1. ASSUME NEW p \in Guests, hasValidPass(p)
          PROVE  \E a \in answers : /\ a.approved /\ a.request.knock.peer = p
                                    /\ a.said - a.request.createdAt <= RequestTtl
                                    /\ clock - a.said <= PassTtl
      <3>1. PICK a \in answers : /\ a.approved /\ a.request.knock.peer = p
                                 /\ a.said - a.request.createdAt <= RequestTtl
                                 /\ site.passes[p] = a.said + PassTtl
        BY <2>1 DEF hasValidPass, SiteInv, PassInv
      <3>2. a.said \in Nat /\ clock \in Nat /\ PassTtl \in Nat
        BY SitesAssumption DEF SiteInv, Publishing
      <3>. QED BY <2>1, <3>1, <3>2 DEF hasValidPass
    <2>. QED BY <2>1 DEF AccessByLeave, SiteInv, KnockInv, Heard
  <1>. QED
    BY <1>1, <1>2, SiteStep, PTL


-----------------------------------------------------------------------------
(* The calls *)

\* Where a call is at its caller, at its callee, and in between.
OneCall(c) ==
    /\ <<From[c], c>> \in pending => dial[c] = "ask"
    /\ <<To[c], c>> \in pending => ring[c] = "ask"
    /\ dial[c] \in {"new", "gate", "ask"} =>
          /\ calls[From[c]][c] = "none" /\ ring[c] = "none"
          /\ waiter[c].is = "none" /\ answer[c] = "none"
    /\ dial[c] \in {"offer", "wait", "ok"} => <<From[c], c>> \in granted
    /\ answer[c] # "none" => <<To[c], c>> \in granted
    /\ waiter[c].is = "answer" => <<To[c], c>> \in granted /\ calls[From[c]][c] # "signaling"
    /\ dial[c] = "ok" => waiter[c].is = "answer"
    /\ dial[c] \in {"offer", "wait"} => waiter[c].is # "none"
    /\ dial[c] = "error" => calls[From[c]][c] = "none"
    /\ calls[From[c]][c] = "signaling" => dial[c] \in {"offer", "wait"}
    /\ calls[To[c]][c] = "signaling" => ring[c] = "answer"

\* Only the two nodes of a call are asked about it.
OwnPrompts == \A n \in Nodes, c \in Calls : <<n, c>> \in prompts \cup pending => n \in {From[c], To[c]}

CallInv == MediaTypeOK /\ OwnPrompts /\ \A c \in Calls : OneCall(c)

Waiter == [is : {"none", "open", "null", "answer"}, held : BOOLEAN]
Map == [Nodes -> [Calls -> {"none", "signaling", "established"}]]
Dials == {"new", "gate", "ask", "offer", "wait"} \cup Ends
Rings == {"none", "sent", "ask", "answer", "done"}

MediaType ==
    /\ calls \in Map /\ dial \in [Calls -> Dials] /\ ring \in [Calls -> Rings]
    /\ answer \in [Calls -> {"none", "sent", "replied", "lost"}]
    /\ ack \in [Calls -> {"none", "accepted", "refused"}]
    /\ waiter \in [Calls -> Waiter]
    /\ pending \subseteq Nodes \X Calls /\ prompts \subseteq Nodes \X Calls /\ granted \subseteq Nodes \X Calls

LEMMA MediaTypes == MediaTypeOK <=> trusted \subseteq Nodes /\ MediaType
  BY DEF MediaTypeOK, MediaType, Waiter, Map, Dials, Rings

\* Cleaning takes calls from a node's map; a waiter that has begun keeps its answer.
LEMMA CleanedFacts ==
    ASSUME MediaType, NEW n \in Nodes, NEW gone \in SUBSET Calls, Cleaned(calls, waiter, n, gone)
    PROVE  /\ calls' \in Map /\ waiter' \in [Calls -> Waiter]
           /\ \A m \in Nodes, c \in Calls :
                 calls'[m][c] = IF m = n /\ c \in gone THEN "none" ELSE calls[m][c]
           /\ \A c \in Calls : /\ waiter'[c].is = "answer" <=> waiter[c].is = "answer"
                               /\ waiter'[c].is = "none" <=> waiter[c].is = "none"
  <1> USE DEF MediaType, Map, Waiter
  <1>1. calls' = [calls EXCEPT ![n] = [c \in Calls |-> IF c \in gone THEN "none" ELSE calls[n][c]]]
    BY DEF Cleaned
  <1>2. calls' \in Map /\ \A m \in Nodes, c \in Calls :
                 calls'[m][c] = IF m = n /\ c \in gone THEN "none" ELSE calls[m][c]
    BY <1>1
  <1>3. waiter' \in [Calls -> Waiter]
    BY DEF Cleaned
  <1>4. ASSUME NEW c \in Calls
        PROVE  /\ waiter'[c].is = "answer" <=> waiter[c].is = "answer"
               /\ waiter'[c].is = "none" <=> waiter[c].is = "none"
    BY DEF Cleaned
  <1>. QED
    BY <1>2, <1>3, <1>4

\* An entry of a node's map.
LEMMA TrackFacts ==
    ASSUME MediaType, NEW n \in Nodes, NEW c \in Calls, NEW state \in {"none", "signaling", "established"},
           calls' = [calls EXCEPT ![n][c] = state]
    PROVE  /\ calls' \in Map
           /\ \A m \in Nodes, e \in Calls : calls'[m][e] = IF m = n /\ e = c THEN state ELSE calls[m][e]
  BY DEF MediaType, Map

USE DEF Ends

LEMMA InitCalls == InitMedia => CallInv
  <1> SUFFICES ASSUME InitMedia PROVE CallInv
    OBVIOUS
  <1>1. MediaTypeOK
    BY DEF InitMedia, MediaTypeOK
  <1>2. ASSUME NEW c \in Calls PROVE OneCall(c)
    <2>1. From[c] \in Nodes /\ To[c] \in Nodes
      BY CallsAssumption
    <2>. QED BY <2>1 DEF InitMedia, OneCall
  <1>. QED
    BY <1>1, <1>2 DEF CallInv, OwnPrompts, InitMedia

\* initiateCall up to the question it puts to its operator.
LEMMA CallerSteps ==
    ASSUME MediaType, OwnPrompts, \A c \in Calls : OneCall(c), NEW c \in Calls,
           initiateCall(c) \/ CallerGate(c)
    PROVE  MediaType' /\ OwnPrompts' /\ \A e \in Calls : OneCall(e)'
  <1>1. /\ From[c] \in Nodes /\ To[c] \in Nodes /\ From[c] # To[c]
        /\ UNCHANGED <<calls, ring, answer, ack, waiter, granted>>
        /\ dial[c] \in {"new", "gate"}
    BY CallsAssumption DEF initiateCall, CallerGate
  <1>2. \/ dial' = Put(dial, c, "gate") /\ UNCHANGED <<pending, prompts>>
        \/ dial' = Put(dial, c, "error") /\ UNCHANGED <<pending, prompts>>
        \/ dial' = Put(dial, c, "ask") /\ askForMediaAccess(From[c], c)
    BY DEF initiateCall, CallerGate
  <1>3. \E d \in Dials : dial' = [dial EXCEPT ![c] = d] /\ d \in {"gate", "error", "ask"}
    BY <1>2 DEF Put, Dials
  <1>4. MediaType'
    BY <1>1, <1>2, <1>3 DEF MediaType, askForMediaAccess
  <1>5. OwnPrompts'
    BY <1>1, <1>2 DEF OwnPrompts, askForMediaAccess
  <1>6. ASSUME NEW e \in Calls PROVE OneCall(e)'
    <2>1. OneCall(e) /\ From[e] \in Nodes /\ To[e] \in Nodes /\ From[e] # To[e]
      BY CallsAssumption
    <2>2. CASE e # c
      <3>1. dial'[e] = dial[e]
        BY <1>3, <2>2 DEF MediaType
      <3>2. (<<From[e], e>> \in pending' <=> <<From[e], e>> \in pending)
            /\ (<<To[e], e>> \in pending' <=> <<To[e], e>> \in pending)
        BY <1>2, <2>2 DEF askForMediaAccess
      <3>. QED BY <1>1, <2>1, <3>1, <3>2 DEF OneCall
    <2>3. CASE e = c
      <3>1. <<To[c], c>> \in pending' <=> <<To[c], c>> \in pending
        BY <1>1, <1>2 DEF askForMediaAccess
      <3>2. dial'[c] \in {"gate", "error"} => UNCHANGED pending
        BY <1>2, <1>3 DEF Put, MediaType
      <3>3. dial'[c] \in {"gate", "error", "ask"}
        BY <1>3 DEF MediaType
      <3>. QED BY <1>1, <2>1, <2>3, <3>1, <3>2, <3>3 DEF OneCall
    <2>. QED BY <2>2, <2>3
  <1>. QED
    BY <1>4, <1>5, <1>6


\* A step about one call that asks nobody and grants nothing leaves the others alone.
LEMMA OthersStay ==
    ASSUME MediaType, NEW c \in Calls, NEW e \in Calls, e # c, OneCall(e),
           dial'[e] = dial[e], ring'[e] = ring[e], answer'[e] = answer[e],
           waiter'[e] = waiter[e] \/ (/\ waiter'[e].is = "answer" <=> waiter[e].is = "answer"
                                      /\ waiter'[e].is = "none" <=> waiter[e].is = "none"),
           calls'[From[e]][e] = calls[From[e]][e], calls'[To[e]][e] = calls[To[e]][e],
           granted \subseteq granted',
           \A n \in Nodes : <<n, e>> \in pending' => <<n, e>> \in pending
    PROVE  OneCall(e)'
  <1>1. From[e] \in Nodes /\ To[e] \in Nodes
    BY CallsAssumption
  <1>2. /\ waiter'[e].is = "answer" <=> waiter[e].is = "answer"
        /\ waiter'[e].is = "none" <=> waiter[e].is = "none"
    OBVIOUS
  <1>. QED
    BY <1>1, <1>2 DEF OneCall

\* The steps of the offer at its caller.
LEMMA OfferSteps ==
    ASSUME MediaType, OwnPrompts, \A c \in Calls : OneCall(c), NEW c \in Calls,
           OfferFails(c) \/ OfferReturns(c) \/ Answered(c)
    PROVE  MediaType' /\ OwnPrompts' /\ \A e \in Calls : OneCall(e)'
  <1>1. /\ From[c] \in Nodes /\ To[c] \in Nodes /\ From[c] # To[c]
        /\ UNCHANGED <<answer, ack, granted, pending, prompts>>
        /\ dial[c] \in {"offer", "wait"}
    BY CallsAssumption DEF OfferFails, OfferReturns, Answered
  <1>2. PICK d \in {"wait", "ok", "error"} : dial' = [dial EXCEPT ![c] = d]
    BY DEF OfferFails, OfferReturns, Answered, Put
  <1>3. PICK r \in {ring[c], "done"} : ring' = [ring EXCEPT ![c] = r] /\ (r # ring[c] => ring[c] = "sent")
    BY DEF OfferFails, OfferReturns, Answered, Put, MediaType
  <1>4. dial'[c] = d /\ ring'[c] = r /\ \A e \in Calls : e # c => dial'[e] = dial[e] /\ ring'[e] = ring[e]
    BY <1>2, <1>3 DEF MediaType
  <1>5. /\ dial' \in [Calls -> Dials] /\ ring' \in [Calls -> Rings]
    BY <1>2, <1>3 DEF MediaType, Dials, Rings
  <1>6. CASE d = "error"
    <2>1. Cleaned(calls, waiter, From[c], {c})
      BY <1>4, <1>6 DEF OfferFails, OfferReturns, Answered, cleanupCall, Put, MediaType
    <2>2. /\ calls' \in Map /\ waiter' \in [Calls -> Waiter]
          /\ \A m \in Nodes, e \in Calls :
                calls'[m][e] = IF m = From[c] /\ e = c THEN "none" ELSE calls[m][e]
          /\ \A e \in Calls : /\ waiter'[e].is = "answer" <=> waiter[e].is = "answer"
                              /\ waiter'[e].is = "none" <=> waiter[e].is = "none"
      BY <1>1, <2>1, CleanedFacts
    <2>3. MediaType'
      BY <1>1, <1>5, <2>2 DEF MediaType
    <2>4. ASSUME NEW e \in Calls, e # c PROVE OneCall(e)'
      <3>1. From[e] \in Nodes /\ To[e] \in Nodes
        BY CallsAssumption
      <3>. QED BY <1>1, <1>4, <2>2, <2>4, <3>1, OthersStay
    <2>5. OneCall(c)'
      BY <1>1, <1>3, <1>4, <1>6, <2>2 DEF OneCall
    <2>. QED BY <1>1, <2>3, <2>4, <2>5 DEF OwnPrompts
  <1>7. CASE d # "error"
    <2>1. /\ UNCHANGED <<calls, waiter, ring>>
          /\ d = "ok" => waiter[c].is = "answer"
          /\ d = "wait" => ack[c] = "accepted"
      BY <1>2, <1>4, <1>7 DEF OfferFails, OfferReturns, Answered, Put, MediaType
    <2>2. MediaType'
      BY <1>1, <1>5, <2>1 DEF MediaType
    <2>3. ASSUME NEW e \in Calls, e # c PROVE OneCall(e)'
      BY <1>1, <1>4, <2>1, <2>3, OthersStay
    <2>4. OneCall(c)'
      BY <1>1, <1>3, <1>4, <1>7, <2>1 DEF OneCall
    <2>. QED BY <1>1, <2>2, <2>3, <2>4 DEF OwnPrompts
  <1>. QED
    BY <1>6, <1>7


\* The offer at the callee, up to the question to its operator.
LEMMA handleOfferStep ==
    ASSUME MediaType, OwnPrompts, \A c \in Calls : OneCall(c), NEW c \in Calls, handleOffer(c)
    PROVE  MediaType' /\ OwnPrompts' /\ \A e \in Calls : OneCall(e)'
  <1>1. /\ From[c] \in Nodes /\ To[c] \in Nodes /\ From[c] # To[c]
        /\ UNCHANGED <<calls, dial, answer, waiter, granted>> /\ ring[c] = "sent"
    BY CallsAssumption DEF handleOffer
  <1>2. \/ /\ ring' = [ring EXCEPT ![c] = "ask"] /\ ack' = ack
           /\ pending' = pending \cup {<<To[c], c>>} /\ prompts' = prompts \cup {<<To[c], c>>}
        \/ /\ ring' = [ring EXCEPT ![c] = "done"] /\ ack' = [ack EXCEPT ![c] = "refused"]
           /\ UNCHANGED <<pending, prompts>>
    BY DEF handleOffer, Put, askForMediaAccess
  <1>3. /\ \A e \in Calls : e # c => ring'[e] = ring[e]
        /\ ring'[c] = "ask" \/ (ring'[c] = "done" /\ UNCHANGED pending)
    BY <1>2 DEF MediaType
  <1>4. MediaType'
    BY <1>1, <1>2 DEF MediaType, Rings
  <1>5. OwnPrompts'
    BY <1>1, <1>2 DEF OwnPrompts
  <1>6. ASSUME NEW e \in Calls, e # c PROVE OneCall(e)'
    <2>1. \A n \in Nodes : <<n, e>> \in pending' => <<n, e>> \in pending
      BY <1>2, <1>6
    <2>. QED BY <1>1, <1>3, <1>6, <2>1, OthersStay
  <1>7. OneCall(c)'
    <2>1. <<From[c], c>> \in pending' => <<From[c], c>> \in pending
      BY <1>1, <1>2
    <2>. QED BY <1>1, <1>3, <2>1 DEF OneCall
  <1>. QED
    BY <1>4, <1>5, <1>6, <1>7

\* The time-out of the caller's waiter.
LEMMA TimesOutStep ==
    ASSUME MediaType, OwnPrompts, \A c \in Calls : OneCall(c), NEW c \in Calls, AnswerTimesOut(c)
    PROVE  MediaType' /\ OwnPrompts' /\ \A e \in Calls : OneCall(e)'
  <1>1. /\ From[c] \in Nodes /\ To[c] \in Nodes
        /\ UNCHANGED <<calls, dial, ring, answer, ack, granted, pending, prompts>>
    BY CallsAssumption DEF AnswerTimesOut
  <1>2. waiter' \in [Calls -> Waiter] /\ waiter[c].is = "open" /\ waiter'[c].is = "null"
        /\ \A e \in Calls : e # c => waiter'[e] = waiter[e]
    BY DEF AnswerTimesOut, MediaType, Waiter
  <1>3. MediaType'
    BY <1>1, <1>2 DEF MediaType
  <1>4. ASSUME NEW e \in Calls, e # c PROVE OneCall(e)'
    BY <1>1, <1>2, <1>4, OthersStay
  <1>5. OneCall(c)'
    BY <1>1, <1>2 DEF OneCall
  <1>. QED
    BY <1>1, <1>3, <1>4, <1>5 DEF OwnPrompts

\* The answer arrives at the caller.
LEMMA handleAnswerStep ==
    ASSUME MediaType, OwnPrompts, \A c \in Calls : OneCall(c), NEW c \in Calls, handleAnswer(c)
    PROVE  MediaType' /\ OwnPrompts' /\ \A e \in Calls : OneCall(e)'
  <1>1. /\ From[c] \in Nodes /\ To[c] \in Nodes /\ From[c] # To[c]
        /\ UNCHANGED <<dial, ring, ack, granted, pending, prompts>>
        /\ answer[c] = "sent" /\ answer' = [answer EXCEPT ![c] = "replied"]
    BY CallsAssumption DEF handleAnswer, Put
  <1>2. answer' \in [Calls -> {"none", "sent", "replied", "lost"}] /\ answer'[c] = "replied"
        /\ \A e \in Calls : e # c => answer'[e] = answer[e]
    BY <1>1 DEF MediaType
  <1>3. CASE UNCHANGED <<calls, waiter>>
    <2>1. MediaType'
      BY <1>1, <1>2, <1>3 DEF MediaType
    <2>2. ASSUME NEW e \in Calls, e # c PROVE OneCall(e)'
      BY <1>1, <1>2, <1>3, <2>2, OthersStay
    <2>3. OneCall(c)'
      BY <1>1, <1>2, <1>3 DEF OneCall
    <2>. QED BY <1>1, <2>1, <2>2, <2>3 DEF OwnPrompts
  <1>4. CASE ~UNCHANGED <<calls, waiter>>
    <2>. calls[From[c]][c] # "none" /\ Track(From[c], c, "established")
      BY <1>4 DEF handleAnswer
    <2>1. /\ calls' \in Map
          /\ \A m \in Nodes, e \in Calls :
                calls'[m][e] = IF m = From[c] /\ e = c THEN "established" ELSE calls[m][e]
      BY <1>1, TrackFacts DEF Track
    <2>2. waiter' = IF waiter[c].held
                    THEN Put(waiter, c, [is |-> IF waiter[c].is = "open" THEN "answer" ELSE waiter[c].is,
                                         held |-> FALSE])
                    ELSE waiter
      BY <1>4 DEF handleAnswer
    <2>3. /\ waiter' \in [Calls -> Waiter] /\ \A e \in Calls : e # c => waiter'[e] = waiter[e]
          /\ waiter'[c].is = waiter[c].is \/ (waiter[c].is = "open" /\ waiter'[c].is = "answer")
      BY <2>2 DEF MediaType, Waiter, Put
    <2>4. MediaType'
      BY <1>1, <1>2, <2>1, <2>3 DEF MediaType
    <2>5. ASSUME NEW e \in Calls, e # c PROVE OneCall(e)'
      <3>1. From[e] \in Nodes /\ To[e] \in Nodes
        BY CallsAssumption
      <3>. QED BY <1>1, <1>2, <2>1, <2>3, <2>5, <3>1, OthersStay
    <2>6. OneCall(c)'
      BY <1>1, <1>2, <1>4, <2>1, <2>3 DEF OneCall
    <2>. QED BY <1>1, <2>4, <2>5, <2>6 DEF OwnPrompts
  <1>. QED
    BY <1>3, <1>4 DEF handleAnswer


\* The answer's task ends at the callee.
LEMMA AnswerEndsStep ==
    ASSUME MediaType, OwnPrompts, \A c \in Calls : OneCall(c), NEW c \in Calls,
           AnswerReturns(c) \/ AnswerFails(c)
    PROVE  MediaType' /\ OwnPrompts' /\ \A e \in Calls : OneCall(e)'
  <1>1. /\ From[c] \in Nodes /\ To[c] \in Nodes /\ From[c] # To[c]
        /\ UNCHANGED <<dial, granted, pending, prompts>>
        /\ ring[c] = "answer" /\ ring' = [ring EXCEPT ![c] = "done"]
    BY CallsAssumption DEF AnswerReturns, AnswerFails, Put
  <1>2. PICK k \in {"accepted", "refused"} : ack' = [ack EXCEPT ![c] = k]
    BY DEF AnswerReturns, AnswerFails, Put
  <1>3. PICK a \in {answer[c], "lost"} :
           answer' = [answer EXCEPT ![c] = a] /\ (a # answer[c] => answer[c] = "sent")
    BY DEF AnswerReturns, AnswerFails, Put, MediaType
  <1>4. /\ ring'[c] = "done" /\ answer'[c] = a
        /\ \A e \in Calls : e # c => ring'[e] = ring[e] /\ answer'[e] = answer[e]
    BY <1>1, <1>3 DEF MediaType
  <1>5. /\ calls' \in Map /\ waiter' \in [Calls -> Waiter] /\ calls'[To[c]][c] # "signaling"
        /\ \A m \in Nodes, e \in Calls : m # To[c] \/ e # c => calls'[m][e] = calls[m][e]
        /\ \A e \in Calls : /\ waiter'[e].is = "answer" <=> waiter[e].is = "answer"
                            /\ waiter'[e].is = "none" <=> waiter[e].is = "none"
    <2>1. CASE AnswerFails(c)
      <3>1. Cleaned(calls, waiter, To[c], {c})
        BY <2>1 DEF AnswerFails, cleanupCall
      <3>. QED BY <1>1, <3>1, CleanedFacts
    <2>2. CASE AnswerReturns(c) /\ calls[To[c]][c] = "none"
      <3>1. UNCHANGED <<calls, waiter>>
        BY <2>2 DEF AnswerReturns
      <3>. QED BY <2>2, <3>1 DEF MediaType
    <2>3. CASE AnswerReturns(c) /\ calls[To[c]][c] # "none"
      <3>1. calls' = [calls EXCEPT ![To[c]][c] = "established"] /\ UNCHANGED waiter
        BY <2>3 DEF AnswerReturns
      <3>2. calls' \in Map /\ \A m \in Nodes, e \in Calls :
               calls'[m][e] = IF m = To[c] /\ e = c THEN "established" ELSE calls[m][e]
        BY <1>1, <3>1, TrackFacts
      <3>. QED BY <1>1, <3>1, <3>2 DEF MediaType
    <2>. QED BY <2>1, <2>2, <2>3
  <1>6. MediaType'
    BY <1>1, <1>2, <1>3, <1>5 DEF MediaType, Rings
  <1>7. ASSUME NEW e \in Calls, e # c PROVE OneCall(e)'
    <2>1. From[e] \in Nodes /\ To[e] \in Nodes
      BY CallsAssumption
    <2>. QED BY <1>1, <1>4, <1>5, <1>7, <2>1, OthersStay
  <1>8. OneCall(c)'
    BY <1>1, <1>3, <1>4, <1>5 DEF OneCall
  <1>. QED
    BY <1>1, <1>6, <1>7, <1>8 DEF OwnPrompts

LEMMA HangupStep ==
    ASSUME MediaType, OwnPrompts, \A c \in Calls : OneCall(c), NEW n \in Nodes, hangup(n)
    PROVE  MediaType' /\ OwnPrompts' /\ \A e \in Calls : OneCall(e)'
  <1>1. UNCHANGED <<dial, ring, answer, ack, granted, pending, prompts>>
        /\ Cleaned(calls, waiter, n, Tracked(n)) /\ Tracked(n) \subseteq Calls
    BY DEF hangup, Tracked
  <1>2. /\ calls' \in Map /\ waiter' \in [Calls -> Waiter]
        /\ \A m \in Nodes, c \in Calls : calls'[m][c] \in {"none", calls[m][c]}
        /\ \A c \in Calls : /\ waiter'[c].is = "answer" <=> waiter[c].is = "answer"
                            /\ waiter'[c].is = "none" <=> waiter[c].is = "none"
    <2>1. PICK gone \in SUBSET Calls : gone = Tracked(n)
      BY <1>1
    <2>. QED BY <1>1, <2>1, CleanedFacts
  <1>3. MediaType'
    BY <1>1, <1>2 DEF MediaType
  <1>4. ASSUME NEW c \in Calls PROVE OneCall(c)'
    <2>1. From[c] \in Nodes /\ To[c] \in Nodes
      BY CallsAssumption
    <2>. QED BY <1>1, <1>2, <2>1 DEF OneCall
  <1>. QED
    BY <1>1, <1>3, <1>4 DEF OwnPrompts

\* The word of an operator, given or expired.
LEMMA WordStep ==
    ASSUME MediaType, OwnPrompts, \A c \in Calls : OneCall(c), NEW n \in Nodes, NEW c \in Calls,
           resolveMediaAccess(n, c) \/ RequestExpires(n, c)
    PROVE  MediaType' /\ OwnPrompts' /\ \A e \in Calls : OneCall(e)'
  <1>1. /\ From[c] \in Nodes /\ To[c] \in Nodes /\ From[c] # To[c] /\ n \in {From[c], To[c]}
    BY CallsAssumption DEF resolveMediaAccess, RequestExpires, OwnPrompts
  <1>2. pending' = pending \ {<<n, c>>} /\ prompts' \subseteq prompts
    BY DEF resolveMediaAccess, RequestExpires
  <1>3. OwnPrompts'
    BY <1>2 DEF OwnPrompts
  <1>4. /\ \A m \in Nodes, e \in Calls : <<m, e>> \in pending' => <<m, e>> \in pending
        /\ <<n, c>> \notin pending'
        /\ OneCall(c)
    BY <1>2
  <1>5. CASE Offer(c) /\ n = From[c] /\ <<n, c>> \in pending /\ granted' = granted \cup {<<n, c>>}
    <2>1. /\ Track(From[c], c, "signaling") /\ UNCHANGED <<answer, ack>>
          /\ waiter' = [waiter EXCEPT ![c] = [is |-> "open", held |-> TRUE]]
          /\ dial' = [dial EXCEPT ![c] = "offer"] /\ ring' = [ring EXCEPT ![c] = "sent"]
          /\ dial[c] = "ask"
      BY <1>4, <1>5 DEF Offer, Put, OneCall
    <2>2. /\ calls' \in Map
          /\ \A m \in Nodes, e \in Calls :
                calls'[m][e] = IF m = From[c] /\ e = c THEN "signaling" ELSE calls[m][e]
      BY <1>1, <2>1, TrackFacts DEF Track
    <2>3. /\ waiter' \in [Calls -> Waiter] /\ dial' \in [Calls -> Dials] /\ ring' \in [Calls -> Rings]
          /\ waiter'[c].is = "open" /\ dial'[c] = "offer" /\ ring'[c] = "sent"
          /\ \A e \in Calls : e # c => dial'[e] = dial[e] /\ ring'[e] = ring[e] /\ waiter'[e] = waiter[e]
      BY <2>1 DEF MediaType, Waiter, Dials, Rings
    <2>4. MediaType'
      BY <1>2, <1>5, <2>1, <2>2, <2>3 DEF MediaType
    <2>5. ASSUME NEW e \in Calls, e # c PROVE OneCall(e)'
      <3>1. From[e] \in Nodes /\ To[e] \in Nodes
        BY CallsAssumption
      <3>. QED BY <1>4, <1>5, <2>1, <2>2, <2>3, <2>5, <3>1, OthersStay
    <2>6. OneCall(c)'
      BY <1>1, <1>4, <1>5, <2>1, <2>2, <2>3 DEF OneCall
    <2>. QED BY <1>3, <2>4, <2>5, <2>6
  <1>6. CASE Accept(c) /\ n = To[c] /\ <<n, c>> \in pending /\ granted' = granted \cup {<<n, c>>}
    <2>1. /\ Track(To[c], c, "signaling") /\ UNCHANGED <<dial, ack, waiter>>
          /\ ring' = [ring EXCEPT ![c] = "answer"] /\ answer' = [answer EXCEPT ![c] = "sent"]
          /\ ring[c] = "ask"
      BY <1>4, <1>6 DEF Accept, Put, OneCall
    <2>2. /\ calls' \in Map
          /\ \A m \in Nodes, e \in Calls :
                calls'[m][e] = IF m = To[c] /\ e = c THEN "signaling" ELSE calls[m][e]
      BY <1>1, <2>1, TrackFacts DEF Track
    <2>3. /\ answer' \in [Calls -> {"none", "sent", "replied", "lost"}] /\ ring' \in [Calls -> Rings]
          /\ answer'[c] = "sent" /\ ring'[c] = "answer"
          /\ \A e \in Calls : e # c => answer'[e] = answer[e] /\ ring'[e] = ring[e]
      BY <2>1 DEF MediaType, Rings
    <2>4. MediaType'
      BY <1>2, <1>6, <2>1, <2>2, <2>3 DEF MediaType
    <2>5. ASSUME NEW e \in Calls, e # c PROVE OneCall(e)'
      <3>1. From[e] \in Nodes /\ To[e] \in Nodes
        BY CallsAssumption
      <3>. QED BY <1>4, <1>6, <2>1, <2>2, <2>3, <2>5, <3>1, OthersStay
    <2>6. OneCall(c)'
      BY <1>1, <1>4, <1>6, <2>1, <2>2, <2>3 DEF OneCall
    <2>. QED BY <1>3, <2>4, <2>5, <2>6
  <1>7. CASE Refused(n, c) /\ <<n, c>> \in pending /\ UNCHANGED granted
    <2>1. UNCHANGED <<calls, waiter, answer>>
      BY <1>7 DEF Refused
    <2>2. CASE n = From[c]
      <3>1. dial' = [dial EXCEPT ![c] = "error"] /\ UNCHANGED <<ring, ack>> /\ dial[c] = "ask"
        BY <1>4, <1>7, <2>2 DEF Refused, Put, OneCall
      <3>2. dial' \in [Calls -> Dials] /\ dial'[c] = "error" /\ \A e \in Calls : e # c => dial'[e] = dial[e]
        BY <3>1 DEF MediaType, Dials
      <3>3. MediaType'
        BY <1>2, <1>7, <2>1, <3>1, <3>2 DEF MediaType
      <3>4. ASSUME NEW e \in Calls, e # c PROVE OneCall(e)'
        BY <1>4, <1>7, <2>1, <3>1, <3>2, <3>4, OthersStay
      <3>5. OneCall(c)'
        BY <1>1, <1>4, <1>7, <2>1, <2>2, <3>1, <3>2 DEF OneCall
      <3>. QED BY <1>3, <3>3, <3>4, <3>5
    <2>3. CASE n # From[c]
      <3>1. /\ ring' = [ring EXCEPT ![c] = "done"] /\ ack' = [ack EXCEPT ![c] = "refused"]
            /\ UNCHANGED dial /\ n = To[c] /\ ring[c] = "ask"
        BY <1>1, <1>4, <1>7, <2>3 DEF Refused, Put, OneCall
      <3>2. ring' \in [Calls -> Rings] /\ ring'[c] = "done" /\ \A e \in Calls : e # c => ring'[e] = ring[e]
        BY <3>1 DEF MediaType, Rings
      <3>3. MediaType'
        BY <1>2, <1>7, <2>1, <3>1, <3>2 DEF MediaType
      <3>4. ASSUME NEW e \in Calls, e # c PROVE OneCall(e)'
        BY <1>4, <1>7, <2>1, <3>1, <3>2, <3>4, OthersStay
      <3>5. OneCall(c)'
        BY <1>1, <1>4, <1>7, <2>1, <3>1, <3>2 DEF OneCall
      <3>. QED BY <1>3, <3>3, <3>4, <3>5
    <2>. QED BY <2>2, <2>3
  <1>8. CASE <<n, c>> \notin pending /\ UNCHANGED <<granted, calls, dial, ring, answer, ack, waiter>>
    <2>1. UNCHANGED pending
      BY <1>2, <1>8
    <2>. QED BY <1>2, <1>3, <1>8, <2>1 DEF MediaType, OneCall
  <1>. QED
    BY <1>1, <1>5, <1>6, <1>7, <1>8 DEF resolveMediaAccess, RequestExpires

LEMMA CallStep == CallInv /\ [MediaStep]_media => CallInv'
  <1> SUFFICES ASSUME CallInv, [MediaStep]_media PROVE CallInv'
    OBVIOUS
  <1>1. MediaType /\ OwnPrompts /\ \A c \in Calls : OneCall(c)
    BY MediaTypes DEF CallInv
  <1>2. trusted' \subseteq Nodes
    BY DEF CallInv, MediaTypeOK, MediaStep, initiateCall, Proceeds, CallerGate, OfferReturns, Answered,
       handleOffer, AnswerReturns, AnswerFails, OfferFails, AnswerTimesOut, handleAnswer, TrustChanges,
       hangup, resolveMediaAccess, RequestExpires, media
  <1>3. MediaType' /\ OwnPrompts' /\ \A c \in Calls : OneCall(c)'
    <2>1. CASE UNCHANGED <<calls, dial, ring, answer, ack, waiter, pending, prompts, granted>>
      BY <1>1, <2>1 DEF MediaType, OwnPrompts, OneCall
    <2>2. ASSUME NEW n \in Nodes, TrustChanges(n)
          PROVE  UNCHANGED <<calls, dial, ring, answer, ack, waiter, pending, prompts, granted>>
      BY <2>2 DEF TrustChanges
    <2>3. CASE UNCHANGED media
      BY <2>1, <2>3 DEF media
    <2>4. ASSUME NEW c \in Calls, initiateCall(c) \/ Proceeds(c) \/ handleAnswer(c)
          PROVE  MediaType' /\ OwnPrompts' /\ \A e \in Calls : OneCall(e)'
      BY <1>1, <2>4, CallerSteps, OfferSteps, handleOfferStep, TimesOutStep, handleAnswerStep, AnswerEndsStep
         DEF Proceeds
    <2>5. ASSUME NEW n \in Nodes, hangup(n)
          PROVE  MediaType' /\ OwnPrompts' /\ \A e \in Calls : OneCall(e)'
      BY <1>1, <2>5, HangupStep
    <2>6. ASSUME NEW n \in Nodes, NEW c \in Calls, resolveMediaAccess(n, c) \/ RequestExpires(n, c)
          PROVE  MediaType' /\ OwnPrompts' /\ \A e \in Calls : OneCall(e)'
      BY <1>1, <2>6, WordStep
    <2>. QED BY <2>1, <2>2, <2>3, <2>4, <2>5, <2>6 DEF MediaStep
  <1>4. MediaTypeOK'
    BY <1>2, <1>3 DEF MediaTypeOK, MediaType, Waiter, Map, Dials, Rings
  <1>. QED
    BY <1>3, <1>4 DEF CallInv

\* What initiateCall reports is so, whatever was late, lost or hung up: a call it made
\* was granted in time by both operators, one it gave up is tracked no more, and
\* nothing is left signalling that no operation drives.
THEOREM AnswersTrue == InitMedia /\ [][MediaStep]_media => []AnswerIsTrue
  <1>1. CallInv => AnswerIsTrue
    <2> SUFFICES ASSUME CallInv, NEW c \in Calls
                 PROVE  /\ dial[c] = "ok" => {<<From[c], c>>, <<To[c], c>>} \subseteq granted
                        /\ dial[c] = "error" => calls[From[c]][c] = "none"
                        /\ calls[From[c]][c] = "signaling" => dial[c] \in {"offer", "wait"}
                        /\ calls[To[c]][c] = "signaling" => ring[c] = "answer"
      BY DEF AnswerIsTrue
    <2>. QED BY DEF CallInv, OneCall
  <1>. QED
    BY <1>1, InitCalls, CallStep, PTL

----------------------------------------------------------------------------
(* Windows: the gate of a session's frames and the limiter of fetches.  What was *)
(* let through and still counts is held by the window it was let through by.     *)

AtMost(frames, k) == IsFiniteSet(frames) /\ Cardinality(frames) <= k

\* The frames of one tick have the numbers from one on.
Numbered(frames) == \A f \in frames : f.n <= Cardinality({e \in frames : e.at = f.at})

Frames == [at : Nat, n : Nat, bytes : Sizes]

Caps == {Default} \cup {Budget[c] : c \in Channels}

Cap(c) == Larger(Budget[c].messages, Default.messages)

Bucket == [is : BOOLEAN, cap : Caps, entries : SUBSET Frames, denials : Nat, pinchedUntil : Nat, lastTouch : Nat]

\* What the bucket b of channel c holds was let through since it was last touched,
\* and of an open session's frames it has forgotten none that counts.
Kept(c, b) ==
    /\ b \in Bucket /\ b.cap \in {Default, Budget[c]}
    /\ AtMost(b.entries, Cap(c)) /\ Numbered(b.entries)
    /\ \A f \in b.entries : f.at <= b.lastTouch
    /\ b.lastTouch <= now

Holding(c, b) ==
    /\ Kept(c, b)
    /\ sessions[c] = "open" => InTheWindow(admitted[c]) \subseteq b.entries

FrameInv ==
    /\ now \in Nat /\ SessionsTypeOK
    /\ buckets \in [Channels -> Bucket] /\ admitted \in [Channels -> SUBSET Frames]
    /\ \A c \in Channels : /\ Holding(c, buckets[c]) /\ AtMost(InTheWindow(admitted[c]), Cap(c))
                           /\ sessions[c] \in {"new", "gate", "ask"} => admitted[c] = {}

Fetches == [at : Nat, n : Nat]

DialInv ==
    /\ clock \in Nat
    /\ dials \in [Guests -> SUBSET Fetches] /\ dialled = dials
    /\ \A p \in Guests : /\ IsFiniteSet(dials[p]) /\ Numbered(dials[p])
                         /\ \A f \in dials[p] : f.at <= clock
                         /\ AtMost(InDialWindow(dials[p]), DialLimit)

----------------------------------------------------------------------------
LEMMA Fewer ==
    ASSUME NEW frames, NEW k, AtMost(frames, k), NEW some \in SUBSET frames, k \in Nat
    PROVE  AtMost(some, k)
  <1>1. IsFiniteSet(some) /\ Cardinality(some) <= Cardinality(frames)
    BY FS_Subset DEF AtMost
  <1>2. Cardinality(some) \in Nat /\ Cardinality(frames) \in Nat
    BY <1>1, FS_CardinalityType DEF AtMost
  <1>. QED
    BY <1>1, <1>2 DEF AtMost

\* What has left the window leaves it with all the frames of its tick.
LEMMA StillNumbered ==
    ASSUME NEW frames, NEW some \in SUBSET frames, Numbered(frames),
           \A f \in some, e \in frames : e.at = f.at => e \in some
    PROVE  Numbered(some)
  <1> SUFFICES ASSUME NEW f \in some
               PROVE  f.n <= Cardinality({e \in some : e.at = f.at})
    BY DEF Numbered
  <1>1. {e \in some : e.at = f.at} = {e \in frames : e.at = f.at}
    OBVIOUS
  <1>. QED
    BY <1>1 DEF Numbered

\* The number of the next frame is one that no frame of its tick has.
LEMMA NextFrame ==
    ASSUME NEW frames, IsFiniteSet(frames), Numbered(frames), NEW time, NEW new,
           \A f \in frames : f.n \in Nat,
           new.at = time, new.n = Cardinality({e \in frames : e.at = time}) + 1
    PROVE  /\ new \notin frames /\ new.n \in Nat /\ Numbered(frames \cup {new})
           /\ IsFiniteSet(frames \cup {new}) /\ Cardinality(frames \cup {new}) = Cardinality(frames) + 1
  <1> DEFINE tick == {e \in frames : e.at = time}
  <1>1. IsFiniteSet(tick) /\ Cardinality(tick) \in Nat
    BY FS_Subset, FS_CardinalityType
  <1>2. PICK k : k = Cardinality(tick)
    OBVIOUS
  <1>3. k \in Nat /\ new.n = k + 1
    BY <1>1, <1>2
  <1>4. \A f \in tick : f.n \in Nat /\ f.n <= k
    BY <1>2 DEF Numbered
  <1>5. new \notin frames
    BY <1>3, <1>4
  <1>6. {e \in frames \cup {new} : e.at = time} = tick \cup {new}
    OBVIOUS
  <1>7. Cardinality(tick \cup {new}) = k + 1
    BY <1>1, <1>2, <1>5, FS_AddElement
  <1>8. ASSUME NEW f \in frames \cup {new}
        PROVE  f.n <= Cardinality({e \in frames \cup {new} : e.at = f.at})
    <2>1. CASE f.at = time
      <3>1. f.n \in Nat /\ f.n <= k + 1
        BY <1>3, <1>4, <2>1
      <3>. QED BY <1>6, <1>7, <2>1, <3>1
    <2>2. CASE f.at # time
      <3>1. f \in frames /\ {e \in frames \cup {new} : e.at = f.at} = {e \in frames : e.at = f.at}
        BY <2>2
      <3>. QED BY <3>1 DEF Numbered
    <2>. QED BY <2>1, <2>2
  <1>9. Numbered(frames \cup {new})
    BY <1>8 DEF Numbered
  <1>10. IsFiniteSet(frames \cup {new}) /\ Cardinality(frames \cup {new}) = Cardinality(frames) + 1
    BY <1>5, FS_AddElement
  <1>. QED
    BY <1>3, <1>5, <1>9, <1>10

LEMMA CapsAreNumbers ==
    /\ Window \in Nat \ {0} /\ Default.messages \in Nat
    /\ \A c \in Channels : Budget[c].messages \in Nat /\ Cap(c) \in Nat /\ Cap(c) # 0
    /\ \A c \in Channels : \A cap \in {Default, Budget[c]} : cap.messages \in Nat /\ cap.messages <= Cap(c)
  BY GateAssumption, BudgetAssumption DEF Cap, Larger

LEMMA EmptyHolds ==
    ASSUME NEW k \in Nat
    PROVE  AtMost({}, k) /\ Numbered({})
  BY FS_EmptySet DEF AtMost, Numbered

\* A bucket that holds nothing yet.
LEMMA NewHolds ==
    ASSUME NEW c \in Channels, NEW b, b.cap \in {Default, Budget[c]}, now \in Nat,
           b \in [is : BOOLEAN, cap : Caps, entries : {{}}, denials : {0}, pinchedUntil : {0}, lastTouch : {0, now}],
           sessions[c] = "open" => InTheWindow(admitted[c]) = {}
    PROVE  Holding(c, b)
  BY EmptyHolds, CapsAreNumbers DEF Holding, Kept, Bucket

\* A sweep forgets nothing that counts.
LEMMA SweptHolds ==
    ASSUME FrameInv, NEW c \in Channels
    PROVE  Holding(c, maybeSweep[c]) /\ Holding(c, Found(c))
  <1>1. Holding(c, maybeSweep[c])
    <2>1. CASE SweepDue /\ Idle(buckets[c])
      <3>1. maybeSweep[c] = NoBucket
        BY <2>1 DEF maybeSweep
      <3>2. ASSUME sessions[c] = "open", NEW f \in InTheWindow(admitted[c]) PROVE FALSE
        <4>1. f \in buckets[c].entries /\ f.at <= buckets[c].lastTouch /\ f.at > now - Window
          BY <3>2 DEF FrameInv, Holding, Kept, InTheWindow
        <4>2. f.at \in Nat /\ buckets[c].lastTouch \in Nat /\ now \in Nat /\ Window \in Nat
          BY <4>1, CapsAreNumbers DEF FrameInv, Holding, Kept, Bucket, Frames
        <4>. QED BY <2>1, <4>1, <4>2 DEF Idle
      <3>3. NoBucket \in [is : BOOLEAN, cap : Caps, entries : {{}}, denials : {0}, pinchedUntil : {0},
                          lastTouch : {0, now}] /\ NoBucket.cap = Default
        BY DEF NoBucket, Caps
      <3>. QED BY <3>1, <3>2, <3>3, NewHolds DEF FrameInv
    <2>2. CASE ~(SweepDue /\ Idle(buckets[c]))
      BY <2>2 DEF maybeSweep, FrameInv
    <2>. QED BY <2>1, <2>2
  <1>2. PICK b : b = maybeSweep[c]
    OBVIOUS
  <1>3. PICK f : f = [b EXCEPT !.is = TRUE]
    OBVIOUS
  <1>4. Found(c) = f /\ f \in Bucket /\ f.cap = b.cap /\ f.entries = b.entries /\ f.lastTouch = b.lastTouch
    BY <1>1, <1>2, <1>3 DEF Found, Holding, Kept, Bucket
  <1>. QED
    BY <1>1, <1>2, <1>4 DEF Holding, Kept

\* The three ways of consume: what the bucket of an open session is afterwards.
LEMMA ConsumeHolds ==
    ASSUME FrameInv, NEW c \in Channels, sessions[c] = "open", NEW size \in Sizes, checkAndConsume(c, size),
           NEW k, k = consume(c, size)
    PROVE  /\ UNCHANGED now /\ buckets' = [maybeSweep EXCEPT ![c] = k]
           /\ Kept(c, k)
           /\ admitted' \in [Channels -> SUBSET Frames]
           /\ \A d \in Channels : d # c => admitted'[d] = admitted[d]
           /\ InTheWindow(admitted'[c]) \subseteq k.entries
           /\ Admits(c, size) =>
                 \E f \in Frames : f \notin admitted[c] /\ admitted'[c] = InTheWindow(admitted[c]) \cup {f}
  <1>1. PICK b : b = Found(c)
    OBVIOUS
  <1>2. Holding(c, b) /\ b \in Bucket /\ now \in Nat
    BY <1>1, SweptHolds DEF FrameInv, Holding, Kept
  <1>3. PICK o : o = Opened(b)
    OBVIOUS
  <1>4. /\ o \in Bucket /\ o.cap = b.cap /\ o.entries = InTheWindow(b.entries) /\ o.lastTouch = now
    BY <1>2, <1>3 DEF Opened, Bucket, InTheWindow
  <1>5. AtMost(o.entries, Cap(c)) /\ Numbered(o.entries)
    <2>1. o.entries \in SUBSET b.entries
      BY <1>4 DEF InTheWindow
    <2>2. \A f \in o.entries, e \in b.entries : e.at = f.at => e \in o.entries
      BY <1>4 DEF InTheWindow
    <2>3. Cap(c) \in Nat /\ AtMost(b.entries, Cap(c)) /\ Numbered(b.entries)
      BY <1>2, CapsAreNumbers DEF Holding, Kept
    <2>. QED BY <2>1, <2>2, <2>3, Fewer, StillNumbered
  <1>6. /\ b.cap \in {Default, Budget[c]} /\ b.lastTouch \in Nat /\ b.lastTouch <= now
        /\ \A f \in b.entries : f \in Frames /\ f.at \in Nat /\ f.at <= b.lastTouch /\ f.at <= now
    <2>1. \A f \in b.entries : f \in Frames /\ f.at \in Nat
      BY <1>2 DEF Bucket, Frames
    <2>. QED BY <1>2, <2>1 DEF Holding, Kept, Bucket
  <1>7. InTheWindow(admitted[c]) \subseteq o.entries /\ InTheWindow(admitted[c]) \subseteq b.entries
    BY <1>2, <1>4 DEF Holding, Kept, InTheWindow
  <1>8. /\ UNCHANGED now /\ admitted \in [Channels -> SUBSET Frames]
        /\ buckets' = [maybeSweep EXCEPT ![c] = k]
        /\ admitted' = IF ~Pinched(c) /\ Fits(o, size)
                       THEN [admitted EXCEPT ![c] = InTheWindow(admitted[c]) \cup {Entry(o, size)}]
                       ELSE admitted
        /\ Admits(c, size) = (~Pinched(c) /\ Fits(o, size))
    BY <1>1, <1>3 DEF checkAndConsume, Admits, FrameInv
  <1>9. k = IF Pinched(c) THEN [b EXCEPT !.lastTouch = now]
            ELSE IF Fits(o, size)
            THEN [o EXCEPT !.denials = 0, !.entries = o.entries \cup {Entry(o, size)}]
            ELSE deny(o)
    BY <1>1, <1>3 DEF consume
  <1>11. CASE Pinched(c)
    <2>1. k = [b EXCEPT !.lastTouch = now]
      BY <1>9, <1>11
    <2>2. k \in Bucket /\ k.cap = b.cap /\ k.entries = b.entries /\ k.lastTouch = now
      BY <1>2, <2>1 DEF Bucket
    <2>3. UNCHANGED admitted /\ ~Admits(c, size)
      BY <1>8, <1>11
    <2>4. InTheWindow(admitted'[c]) \subseteq k.entries
      BY <1>7, <2>2, <2>3
    <2>5. Kept(c, k)
      BY <1>2, <1>6, <2>2 DEF Holding, Kept
    <2>. QED BY <1>8, <2>3, <2>4, <2>5
  <1>12. CASE ~Pinched(c) /\ ~Fits(o, size)
    <2>1. k = deny(o)
      BY <1>9, <1>12
    <2>2. o.denials + 1 \in Nat /\ now + Window * 2 \in Nat
      BY <1>2, <1>4, CapsAreNumbers DEF Bucket
    <2>3. k \in Bucket /\ k.cap = o.cap /\ k.entries = o.entries /\ k.lastTouch = now
      BY <1>4, <2>1, <2>2 DEF deny, Bucket
    <2>4. UNCHANGED admitted /\ ~Admits(c, size)
      BY <1>8, <1>12
    <2>5. InTheWindow(admitted'[c]) \subseteq k.entries
      BY <1>7, <2>3, <2>4
    <2>6. \A f \in k.entries : f.at <= k.lastTouch
      BY <1>4, <1>6, <2>3 DEF InTheWindow
    <2>7. Kept(c, k)
      BY <1>2, <1>4, <1>5, <1>6, <2>3, <2>6 DEF Kept
    <2>. QED BY <1>8, <2>4, <2>5, <2>7
  <1>13. CASE ~Pinched(c) /\ Fits(o, size)
    <2>1. PICK e : e = Entry(o, size)
      OBVIOUS
    <2>2. /\ e.at = now /\ e.n = Cardinality({f \in o.entries : f.at = now}) + 1 /\ e.bytes = size
          /\ e \in [at : {e.at}, n : {e.n}, bytes : {e.bytes}]
      BY <2>1 DEF Entry
    <2>3. IsFiniteSet(o.entries) /\ \A f \in o.entries : f.n \in Nat
      BY <1>4, <1>5 DEF AtMost, Bucket, Frames
    <2>4. /\ e \notin o.entries /\ e.n \in Nat /\ Numbered(o.entries \cup {e})
          /\ IsFiniteSet(o.entries \cup {e})
          /\ Cardinality(o.entries \cup {e}) = Cardinality(o.entries) + 1
      BY <1>5, <2>2, <2>3, NextFrame
    <2>5. e \in Frames
      BY <1>2, <2>2, <2>4 DEF Frames
    <2>6. AtMost(o.entries \cup {e}, Cap(c))
      <3>1. Cardinality(o.entries) < o.cap.messages /\ Cardinality(o.entries) \in Nat
        BY <1>13, <2>3, FS_CardinalityType DEF Fits
      <3>2. o.cap.messages \in Nat /\ o.cap.messages <= Cap(c) /\ Cap(c) \in Nat
        BY <1>4, <1>6, CapsAreNumbers
      <3>. QED BY <2>4, <3>1, <3>2 DEF AtMost
    <2>7. k = [o EXCEPT !.denials = 0, !.entries = o.entries \cup {e}]
      BY <1>9, <1>13, <2>1
    <2>8. k \in Bucket /\ k.cap = o.cap /\ k.entries = o.entries \cup {e} /\ k.lastTouch = now
      <3>1. PICK all : all = o.entries \cup {e}
        OBVIOUS
      <3>2. all \in SUBSET Frames
        BY <1>4, <2>5, <3>1 DEF Bucket
      <3>3. k = [o EXCEPT !.denials = 0, !.entries = all]
        BY <2>7, <3>1
      <3>4. k \in [is : BOOLEAN, cap : {o.cap}, entries : {all}, denials : {0}, pinchedUntil : Nat, lastTouch : {now}]
        BY <1>4, <3>3 DEF Bucket
      <3>5. o.cap \in Caps /\ now \in Nat
        BY <1>2, <1>4 DEF Bucket
      <3>6. k \in Bucket /\ k.cap = o.cap /\ k.entries = all /\ k.lastTouch = now
        BY <3>2, <3>4, <3>5 DEF Bucket
      <3>. QED BY <3>1, <3>6
    <2>9. admitted' = [admitted EXCEPT ![c] = InTheWindow(admitted[c]) \cup {e}]
      BY <1>8, <1>13, <2>1
    <2>10. /\ admitted' \in [Channels -> SUBSET Frames] /\ admitted'[c] = InTheWindow(admitted[c]) \cup {e}
           /\ \A d \in Channels : d # c => admitted'[d] = admitted[d]
      <3>1. InTheWindow(admitted[c]) \cup {e} \in SUBSET Frames
        BY <1>8, <2>5 DEF InTheWindow
      <3>. QED BY <1>8, <2>9, <3>1
    <2>11. e \notin admitted[c]
      <3>1. e \in admitted[c] => e \in InTheWindow(admitted[c])
        BY <1>2, <2>2, CapsAreNumbers DEF InTheWindow
      <3>. QED BY <1>7, <2>4, <3>1
    <2>12. InTheWindow(admitted'[c]) \subseteq k.entries
      BY <1>7, <2>8, <2>10 DEF InTheWindow
    <2>13. \A f \in k.entries : f.at <= k.lastTouch
      BY <1>2, <1>4, <1>6, <2>2, <2>8 DEF InTheWindow
    <2>14. Kept(c, k)
      BY <1>2, <1>4, <1>6, <2>4, <2>6, <2>8, <2>13 DEF Kept
    <2>15. \E f \in Frames : f \notin admitted[c] /\ admitted'[c] = InTheWindow(admitted[c]) \cup {f}
      BY <2>5, <2>10, <2>11
    <2>. QED BY <1>8, <2>10, <2>12, <2>14, <2>15
  <1>. QED
    BY <1>11, <1>12, <1>13

\* A frame of an open session.
LEMMA FrameStep ==
    ASSUME FrameInv, NEW c \in Channels, consumeStreamFrame(c)
    PROVE  FrameInv'
  <1>1. PICK size \in Sizes : checkAndConsume(c, size)
    BY DEF consumeStreamFrame
  <1>2. PICK k : k = consume(c, size)
    OBVIOUS
  <1>3. sessions[c] = "open" /\ UNCHANGED sessions
    BY DEF consumeStreamFrame
  <1>4. /\ UNCHANGED now /\ buckets' = [maybeSweep EXCEPT ![c] = k] /\ Kept(c, k)
        /\ admitted' \in [Channels -> SUBSET Frames]
        /\ \A d \in Channels : d # c => admitted'[d] = admitted[d]
        /\ InTheWindow(admitted'[c]) \subseteq k.entries
    BY <1>1, <1>2, <1>3, ConsumeHolds
  <1>5. \A d \in Channels : Holding(d, maybeSweep[d])
    BY SweptHolds
  <1>6. maybeSweep \in [Channels -> Bucket]
    <2>1. maybeSweep = [d \in Channels |-> maybeSweep[d]]
      BY DEF maybeSweep
    <2>. QED BY <1>5, <2>1 DEF Holding, Kept
  <1>7. buckets' \in [Channels -> Bucket] /\ \A d \in Channels : buckets'[d] = IF d = c THEN k ELSE maybeSweep[d]
    BY <1>4, <1>6 DEF Kept
  <1>8. ASSUME NEW d \in Channels
        PROVE  /\ Holding(d, buckets[d])' /\ AtMost(InTheWindow(admitted[d]), Cap(d))'
               /\ sessions'[d] \in {"new", "gate", "ask"} => admitted'[d] = {}
    <2>1. CASE d = c
      <3>1. InTheWindow(admitted[c])' = InTheWindow(admitted'[c])
        BY <1>4 DEF InTheWindow
      <3>2. Kept(c, buckets[c])'
        BY <1>4, <1>7 DEF Kept
      <3>3. AtMost(InTheWindow(admitted'[c]), Cap(c))
        BY <1>4, Fewer, CapsAreNumbers DEF Kept
      <3>4. AtMost(InTheWindow(admitted[c]), Cap(c))'
        BY <3>1, <3>3 DEF AtMost, Cap
      <3>. QED BY <1>3, <1>4, <1>7, <2>1, <3>1, <3>2, <3>4 DEF Holding
    <2>2. CASE d # c
      <3>1. buckets'[d] = maybeSweep[d] /\ admitted'[d] = admitted[d] /\ sessions'[d] = sessions[d]
            /\ InTheWindow(admitted[d])' = InTheWindow(admitted[d])
        BY <1>3, <1>4, <1>7, <2>2 DEF InTheWindow
      <3>2. AtMost(InTheWindow(admitted[d]), Cap(d))'
        BY <3>1 DEF FrameInv, AtMost, Cap
      <3>3. Holding(d, buckets[d])'
        BY <1>4, <1>5, <3>1 DEF Holding, Kept
      <3>. QED BY <3>1, <3>2, <3>3 DEF FrameInv
    <2>. QED BY <2>1, <2>2
  <1>. QED
    BY <1>3, <1>4, <1>7, <1>8 DEF FrameInv, SessionsTypeOK

\* A session turns to state without a frame: its bucket is new, or gone, or as it was.
LEMMA TurnStep ==
    ASSUME FrameInv, NEW c \in Channels, NEW state \in {"gate", "ask", "open", "closed"}, Turns(c, state),
           UNCHANGED <<now, admitted>>,
           \/ state # "open" /\ (UNCHANGED buckets \/ closeStream(c))
           \/ state = "open" /\ registerStream(c, Budget[c]),
           state # "closed" => sessions[c] \in {"new", "gate", "ask"}
    PROVE  FrameInv'
  <1>1. /\ sessions' \in [Sessions -> {"new", "gate", "ask", "open", "closed"}]
        /\ \A d \in Channels : sessions'[d] = IF d = c THEN state ELSE sessions[d]
    BY DEF Turns, FrameInv, SessionsTypeOK, Sessions
  <1>2. now' = now /\ now \in Nat /\ admitted' = admitted
        /\ \A d \in Channels : InTheWindow(admitted[d])' = InTheWindow(admitted[d])
    BY DEF FrameInv, InTheWindow
  <1>3. PICK b : b = IF state = "open" THEN [NoBucket EXCEPT !.is = TRUE, !.cap = Budget[c], !.lastTouch = now]
                     ELSE NoBucket
    OBVIOUS
  <1>4. b \in [is : BOOLEAN, cap : Caps, entries : {{}}, denials : {0}, pinchedUntil : {0}, lastTouch : {0, now}]
        /\ b.cap \in {Default, Budget[c]}
    BY <1>2, <1>3 DEF NoBucket, Caps
  <1>5. sessions'[c] = "open" => InTheWindow(admitted'[c]) = {}
    BY <1>1, <1>2 DEF FrameInv, InTheWindow
  <1>6. Kept(c, b)
    <2>1. b \in Bucket /\ b.entries = {} /\ b.lastTouch <= now
      BY <1>2, <1>4 DEF Bucket
    <2>2. AtMost({}, Cap(c)) /\ Numbered({})
      BY EmptyHolds, CapsAreNumbers
    <2>. QED BY <1>4, <2>1, <2>2 DEF Kept
  <1>7. UNCHANGED buckets \/ buckets' = [buckets EXCEPT ![c] = b]
    BY <1>3 DEF registerStream, closeStream
  <1>8. ASSUME NEW d \in Channels
        PROVE  buckets'[d] \in Bucket /\ Holding(d, buckets[d])'
    <2>1. CASE d # c \/ (UNCHANGED buckets /\ state # "open")
      <3>1. buckets'[d] = buckets[d] /\ (sessions'[d] = "open" => sessions[d] = "open")
        BY <1>1, <1>7, <2>1 DEF FrameInv
      <3>. QED BY <1>2, <3>1 DEF FrameInv, Holding, Kept
    <2>2. CASE d = c /\ buckets' = [buckets EXCEPT ![c] = b]
      <3>1. buckets'[d] = b
        BY <2>2 DEF FrameInv
      <3>2. Kept(d, buckets[d])'
        BY <1>2, <1>6, <2>2, <3>1 DEF Kept
      <3>. QED BY <1>2, <1>5, <1>6, <2>2, <3>1, <3>2 DEF Holding, Kept
    <2>. QED
      BY <1>3, <1>7, <2>1, <2>2 DEF registerStream
  <1>9. buckets' \in [Channels -> Bucket]
    <2>1. buckets' = [d \in Channels |-> buckets'[d]]
      BY <1>7 DEF FrameInv
    <2>. QED BY <1>8, <2>1
  <1>10. ASSUME NEW d \in Channels
         PROVE  /\ AtMost(InTheWindow(admitted[d]), Cap(d))'
                /\ sessions'[d] \in {"new", "gate", "ask"} => admitted'[d] = {}
    BY <1>1, <1>2 DEF FrameInv, AtMost, Cap
  <1>. QED
    BY <1>1, <1>2, <1>8, <1>9, <1>10 DEF FrameInv, SessionsTypeOK

\* As time passes the windows only empty.
LEMMA TickStep ==
    ASSUME FrameInv, Tick, UNCHANGED sessions
    PROVE  FrameInv'
  <1>1. now' = now + 1 /\ now \in Nat /\ UNCHANGED <<buckets, admitted, sessions>>
    BY DEF Tick, FrameInv
  <1>2. ASSUME NEW c \in Channels
        PROVE  InTheWindow(admitted[c])' \in SUBSET InTheWindow(admitted[c])
    <2>1. \A f \in admitted[c] : f.at \in Nat
      BY DEF FrameInv, Frames
    <2>. QED BY <1>1, <2>1, CapsAreNumbers DEF InTheWindow
  <1>3. ASSUME NEW c \in Channels
        PROVE  Holding(c, buckets[c])' /\ AtMost(InTheWindow(admitted[c]), Cap(c))'
    <2>1. AtMost(InTheWindow(admitted[c])', Cap(c))
      BY <1>2, Fewer, CapsAreNumbers DEF FrameInv
    <2>2. buckets[c].lastTouch \in Nat /\ buckets[c].lastTouch <= now
      BY DEF FrameInv, Holding, Kept, Bucket
    <2>3. Kept(c, buckets[c])'
      BY <1>1, <2>2 DEF FrameInv, Holding, Kept
    <2>. QED BY <1>1, <1>2, <2>1, <2>3 DEF FrameInv, Holding, AtMost, Cap
  <1>. QED
    BY <1>1, <1>3 DEF FrameInv, SessionsTypeOK

LEMMA SessionStep == FrameInv /\ (SessionsStep \/ UNCHANGED <<telemetry, sessions>>) => FrameInv'
  <1> SUFFICES ASSUME FrameInv, SessionsStep \/ UNCHANGED <<telemetry, sessions>> PROVE FrameInv'
    OBVIOUS
  <1>1. CASE UNCHANGED <<telemetry, sessions>>
    <2>1. \A c \in Channels : InTheWindow(admitted[c])' = InTheWindow(admitted[c])
      BY <1>1 DEF telemetry, InTheWindow
    <2>. QED BY <1>1, <2>1 DEF telemetry, FrameInv, SessionsTypeOK, Holding, Kept, AtMost, Cap
  <1>2. ASSUME NEW c \in Channels,
               requestSession(c) \/ SessionGate(c) \/ SessionGranted(c) \/ SessionDenied(c) \/ closeSession(c)
        PROVE  FrameInv'
    <2>1. CASE requestSession(c)
      <3>1. PICK state \in {"gate", "closed"} : Turns(c, state)
        BY <2>1 DEF requestSession
      <3>. QED BY <2>1, <3>1, TurnStep DEF requestSession, telemetry
    <2>2. CASE SessionGate(c)
      <3>1. PICK state \in {"ask", "closed"} : Turns(c, state)
        BY <2>2 DEF SessionGate
      <3>. QED BY <2>2, <3>1, TurnStep DEF SessionGate, telemetry
    <2>3. CASE SessionGranted(c)
      BY <2>3, TurnStep DEF SessionGranted
    <2>4. CASE SessionDenied(c)
      BY <2>4, TurnStep DEF SessionDenied, telemetry
    <2>5. CASE closeSession(c)
      BY <2>5, TurnStep DEF closeSession
    <2>. QED BY <1>2, <2>1, <2>2, <2>3, <2>4, <2>5
  <1>3. ASSUME NEW c \in Channels, consumeStreamFrame(c) PROVE FrameInv'
    BY <1>3, FrameStep
  <1>4. ASSUME NEW p, handleCandidate(p) \/ sendIceCandidate(p) PROVE FrameInv'
    BY <1>3, <1>4 DEF handleCandidate, sendIceCandidate, Open, Sessions
  <1>5. CASE Tick /\ UNCHANGED sessions
    BY <1>5, TickStep
  <1>. QED
    BY <1>1, <1>2, <1>3, <1>4, <1>5 DEF SessionsStep, Sessions

LEMMA InitFrames == InitSessions => FrameInv
  <1> SUFFICES ASSUME InitSessions PROVE FrameInv
    OBVIOUS
  <1>1. now = 0 /\ SessionsTypeOK /\ admitted \in [Channels -> SUBSET Frames]
        /\ \A c \in Channels : admitted[c] = {} /\ buckets[c] = NoBucket /\ sessions[c] = "new"
    BY DEF InitSessions, InitTelemetry, SessionsTypeOK, Sessions
  <1>2. NoBucket \in [is : BOOLEAN, cap : Caps, entries : {{}}, denials : {0}, pinchedUntil : {0},
                      lastTouch : {0, now}] /\ NoBucket.cap = Default
    BY DEF NoBucket, Caps
  <1>3. ASSUME NEW c \in Channels
        PROVE  Holding(c, buckets[c]) /\ AtMost(InTheWindow(admitted[c]), Cap(c)) /\ buckets[c] \in Bucket
    <2>1. Holding(c, buckets[c])
      BY <1>1, <1>2, NewHolds
    <2>2. InTheWindow(admitted[c]) = {}
      BY <1>1 DEF InTheWindow
    <2>. QED BY <2>1, <2>2, EmptyHolds, CapsAreNumbers DEF Holding, Kept
  <1>4. buckets = [c \in Channels |-> buckets[c]]
    BY DEF InitSessions, InitTelemetry
  <1>. QED
    BY <1>1, <1>3, <1>4 DEF FrameInv

----------------------------------------------------------------------------
(* The limiter of the fetches of a peer's site. *)

\* A fetch that the limiter lets through.
LEMMA DialStep ==
    ASSUME DialInv, NEW p \in Guests, allow(p), UNCHANGED clock,
           dials' = Dialled(dials, p), dialled' = Dialled(dialled, p)
    PROVE  DialInv' /\ \E f \in Fetches : f \notin dialled[p] /\ dialled'[p] = InDialWindow(dialled[p]) \cup {f}
  <1>1. PICK f : f = Fetch(p)
    OBVIOUS
  <1>2. PICK old : old = InDialWindow(dials[p])
    OBVIOUS
  <1>3. /\ clock \in Nat /\ DialLimit \in Nat /\ DialWindow \in Nat
        /\ dials[p] \in SUBSET Fetches /\ IsFiniteSet(dials[p]) /\ Numbered(dials[p])
    BY SitesAssumption DEF DialInv
  <1>4. f.at = clock /\ f.n = Cardinality({e \in dials[p] : e.at = clock}) + 1 /\ f \in [at : {f.at}, n : {f.n}]
    BY <1>1 DEF Fetch
  <1>5. old \in SUBSET dials[p] /\ {e \in dials[p] : e.at = clock} = {e \in old : e.at = clock}
    BY <1>2, <1>3 DEF InDialWindow
  <1>6. IsFiniteSet(old) /\ Numbered(old) /\ Cardinality(old) \in Nat
    <2>1. \A e \in old, g \in dials[p] : g.at = e.at => g \in old
      BY <1>2 DEF InDialWindow
    <2>. QED BY <1>3, <1>5, <2>1, StillNumbered, FS_Subset, FS_CardinalityType
  <1>7. /\ f \notin old /\ f.n \in Nat /\ Numbered(old \cup {f}) /\ IsFiniteSet(old \cup {f})
        /\ Cardinality(old \cup {f}) = Cardinality(old) + 1
    <2>1. \A e \in old : e.n \in Nat
      BY <1>3, <1>5 DEF Fetches
    <2>. QED BY <1>4, <1>5, <1>6, <2>1, NextFrame
  <1>8. f \in Fetches
    BY <1>3, <1>4, <1>7 DEF Fetches
  <1>9. f \notin dials[p]
    <2>1. f \in dials[p] => f \in old
      BY <1>2, <1>3, <1>4 DEF InDialWindow
    <2>. QED BY <1>7, <2>1
  <1>10. dials' = [dials EXCEPT ![p] = old \cup {f}] /\ dialled' = dials' /\ dialled = dials
    BY <1>1, <1>2 DEF Dialled, DialInv
  <1>11. dials' \in [Guests -> SUBSET Fetches] /\ dials'[p] = old \cup {f}
         /\ \A q \in Guests : q # p => dials'[q] = dials[q]
    <2>1. old \cup {f} \in SUBSET Fetches
      BY <1>3, <1>5, <1>8
    <2>. QED BY <1>10, <2>1 DEF DialInv
  <1>12. AtMost(old \cup {f}, DialLimit)
    BY <1>2, <1>3, <1>6, <1>7 DEF allow, AtMost
  <1>13. ASSUME NEW q \in Guests
         PROVE  /\ IsFiniteSet(dials'[q]) /\ Numbered(dials'[q])
                /\ \A e \in dials'[q] : e.at <= clock
                /\ AtMost(InDialWindow(dials'[q]), DialLimit)
    <2>1. CASE q = p
      <3>1. InDialWindow(dials'[p]) \in SUBSET (old \cup {f})
        BY <1>11 DEF InDialWindow
      <3>2. AtMost(InDialWindow(dials'[p]), DialLimit)
        BY <1>3, <1>12, <3>1, Fewer
      <3>3. \A e \in dials'[p] : e.at <= clock
        BY <1>3, <1>4, <1>5, <1>11 DEF DialInv
      <3>. QED BY <1>7, <1>11, <2>1, <3>2, <3>3
    <2>2. CASE q # p
      BY <1>11, <2>2 DEF DialInv
    <2>. QED BY <2>1, <2>2
  <1>14. DialInv'
    <2>1. \A q \in Guests : InDialWindow(dials[q])' = InDialWindow(dials'[q])
      BY DEF InDialWindow
    <2>. QED BY <1>3, <1>10, <1>11, <1>13, <2>1 DEF DialInv, AtMost
  <1>. QED
    BY <1>2, <1>8, <1>9, <1>10, <1>11, <1>14

LEMMA FetchStep == DialInv /\ [SitesStep]_sites => DialInv'
  <1> SUFFICES ASSUME DialInv, [SitesStep]_sites PROVE DialInv'
    OBVIOUS
  <1>1. CASE UNCHANGED <<clock, dials, dialled>>
    <2>1. \A p \in Guests : InDialWindow(dials[p])' = InDialWindow(dials[p])
      BY <1>1 DEF InDialWindow
    <2>. QED BY <1>1, <2>1 DEF DialInv, AtMost
  <1>2. CASE ClockTicks
    <2>1. clock' = clock + 1 /\ clock \in Nat /\ UNCHANGED <<dials, dialled>> /\ DialLimit \in Nat
      BY <1>2, SitesAssumption DEF ClockTicks, DialInv
    <2>2. ASSUME NEW p \in Guests
          PROVE  AtMost(InDialWindow(dials[p])', DialLimit) /\ \A f \in dials[p] : f.at <= clock + 1
      <3>1. \A f \in dials[p] : f.at \in Nat /\ f.at <= clock
        BY DEF DialInv, Fetches
      <3>2. InDialWindow(dials[p])' \in SUBSET InDialWindow(dials[p])
        BY <2>1, <3>1, SitesAssumption DEF InDialWindow
      <3>3. AtMost(InDialWindow(dials[p]), DialLimit)
        BY DEF DialInv
      <3>. QED BY <2>1, <3>1, <3>2, <3>3, Fewer
    <2>. QED BY <2>1, <2>2 DEF DialInv, AtMost
  <1>3. ASSUME NEW v \in Visits, NEW a \in Paths, serveRemoteSite(v, a) PROVE DialInv'
    <2>1. allow(Visitor[v]) /\ dials' = Dialled(dials, Visitor[v]) /\ dialled' = Dialled(dialled, Visitor[v])
          /\ UNCHANGED clock
      BY <1>3 DEF serveRemoteSite, Serving
    <2>2. CASE Visitor[v] \in Guests
      BY <2>1, <2>2, DialStep
    <2>3. CASE Visitor[v] \notin Guests
      <3>1. UNCHANGED <<clock, dials, dialled>>
        BY <2>1, <2>3 DEF Dialled, DialInv
      <3>. QED BY <1>1, <3>1
    <2>. QED BY <2>2, <2>3
  <1>4. CASE UNCHANGED sites
    BY <1>1, <1>4 DEF sites
  <1>5. ASSUME NEW v \in Visits,
               BrokerGate(v) \/ checkPeerAccess(v) \/ mirrorFetchAndStore(v) \/ FetchFails(v)
        PROVE  DialInv'
    BY <1>1, <1>5 DEF BrokerGate, checkPeerAccess, mirrorFetchAndStore, FetchFails, Serving
  <1>6. ASSUME NEW v \in Visits, NEW a \in Paths, fetchAsset(v, a) PROVE DialInv'
    BY <1>1, <1>6 DEF fetchAsset, Serving
  <1>7. CASE SiteRootStored \/ setAcceptIncomingRequests \/ Restart \/ setTrust
    BY <1>1, <1>7 DEF SiteRootStored, setAcceptIncomingRequests, Publisher, Restart, setTrust
  <1>8. ASSUME NEW dir \in Directories, setSiteRoot(dir) PROVE DialInv'
    BY <1>1, <1>8 DEF setSiteRoot, Publisher
  <1>9. ASSUME NEW p \in Guests, buildKnockData(p) PROVE DialInv'
    BY <1>1, <1>9 DEF buildKnockData
  <1>10. ASSUME NEW k \in signed, requestAccess(k) PROVE DialInv'
    BY <1>1, <1>10 DEF requestAccess, Publisher
  <1>11. ASSUME NEW r \in site.pending, handlePeerAccessRequest(r) PROVE DialInv'
    BY <1>1, <1>11 DEF handlePeerAccessRequest, resolveAccessRequest, Publisher
  <1>. QED
    BY <1>2, <1>3, <1>4, <1>5, <1>6, <1>7, <1>8, <1>9, <1>10, <1>11 DEF SitesStep

LEMMA InitDials == InitSites => DialInv
  <1> SUFFICES ASSUME InitSites PROVE DialInv
    OBVIOUS
  <1>1. \A p \in Guests : InDialWindow({}) = {} /\ dials[p] = {}
    BY DEF InitSites, InDialWindow
  <1>. QED
    BY <1>1, EmptyHolds, FS_EmptySet, SitesAssumption DEF InitSites, DialInv, AtMost

\* However the sweeps, the closings, the pinches and the frames of the channels fall,
\* no window lets through more frames of a session than its cap or the default; and no
\* window sees more fetches of a peer's site than the limiter has room for.
THEOREM WindowsKept == FairPlugins => []WindowsHold
  <1>1. InitPlugins => FrameInv /\ DialInv
    BY InitFrames, InitDials DEF InitPlugins
  <1>2. FrameInv /\ DialInv /\ [NextPlugins]_allvars => (FrameInv /\ DialInv)'
    <2> SUFFICES ASSUME FrameInv, DialInv, [NextPlugins]_allvars PROVE FrameInv' /\ DialInv'
      OBVIOUS
    <2>1. SessionsStep \/ UNCHANGED <<telemetry, sessions>>
      BY DEF NextPlugins, NextMessages, NextCalls, Plays, NextSessions, NextSite, allvars
    <2>2. [SitesStep]_sites
      BY DEF NextPlugins, NextMessages, NextCalls, Plays, NextSessions, NextSite, allvars
    <2>. QED BY <2>1, <2>2, SessionStep, FetchStep
  <1>3. FrameInv /\ DialInv => WindowsHold
    <2> SUFFICES ASSUME FrameInv, DialInv PROVE WindowHolds /\ DialsBounded
      BY DEF WindowsHold
    <2>1. WindowHolds
      BY DEF FrameInv, WindowHolds, InWindow, AtMost, Cap
    <2>2. DialsBounded
      BY DEF DialInv, DialsBounded, AtMost
    <2>. QED BY <2>1, <2>2
  <1>. QED
    BY <1>1, <1>2, <1>3, PTL DEF FairPlugins

\* The plugins on one page: what each was shown to keep by itself it keeps there.
THEOREM TogetherTheyHold == FairPlugins => [](VerifiedIsProven /\ AccessByLeave /\ AnswerIsTrue) /\ KeptAsJudged
  <1>1. InitPlugins => Init /\ InitSites /\ InitMedia
    BY DEF InitPlugins
  <1>2. [NextPlugins]_allvars => [Next]_vars /\ [SitesStep]_sites /\ [MediaStep]_media
    BY DEF NextPlugins, NextMessages, NextCalls, Plays, NextSessions, NextSite, allvars
  <1>3. FairPlugins => Spec /\ (InitSites /\ [][SitesStep]_sites) /\ (InitMedia /\ [][MediaStep]_media)
    BY <1>1, <1>2, PTL DEF FairPlugins, Spec
  <1>. QED
    BY <1>3, VerifiedHolds, JudgedKept, LeaveNeeded, AnswersTrue, PTL

=============================================================================
