-------------------------------- MODULE Chat ---------------------------------
(* The plugins contacts and chat in one process.                              *)
(* Contacts (src/plugins/contacts): who is known to the node and how far it   *)
(* is trusted.  The whole book is one stored document: every operation reads  *)
(* it, changes its own copy and writes the copy back, and nothing puts the    *)
(* operations in a row.  verifyPeer holds its copy while the peer signs a     *)
(* challenge over the network.  What an operation is asked is chosen when it  *)
(* changes the book: nothing depends on it before.  Labels are left out.      *)
(* Chat (src/plugins/chat): messages to and from peers.  All threads are one  *)
(* stored index, which sendMessage and receiveMessage read, append to in      *)
(* their own copy and write back, with no queue between them.  A received     *)
(* message is judged by what the book says of its sender before the index is  *)
(* read: the two plugins share that book through storage only, and contacts   *)
(* alone writes it.  The text, the thread and the time are left out.          *)

CONSTANTS Peers,    \* the peers that may become contacts
          Clerks,   \* the operations that may be under way together
          NoBook    \* an operation has loaded nothing

VARIABLES
    book,     \* contactBook as stored: the trust state of every peer
    clerks,   \* per operation: its step, whom it verifies, the book it loaded
    proven    \* history: the peers that ever signed a challenge

contacts == <<book, clerks, proven>>

TrustStates == {"unknown", "pending", "verified", "blocked"}

Resting == [step |-> "idle", peer |-> NoBook, book |-> NoBook]

ContactsTypeOK ==
    /\ book \in [Peers -> TrustStates]
    /\ clerks \in [Clerks -> [step : {"idle", "loaded", "asked"}, peer : Peers \cup {NoBook},
                              book : [Peers -> TrustStates] \cup {NoBook}]]
    /\ proven \subseteq Peers

InitContacts ==
    /\ book = [p \in Peers |-> "unknown"]
    /\ clerks = [c \in Clerks |-> Resting]
    /\ proven = {}

loadBook(c) ==
    /\ clerks[c].step = "idle"
    /\ clerks' = [clerks EXCEPT ![c] = [@ EXCEPT !.step = "loaded", !.book = book]]
    /\ UNCHANGED <<book, proven>>

findContact(c, p) == clerks[c].book[p] # "unknown"

saveBook(c, b) ==
    /\ book' = b
    /\ clerks' = [clerks EXCEPT ![c] = Resting]

\* A contact that is already there keeps its trust.
addContact(c) ==
    /\ clerks[c].step = "loaded"
    /\ \E p \in Peers :
          saveBook(c, IF findContact(c, p) THEN clerks[c].book
                      ELSE [clerks[c].book EXCEPT ![p] = "pending"])
    /\ UNCHANGED proven

removeContact(c) ==
    /\ clerks[c].step = "loaded"
    /\ \E p \in Peers : findContact(c, p) /\ saveBook(c, [clerks[c].book EXCEPT ![p] = "unknown"])
    /\ UNCHANGED proven

\* Mutant: one write path for every state.
setTrustStateTrusted(c) ==
    /\ clerks[c].step = "loaded"
    /\ \E p \in Peers, state \in {"blocked", "pending", "verified"} :
          findContact(c, p) /\ saveBook(c, [clerks[c].book EXCEPT ![p] = state])
    /\ UNCHANGED proven

\* blockContact and unblockContact, whatever the state before.
setTrustState(c) ==
    /\ clerks[c].step = "loaded"
    /\ \E p \in Peers, state \in {"blocked", "pending"} :
          findContact(c, p) /\ saveBook(c, [clerks[c].book EXCEPT ![p] = state])
    /\ UNCHANGED proven

\* The challenge leaves for the peer; the copy of the book waits.
Challenge(c) ==
    /\ clerks[c].step = "loaded"
    /\ \E p \in Peers :
          /\ findContact(c, p)
          /\ clerks' = [clerks EXCEPT ![c].step = "asked", ![c].peer = p]
    /\ UNCHANGED <<book, proven>>

\* The answer carries p's signature over the nonce.
verifyPeer(c) ==
    /\ clerks[c].step = "asked"
    /\ LET p == clerks[c].peer IN
          /\ saveBook(c, [clerks[c].book EXCEPT ![p] = "verified"])
          /\ proven' = proven \cup {p}

\* Not found, no signature, a wrong one, no network: nothing is written.
GiveUp(c) ==
    /\ clerks[c].step # "idle"
    /\ clerks' = [clerks EXCEPT ![c] = Resting]
    /\ UNCHANGED <<book, proven>>

ContactsStep ==
    \E c \in Clerks : \/ loadBook(c) \/ addContact(c) \/ removeContact(c) \/ setTrustState(c)
                      \/ Challenge(c) \/ verifyPeer(c) \/ GiveUp(c)

-----------------------------------------------------------------------------
CONSTANTS Messages,   \* the messages that may be sent to or by this node
          Sender,     \* whom a message claims to be from; the node's own have no peer
          Genuine,    \* the received messages their sender really signed
          Talks,      \* the operations of chat that may be under way together
          NoMessage

VARIABLES
    index,      \* chatIndex as stored: pairs of a message and its verified flag
    talks,      \* per operation: its step, its message, the flag, the index it loaded
    notify,     \* the stored opt-in for assignment notifications
    fresh       \* bound: every message is sent once

chat == <<index, talks, notify, fresh>>

Incoming == {m \in Messages : Sender[m] \in Peers}
Silent   == [step |-> "idle", msg |-> NoMessage, flag |-> FALSE, index |-> {}]

ChatTypeOK ==
    /\ index \subseteq (Messages \X BOOLEAN)
    /\ talks \in [Talks -> [step : {"idle", "sending", "judging", "kept", "loaded", "saved"},
                            msg : Messages \cup {NoMessage}, flag : BOOLEAN,
                            index : SUBSET (Messages \X BOOLEAN)]]
    /\ notify \in BOOLEAN /\ fresh \subseteq Messages

InitChat ==
    /\ index = {} /\ notify = FALSE /\ fresh = Messages
    /\ talks = [t \in Talks |-> Silent]

Begin(t, m, step) ==
    /\ talks[t].step = "idle" /\ m \in fresh
    /\ fresh' = fresh \ {m}
    /\ talks' = [talks EXCEPT ![t] = [@ EXCEPT !.step = step, !.msg = m]]
    /\ UNCHANGED <<index, notify>>

At(t, step) == talks[t].step = step

Becomes(t, step, flag) ==
    talks' = [talks EXCEPT ![t] = [@ EXCEPT !.step = step, !.flag = flag]]

\* The operator sends; the message is signed and the peer is called.
sendMessage(t) == \E m \in Messages \ Incoming : Begin(t, m, "sending")

setAutoNotifyAssignments ==
    /\ notify' = ~notify
    /\ UNCHANGED <<index, talks, fresh>>

\* The hook of tasks' assignResource sends for the operator who opted in; it heeds
\* no other update of a task.
onTaskUpdated(t) == notify /\ sendMessage(t)

\* Delivered or not, the node keeps its own copy.
Delivered(t) ==
    /\ At(t, "sending")
    /\ Becomes(t, "kept", TRUE)
    /\ UNCHANGED <<index, notify, fresh>>

\* A message to this node arrives, well formed.
receiveMessage(t) == \E m \in Incoming : Begin(t, m, "judging")

\* findContactPublicKey, asked now, and what follows from its answer.
Trusts(m) == book[Sender[m]] \in {"pending", "verified"}

\* Mutant: only the signature is looked at.
RefusesUnsigned(m) == Trusts(m) /\ m \notin Genuine

Refuses(m) == book[Sender[m]] = "blocked" \/ (Trusts(m) /\ m \notin Genuine)

Judge(t) ==
    /\ At(t, "judging")
    /\ LET m == talks[t].msg IN
          IF Refuses(m)
          THEN talks' = [talks EXCEPT ![t] = Silent]
          ELSE Becomes(t, "kept", Trusts(m))
    /\ UNCHANGED <<index, notify, fresh>>

loadIndex(t) ==
    /\ At(t, "kept")
    /\ talks' = [talks EXCEPT ![t] = [@ EXCEPT !.step = "loaded", !.index = index]]
    /\ UNCHANGED <<index, notify, fresh>>

appendMessage(t) ==
    /\ At(t, "loaded")
    /\ index' = talks[t].index \cup {<<talks[t].msg, talks[t].flag>>}
    /\ talks' = [talks EXCEPT ![t] = [@ EXCEPT !.step = "saved", !.index = {}]]
    /\ UNCHANGED <<notify, fresh>>

\* The hook chat:messageReceived is awaited, then the caller is answered.
Answer(t) ==
    /\ At(t, "saved")
    /\ talks' = [talks EXCEPT ![t] = Silent]
    /\ UNCHANGED <<index, notify, fresh>>

ChatStep ==
    \/ setAutoNotifyAssignments
    \/ \E t \in Talks : \/ sendMessage(t) \/ onTaskUpdated(t) \/ Delivered(t)
                        \/ receiveMessage(t) \/ Judge(t)
                        \/ loadIndex(t) \/ appendMessage(t) \/ Answer(t)

-----------------------------------------------------------------------------
VARIABLE barred   \* history: received messages whose sender was blocked all along

vars == <<contacts, chat, barred>>

Init == InitContacts /\ InitChat /\ barred = {}

\* Stored documents survive; what the operations hold does not.
Crash ==
    /\ clerks' = [c \in Clerks |-> Resting]
    /\ talks' = [t \in Talks |-> Silent]
    /\ UNCHANGED <<book, proven, index, notify, fresh>>

Step ==
    \/ ContactsStep /\ UNCHANGED chat
    \/ ChatStep /\ UNCHANGED contacts
    \/ Crash

Remember ==
    barred' = {t \in Talks : /\ talks'[t].step # "idle" /\ talks'[t].msg \in Incoming
                             /\ book'[Sender[talks'[t].msg]] = "blocked"
                             /\ t \in barred \/ talks[t].step = "idle"}

Next == Step /\ Remember

Spec == Init /\ [][Next]_vars

TypeOK == ContactsTypeOK /\ ChatTypeOK /\ barred \subseteq Talks

----------------------------------------------------------------------------
\* Whatever copies of the book overwrite one another, a contact is on record as
\* verified only if it signed a challenge once.
VerifiedIsProven == \A p \in Peers : book[p] = "verified" => p \in proven

\* A message whose sender was blocked from its arrival on is not kept, and one
\* kept as verified was signed by its sender, though the book may change
\* between the look-up and the save.
KeptAsJudged ==
    [][\A t \in Talks : At(t, "loaded") /\ talks'[t].step = "saved" =>
          LET m == talks[t].msg IN
             /\ t \notin barred'
             /\ talks[t].flag /\ m \in Incoming => m \in Genuine]_vars

=============================================================================
