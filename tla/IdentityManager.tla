--------------------------- MODULE IdentityManager ---------------------------
(* The node's key pair and the vault that keeps it                           *)
(* (core/src/identity/identity-manager.ts, core/src/storage/vault-manager.ts) *)
(* Each caller of getOrCreateIdentity runs on its own: two reads of the      *)
(* vault, then, if a half is missing or does not decrypt, a new pair and two *)
(* writes through the write queue of the file.  A secret is reduced to the   *)
(* number of the pair it belongs to and the key that sealed it; a file       *)
(* without entries is no file, for only setSecret creates it.                *)
EXTENDS Naturals, Sequences

CONSTANTS
    Callers,   \* who may call getOrCreateIdentity
    Keys,      \* master keys
    None,
    MaxPairs   \* bound: key pairs made over the life of the data directory

ASSUME IdentityAssumption ==
    /\ MaxPairs \in Nat
    /\ None \notin Keys \union (1..MaxPairs) \union [pair : 1..MaxPairs, key : Keys]
    /\ None \notin [public : 1..MaxPairs, private : 1..MaxPairs]

VARIABLES
    vault,      \* vault.json
    masterKey,  \* the key of the VaultManager, None while no process runs
    identity,   \* the pair that the IdentityManager holds in memory
    caller,     \* per call of getOrCreateIdentity: its place and its locals
    queue,      \* the write queue of vault.json: calls whose setSecret waits
    made        \* pairs generated so far

identityVars == <<vault, masterKey, identity, caller, queue, made>>

Pairs == 1..MaxPairs
Secrets == {"public", "private"}
NoSecrets == [s \in Secrets |-> None]

\* One call: its place, the public half that it read and in the end returns, and
\* the pair that it made.
Place(at, public, pair) == [at |-> at, public |-> public, pair |-> pair]
NotCalled == Place("idle", None, None)

Entry == [pair : Pairs, key : Keys]
CallerRecord ==
    [at : {"idle", "public", "private", "writePrivate", "writePublic", "done"},
     public : Pairs \union {None},
     pair : Pairs \union {None}]

IdentityTypeOK ==
    /\ vault \in [Secrets -> Entry \union {None}]
    /\ masterKey \in Keys \union {None}
    /\ identity \in [public : Pairs, private : Pairs] \union {None}
    /\ caller \in [Callers -> CallerRecord]
    /\ queue \in Seq(Callers)
    /\ made \in 0..MaxPairs

-----------------------------------------------------------------------------
(* VaultManager *)

HasVaultFile == \E s \in Secrets : vault[s] # None

VerifyKey(k) ==
    /\ HasVaultFile
    /\ \A s \in Secrets : vault[s] # None => vault[s].key = k

\* A secret sealed by another key reads as absent.
GetSecret(s) ==
    IF vault[s] # None /\ vault[s].key = masterKey THEN vault[s].pair ELSE None

SetSecret(s, pair) == vault' = [vault EXCEPT ![s] = [pair |-> pair, key |-> masterKey]]

-----------------------------------------------------------------------------
(* IdentityManager.getOrCreateIdentity *)

\* What a call does before its first await.
CallIdentity(c) ==
    caller' = [caller EXCEPT ![c] = IF identity # None
                                    THEN Place("done", identity.public, None)
                                    ELSE Place("public", None, None)]

ReadPublic(c) ==
    /\ caller[c].at = "public"
    /\ caller' = [caller EXCEPT ![c] = Place("private", GetSecret("public"), None)]
    /\ UNCHANGED <<vault, masterKey, identity, queue, made>>

Reuse(c) ==
    /\ identity' = [public |-> caller[c].public, private |-> GetSecret("private")]
    /\ caller' = [caller EXCEPT ![c] = Place("done", caller[c].public, None)]
    /\ UNCHANGED <<queue, made>>

\* Mutant: the writes are not awaited, the pair counts at once.
GenerateUnsaved(c) ==
    /\ made < MaxPairs
    /\ made' = made + 1
    /\ identity' = [public |-> made + 1, private |-> made + 1]
    /\ caller' = [caller EXCEPT ![c] = Place("done", made + 1, None)]
    /\ UNCHANGED queue

Generate(c) ==
    /\ made < MaxPairs
    /\ made' = made + 1
    /\ caller' = [caller EXCEPT ![c] = Place("writePrivate", None, made + 1)]
    /\ queue' = Append(queue, c)
    /\ UNCHANGED identity

ReadPrivate(c) ==
    /\ caller[c].at = "private"
    /\ IF caller[c].public # None /\ GetSecret("private") # None
         THEN Reuse(c)
         ELSE Generate(c)
    /\ UNCHANGED <<vault, masterKey>>

\* Mutant: the public half is never queued.
WritePrivateOnly(c) ==
    /\ caller[c].at = "writePrivate"
    /\ queue # <<>> /\ Head(queue) = c
    /\ SetSecret("private", caller[c].pair)
    /\ queue' = Tail(queue)
    /\ caller' = [caller EXCEPT ![c] = Place("writePublic", None, caller[c].pair)]
    /\ UNCHANGED <<masterKey, identity, made>>

\* The write of the private half is done; its caller goes on to the public one.
WritePrivate(c) ==
    /\ caller[c].at = "writePrivate"
    /\ queue # <<>> /\ Head(queue) = c
    /\ SetSecret("private", caller[c].pair)
    /\ queue' = Append(Tail(queue), c)
    /\ caller' = [caller EXCEPT ![c] = Place("writePublic", None, caller[c].pair)]
    /\ UNCHANGED <<masterKey, identity, made>>

WritePublic(c) ==
    /\ caller[c].at = "writePublic"
    /\ queue # <<>> /\ Head(queue) = c
    /\ SetSecret("public", caller[c].pair)
    /\ queue' = Tail(queue)
    /\ identity' = [public |-> caller[c].pair, private |-> caller[c].pair]
    /\ caller' = [caller EXCEPT ![c] = Place("done", caller[c].pair, None)]
    /\ UNCHANGED <<masterKey, made>>

IdentityStep(c) ==
    ReadPublic(c) \/ ReadPrivate(c) \/ WritePrivate(c) \/ WritePublic(c)

\* The process is gone; what is on disk stays.
ForgetIdentity ==
    /\ masterKey' = None
    /\ identity' = None
    /\ caller' = [c \in Callers |-> NotCalled]
    /\ queue' = <<>>
    /\ UNCHANGED <<vault, made>>
=============================================================================
