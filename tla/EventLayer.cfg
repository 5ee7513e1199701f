SPECIFICATION FairScenes
CONSTANTS
    alice = alice
    bob = bob
    s1 = s1
    s2 = s2
    s3 = s3
    Peers = {alice, bob}
    Subs = {s1, s2, s3}
    PeerOf <- TwoPeers
    Wildcards = {s2}
    MaxSeq = 2
    Emits = {e1}
    MaxPerPeer = 1
    MaxPerTopic = 1
    MaxChanges = 2
INVARIANT CapsHold
PROPERTIES RemovedPeerGetsNothing TablesAgree
CHECK_DEADLOCK FALSE
