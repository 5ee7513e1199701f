-------------------------------- MODULE MCLan --------------------------------
(* Instances of Lan.  Roaming: one call to a peer that may come back as a    *)
(* second instance, or whose address another peer may take over.  Loaded:    *)
(* two calls and the handshakes of one instance, over several connections.   *)
(* Subscribed: one call and one subscription or event of one instance.       *)
(* Abroad: two calls over the WAN transport.                                  *)
EXTENDS Lan, TLC

CONSTANTS bob, carol, i1, i2, a1, a2, k1, k2, x1, x2, w1, w2

ToBob == k1 :> bob @@ k2 :> bob

SecondIsAny == i1 :> {bob} @@ i2 :> {bob, carol}
SamePlace == i1 :> {a1} @@ i2 :> {a1}

Roaming == [instances |-> {i1, i2}, calls |-> {k1}, conns |-> {x1}, changes |-> 1, exchanges |-> 0]
Loaded == [instances |-> {i1}, calls |-> {k1, k2}, conns |-> {x1, x2}, changes |-> 0, exchanges |-> 0]

Abroad == [instances |-> {}, calls |-> {}, conns |-> {}, changes |-> 0, exchanges |-> 0]

Subscribed == [instances |-> {i1}, calls |-> {k1}, conns |-> {x1, x2}, changes |-> 0,
               exchanges |-> 1]

AllScenes == {Roaming, Loaded, Subscribed, Abroad}
=============================================================================
