--------------------------- MODULE MCNetworkView ----------------------------
(***************************************************************************)
(* Instances of NetworkView: one peer, with or without the relay server,   *)
(* and how often every operation may be called.                            *)
(***************************************************************************)
EXTENDS NetworkView, TLC

CONSTANTS peer, relay, a1, a2, ra, p1, p2, p3

WithRelay == peer :> {a1} @@ relay :> {ra}

TwoAndRelay == peer :> {a1, a2} @@ relay :> {ra}

Symmetry == Permutations(Procs)

CallsOf(f) == [o \in Operations |-> IF o \in DOMAIN f THEN f[o] ELSE 0]

\* A call that races with the peer's own handshake.
ConnectTwice == {CallsOf([session |-> 1, accept |-> 1])}

\* The relay server and a peer that can be reached through it.
RelayedCalls == {CallsOf([server |-> 1, session |-> 1, close |-> 1])}

\* With the peer directly, by its own handshake, and disconnected meanwhile.
RelayedOrRaced ==
    RelayedCalls \cup {CallsOf([session |-> 1, accept |-> 1, disconnect |-> 1])}

(***************************************************************************)
(* A call that races with a handshake or with a disconnection; a notified  *)
(* peer that is called back, answers, and is aborted or closed; the relay  *)
(* server connected twice, disconnected and closed.                        *)
(***************************************************************************)
PairsAndMore ==
    ConnectTwice \cup
        {CallsOf([session |-> 1, disconnect |-> 1]),
         CallsOf([notified |-> 1, accept |-> 1, close |-> 1]),
         CallsOf([notified |-> 1, accept |-> 1, abort |-> 1]),
         CallsOf([server |-> 2, disconnect |-> 1, close |-> 1])}
=============================================================================
