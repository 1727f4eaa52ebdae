----------------------------- MODULE MCDiscovery -----------------------------
(***************************************************************************)
(* Instances of Discovery: a client and three other nodes, one at distance *)
(* one, two at distance two.                                               *)
(***************************************************************************)
EXTENDS Discovery, TLC

CONSTANTS zero, me, n1, n2, n3, k1, k2

FiveNodes == {zero, me, n1, n2, n3}
TwoCallers == {k1, k2}
IdBits ==
    (zero :> <<0, 0, 0, 0>>) @@ (me :> <<1, 0, 0, 0>>) @@ (n1 :> <<1, 0, 1, 0>>) @@ (n2 :> <<0, 0, 1, 0>>)
        @@ (n3 :> <<1, 1, 1, 0>>)

Events == {"join", "leave", "broadcast", "fail", "expire", "invalidate", "connect", "close", "offline", "mode",
           "split", "busy", "list"}
Mix(index, f) ==
    [e \in Events \cup {"index"} |-> IF e = "index" THEN index ELSE IF e \in DOMAIN f THEN f[e] ELSE 0]

Index(S, status) == [n \in FiveNodes |-> IF n \in S THEN status ELSE "none"]

AllMixes ==
    \* Nodes are asked for while the relay's process ends and starts, with and without a broadcast.
    {Mix(Index({n1, n2, n3}, "valid"), [busy |-> 1]),
     Mix(Index({me, n1, n2}, "valid"), [busy |-> 1, broadcast |-> 1])}
    \* Broadcasts while nodes come and go and the neighbourhood changes.
    \cup {Mix(Index({me, n1, n2}, "valid"), [broadcast |-> 2, join |-> 1, leave |-> 1, expire |-> 1])}
    \cup {Mix(Index({me, n1, n2, n3}, "valid"), [broadcast |-> 2, leave |-> 1] @@ f) :
             f \in {[connect |-> 1, close |-> 1], [expire |-> 1, offline |-> 1], [expire |-> 1, fail |-> 1]}}
    \* The operator of the relay lists nodes.
    \cup {Mix(Index({me, n1, n2, n3}, "valid"), [list |-> 1, join |-> 1, leave |-> 2])}
    \* A client without a public address, with and without split mode.
    \cup {Mix([Index({me, n1, n2, n3}, "valid") EXCEPT ![me] = "invalid", ![n2] = "invalid"],
             [broadcast |-> 2, join |-> 1, leave |-> 1, invalidate |-> 1, mode |-> 1, split |-> 1])}
=============================================================================
