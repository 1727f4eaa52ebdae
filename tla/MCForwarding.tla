---------------------------- MODULE MCForwarding ----------------------------
(***************************************************************************)
(* Instances of Forwarding.                                                *)
(***************************************************************************)
EXTENDS Forwarding, TLC, SequencesExt

CONSTANTS a, b, b2

TwoClients == {a, b}
ThreeIds == {a, b, b2}
Identities == (a :> {a}) @@ (b :> {b, b2})
Slots == (a :> 1) @@ (b :> 2)

Mix(f) == [e \in Events |-> IF e \in DOMAIN f THEN f[e] ELSE {}]

\* Each client sends one packet, or a goes on sending and b sends at most one of its own.
AllMixes ==
    {Mix([once |-> {a, b}, restart |-> {a, b}]),
     Mix([send |-> {a}, once |-> {b}, restart |-> {b}]),
     Mix([send |-> {a}, once |-> {b}, restart |-> {a}]),
     Mix([send |-> {a}, restart |-> {a, b}]),
     Mix([send |-> {a}, restart |-> {b}, forget |-> {a}]),
     Mix([send |-> {a}, restart |-> {b}, forget |-> {b}]),
     Mix([send |-> {a}, restart |-> {b}, slot |-> {b}, disconnect |-> {a}]),
     Mix([send |-> {a}, restart |-> {b}, pause |-> {a, b}]),
     Mix([send |-> {a}, restart |-> {b}, query |-> {a}])}

\* Client b restarts while the relay still has its session, and registers with the same id.
SameAddress == {Mix([send |-> {a}, same |-> {b}, restart |-> {b}])}

\* RemoveAll removes the identities one by one, in any order.
ASSUME
    LET E == {[default |-> a, identities |-> {a, b2}], [default |-> b, identities |-> {b}],
              [default |-> b, identities |-> {b, b2}], NoEntry}
        F == {f \in [slots : [SlotIds -> E], nodes : [NodeIds -> SlotIds \cup {NoSlot}]] : Agree(f)}
    IN  \A f \in F : \A s \in SetToSeqs(NodeIds) : RemoveAll(f, NodeIds) = FoldLeft(RemoveNode, f, s)
=============================================================================
