---------------------------- MODULE MCHandshake -----------------------------
(***************************************************************************)
(* Instances of Handshake.                                                 *)
(***************************************************************************)
EXTENDS Handshake, TLC

CONSTANTS n1, n2, n3, a1, a2, r1, r2

ThreeNodes == {n1, n2, n3}
TwoAttempts == {a1, a2}
TwoIds == {r1, r2}

\* n1 or n3 calls n2; the other call is of the same node, of the third node, or the one back.
Callers == {n1, n3}
CallMixes ==
    {f \in [Attempts -> (Callers \X {n2}) \cup ({n2} \X Callers)] :
       \E a \in Attempts : f[a][2] = n2 /\
         \A b \in Attempts \ {a} : f[b][2] = n2 \/ f[b] = <<n2, f[a][1]>>}

Symmetry == Permutations(Attempts) \cup Permutations(Rids) \cup Permutations(Callers)
=============================================================================
