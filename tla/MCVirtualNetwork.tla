-------------------------- MODULE MCVirtualNetwork --------------------------
(***************************************************************************)
(* Instances of VirtualNetwork.                                            *)
(***************************************************************************)
EXTENDS VirtualNetwork, TLC

CONSTANTS r1, r2, t1, t2

TwoRemotes == {r1, r2}
TwoTasks == {t1, t2}

\* No step reads lost.
View == <<sock, bindings, connections, handles, taken, task, closer>>

Symmetry == Permutations(Remotes) \cup Permutations(Tasks)
=============================================================================
