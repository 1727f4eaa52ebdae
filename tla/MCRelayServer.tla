--------------------------- MODULE MCRelayServer ---------------------------
(***************************************************************************)
(* Instances of RelayServer: clients with and without an alias, and what   *)
(* arrives at the server.                                                  *)
(***************************************************************************)
EXTENDS RelayServer, TLC

CONSTANTS a, alias

\* One client with a second identity.
OneClient == a :> {a, alias}

\* One client with one identity.
OneNode == a :> {a}

Symmetry == Permutations(Workers)

ArrivalsOf(f) == [k \in Kinds |-> IF k \in DOMAIN f THEN f[k] ELSE 0]

(***************************************************************************)
(* Two sessions of a client register, one is removed, and the client is    *)
(* looked up; or the server ends and starts again, maybe while it saves,   *)
(* and one session registers.                                              *)
(***************************************************************************)
RegistrationsOrRestarts ==
    {ArrivalsOf([session |-> 2, register |-> 2, query |-> 1, remove |-> 1]),
     ArrivalsOf([session |-> 2, register |-> 1, check |-> 1, end |-> 2])}

\* A client registers twice, is silent or unreachable, and comes back.
Checks ==
    {ArrivalsOf([session |-> 2, register |-> 2, ping |-> 1, unreachable |-> 1, silence |-> 1])}
=============================================================================
