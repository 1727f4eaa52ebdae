----------------------------- MODULE MCTransport -----------------------------
(***************************************************************************)
(* Instances of Transport.                                                 *)
(***************************************************************************)
EXTENDS Transport

CONSTANTS t1, t2, u1, u2, main, alias

TwoTasks == {t1, t2}
TwoUsers == {u1, u2}

Extra == Events \ {"forward", "alias", "send"}
With(base, extras) ==
    [e \in Events |-> IF e \in DOMAIN base THEN base[e] ELSE IF e \in extras THEN 1 ELSE 0]

\* Two callers, one of them for another identity, that connect and send.
Shared ==
    {With([forward |-> 1, alias |-> 1, send |-> 1], {a}) : a \in Extra \ {"remove", "stop"}}
    \cup {With([forward |-> 1, alias |-> 1], a) :
            a \in {{"remove"}, {"close", "packet"}, {"close", "inbound"}}}

\* One caller that connects and sends, with any two events.
Alone ==
    {With([forward |-> 1, send |-> 1], {a, b}) : a \in Extra, b \in Extra}
    \cup {With([forward |-> 1, send |-> 2], {"close", "remove"})}

All == Shared \cup Alone

Identities == {main, alias}
=============================================================================
