--------------------------- MODULE MCRelaySession ----------------------------
(***************************************************************************)
(* Instances of RelaySession.                                              *)
(***************************************************************************)
EXTENDS RelaySession, TLC

CONSTANTS c1, c2, c3, a1, a2, a3, a4

ThreeClients == {c1, c2, c3}
FourAddrs == {a1, a2, a3, a4}
Homes == (c1 :> a1) @@ (c2 :> a2) @@ (c3 :> a3)
OldOne == {c3}

Copies == {"dup", "resend"}
Faults == Copies \cup {"lose", "late", "early", "rebind", "restart", "call", "ask", "reconnect",
                       "overtake", "purge", "tick", "stop", "crash"}
Numbers == Faults \cup {"static", "state"}
Mix(clients, f) ==
    [e \in Numbers \cup {"on"} |-> IF e = "on" THEN clients ELSE IF e \in DOMAIN f THEN f[e] ELSE 0]

\* Two events.  A copy of an answer that comes when the session has been removed, and creates it
\* again without a registration, is left out: there Recovers is false (see the README).
Pairs(f, g) == {{x, y} : x \in f, y \in g}
Removals == {"reconnect", "purge"}
Apart == Pairs(Faults, Faults) \ Pairs(Copies, Removals)

AllMixes ==
    {Mix({c1}, [e \in p |-> 1]) : p \in Apart}
    \cup {Mix({c1}, [e \in p \cup {"static", "state"} |-> 1]) : p \in Pairs(Faults \ Copies, {"stop", "crash"})}
    \cup {Mix({c1}, [tick |-> 3, static |-> 1]), Mix({c1}, [tick |-> 3, stop |-> 1, static |-> 1])}
    \cup {Mix({c1, c2}, [rebind |-> 2]), Mix({c1, c3}, [lose |-> 1])}
=============================================================================
