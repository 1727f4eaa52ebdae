-------------------------- MODULE SessionContract ---------------------------
(***************************************************************************)
(* What NetworkView promises about the session with a node: it is free,    *)
(* being initialised, up or closing.  An attempt to connect starts a new   *)
(* generation; the session is up only as a continuation of that attempt    *)
(* and closes for good.                                                    *)
(***************************************************************************)
EXTENDS Naturals

CONSTANT Nodes

VARIABLES
    gen,     \* the generation of the session, 0 when free
    phase,   \* "free", "connecting", "up" or "closing"
    last     \* the greatest generation in use so far

vars == <<gen, phase, last>>

Init ==
    /\ gen = [n \in Nodes |-> 0]
    /\ phase = [n \in Nodes |-> "free"]
    /\ last = 0

(***************************************************************************)
(* A generation is given to a view that has no session.                    *)
(***************************************************************************)
Reserve == last' = last + 1 /\ UNCHANGED <<gen, phase>>

Acquire(n) ==
    /\ phase[n] = "free"
    /\ last' = last + 1
    /\ gen' = [gen EXCEPT ![n] = last + 1]
    /\ phase' = [phase EXCEPT ![n] = "connecting"]

Establish(n) ==
    /\ phase[n] = "connecting"
    /\ phase' = [phase EXCEPT ![n] = "up"]
    /\ UNCHANGED <<gen, last>>

(***************************************************************************)
(* Closing may start at any time, also for a view without a session.       *)
(***************************************************************************)
Close(n) ==
    /\ phase' = [phase EXCEPT ![n] = "closing"]
    /\ \E g \in 1..last :
         /\ gen[n] \in {0, g}
         /\ \A m \in Nodes \ {n} : gen[m] # g
         /\ gen' = [gen EXCEPT ![n] = g]
    /\ UNCHANGED last

Release(n) ==
    /\ gen' = [gen EXCEPT ![n] = 0]
    /\ phase' = [phase EXCEPT ![n] = "free"]
    /\ UNCHANGED last

Next == Reserve \/ \E n \in Nodes : Acquire(n) \/ Establish(n) \/ Close(n) \/ Release(n)

Spec == Init /\ [][Next]_vars

=============================================================================
