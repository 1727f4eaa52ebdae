--------------------------- MODULE AllowedForwards ---------------------------
(***************************************************************************)
(* The tables of a session that say which nodes packets are forwarded for: *)
(* AllowedForwards of direct_session.rs.  `slots` has the entry of a slot, *)
(* a node with all its identities, and `nodes` the slot of an identity.    *)
(* Both are total functions here; NoSlot and NoEntry stand for no key.     *)
(***************************************************************************)
EXTENDS Integers

CONSTANTS NodeIds, SlotIds

\* Slots are numbers; 0 is FORWARD_SLOT_ID, which no node is given.
ASSUME SlotIdsAssumption == SlotIds \subseteq Nat \ {0}

NoSlot == 0
NodeEntries == [default : NodeIds, identities : SUBSET NodeIds]
NoEntry == [default |-> NoSlot, identities |-> {}]

Forwards ==
    [slots : [SlotIds -> NodeEntries \cup {NoEntry}], nodes : [NodeIds -> SlotIds \cup {NoSlot}]]

Empty == [slots |-> [s \in SlotIds |-> NoEntry], nodes |-> [i \in NodeIds |-> NoSlot]]

-----------------------------------------------------------------------------
(* The operations *)

\* get_slot and get_by_slot
SlotOf(f, i) == f.nodes[i]
BySlot(f, s) == f.slots[s]

\* remove, of every identity of a set: the slots of these, and every identity of the entries
\* that had them.
RemoveAll(f, ids) ==
    LET gone == {f.nodes[i] : i \in ids} \ {NoSlot} IN
    [slots |-> [s \in SlotIds |-> IF s \in gone THEN NoEntry ELSE f.slots[s]],
     nodes |-> [i \in NodeIds |->
                  IF i \in ids \/ \E s \in gone : i \in f.slots[s].identities
                  THEN NoSlot ELSE f.nodes[i]]]

RemoveNode(f, id) == RemoveAll(f, {id})

RemoveBySlot(f, s) == IF f.slots[s] = NoEntry THEN f ELSE RemoveNode(f, f.slots[s].default)

\* A fault: the entry is written over what is there.
AddOver(f, e, s) ==
    [slots |-> [f.slots EXCEPT ![s] = e],
     nodes |-> [i \in NodeIds |-> IF i \in e.identities THEN s ELSE f.nodes[i]]]

\* What is known of the slot, and of each identity, goes before the entry is written.
Add(f, e, s) ==
    LET g == RemoveAll(RemoveBySlot(f, s), {e.default} \cup e.identities) IN
    [slots |-> [g.slots EXCEPT ![s] = e],
     nodes |-> [i \in NodeIds |-> IF i \in e.identities THEN s ELSE g.nodes[i]]]

-----------------------------------------------------------------------------
(* The two tables are the inverse of each other: an identity has the slot whose entry lists *)
(* it, and an entry lists its default id.                                                   *)
Agree(f) ==
    /\ \A i \in NodeIds : f.nodes[i] # NoSlot => i \in f.slots[f.nodes[i]].identities
    /\ \A s \in SlotIds : f.slots[s] # NoEntry =>
         /\ f.slots[s].default \in f.slots[s].identities
         /\ \A i \in f.slots[s].identities : f.nodes[i] = s
=============================================================================
