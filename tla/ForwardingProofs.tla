-------------------------- MODULE ForwardingProofs --------------------------
(***************************************************************************)
(* Proofs about AllowedForwards and Forwarding: the two tables of a        *)
(* session agree, routes belong to the view and the session they were made *)
(* for, the registry knows what a route was made with, and of two          *)
(* refreshes that overlap the older answer never wins.                     *)
(***************************************************************************)
EXTENDS Forwarding, TLAPS

-----------------------------------------------------------------------------
(* AllowedForwards *)

\* remove leaves tables that agree, without the identities, and moves no other.
LEMMA RemoveAllSound ==
    ASSUME NEW f \in Forwards, Agree(f), NEW ids \in SUBSET NodeIds
    PROVE  /\ RemoveAll(f, ids) \in Forwards
           /\ Agree(RemoveAll(f, ids))
           /\ \A i \in NodeIds : SlotOf(RemoveAll(f, ids), i) \in {NoSlot, SlotOf(f, i)}
           /\ \A i \in ids : SlotOf(RemoveAll(f, ids), i) = NoSlot
           /\ \A s \in SlotIds : f.slots[s] = NoEntry => RemoveAll(f, ids).slots[s] = NoEntry
           /\ \A i \in ids : f.nodes[i] # NoSlot => RemoveAll(f, ids).slots[f.nodes[i]] = NoEntry
<1> USE SlotIdsAssumption
<1>1. PICK gone : gone = {f.nodes[i] : i \in ids} \ {NoSlot}
    BY Zenon
<1>2. PICK g : g = RemoveAll(f, ids)
    OBVIOUS
<1>3. /\ f.slots \in [SlotIds -> NodeEntries \cup {NoEntry}]
      /\ f.nodes \in [NodeIds -> SlotIds \cup {NoSlot}]
      /\ gone \subseteq SlotIds
    BY <1>1 DEF Forwards
<1>4. g = [slots |-> [s \in SlotIds |-> IF s \in gone THEN NoEntry ELSE f.slots[s]],
           nodes |-> [i \in NodeIds |->
                        IF i \in ids \/ \E s \in gone : i \in f.slots[s].identities
                        THEN NoSlot ELSE f.nodes[i]]]
    BY <1>1, <1>2 DEF RemoveAll
<1>5. /\ \A s \in SlotIds : g.slots[s] = IF s \in gone THEN NoEntry ELSE f.slots[s]
      /\ \A i \in NodeIds :
           g.nodes[i] = IF i \in ids \/ \E s \in gone : i \in f.slots[s].identities
                        THEN NoSlot ELSE f.nodes[i]
    BY <1>4
<1>6. g \in Forwards
    BY <1>3, <1>4 DEF Forwards
<1>7. ASSUME NEW i \in NodeIds, g.nodes[i] # NoSlot
      PROVE  i \in g.slots[g.nodes[i]].identities
    <2>1. /\ i \notin ids /\ g.nodes[i] = f.nodes[i] /\ f.nodes[i] \in SlotIds
          /\ \A s \in gone : i \notin f.slots[s].identities
        BY <1>3, <1>5, <1>7, Zenon
    <2>2. i \in f.slots[f.nodes[i]].identities
        BY <1>7, <2>1 DEF Agree
    <2> QED BY <1>5, <2>1, <2>2, Zenon
<1>8. ASSUME NEW s \in SlotIds, g.slots[s] # NoEntry
      PROVE  /\ g.slots[s].default \in g.slots[s].identities
             /\ \A i \in g.slots[s].identities : g.nodes[i] = s
    <2>1. s \notin gone /\ g.slots[s] = f.slots[s] /\ f.slots[s] # NoEntry
        BY <1>5, <1>8, Zenon
    <2>2. /\ f.slots[s].default \in f.slots[s].identities
          /\ \A i \in f.slots[s].identities : f.nodes[i] = s
        BY <2>1 DEF Agree
    <2>3. f.slots[s] \in NodeEntries
        BY <1>3, <2>1
    <2>4. f.slots[s].identities \subseteq NodeIds
        BY <2>3 DEF NodeEntries
    <2>5. ASSUME NEW i \in f.slots[s].identities
          PROVE  g.nodes[i] = s
        <3>1. f.nodes[i] = s /\ i \in NodeIds /\ s # NoSlot
            BY <2>2, <2>4 DEF NoSlot
        <3>2. i \notin ids
            BY <1>1, <2>1, <3>1
        <3>3. ASSUME NEW s2 \in gone, i \in f.slots[s2].identities
              PROVE  FALSE
            <4>1. s2 \in SlotIds /\ f.slots[s2] # NoEntry
                BY <1>3, <3>3 DEF NoEntry
            <4>2. f.nodes[i] = s2
                BY <3>3, <4>1 DEF Agree
            <4> QED BY <2>1, <3>1, <4>2
        <3> QED BY <1>5, <3>1, <3>2, <3>3
    <2> QED BY <2>1, <2>2, <2>5
<1>9. Agree(g)
    BY <1>7, <1>8 DEF Agree
<1>10. \A i \in ids : f.nodes[i] # NoSlot => f.nodes[i] \in gone /\ f.nodes[i] \in SlotIds
    BY <1>1, <1>3
<1> QED BY <1>2, <1>5, <1>6, <1>9, <1>10, Zenon DEF SlotOf

\* remove_by_slot frees the slot.
LEMMA RemoveBySlotSound ==
    ASSUME NEW f \in Forwards, Agree(f), NEW s \in SlotIds
    PROVE  /\ RemoveBySlot(f, s) \in Forwards
           /\ Agree(RemoveBySlot(f, s))
           /\ \A i \in NodeIds : SlotOf(RemoveBySlot(f, s), i) \in {NoSlot, SlotOf(f, i)}
           /\ RemoveBySlot(f, s).slots[s] = NoEntry
<1>1. CASE f.slots[s] = NoEntry
    BY <1>1 DEF RemoveBySlot
<1>2. CASE f.slots[s] # NoEntry
    <2>1. PICK id : id = f.slots[s].default
        OBVIOUS
    <2>2. f.slots[s] \in NodeEntries
        BY <1>2 DEF Forwards
    <2>3. id \in NodeIds /\ f.nodes[id] = s
        BY <1>2, <2>1, <2>2 DEF NodeEntries, Agree
    <2>4. RemoveBySlot(f, s) = RemoveAll(f, {id})
        BY <1>2, <2>1 DEF RemoveBySlot, RemoveNode
    <2>5. s # NoSlot
        BY SlotIdsAssumption DEF NoSlot
    <2>6. {id} \in SUBSET NodeIds
        BY <2>3
    <2>7. PICK g : g = RemoveAll(f, {id})
        OBVIOUS
    <2>8. /\ g \in Forwards /\ Agree(g)
          /\ \A i \in NodeIds : SlotOf(g, i) \in {NoSlot, SlotOf(f, i)}
          /\ \A i \in {id} : f.nodes[i] # NoSlot => g.slots[f.nodes[i]] = NoEntry
        BY <2>6, <2>7, RemoveAllSound
    <2> QED BY <2>3, <2>4, <2>5, <2>7, <2>8
<1> QED BY <1>1, <1>2

\* add leaves tables that agree, and gives every identity of the entry the slot.
LEMMA AddSound ==
    ASSUME NEW f \in Forwards, Agree(f), NEW e \in NodeEntries, e.default \in e.identities,
           NEW s \in SlotIds
    PROVE  /\ Add(f, e, s) \in Forwards
           /\ Agree(Add(f, e, s))
           /\ \A i \in e.identities : SlotOf(Add(f, e, s), i) = s
<1>1. PICK ids \in SUBSET NodeIds : ids = {e.default} \cup e.identities
    BY DEF NodeEntries
<1>2. PICK r : r = RemoveBySlot(f, s)
    OBVIOUS
<1>3. r \in Forwards /\ Agree(r) /\ r.slots[s] = NoEntry
    BY <1>2, RemoveBySlotSound
<1>4. PICK g : g = RemoveAll(r, ids)
    OBVIOUS
<1>5. /\ g \in Forwards /\ Agree(g) /\ g.slots[s] = NoEntry
      /\ \A i \in ids : g.nodes[i] = NoSlot
    BY <1>3, <1>4, RemoveAllSound DEF SlotOf
<1>6. PICK h : h = Add(f, e, s)
    OBVIOUS
<1>7. h = [slots |-> [g.slots EXCEPT ![s] = e],
           nodes |-> [i \in NodeIds |-> IF i \in e.identities THEN s ELSE g.nodes[i]]]
    BY <1>1, <1>2, <1>4, <1>6 DEF Add
<1>8. /\ g.slots \in [SlotIds -> NodeEntries \cup {NoEntry}]
      /\ g.nodes \in [NodeIds -> SlotIds \cup {NoSlot}]
      /\ e.identities \subseteq NodeIds /\ s # NoSlot
    BY <1>5, SlotIdsAssumption DEF Forwards, NodeEntries, NoSlot
<1>9. /\ \A x \in SlotIds : h.slots[x] = IF x = s THEN e ELSE g.slots[x]
      /\ \A i \in NodeIds : h.nodes[i] = IF i \in e.identities THEN s ELSE g.nodes[i]
    BY <1>7, <1>8
<1>10. h \in Forwards
    BY <1>7, <1>8 DEF Forwards
<1>11. ASSUME NEW i \in NodeIds, h.nodes[i] # NoSlot
       PROVE  i \in h.slots[h.nodes[i]].identities
    <2>1. CASE i \in e.identities
        BY <1>9, <2>1
    <2>2. CASE i \notin e.identities
        <3>1. h.nodes[i] = g.nodes[i] /\ g.nodes[i] \in SlotIds
            BY <1>8, <1>9, <1>11, <2>2
        <3>2. i \in g.slots[g.nodes[i]].identities
            BY <1>5, <1>11, <3>1 DEF Agree
        <3>3. g.nodes[i] # s
            BY <1>5, <3>2 DEF NoEntry
        <3> QED BY <1>9, <3>1, <3>2, <3>3
    <2> QED BY <2>1, <2>2
<1>12. ASSUME NEW x \in SlotIds, h.slots[x] # NoEntry
       PROVE  /\ h.slots[x].default \in h.slots[x].identities
              /\ \A i \in h.slots[x].identities : h.nodes[i] = x
    <2>1. CASE x = s
        BY <1>8, <1>9, <2>1
    <2>2. CASE x # s
        <3>1. h.slots[x] = g.slots[x] /\ x # NoSlot
            BY <1>9, <2>2, SlotIdsAssumption DEF NoSlot
        <3>2. /\ g.slots[x].default \in g.slots[x].identities
              /\ \A i \in g.slots[x].identities : g.nodes[i] = x
            BY <1>5, <1>12, <3>1 DEF Agree
        <3>3. g.slots[x].identities \subseteq NodeIds
            BY <1>8, <1>12, <3>1 DEF NodeEntries
        <3>4. \A i \in g.slots[x].identities : i \notin e.identities
            BY <1>1, <1>5, <3>1, <3>2
        <3> QED BY <1>9, <3>1, <3>2, <3>3, <3>4
    <2> QED BY <2>1, <2>2
<1>13. Agree(h)
    BY <1>11, <1>12 DEF Agree
<1> QED BY <1>6, <1>8, <1>9, <1>10, <1>13 DEF SlotOf

\* The empty table agrees and allows no one.
LEMMA EmptySound == Empty \in Forwards /\ Agree(Empty) /\ \A i \in NodeIds : SlotOf(Empty, i) = NoSlot
    BY DEF Empty, Forwards, Agree, SlotOf

-----------------------------------------------------------------------------
(* Numbers and peers *)

\* A number is free as long as at most five are held, and the least free one is taken.
LEMMA FreeNumber ==
    ASSUME NEW x1, NEW x2, NEW x3, NEW x4, NEW x5, NEW S, S = Numbers \ {x1, x2, x3, x4, x5}
    PROVE  Least(S) \in S
<1>1. S \subseteq Nat /\ {1, 2, 3, 4, 5, 6} \subseteq Numbers
    BY ForwardingAssumption DEF Numbers
<1>2. \E x \in {1, 2, 3, 4, 5, 6} : x \in S
    BY <1>1
<1>3. \A x \in Nat : x \in S => x >= 1
    BY DEF Numbers
<1>4. \E x \in S : \A y \in S : x <= y
    <2>1. CASE 1 \in S BY <1>1, <1>3, <2>1
    <2>2. CASE 2 \in S BY <1>1, <1>3, <2>1, <2>2
    <2>3. CASE 3 \in S BY <1>1, <1>3, <2>1, <2>2, <2>3
    <2>4. CASE 4 \in S BY <1>1, <1>3, <2>1, <2>2, <2>3, <2>4
    <2>5. CASE 5 \in S BY <1>1, <1>3, <2>1, <2>2, <2>3, <2>4, <2>5
    <2>6. CASE 6 \in S BY <1>1, <1>3, <2>1, <2>2, <2>3, <2>4, <2>5, <2>6
    <2> QED BY <1>2, <2>1, <2>2, <2>3, <2>4, <2>5, <2>6
<1> QED BY <1>4 DEF Least

\* The peer of a client is another client, and its identities are its own.
LEMMA PeerFact ==
    ASSUME NEW n \in Clients
    PROVE  /\ Peer(n) \in Clients /\ Peer(n) # n /\ Clients = {n, Peer(n)}
           /\ Peer(n) \in NodeIds /\ Peer(n) \in IdsOf[Peer(n)] /\ IdsOf[Peer(n)] \in SUBSET NodeIds
           /\ EntryOf(Peer(n)) \in NodeEntries
<1>1. PICK x, y \in NodeIds : x # y /\ Clients = {x, y}
    BY ForwardingAssumption
<1>2. \E p \in Clients : p # n
    BY <1>1
<1>3. Peer(n) \in Clients /\ Peer(n) # n
    BY <1>2 DEF Peer
<1>4. Peer(n) \in NodeIds /\ Clients = {n, Peer(n)}
    BY <1>1, <1>3
<1>5. Peer(n) \in IdsOf[Peer(n)] /\ IdsOf[Peer(n)] \in SUBSET NodeIds
    BY <1>3, ForwardingAssumption
<1> QED BY <1>3, <1>4, <1>5 DEF EntryOf, NodeEntries

-----------------------------------------------------------------------------
(***************************************************************************)
(* The inductive invariant: what is true of a client n with the state v,   *)
(* the refresh tasks t, and the information it has asked for, q.           *)
(***************************************************************************)
TaskStates ==
    [pc : {"idle", "lookup", "publish", "notify"},
     gen : Numbers \cup {0}, obj : Numbers \cup {0}, sess : Numbers \cup {0},
     prev : Keys \cup {0}, key : Keys \cup {0}, slot : SlotIds \cup {NoSlot}]
RouteStates ==
    [obj : Numbers \cup {0}, gen : Numbers \cup {0}, sess : Numbers \cup {0}, key : Keys \cup {0}]
ViewStates == [gen : Numbers \cup {0}, key : Keys \cup {0}, slot : SlotIds \cup {NoSlot}]
RelayStates == [key : Keys \cup {0}, slot : SlotIds]
WaitStates == [packet : Packets, sess : Numbers \cup {0}, woken : BOOLEAN]

RouteIn(n, v) == v.nodes[Peer(n)]
HasRoute(n, v) == RouteIn(n, v) # NoRoute

\* While a client connects there is no route, and the view is the one it has locked.
ConnOK(n, v) ==
    v.conn.pc # "idle" =>
      /\ ~HasRoute(n, v)
      /\ v.view.key # 0 /\ v.conn.gen # 0 /\ v.view.gen = v.conn.gen
      /\ v.conn.pc = "route" => v.conn.sess # 0

\* What the registry and an answer that is still to be written know.
ViewOK(v) ==
    /\ v.view # NoView => v.view.slot \in SlotIds /\ v.view.gen # 0
    /\ v.answer # NoInfo => v.answer.slot \in SlotIds /\ v.answer.key # 0

\* Routes belong to the view and to the session.
RouteOK(n, v) ==
    /\ \A i \in IdsOf[Peer(n)] : v.nodes[i] = RouteIn(n, v)
    /\ HasRoute(n, v) =>
         /\ RouteIn(n, v).obj # 0 /\ v.view.gen # 0 /\ v.sess # 0
         /\ RouteIn(n, v).gen = v.view.gen /\ RouteIn(n, v).sess = v.sess

\* The registry has what the route is made with.
InfoOK(n, v, q) ==
    ~q => /\ v.answer = NoInfo
          /\ HasRoute(n, v) => v.view.key = RouteIn(n, v).key
          /\ v.conn.pc = "route" => v.view.key = v.conn.key
          /\ HasRoute(n, v) \/ v.conn.pc = "route" =>
               SlotOf(v.fwd, Peer(n)) \in {NoSlot, v.view.slot}

\* A refresh has an object to replace, and an answer that is not older than it.
TaskOK(n, v, t) ==
    /\ t.pc \in {"lookup", "publish"} => t.obj # 0 /\ t.sess # 0
    /\ t.pc = "publish" =>
         /\ t.slot \in SlotIds
         /\ HasRoute(n, v) /\ t.obj = RouteIn(n, v).obj => RouteIn(n, v).key <= t.key

ClientOK(n, v, t, q) ==
    /\ Agree(v.fwd) /\ ConnOK(n, v) /\ ViewOK(v) /\ RouteOK(n, v) /\ InfoOK(n, v, q)
    /\ \A w \in Whys : TaskOK(n, v, t[w])

\* No key of the peer that the client has is newer than k.
KeysOK(n, v, t, k) ==
    /\ v.view.key <= k /\ v.conn.key <= k /\ v.answer.key <= k /\ RouteIn(n, v).key <= k
    /\ \A w \in Whys : t[w].key <= k

\* The key of the peer, and the one the relay has of it.
KeyBounds(n) == {c[Peer(n)].key} \cup ({relay[Peer(n)].key} \ {0})

KeyOrder(n) ==
    /\ relay[n].key <= c[n].key
    /\ \A k \in KeyBounds(n) : KeysOK(n, c[n], task[n], k)

\* Packets have a slot.
OutOK ==
    /\ out \in [Clients -> [Senders -> WaitStates]]
    /\ \A n \in Clients : \A w \in Senders : out[n][w] # NoWait => out[n][w].packet.slot \in SlotIds
NetOK(s) ==
    /\ s \subseteq [to : Clients, packet : Packets]
    /\ \A m \in s : m.packet.slot \in SlotIds

Inv ==
    /\ left \in [Events -> SUBSET Clients]
    /\ relay \in [Clients -> RelayStates]
    /\ c \in [Clients -> ClientStates]
    /\ task \in [Clients -> [Whys -> TaskStates]]
    /\ OutOK /\ NetOK(net)
    /\ \A n \in Clients : ClientOK(n, c[n], task[n], n \in left.queried) /\ KeyOrder(n)

-----------------------------------------------------------------------------
(* A step of one client *)

\* Keys, and the absence of one, are numbers that can be ordered.
LEMMA KeysAreNumbers == \A k \in Keys \cup {0} : k \in Nat
    BY ForwardingAssumption DEF Keys

\* What is absent has no key and does nothing.
LEMMA NoneFact ==
    /\ NoConn.pc = "idle" /\ NoConn.key = 0 /\ NoView.key = 0 /\ NoInfo.key = 0 /\ NoRoute.key = 0
    /\ NoTask.pc = "idle" /\ NoTask.key = 0
    BY DEF NoConn, NoView, NoInfo, NoRoute, NoTask

\* A bound on keys is a key.
LEMMA Bounds ==
    ASSUME Inv, NEW n \in Clients
    PROVE  /\ \A k \in KeyBounds(n) : k \in Nat /\ relay[Peer(n)].key <= k
           /\ relay[Peer(n)].key \in Nat /\ relay[Peer(n)].slot \in SlotIds
           /\ relay[Peer(n)].key # 0 => relay[Peer(n)].key \in KeyBounds(n)
<1>1. Peer(n) \in Clients
    BY PeerFact
<1>2. relay[Peer(n)] \in RelayStates /\ c[Peer(n)] \in ClientStates
    BY <1>1 DEF Inv
<1>3. relay[Peer(n)].key <= c[Peer(n)].key
    BY <1>1 DEF Inv, KeyOrder
<1>5. relay[Peer(n)].key \in Nat /\ c[Peer(n)].key \in Nat /\ relay[Peer(n)].slot \in SlotIds
    <2>1. relay[Peer(n)].key \in Keys \cup {0} /\ relay[Peer(n)].slot \in SlotIds
        BY <1>2 DEF RelayStates
    <2>2. c[Peer(n)].key \in Keys
        BY <1>2 DEF ClientStates
    <2> QED BY <2>1, <2>2, KeysAreNumbers
<1> QED BY <1>3, <1>5 DEF KeyBounds

\* The state, the tasks and the relay's side of client n change, and no other: the other
\* client keeps what it knows, and its keys if they are bounded as before.
LEMMA AnyStep ==
    ASSUME Inv, NEW n \in Clients, NEW v \in ClientStates, NEW t \in [Whys -> TaskStates],
           NEW r \in RelayStates,
           c' = [c EXCEPT ![n] = v], task' = [task EXCEPT ![n] = t], relay' = [relay EXCEPT ![n] = r],
           left' \in [Events -> SUBSET Clients],
           \A m \in Clients \ {n} : m \in left'.queried <=> m \in left.queried,
           OutOK', NetOK(net'),
           ClientOK(n, v, t, n \in left'.queried),
           r.key <= v.key,
           \A k \in KeyBounds(n) : KeysOK(n, v, t, k),
           \A k \in {v.key} \cup ({r.key} \ {0}) : KeysOK(Peer(n), c[Peer(n)], task[Peer(n)], k)
    PROVE  Inv'
<1>1. /\ c' \in [Clients -> ClientStates] /\ task' \in [Clients -> [Whys -> TaskStates]]
      /\ relay' \in [Clients -> RelayStates]
    BY DEF Inv
<1>2. c'[n] = v /\ task'[n] = t /\ relay'[n] = r
    BY DEF Inv
<1>3. PICK p : p = Peer(n)
    OBVIOUS
<1>4. p \in Clients /\ p # n /\ Clients = {n, p}
    BY <1>3, PeerFact
<1>5. Peer(p) = n
    BY <1>4, PeerFact
<1>6. c'[p] = c[p] /\ task'[p] = task[p] /\ relay'[p] = relay[p]
    BY <1>4 DEF Inv
<1>7. KeyBounds(n)' = KeyBounds(n)
    BY <1>3, <1>6 DEF KeyBounds
<1>8. KeyBounds(p)' = {v.key} \cup ({r.key} \ {0})
    BY <1>2, <1>5 DEF KeyBounds
<1>9. ClientOK(n, c[n], task[n], n \in left.queried)' /\ KeyOrder(n)'
    BY <1>2, <1>7 DEF KeyOrder
<1>10. ClientOK(p, c[p], task[p], p \in left.queried)
    BY <1>4 DEF Inv
<1>11. (p \in left'.queried) = (p \in left.queried)
    BY <1>4
<1>12. ClientOK(p, c'[p], task'[p], p \in left'.queried)
    BY <1>6, <1>10, <1>11
<1>13. relay'[p].key <= c'[p].key
    BY <1>4, <1>6 DEF Inv, KeyOrder
<1>14. \A k \in KeyBounds(p)' : KeysOK(p, c'[p], task'[p], k)
    BY <1>3, <1>6, <1>8
<1>15. KeyOrder(p)'
    BY <1>13, <1>14 DEF KeyOrder
<1>16. \A m \in Clients : ClientOK(m, c'[m], task'[m], m \in left'.queried) /\ KeyOrder(m)'
    BY <1>4, <1>9, <1>12, <1>15
<1> QED BY <1>1, <1>16 DEF Inv

\* Client n goes to the state v, with the tasks t; the relay is as it was.
Moves(n, v, t) ==
    /\ c' = [c EXCEPT ![n] = v]
    /\ task' = [task EXCEPT ![n] = t]
    /\ relay' = relay

\* A step of one client that leaves the others alone preserves the invariant.
LEMMA ClientStep ==
    ASSUME Inv, NEW n \in Clients, NEW v \in ClientStates, NEW t \in [Whys -> TaskStates],
           Moves(n, v, t), v.key = c[n].key,
           left' \in [Events -> SUBSET Clients],
           \A m \in Clients \ {n} : m \in left'.queried <=> m \in left.queried,
           OutOK', NetOK(net'),
           ClientOK(n, v, t, n \in left'.queried),
           \A k \in KeyBounds(n) : KeysOK(n, v, t, k)
    PROVE  Inv'
<1>1. relay[n] \in RelayStates /\ relay' = [relay EXCEPT ![n] = relay[n]]
    BY DEF Inv, Moves
<1>2. relay[n].key <= v.key
    BY DEF Inv, KeyOrder
<1>3. PICK p : p = Peer(n)
    OBVIOUS
<1>4. p \in Clients /\ Peer(p) = n
    BY <1>3, PeerFact
<1>5. KeyBounds(p) = {v.key} \cup ({relay[n].key} \ {0})
    BY <1>4 DEF KeyBounds
<1>6. \A k \in KeyBounds(p) : KeysOK(p, c[p], task[p], k)
    BY <1>4 DEF Inv, KeyOrder
<1> QED BY <1>1, <1>2, <1>3, <1>5, <1>6, AnyStep, Zenon DEF Moves

\* What is known of a client.
LEMMA ClientFact ==
    ASSUME Inv, NEW n \in Clients
    PROVE  /\ c[n] \in ClientStates /\ task[n] \in [Whys -> TaskStates]
           /\ ClientOK(n, c[n], task[n], n \in left.queried)
           /\ \A k \in KeyBounds(n) : KeysOK(n, c[n], task[n], k)
           /\ c = [c EXCEPT ![n] = c[n]] /\ task = [task EXCEPT ![n] = task[n]]
    BY DEF Inv, KeyOrder

\* What the routes, the session, the slots, the view, the connecting task and the answer say
\* does not depend on the rest.
SameCore(u, v) ==
    /\ u.key = v.key /\ u.sess = v.sess /\ u.fwd = v.fwd /\ u.view = v.view /\ u.nodes = v.nodes
    /\ u.conn = v.conn /\ u.answer = v.answer

\* The conditions on a client read nothing but its core.
LEMMA Quiet ==
    ASSUME NEW n, NEW v, NEW u, SameCore(u, v), NEW t, NEW q
    PROVE  /\ ClientOK(n, v, t, q) => ClientOK(n, u, t, q)
           /\ \A k : KeysOK(n, v, t, k) => KeysOK(n, u, t, k)
    BY Zenon DEF SameCore, ClientOK, ConnOK, ViewOK, RouteOK, InfoOK, TaskOK, HasRoute, RouteIn, KeysOK

\* Tasks that end, or begin to look up, know no key.
LEMMA FreshTask ==
    ASSUME NEW n \in Clients, NEW v, NEW q, NEW t \in [Whys -> TaskStates], ClientOK(n, v, t, q),
           NEW w \in Whys, NEW x \in TaskStates, x.key = 0, TaskOK(n, v, x)
    PROVE  /\ [t EXCEPT ![w] = x] \in [Whys -> TaskStates]
           /\ ClientOK(n, v, [t EXCEPT ![w] = x], q)
           /\ \A k \in Nat : KeysOK(n, v, t, k) => KeysOK(n, v, [t EXCEPT ![w] = x], k)
<1>1. PICK u : u = [t EXCEPT ![w] = x]
    BY Zenon
<1>2. u \in [Whys -> TaskStates] /\ u[w] = x /\ \A y \in Whys : y # w => u[y] = t[y]
    BY <1>1
<1>3. \A y \in Whys : TaskOK(n, v, u[y])
    BY <1>2 DEF ClientOK
<1>4. ClientOK(n, v, u, q)
    BY <1>3 DEF ClientOK
<1>5. \A k \in Nat : KeysOK(n, v, t, k) => KeysOK(n, v, u, k)
    BY <1>2 DEF KeysOK
<1> QED BY <1>1, <1>2, <1>4, <1>5, Zenon

\* A task that ends, or goes on to notify, satisfies its condition in every state.
LEMMA IdleTask ==
    ASSUME NEW n, NEW v, NEW p \in {"idle", "notify"}
    PROVE  /\ [NoTask EXCEPT !.pc = p] \in TaskStates
           /\ [NoTask EXCEPT !.pc = p].key = 0
           /\ TaskOK(n, v, [NoTask EXCEPT !.pc = p])
    BY DEF NoTask, TaskStates, TaskOK, NoSlot

-----------------------------------------------------------------------------
(* Packets *)

\* What is put on the network for the other side is a message of it.
LEMMA ForwardedSound ==
    ASSUME Inv, NEW n \in Clients, NEW p \in Packets, p.slot \in SlotIds
    PROVE  NetOK(Forwarded(n, p))
<1>1. [NoPacket EXCEPT !.kind = "bySlot", !.slot = p.slot] \in Packets
    BY Zenon DEF Packets, NoPacket
<1>2. relay[n].slot \in SlotIds
    BY DEF Inv, RelayStates
<1>3. [p EXCEPT !.slot = relay[n].slot] \in Packets
    BY <1>2 DEF Packets
<1>4. [p EXCEPT !.slot = relay[n].slot].slot = relay[n].slot
    BY DEF Packets
<1>5. [NoPacket EXCEPT !.kind = "bySlot", !.slot = p.slot].slot = p.slot
    BY DEF NoPacket
<1>6. PICK to \in SUBSET Clients : to = {x \in Clients : relay[x].slot = p.slot /\ relay[x].key # 0}
    BY Zenon
<1>7. PICK s, r : s = [NoPacket EXCEPT !.kind = "bySlot", !.slot = p.slot] /\ r = [p EXCEPT !.slot = relay[n].slot]
    BY Zenon
<1>8. s \in Packets /\ r \in Packets /\ s.slot \in SlotIds /\ r.slot \in SlotIds
    BY <1>1, <1>2, <1>3, <1>4, <1>5, <1>7
<1>9. Forwarded(n, p) \in {net, net \cup {[to |-> n, packet |-> s]}, net \cup {[to |-> x, packet |-> r] : x \in to}}
    BY <1>6, <1>7 DEF Forwarded
<1>10. NetOK(net)
    BY DEF Inv
<1> QED BY <1>8, <1>9, <1>10 DEF NetOK

\* A sender that transmits or waits leaves the waiting senders typed.
LEMMA TransmitSound ==
    ASSUME Inv, NEW n \in Clients, NEW w \in Senders, NEW kind \in {"data", "sync"}, Transmit(n, w, kind)
    PROVE  OutOK' /\ NetOK(net')
<1>1. CASE UNCHANGED <<out, net>>
    BY <1>1 DEF Inv, OutOK
<1>2. ASSUME SlotOf(c[n].fwd, Peer(n)) # NoSlot
      PROVE  Frame(n, kind) \in Packets /\ Frame(n, kind).slot \in SlotIds
    <2>1. /\ c[n].key \in Keys /\ c[n].fwd \in Forwards /\ Peer(n) \in NodeIds
          /\ Route(n).key \in Keys \cup {0}
        BY PeerFact DEF Inv, ClientStates, Route
    <2>2. c[n].fwd.nodes \in [NodeIds -> SlotIds \cup {NoSlot}]
        BY <2>1 DEF Forwards
    <2>3. SlotOf(c[n].fwd, Peer(n)) \in SlotIds
        BY <1>2, <2>1, <2>2 DEF SlotOf
    <2> QED BY <2>1, <2>3, SMTT(30) DEF Frame, Packets
<1>3. CASE SlotOf(c[n].fwd, Peer(n)) # NoSlot /\ ~UNCHANGED <<out, net>>
    <2>1. CASE /\ out' = [out EXCEPT ![n][w] = [packet |-> Frame(n, kind), sess |-> c[n].sess, woken |-> FALSE]]
               /\ net' = net
        <3>1. PICK x : x = [packet |-> Frame(n, kind), sess |-> c[n].sess, woken |-> FALSE]
            BY Zenon
        <3>2. c[n].sess \in Numbers \cup {0}
            BY DEF Inv, ClientStates
        <3>3. x \in WaitStates /\ x.packet.slot \in SlotIds
            BY <1>2, <1>3, <3>1, <3>2 DEF WaitStates
        <3>4. out' = [out EXCEPT ![n][w] = x]
            BY <2>1, <3>1, SMTT(30)
        <3>5. OutOK'
            BY <3>3, <3>4 DEF Inv, OutOK
        <3> QED BY <2>1, <3>5 DEF Inv
    <2>2. CASE net' = Forwarded(n, Frame(n, kind)) /\ out' = out
        <3>1. NetOK(net')
            BY <1>2, <1>3, <2>2, ForwardedSound
        <3> QED BY <2>2, <3>1 DEF Inv, OutOK
    <2> QED BY <1>3, <2>1, <2>2 DEF Transmit
<1> QED BY <1>1, <1>3 DEF Transmit

-----------------------------------------------------------------------------
(* The steps that leave routes, slots, view and connecting task alone *)

\* The absent values are typed.
LEMMA NoValues ==
    /\ NoView \in ViewStates /\ NoConn \in [pc : {"idle", "relayed", "route"}, gen : Numbers \cup {0}, sess : Numbers \cup {0}, key : Keys \cup {0}]
    /\ NoBackoff \in [wait : BOOLEAN, succ : 0..Resets] /\ NoRoute \in RouteStates
    /\ [i \in NodeIds |-> NoRoute] \in [NodeIds -> RouteStates]
    BY ForwardingAssumption DEF NoView, ViewStates, NoConn, NoBackoff, NoRoute, RouteStates, NoSlot

\* Spending the budget of an event keeps the budgets typed.
LEMMA LeftStep ==
    ASSUME Inv, NEW n \in Clients, NEW e \in Events \ {"queried"}, left' = left \/ Happens(e, n)
    PROVE  left' \in [Events -> SUBSET Clients] /\ left'.queried = left.queried
<1>1. left \in [Events -> SUBSET Clients] /\ "queried" \in Events
    BY DEF Inv, Events
<1>2. CASE left' = left
    BY <1>1, <1>2
<1>3. CASE left' = [left EXCEPT ![e] = @ \ {n}]
    <2>1. left' \in [Events -> SUBSET Clients]
        BY <1>1, <1>3
    <2>2. left'["queried"] = left["queried"]
        BY <1>1, <1>3
    <2> QED BY <2>1, <2>2
<1> QED BY <1>2, <1>3 DEF Happens

\* A step that leaves the core of every client alone preserves the invariant.
LEMMA QuietStep ==
    ASSUME Inv, NEW n \in Clients, NEW u \in ClientStates, NEW t \in [Whys -> TaskStates],
           Moves(n, u, t),
           SameCore(u, c[n]),
           ClientOK(n, c[n], t, n \in left.queried),
           \A k \in KeyBounds(n) : KeysOK(n, c[n], t, k),
           left' \in [Events -> SUBSET Clients], left'.queried = left.queried,
           OutOK', NetOK(net')
    PROVE  Inv'
<1>1. ClientOK(n, u, t, n \in left'.queried)
    BY Quiet, Zenon
<1>2. \A k \in KeyBounds(n) : KeysOK(n, u, t, k)
    BY Quiet, Zenon
<1>3. u.key = c[n].key
    BY DEF SameCore
<1> QED BY <1>1, <1>2, <1>3, ClientStep

\* A packet that leaves the network.
LEMMA NetLess ==
    ASSUME NetOK(net), NEW m, net' = net \ {m}
    PROVE  NetOK(net')
    BY DEF NetOK

\* Only packets, or nothing at all.
LEMMA PacketStep ==
    ASSUME Inv, UNCHANGED <<relay, c, task>>, NEW n \in Clients,
           left' = left \/ Happens("once", n), OutOK', NetOK(net')
    PROVE  Inv'
<1>1. left' \in [Events -> SUBSET Clients] /\ left'.queried = left.queried
    BY LeftStep DEF Events
<1>2. Moves(n, c[n], task[n])
    BY ClientFact DEF Moves
<1>3. /\ c[n] \in ClientStates /\ task[n] \in [Whys -> TaskStates]
      /\ ClientOK(n, c[n], task[n], n \in left.queried)
      /\ \A k \in KeyBounds(n) : KeysOK(n, c[n], task[n], k)
    BY ClientFact
<1>4. SameCore(c[n], c[n])
    BY DEF SameCore
<1> QED BY <1>1, <1>2, <1>3, <1>4, QuietStep

\* A client that changes nothing but `want`, `paused`, `failures` and `asked`.
LEMMA FlagStep ==
    ASSUME Inv, NEW n \in Clients, NEW u \in ClientStates,
           c' = [c EXCEPT ![n] = u], UNCHANGED <<relay, task>>,
           SameCore(u, c[n]),
           left' \in [Events -> SUBSET Clients], left'.queried = left.queried,
           OutOK', NetOK(net')
    PROVE  Inv'
<1>1. Moves(n, u, task[n])
    BY ClientFact DEF Moves
<1>2. /\ task[n] \in [Whys -> TaskStates]
      /\ ClientOK(n, c[n], task[n], n \in left.queried)
      /\ \A k \in KeyBounds(n) : KeysOK(n, c[n], task[n], k)
    BY ClientFact
<1> QED BY <1>1, <1>2, QuietStep

\* The step of Pause.
LEMMA PauseStep ==
    ASSUME Inv, NEW n \in Clients, Pause(n)
    PROVE  Inv'
<1>1. PICK u : u = [c[n] EXCEPT !.paused = TRUE]
    BY Zenon
<1>2. c[n] \in ClientStates /\ c \in [Clients -> ClientStates]
    BY ClientFact DEF Inv
<1>3. u \in ClientStates /\ SameCore(u, c[n])
    BY <1>1, <1>2, ZenonT(40) DEF ClientStates, SameCore
<1>4. c' = [c EXCEPT ![n] = u] /\ UNCHANGED <<relay, task, out, net>>
    BY <1>1, <1>2 DEF Pause
<1>5. left' \in [Events -> SUBSET Clients] /\ left'.queried = left.queried
    BY LeftStep DEF Pause, Events
<1>6. OutOK' /\ NetOK(net')
    BY <1>4 DEF Inv, OutOK
<1> QED BY <1>3, <1>4, <1>5, <1>6, FlagStep, Zenon

\* The step of Resume.
LEMMA ResumeStep ==
    ASSUME Inv, NEW n \in Clients, Resume(n)
    PROVE  Inv'
<1>1. PICK u : u = [c[n] EXCEPT !.paused = FALSE]
    BY Zenon
<1>2. c[n] \in ClientStates /\ c \in [Clients -> ClientStates]
    BY ClientFact DEF Inv
<1>3. u \in ClientStates /\ SameCore(u, c[n])
    BY <1>1, <1>2, Zenon DEF ClientStates, SameCore
<1>4. c' = [c EXCEPT ![n] = u] /\ UNCHANGED <<left, relay, task, net>>
    BY <1>1, <1>2 DEF Resume
<1>5. left' \in [Events -> SUBSET Clients] /\ left'.queried = left.queried
    BY <1>4 DEF Inv
<1>6. OutOK'
    <2>1. out \in [Clients -> [Senders -> WaitStates]]
        BY DEF Inv, OutOK
    <2>2. PICK o : o = [w \in Senders |->
                          [out[n][w] EXCEPT !.woken = @ \/ (out[n][w] # NoWait /\ out[n][w].sess = c[n].sess)]]
        BY Zenon
    <2>3. out' = [out EXCEPT ![n] = o]
        BY <2>1, <2>2 DEF Resume
    <2>4. ASSUME NEW w \in Senders
          PROVE  /\ o[w] \in WaitStates /\ o[w].packet = out[n][w].packet
                 /\ out[n][w] = NoWait => o[w] = NoWait
        <3>1. out[n][w] \in WaitStates
            BY <2>1
        <3>2. PICK b \in BOOLEAN : o[w] = [out[n][w] EXCEPT !.woken = b]
                                   /\ (out[n][w] = NoWait => b = out[n][w].woken)
            BY <2>2, <3>1, Zenon DEF WaitStates
        <3> QED BY <3>1, <3>2 DEF WaitStates
    <2>5. o \in [Senders -> WaitStates]
        BY <2>2, <2>4
    <2> QED BY <2>1, <2>3, <2>4, <2>5 DEF Inv, OutOK
<1>7. NetOK(net')
    BY <1>4 DEF Inv
<1> QED BY <1>3, <1>4, <1>5, <1>6, <1>7, FlagStep, Zenon

\* The step of Send.
LEMMA SendStep ==
    ASSUME Inv, NEW n \in Clients, Send(n)
    PROVE  Inv'
<1>1. CASE Routed(n)
    <2>1. UNCHANGED <<relay, c, task>> /\ (left' = left \/ Happens("once", n))
        BY <1>1 DEF Send
    <2>2. OutOK' /\ NetOK(net')
        BY <1>1, TransmitSound DEF Send, Senders
    <2> QED BY <2>1, <2>2, PacketStep
<1>2. CASE ~Routed(n)
    <2>1. PICK u : u = [c[n] EXCEPT !.want = TRUE]
        BY Zenon
    <2>2. c[n] \in ClientStates /\ c \in [Clients -> ClientStates]
        BY ClientFact DEF Inv
    <2>3. u \in ClientStates /\ SameCore(u, c[n])
        BY <2>1, <2>2, ZenonT(40) DEF ClientStates, SameCore
    <2>4. c' = [c EXCEPT ![n] = u] /\ UNCHANGED <<left, relay, task, out, net>>
        BY <1>2, <2>1, <2>2 DEF Send
    <2>5. left' \in [Events -> SUBSET Clients] /\ left'.queried = left.queried /\ OutOK' /\ NetOK(net')
        BY <2>4 DEF Inv, OutOK
    <2> QED BY <2>3, <2>4, <2>5, FlagStep, Zenon
<1> QED BY <1>1, <1>2

\* The step of Resolve.
LEMMA ResolveStep ==
    ASSUME Inv, NEW m \in net, Resolve(m)
    PROVE  Inv'
<1>1. PICK n \in Clients : n = m.to
    BY DEF Inv, NetOK
<1>2. PICK u : u = [c[n] EXCEPT !.want = TRUE]
    BY Zenon
<1>3. c[n] \in ClientStates /\ c \in [Clients -> ClientStates]
    BY ClientFact DEF Inv
<1>4. u \in ClientStates /\ SameCore(u, c[n])
    BY <1>2, <1>3, ZenonT(40) DEF ClientStates, SameCore
<1>5. c' = [c EXCEPT ![n] = u] /\ UNCHANGED <<left, relay, task, out, net>>
    BY <1>1, <1>2, <1>3 DEF Resolve
<1>6. left' \in [Events -> SUBSET Clients] /\ left'.queried = left.queried /\ OutOK' /\ NetOK(net')
    BY <1>5 DEF Inv, OutOK
<1> QED BY <1>4, <1>5, <1>6, FlagStep, Zenon

\* The step of Tick.
LEMMA TickStep ==
    ASSUME Inv, NEW n \in Clients, Tick(n)
    PROVE  Inv'
<1>1. PICK u : u = [c[n] EXCEPT !.failures.wait = FALSE, !.asked = FALSE]
    OBVIOUS
<1>2. c[n] \in ClientStates /\ c \in [Clients -> ClientStates]
    BY ClientFact DEF Inv
<1>3. u \in ClientStates /\ SameCore(u, c[n])
    BY <1>1, <1>2, ZenonT(40) DEF ClientStates, SameCore
<1>4. c' = [c EXCEPT ![n] = u] /\ UNCHANGED <<left, relay, task, out, net>>
    BY <1>1, <1>2, Zenon DEF Tick
<1>5. left' \in [Events -> SUBSET Clients] /\ left'.queried = left.queried /\ OutOK' /\ NetOK(net')
    BY <1>4 DEF Inv, OutOK
<1> QED BY <1>3, <1>4, <1>5, FlagStep, Zenon

\* The step of OnPacket.
LEMMA OnPacketStep ==
    ASSUME Inv, NEW m \in net, OnPacket(m)
    PROVE  Inv'
<1>1. PICK n \in Clients : n = m.to
    BY DEF Inv, NetOK
<1>2. PICK u : u = Succeeded(n)
    OBVIOUS
<1>3. c[n] \in ClientStates /\ c \in [Clients -> ClientStates]
    BY ClientFact DEF Inv
<1>4. c[n].failures \in [wait : BOOLEAN, succ : 0..Resets] /\ Resets \in Nat
    BY <1>3, ForwardingAssumption DEF ClientStates
<1>5. u \in ClientStates /\ SameCore(u, c[n])
    <2>1. CASE u = c[n]
        BY <1>3, <2>1 DEF SameCore
    <2>2. CASE u = [c[n] EXCEPT !.failures = NoBackoff, !.asked = FALSE]
        BY <1>3, <2>2, NoValues, Zenon DEF ClientStates, SameCore
    <2>3. CASE c[n].failures.succ + 1 < Resets /\ u = [c[n] EXCEPT !.failures.succ = @ + 1]
        <3>1. PICK f \in [wait : BOOLEAN, succ : 0..Resets] : f = c[n].failures
            BY <1>4
        <3>2. [f EXCEPT !.succ = @ + 1] \in [wait : BOOLEAN, succ : 0..Resets]
            BY <1>4, <2>3, <3>1
        <3>3. u = [c[n] EXCEPT !.failures = [f EXCEPT !.succ = @ + 1]]
            BY <1>3, <2>3, <3>1 DEF ClientStates
        <3> QED BY <1>3, <3>2, <3>3, Zenon DEF ClientStates, SameCore
    <2> QED BY <1>2, <2>1, <2>2, <2>3 DEF Succeeded
<1>6. c' = [c EXCEPT ![n] = u] /\ UNCHANGED <<left, relay, task, out>> /\ net' = net \ {m}
    BY <1>1, <1>2, <1>3, ZenonT(40) DEF OnPacket, Arrives
<1>7. left' \in [Events -> SUBSET Clients] /\ left'.queried = left.queried /\ OutOK' /\ NetOK(net')
    BY <1>6, NetLess, Zenon DEF Inv, OutOK
<1> QED BY <1>5, <1>6, <1>7, FlagStep, Zenon

-----------------------------------------------------------------------------
(* The steps with the relay's side of a client *)

\* A refresh needs less of a client without a route.
LEMMA NoRouteTask ==
    ASSUME NEW n, NEW u, NEW v, NEW t, NEW q, ~HasRoute(n, u), ClientOK(n, v, t, q)
    PROVE  \A w \in Whys : TaskOK(n, u, t[w])
    BY DEF ClientOK, TaskOK

\* A number that is taken is held by nothing when it is taken.
LEMMA Fresh ==
    ASSUME NEW n \in Clients, NEW x, NEW held, x = Least(Numbers \ held),
           \E x1, x2, x3, x4, x5 : held = {x1, x2, x3, x4, x5}
    PROVE  x \in Numbers /\ x \notin held /\ x # 0
<1>1. PICK x1, x2, x3, x4, x5 : held = {x1, x2, x3, x4, x5}
    BY Zenon
<1>2. Least(Numbers \ held) \in Numbers \ held
    BY <1>1, FreeNumber, Zenon
<1> QED BY <1>2 DEF Numbers

\* The numbers of generations, routing objects and sessions that are taken.
LEMMA NewNumbers ==
    ASSUME Inv, NEW n \in Clients
    PROVE  /\ NewGeneration(n) \in Numbers /\ NewGeneration(n) # 0
           /\ NewSession(n) \in Numbers /\ NewSession(n) # 0
           /\ \A ws \in SUBSET Whys :
                /\ NewObject(n, ws) \in Numbers /\ NewObject(n, ws) # 0
                /\ \A w \in ws : NewObject(n, ws) # task[n][w].obj
<1> DEFINE F == task[n]["failure"]
           S == task[n]["sync"]
<1>1. {task[n][w].gen : w \in Whys} = {F.gen, S.gen, S.gen, S.gen, S.gen}
    BY DEF Whys
<1>2. NewGeneration(n) \in Numbers /\ NewGeneration(n) # 0
    <2>1. PICK held : held = {task[n][w].gen : w \in Whys}
        BY Zenon
    <2>2. \E x1, x2, x3, x4, x5 : held = {x1, x2, x3, x4, x5}
        BY <1>1, <2>1, Zenon
    <2> QED BY <2>1, <2>2, Fresh, Zenon DEF NewGeneration
<1>3. NewSession(n) \in Numbers /\ NewSession(n) # 0
    <2>1. PICK held : held = {c[n].conn.sess} \cup {task[n][w].sess : w \in Whys} \cup {out[n][w].sess : w \in Senders}
        BY Zenon
    <2>2. held = {c[n].conn.sess, F.sess, S.sess, out[n]["app"].sess, out[n]["notify"].sess}
        BY <2>1 DEF Whys, Senders
    <2>3. \E x1, x2, x3, x4, x5 : held = {x1, x2, x3, x4, x5}
        BY <2>2, Zenon
    <2> QED BY <2>1, <2>3, Fresh, Zenon DEF NewSession
<1>4. ASSUME NEW ws \in SUBSET Whys
      PROVE  /\ NewObject(n, ws) \in Numbers /\ NewObject(n, ws) # 0
             /\ \A w \in ws : NewObject(n, ws) # task[n][w].obj
    <2>1. PICK held : held = {task[n][w].obj : w \in ws}
        BY Zenon
    <2>2. ws = {} \/ ws = {"failure"} \/ ws = {"sync"} \/ ws = {"failure", "sync"}
        BY Zenon DEF Whys
    <2>3. held = {} \/ held = {F.obj, F.obj, F.obj, F.obj, F.obj}
          \/ held = {S.obj, S.obj, S.obj, S.obj, S.obj} \/ held = {F.obj, S.obj, S.obj, S.obj, S.obj}
        BY <2>1, <2>2
    <2>4. CASE held = {}
        <3>1. Numbers \ held = Numbers \ {0, 0, 0, 0, 0}
            BY <2>4 DEF Numbers
        <3>2. Least(Numbers \ held) \in Numbers \ held
            BY <3>1, FreeNumber
        <3>3. NewObject(n, ws) \in Numbers \ held
            BY <2>1, <3>2 DEF NewObject
        <3> QED BY <2>1, <2>4, <3>3 DEF Numbers
    <2>5. CASE \E x1, x2, x3, x4, x5 : held = {x1, x2, x3, x4, x5}
        <3>1. NewObject(n, ws) \in Numbers /\ NewObject(n, ws) \notin held /\ NewObject(n, ws) # 0
            BY <2>1, <2>5, Fresh, Zenon DEF NewObject
        <3> QED BY <2>1, <3>1
    <2> QED BY <2>3, <2>4, <2>5, Zenon
<1> QED BY <1>2, <1>3, <1>4

\* A client without a session has no route, and its new session has neither.
LEMMA RegisterStep ==
    ASSUME Inv, NEW n \in Clients, Register(n)
    PROVE  Inv'
<1>1. PICK s \in Numbers : s = NewSession(n) /\ s # 0
    BY NewNumbers
<1>2. PICK u : u = [c[n] EXCEPT !.sess = s, !.paused = FALSE, !.fwd = Empty]
    OBVIOUS
<1>3. PICK r : r = [relay[n] EXCEPT !.key = Registered(n)]
    BY Zenon
<1>4. /\ c \in [Clients -> ClientStates] /\ c[n] \in ClientStates /\ relay[n] \in RelayStates
      /\ relay \in [Clients -> RelayStates]
    BY DEF Inv
<1>5. /\ u \in ClientStates /\ u.key = c[n].key /\ u.sess = s /\ u.fwd = Empty /\ u.view = c[n].view
      /\ u.nodes = c[n].nodes /\ u.conn = c[n].conn /\ u.answer = c[n].answer
    BY <1>1, <1>2, <1>4, EmptySound, ZenonT(40) DEF ClientStates
<1>6. Registered(n) \in {relay[n].key, c[n].key}
    BY Zenon DEF Registered
<1>7. relay[n].key <= c[n].key /\ c[n].key \in Nat
    BY <1>4, KeysAreNumbers, SMTT(30) DEF Inv, KeyOrder, ClientStates
<1>8. r \in RelayStates /\ r.key \in {relay[n].key, c[n].key} /\ r.key <= u.key
    <2>1. Registered(n) \in Keys \cup {0}
        BY <1>4, <1>6 DEF RelayStates, ClientStates
    <2>2. r \in RelayStates /\ r.key = Registered(n)
        BY <1>3, <1>4, <2>1 DEF RelayStates
    <2>3. Registered(n) <= c[n].key
        BY <1>6, <1>7
    <2> QED BY <1>5, <1>6, <2>2, <2>3
<1>9. /\ c' = [c EXCEPT ![n] = u] /\ relay' = [relay EXCEPT ![n] = r]
      /\ UNCHANGED <<left, task, out, net>>
    BY <1>1, <1>2, <1>3, <1>4, Zenon DEF Register
<1>10. ClientOK(n, c[n], task[n], n \in left.queried) /\ \A k \in KeyBounds(n) : KeysOK(n, c[n], task[n], k)
    BY ClientFact
<1>11. ~HasRoute(n, c[n]) /\ ~HasRoute(n, u)
    BY <1>5, <1>10 DEF ClientOK, RouteOK, HasRoute, RouteIn, Register
<1>12. Agree(u.fwd) /\ SlotOf(u.fwd, Peer(n)) = NoSlot
    BY <1>5, EmptySound, PeerFact
<1>13. ConnOK(n, u) /\ ViewOK(u) /\ RouteOK(n, u)
    BY <1>5, <1>10, <1>11, ZenonT(40) DEF ClientOK, ConnOK, ViewOK, RouteOK, HasRoute, RouteIn
<1>14. InfoOK(n, u, n \in left.queried)
    BY <1>5, <1>10, <1>11, <1>12, ZenonT(40) DEF ClientOK, InfoOK
<1>15. ClientOK(n, u, task[n], n \in left.queried)
    BY <1>10, <1>11, <1>12, <1>13, <1>14, NoRouteTask, Zenon DEF ClientOK
<1>16. \A k \in KeyBounds(n) : KeysOK(n, u, task[n], k)
    BY <1>5, <1>10 DEF KeysOK, RouteIn
<1>17. PICK p : p = Peer(n)
    OBVIOUS
<1>18. p \in Clients /\ Peer(p) = n
    BY <1>17, PeerFact
<1>19. \A k \in KeyBounds(p) : KeysOK(p, c[p], task[p], k)
    BY <1>18, ClientFact
<1>20. {u.key} \cup ({r.key} \ {0}) \subseteq KeyBounds(p)
    BY <1>5, <1>8, <1>18, ZenonT(40) DEF KeyBounds
<1>21. OutOK' /\ NetOK(net') /\ left' \in [Events -> SUBSET Clients]
    BY <1>9 DEF Inv, OutOK
<1>22. task[n] \in [Whys -> TaskStates] /\ task' = [task EXCEPT ![n] = task[n]]
    BY <1>9, ClientFact, ZenonT(40)
<1> QED BY <1>5, <1>8, <1>9, <1>15, <1>16, <1>17, <1>19, <1>20, <1>21, <1>22, AnyStep, Zenon

\* A new process knows nothing, and its key is newer than every one of before.
LEMMA RestartStep ==
    ASSUME Inv, NEW n \in Clients, Restart(n)
    PROVE  Inv'
<1>1. PICK u, t : u = NewClient(c[n].key + 1) /\ t = [w \in Whys |-> NoTask]
    BY Zenon
<1>2. /\ c \in [Clients -> ClientStates] /\ c[n] \in ClientStates
      /\ relay \in [Clients -> RelayStates] /\ relay[n] \in RelayStates
      /\ task \in [Clients -> [Whys -> TaskStates]]
    BY DEF Inv
<1>3. c[n].key \in Keys /\ c[n].key + 1 \in Keys /\ Keys \subseteq Nat
    <2>1. PICK k \in Keys : k = c[n].key
        BY <1>2, Zenon DEF ClientStates
    <2>2. k < MaxKey
        BY <2>1, Zenon DEF Restart
    <2>3. k + 1 \in Keys /\ Keys \subseteq Nat
        BY <2>2, ForwardingAssumption, SMTT(30) DEF Keys
    <2> QED BY <2>1, <2>3, Zenon
<1>4. u \in ClientStates
    <2>1. NoView \in ViewStates /\ NoRoute \in RouteStates /\ NoBackoff \in [wait : BOOLEAN, succ : 0..Resets]
        BY ForwardingAssumption, SMTT(30) DEF NoView, ViewStates, NoRoute, RouteStates, NoBackoff
    <2> QED BY <1>1, <1>3, <2>1, EmptySound
            DEF ClientStates, NewClient, ViewStates, RouteStates, NoConn, NoInfo
<1>5. /\ u.key = c[n].key + 1 /\ u.sess = 0 /\ u.fwd = Empty /\ u.view = NoView /\ u.answer = NoInfo
      /\ u.nodes = [i \in NodeIds |-> NoRoute] /\ u.conn = NoConn
    BY <1>1, ZenonT(40) DEF NewClient
<1>6. t \in [Whys -> TaskStates] /\ \A w \in Whys : t[w] = NoTask
    BY <1>1 DEF NoTask, TaskStates
<1>7. c' = [c EXCEPT ![n] = u] /\ task' = [task EXCEPT ![n] = t] /\ UNCHANGED <<relay, net>>
    BY <1>1 DEF Restart
<1>8. left' \in [Events -> SUBSET Clients] /\ left'.queried = left.queried
    BY LeftStep, ZenonT(40) DEF Restart, Events
<1>9. OutOK'
    <2>1. NoWait \in WaitStates
        BY DEF NoWait, WaitStates, Packets, NoPacket
    <2> QED BY <2>1 DEF Inv, OutOK, Restart
<1>10. RouteIn(n, u) = NoRoute /\ \A i \in IdsOf[Peer(n)] : u.nodes[i] = NoRoute
    BY <1>5, PeerFact DEF RouteIn
<1>11. \A w \in Whys : TaskOK(n, u, t[w])
    BY <1>6, NoneFact, Zenon DEF TaskOK
<1>12. ClientOK(n, u, t, n \in left'.queried)
    <2>1. ~HasRoute(n, u)
        BY <1>10, Zenon DEF HasRoute
    <2>2. u.conn.pc = "idle"
        BY <1>5, NoneFact, Zenon
    <2>3. Agree(u.fwd)
        BY <1>5, EmptySound, Zenon
    <2>4. ConnOK(n, u) /\ ViewOK(u)
        BY <1>5, <2>2, Zenon DEF ConnOK, ViewOK
    <2>5. RouteOK(n, u) /\ InfoOK(n, u, n \in left'.queried)
        BY <1>5, <1>10, <2>1, <2>2, Zenon DEF RouteOK, InfoOK
    <2> QED BY <1>11, <2>3, <2>4, <2>5, Zenon DEF ClientOK
<1>13. \A k \in KeyBounds(n) : KeysOK(n, u, t, k)
    <2>1. \A k \in KeyBounds(n) : 0 <= k
        BY Bounds
    <2>2. u.view.key = 0 /\ u.conn.key = 0 /\ u.answer.key = 0 /\ RouteIn(n, u).key = 0
        BY <1>5, <1>10, NoneFact, Zenon
    <2>3. \A w \in Whys : t[w].key = 0
        BY <1>6, NoneFact, Zenon
    <2> QED BY <2>1, <2>2, <2>3, Zenon DEF KeysOK
<1>14. relay[n].key <= c[n].key /\ relay[n].key \in Nat
    BY <1>2, KeysAreNumbers, Zenon DEF Inv, KeyOrder, RelayStates
<1>15. relay[n].key <= u.key
    <2>1. PICK x, y \in Nat : x = relay[n].key /\ y = c[n].key
        BY <1>3, <1>14, Zenon
    <2>2. x <= y + 1
        BY <1>14, <2>1
    <2> QED BY <1>5, <2>1, <2>2, Zenon
<1>16. PICK p : p = Peer(n)
    OBVIOUS
<1>17. p \in Clients /\ Peer(p) = n
    BY <1>16, PeerFact, Zenon
<1>18. \A k \in KeyBounds(p) : KeysOK(p, c[p], task[p], k)
    BY <1>17, ClientFact
<1>19. KeysOK(p, c[p], task[p], c[n].key)
    BY <1>17, <1>18 DEF KeyBounds
<1>20. KeysOK(p, c[p], task[p], u.key)
    <2>1. c[p] \in ClientStates /\ task[p] \in [Whys -> TaskStates] /\ p \in NodeIds
        BY <1>16, <1>17, PeerFact, ClientFact
    <2>2. Peer(p) \in NodeIds
        BY <1>17, PeerFact
    <2>3. /\ c[p].view.key \in Nat /\ c[p].conn.key \in Nat /\ c[p].answer.key \in Nat
          /\ RouteIn(p, c[p]).key \in Nat
        BY <2>1, <2>2, KeysAreNumbers DEF ClientStates, RouteIn
    <2>4. \A w \in Whys : task[p][w].key \in Nat
        BY <2>1, KeysAreNumbers DEF TaskStates
    <2>5. PICK a \in Nat : a = c[n].key
        BY <1>3, Zenon
    <2>6. \A x \in Nat : x <= a => x <= a + 1
        OBVIOUS
    <2>7. u.key = a + 1
        BY <1>5, <2>5
    <2> QED BY <2>5, <2>6, <2>7, <1>19, <2>3, <2>4 DEF KeysOK
<1>21. \A k \in {u.key} \cup ({relay[n].key} \ {0}) : KeysOK(p, c[p], task[p], k)
    BY <1>17, <1>18, <1>20 DEF KeyBounds
<1>22. relay' = [relay EXCEPT ![n] = relay[n]] /\ NetOK(net')
    BY <1>2, <1>7 DEF Inv
<1> QED BY <1>2, <1>4, <1>6, <1>7, <1>8, <1>9, <1>12, <1>13, <1>15, <1>16, <1>21, <1>22, AnyStep, Zenon

\* The relay forgets a client, or gives it another slot.
LEMMA RelayStep ==
    ASSUME Inv, NEW n \in Clients, Forget(n) \/ GiveSlot(n)
    PROVE  Inv'
<1>1. relay \in [Clients -> RelayStates] /\ relay[n] \in RelayStates /\ c[n] \in ClientStates
    BY DEF Inv
<1>2. PICK r \in RelayStates : relay' = [relay EXCEPT ![n] = r] /\ (r.key = 0 \/ r.key = relay[n].key)
    <2>1. CASE Forget(n)
        <3>1. relay' = [relay EXCEPT ![n] = [relay[n] EXCEPT !.key = 0]]
            BY <1>1, <2>1 DEF Forget
        <3>2. [relay[n] EXCEPT !.key = 0] \in RelayStates /\ [relay[n] EXCEPT !.key = 0].key = 0
            BY <1>1 DEF RelayStates
        <3> QED BY <3>1, <3>2, Zenon
    <2>2. CASE GiveSlot(n)
        <3>1. PICK s \in SlotIds : relay' = [relay EXCEPT ![n] = [relay[n] EXCEPT !.slot = s]]
            BY <1>1, <2>2, Zenon DEF GiveSlot
        <3>2. [relay[n] EXCEPT !.slot = s] \in RelayStates /\ [relay[n] EXCEPT !.slot = s].key = relay[n].key
            BY <1>1 DEF RelayStates
        <3> QED BY <3>1, <3>2, Zenon
    <2> QED BY <2>1, <2>2
<1>3. UNCHANGED <<c, task, out, net>>
    BY DEF Forget, GiveSlot
<1>4. left' \in [Events -> SUBSET Clients] /\ left'.queried = left.queried
    BY LeftStep, ZenonT(40) DEF Forget, GiveSlot, Events
<1>5. OutOK' /\ NetOK(net')
    BY <1>3 DEF Inv, OutOK
<1>6. /\ task[n] \in [Whys -> TaskStates] /\ c' = [c EXCEPT ![n] = c[n]] /\ task' = [task EXCEPT ![n] = task[n]]
      /\ ClientOK(n, c[n], task[n], n \in left'.queried)
      /\ \A k \in KeyBounds(n) : KeysOK(n, c[n], task[n], k)
    BY <1>3, <1>4, ClientFact, Zenon
<1>7. relay[n].key <= c[n].key /\ c[n].key \in Nat
    <2>1. c[n].key \in Keys
        BY <1>1, Zenon DEF ClientStates
    <2> QED BY <2>1, KeysAreNumbers, Zenon DEF Inv, KeyOrder
<1>8. r.key <= c[n].key
    BY <1>2, <1>7
<1>9. PICK p : p = Peer(n)
    OBVIOUS
<1>10. p \in Clients /\ Peer(p) = n
    BY <1>9, PeerFact
<1>11. \A k \in KeyBounds(p) : KeysOK(p, c[p], task[p], k)
    BY <1>10, ClientFact, Zenon
<1>12. {c[n].key} \cup ({r.key} \ {0}) \subseteq KeyBounds(p)
    BY <1>2, <1>10, ZenonT(40) DEF KeyBounds
<1> QED BY <1>1, <1>2, <1>4, <1>5, <1>6, <1>8, <1>9, <1>11, <1>12, AnyStep, Zenon

-----------------------------------------------------------------------------
(* The steps of connecting and disconnecting *)

\* A client that loses its routes keeps what it knows of connecting.
LEMMA UnroutedOK ==
    ASSUME Inv, NEW n \in Clients, NEW u \in ClientStates,
           u.nodes = [i \in NodeIds |-> NoRoute], Agree(u.fwd),
           u.answer = c[n].answer, u.conn \in {c[n].conn, NoConn}, u.view \in {c[n].view, NoView},
           u.conn.pc # "idle" => u.view = c[n].view /\ SlotOf(u.fwd, Peer(n)) = NoSlot
    PROVE  /\ ClientOK(n, u, task[n], n \in left.queried)
           /\ \A k \in KeyBounds(n) : KeysOK(n, u, task[n], k)
<1>1. /\ ClientOK(n, c[n], task[n], n \in left.queried)
      /\ \A k \in KeyBounds(n) : KeysOK(n, c[n], task[n], k)
      /\ c[n] \in ClientStates
    BY ClientFact
<1>2. RouteIn(n, u) = NoRoute /\ ~HasRoute(n, u) /\ \A i \in IdsOf[Peer(n)] : u.nodes[i] = NoRoute
    BY PeerFact, SMTT(30) DEF RouteIn, HasRoute
<1>3. ConnOK(n, u)
    <2>1. CASE u.conn = NoConn
        BY <2>1, NoneFact, Zenon DEF ConnOK
    <2>2. CASE u.conn = c[n].conn
        BY <1>1, <1>2, <2>2, Zenon DEF ClientOK, ConnOK
    <2> QED BY <2>1, <2>2
<1>4. ViewOK(u) /\ RouteOK(n, u)
    BY <1>1, <1>2, Zenon DEF ClientOK, ViewOK, RouteOK
<1>5. InfoOK(n, u, n \in left.queried)
    <2>1. CASE u.conn = NoConn
        BY <1>1, <1>2, <2>1, NoneFact, Zenon DEF ClientOK, InfoOK
    <2>2. CASE u.conn = c[n].conn
        BY <1>1, <1>2, <2>2, ZenonT(40) DEF ClientOK, InfoOK
    <2> QED BY <2>1, <2>2
<1>6. \A w \in Whys : TaskOK(n, u, task[n][w])
    BY <1>1, <1>2, NoRouteTask
<1>7. ASSUME NEW k \in KeyBounds(n)
      PROVE  KeysOK(n, u, task[n], k)
    <2>1. KeysOK(n, c[n], task[n], k) /\ 0 <= k
        BY <1>1, Bounds, SMTT(30)
    <2>2. u.view.key <= k /\ u.conn.key <= k /\ u.answer.key <= k
        BY <2>1, NoneFact, Zenon DEF KeysOK
    <2> QED BY <1>2, <2>1, <2>2, NoneFact, ZenonT(40) DEF KeysOK
<1> QED BY <1>3, <1>4, <1>5, <1>6, <1>7 DEF ClientOK

\* The relay session closes.
LEMMA CloseRelayStep ==
    ASSUME Inv, NEW n \in Clients, CloseRelay(n)
    PROVE  Inv'
<1>1. PICK x \in {c[n].view, NoView} : x = IF Routed(n) THEN NoView ELSE c[n].view
    OBVIOUS
<1>2. PICK y \in {c[n].failures, NoBackoff} : y = IF Routed(n) THEN NoBackoff ELSE c[n].failures
    OBVIOUS
<1>3. PICK z \in {c[n].asked, FALSE} : z = IF Routed(n) THEN FALSE ELSE c[n].asked
    BY Zenon
<1>4. PICK u : u = [c[n] EXCEPT !.sess = 0, !.paused = FALSE, !.fwd = Empty,
                               !.nodes = [i \in NodeIds |-> NoRoute], !.view = x, !.failures = y, !.asked = z]
    BY ZenonT(40)
<1>5. c \in [Clients -> ClientStates] /\ c[n] \in ClientStates
    BY DEF Inv
<1>6. /\ u \in ClientStates /\ u.key = c[n].key /\ u.fwd = Empty /\ u.view = x /\ u.conn = c[n].conn
      /\ u.nodes = [i \in NodeIds |-> NoRoute] /\ u.answer = c[n].answer
    BY <1>4, <1>5, EmptySound, NoValues, ZenonT(40) DEF ClientStates, ViewStates, RouteStates
<1>7. c' = [c EXCEPT ![n] = u] /\ UNCHANGED <<left, relay, task, out, net>>
    BY <1>1, <1>2, <1>3, <1>4, <1>5, Zenon DEF CloseRelay
<1>8. u.conn.pc # "idle" => x = c[n].view
    BY <1>1, <1>6, ClientFact, ZenonT(40) DEF ClientOK, ConnOK, HasRoute, RouteIn, Routed, Route
<1>9. Agree(u.fwd) /\ SlotOf(u.fwd, Peer(n)) = NoSlot
    BY <1>6, EmptySound, PeerFact, ZenonT(40)
<1>10. ClientOK(n, u, task[n], n \in left.queried) /\ \A k \in KeyBounds(n) : KeysOK(n, u, task[n], k)
    BY <1>6, <1>8, <1>9, UnroutedOK, ZenonT(40)
<1>11. OutOK' /\ NetOK(net') /\ left' \in [Events -> SUBSET Clients]
    BY <1>7, Zenon DEF Inv, OutOK
<1>12. task[n] \in [Whys -> TaskStates] /\ Moves(n, u, task[n])
    BY <1>7, ClientFact, Zenon DEF Moves
<1> QED BY <1>6, <1>7, <1>10, <1>11, <1>12, ClientStep, Zenon

\* disconnect leaves no route, and tables that agree.
LEMMA DisconnectedSound ==
    ASSUME Inv, NEW n \in Clients
    PROVE  /\ Disconnected(n) \in ClientStates /\ Disconnected(n).key = c[n].key
           /\ Disconnected(n).answer = c[n].answer
           /\ c[n].view = NoView => Disconnected(n) = c[n]
           /\ c[n].view # NoView =>
                /\ Disconnected(n).nodes = [i \in NodeIds |-> NoRoute] /\ Disconnected(n).view = NoView
                /\ Disconnected(n).conn = NoConn /\ Agree(Disconnected(n).fwd)
<1>1. c[n] \in ClientStates /\ Agree(c[n].fwd)
    BY ClientFact DEF ClientOK
<1>2. PICK ids \in SUBSET NodeIds : ids = {i \in NodeIds : c[n].nodes[i] # NoRoute}
    BY Zenon
<1>3. PICK f : f = RemoveAll(c[n].fwd, ids)
    BY ZenonT(40)
<1>4. f \in Forwards /\ Agree(f)
    BY <1>1, <1>3, RemoveAllSound DEF ClientStates
<1>5. CASE c[n].view = NoView
    BY <1>1, <1>5 DEF Disconnected
<1>6. CASE c[n].view # NoView
    <2>1. Disconnected(n) =
            [c[n] EXCEPT !.view = NoView, !.nodes = [i \in NodeIds |-> NoRoute], !.fwd = f,
                         !.conn = NoConn, !.want = FALSE, !.failures = NoBackoff, !.asked = FALSE]
        BY <1>1, <1>2, <1>3, <1>6 DEF Disconnected, ClientStates
    <2>2. PICK d : d = Disconnected(n)
        OBVIOUS
    <2>3. d \in ClientStates
        <3>1. PICK e : e = [c[n] EXCEPT !.view = NoView, !.nodes = [i \in NodeIds |-> NoRoute], !.fwd = f]
            OBVIOUS
        <3>2. e \in ClientStates
            BY <1>1, <1>4, <3>1, NoValues, Zenon DEF ClientStates, ViewStates, RouteStates
        <3>3. d = [e EXCEPT !.conn = NoConn, !.want = FALSE, !.failures = NoBackoff, !.asked = FALSE]
            BY <1>1, <2>1, <2>2, <3>1 DEF ClientStates
        <3> QED BY <3>2, <3>3, NoValues, Zenon DEF ClientStates
    <2>4. /\ d.key = c[n].key /\ d.answer = c[n].answer /\ d.view = NoView /\ d.conn = NoConn
          /\ d.nodes = [i \in NodeIds |-> NoRoute] /\ d.fwd = f
        BY <1>1, <2>1, <2>2, ZenonT(40) DEF ClientStates
    <2> QED BY <1>4, <1>6, <2>2, <2>3, <2>4
<1> QED BY <1>5, <1>6

\* The step of Disconnect.
LEMMA DisconnectStep ==
    ASSUME Inv, NEW n \in Clients, Disconnect(n)
    PROVE  Inv'
<1>1. PICK u : u = Disconnected(n)
    OBVIOUS
<1>2. c' = [c EXCEPT ![n] = u] /\ UNCHANGED <<relay, task, out, net>>
    BY <1>1 DEF Disconnect
<1>3. left' \in [Events -> SUBSET Clients] /\ left'.queried = left.queried
    BY LeftStep DEF Disconnect, Events
<1>4. u \in ClientStates /\ u.key = c[n].key
    BY <1>1, DisconnectedSound, ZenonT(40)
<1>5. ClientOK(n, u, task[n], n \in left.queried) /\ \A k \in KeyBounds(n) : KeysOK(n, u, task[n], k)
    <2>1. CASE c[n].view = NoView
        BY <1>1, <2>1, DisconnectedSound, ClientFact, ZenonT(40)
    <2>2. CASE c[n].view # NoView
        <3>1. /\ u.nodes = [i \in NodeIds |-> NoRoute] /\ u.view = NoView /\ u.conn = NoConn
              /\ Agree(u.fwd) /\ u.answer = c[n].answer
            BY <1>1, <2>2, DisconnectedSound
        <3>2. u.conn.pc = "idle"
            BY <3>1 DEF NoConn
        <3> QED BY <1>4, <3>1, <3>2, UnroutedOK, ZenonT(40)
    <2> QED BY <2>1, <2>2
<1>6. OutOK' /\ NetOK(net')
    BY <1>2 DEF Inv, OutOK
<1>7. task[n] \in [Whys -> TaskStates] /\ Moves(n, u, task[n])
    BY <1>2, ClientFact DEF Moves
<1> QED BY <1>3, <1>4, <1>5, <1>6, <1>7, ClientStep, Zenon
-----------------------------------------------------------------------------
(* The steps of connections, of lookups and of refreshes *)

\* The relay says that a slot is gone.
LEMMA OnSlotGoneStep ==
    ASSUME Inv, NEW m \in net, OnSlotGone(m)
    PROVE  Inv'
<1>1. PICK n \in Clients : n = m.to
    BY DEF Inv, NetOK
<1>2. PICK s \in SlotIds : s = m.packet.slot
    BY DEF Inv, NetOK
<1>3. PICK f : f = RemoveBySlot(c[n].fwd, s)
    OBVIOUS
<1>4. c[n] \in ClientStates /\ Agree(c[n].fwd) /\ c[n].fwd \in Forwards /\ c \in [Clients -> ClientStates]
    BY ClientFact, Zenon DEF ClientOK, ClientStates, Inv
<1>5. /\ f \in Forwards /\ Agree(f)
      /\ \A i \in NodeIds : SlotOf(f, i) \in {NoSlot, SlotOf(c[n].fwd, i)}
    BY <1>3, <1>4, RemoveBySlotSound
<1>6. UNCHANGED <<left, relay, task, out>> /\ net' = net \ {m}
    BY ZenonT(40) DEF OnSlotGone
<1>7. OutOK' /\ NetOK(net') /\ left' \in [Events -> SUBSET Clients]
    BY <1>6, NetLess, Zenon DEF Inv, OutOK
<1>8. ClientOK(n, c[n], task[n], n \in left.queried) /\ \A k \in KeyBounds(n) : KeysOK(n, c[n], task[n], k)
    BY ClientFact
<1>9. CASE Allowed(n, m) /\ Routed(n)
    <2>1. PICK g : g = RemoveAll(f, IdsOf[Peer(n)])
        OBVIOUS
    <2>2. g \in Forwards /\ Agree(g)
        BY <1>5, <2>1, PeerFact, RemoveAllSound
    <2>3. PICK d : d = Disconnected(n)
        OBVIOUS
    <2>4. PICK u : u = [d EXCEPT !.fwd = g]
        BY Zenon
    <2>5. c[n].view # NoView
        <3>1. HasRoute(n, c[n])
            BY <1>9, Zenon DEF HasRoute, RouteIn, Routed, Route
        <3>2. c[n].view.gen # 0
            BY <1>8, <3>1, Zenon DEF ClientOK, RouteOK
        <3>3. NoView.gen = 0
            BY ZenonT(40) DEF NoView
        <3> QED BY <3>2, <3>3, Zenon
    <2>6. /\ d \in ClientStates /\ d.key = c[n].key /\ d.answer = c[n].answer
          /\ d.nodes = [i \in NodeIds |-> NoRoute] /\ d.view = NoView /\ d.conn = NoConn
        BY <2>3, <2>5, DisconnectedSound
    <2>7. /\ u \in ClientStates /\ u.key = c[n].key /\ u.answer = c[n].answer /\ u.fwd = g
          /\ u.nodes = [i \in NodeIds |-> NoRoute] /\ u.view = NoView /\ u.conn = NoConn
        BY <2>2, <2>4, <2>6, ZenonT(40) DEF ClientStates
    <2>8. u.conn.pc = "idle"
        BY <2>7, SMTT(30) DEF NoConn
    <2>9. ClientOK(n, u, task[n], n \in left.queried) /\ \A k \in KeyBounds(n) : KeysOK(n, u, task[n], k)
        BY <2>2, <2>7, <2>8, UnroutedOK, Zenon
    <2>10. c' = [c EXCEPT ![n] = u]
        BY <1>1, <1>2, <1>3, <1>9, <2>1, <2>3, <2>4 DEF OnSlotGone
    <2>11. task[n] \in [Whys -> TaskStates] /\ Moves(n, u, task[n])
        BY <1>6, <2>10, ClientFact, ZenonT(40) DEF Moves
    <2> QED BY <1>6, <1>7, <2>7, <2>9, <2>11, ClientStep, Zenon
<1>10. CASE ~(Allowed(n, m) /\ Routed(n))
    <2>1. PICK u : u = [c[n] EXCEPT !.fwd = f]
        BY Zenon
    <2>2. /\ u \in ClientStates /\ u.key = c[n].key /\ u.sess = c[n].sess /\ u.fwd = f
          /\ u.view = c[n].view /\ u.nodes = c[n].nodes /\ u.conn = c[n].conn /\ u.answer = c[n].answer
        BY <1>4, <1>5, <2>1, Zenon DEF ClientStates
    <2>3. c' = [c EXCEPT ![n] = u]
        BY <1>1, <1>2, <1>3, <1>4, <1>10, <2>1 DEF OnSlotGone
    <2>4. SlotOf(u.fwd, Peer(n)) \in {NoSlot, SlotOf(c[n].fwd, Peer(n))}
        BY <1>5, <2>2, PeerFact, ZenonT(40)
    <2>5. InfoOK(n, u, n \in left.queried)
        BY <1>8, <2>2, <2>4, Zenon DEF ClientOK, InfoOK, HasRoute, RouteIn
    <2>6. ConnOK(n, u) /\ ViewOK(u) /\ RouteOK(n, u) /\ \A w \in Whys : TaskOK(n, u, task[n][w])
        BY <1>8, <2>2, Zenon DEF ClientOK, ConnOK, ViewOK, RouteOK, TaskOK, HasRoute, RouteIn
    <2>7. ClientOK(n, u, task[n], n \in left.queried)
        BY <1>5, <2>2, <2>5, <2>6, ZenonT(40) DEF ClientOK
    <2>8. \A k \in KeyBounds(n) : KeysOK(n, u, task[n], k)
        BY <1>8, <2>2, ZenonT(40) DEF KeysOK, RouteIn
    <2>9. task[n] \in [Whys -> TaskStates] /\ Moves(n, u, task[n])
        BY <1>6, <2>3, ClientFact DEF Moves
    <2> QED BY <1>6, <1>7, <2>2, <2>7, <2>8, <2>9, ClientStep, Zenon
<1> QED BY <1>9, <1>10, ZenonT(40)

\* query_node_info asks.
LEMMA QueryInfoStep ==
    ASSUME Inv, NEW n \in Clients, QueryInfo(n)
    PROVE  Inv'
<1>1. PICK x : x = relay[Peer(n)]
    OBVIOUS
<1>2. x \in RelayStates /\ x.key # 0 /\ x.key \in Nat /\ x.slot \in SlotIds /\ \A k \in KeyBounds(n) : x.key <= k
    BY <1>1, PeerFact, Bounds DEF Inv, QueryInfo, Findable
<1>3. PICK u : u = [c[n] EXCEPT !.answer = x]
    BY ZenonT(40)
<1>4. c \in [Clients -> ClientStates] /\ c[n] \in ClientStates
    BY DEF Inv
<1>5. /\ u \in ClientStates /\ u.key = c[n].key /\ u.sess = c[n].sess /\ u.fwd = c[n].fwd
      /\ u.view = c[n].view /\ u.nodes = c[n].nodes /\ u.conn = c[n].conn /\ u.answer = x
    BY <1>2, <1>3, <1>4, Zenon DEF ClientStates, RelayStates
<1>6. c' = [c EXCEPT ![n] = u] /\ UNCHANGED <<relay, task, out, net>>
    BY <1>1, <1>3, <1>4 DEF QueryInfo
<1>7. /\ left' \in [Events -> SUBSET Clients] /\ n \in left'.queried
      /\ \A m \in Clients \ {n} : m \in left'.queried <=> m \in left.queried
    BY Zenon DEF Inv, QueryInfo, Events
<1>8. OutOK' /\ NetOK(net')
    BY <1>6 DEF Inv, OutOK
<1>9. ClientOK(n, c[n], task[n], n \in left.queried) /\ \A k \in KeyBounds(n) : KeysOK(n, c[n], task[n], k)
    BY ClientFact
<1>10. /\ Agree(u.fwd) /\ ConnOK(n, u) /\ ViewOK(u) /\ RouteOK(n, u)
       /\ \A w \in Whys : TaskOK(n, u, task[n][w])
    BY <1>2, <1>5, <1>9, ZenonT(40) DEF ClientOK, ConnOK, ViewOK, RouteOK, TaskOK, HasRoute, RouteIn
<1>11. ClientOK(n, u, task[n], n \in left'.queried)
    BY <1>7, <1>10, Zenon DEF ClientOK, InfoOK
<1>12. \A k \in KeyBounds(n) : KeysOK(n, u, task[n], k)
    BY <1>2, <1>5, <1>9 DEF KeysOK, RouteIn
<1>13. task[n] \in [Whys -> TaskStates] /\ Moves(n, u, task[n])
    BY <1>6, ClientFact DEF Moves
<1> QED BY <1>5, <1>7, <1>8, <1>11, <1>12, <1>13, ClientStep, Zenon

\* update_entry keeps the generation of a view that is there.
LEMMA UpdateEntrySound ==
    ASSUME Inv, NEW n \in Clients, NEW info, info.key \in Keys \cup {0}, info.slot \in SlotIds
    PROVE  /\ UpdateEntry(n, info) \in ViewStates
           /\ UpdateEntry(n, info).key = info.key /\ UpdateEntry(n, info).slot = info.slot
           /\ UpdateEntry(n, info).gen # 0
           /\ c[n].view # NoView => UpdateEntry(n, info).gen = c[n].view.gen
<1>1. c[n].view \in ViewStates /\ (c[n].view # NoView => c[n].view.gen # 0)
    BY ClientFact DEF ClientOK, ViewOK, ClientStates, ViewStates
<1>2. [NoView EXCEPT !.gen = NewGeneration(n)] \in ViewStates
      /\ [NoView EXCEPT !.gen = NewGeneration(n)].gen # 0
    BY NewNumbers DEF NoView, ViewStates, NoSlot
<1>3. PICK x \in ViewStates : /\ UpdateEntry(n, info) = ApplyInfo(x, info) /\ x.gen # 0
                              /\ c[n].view # NoView => x = c[n].view
    BY <1>1, <1>2, ZenonT(40) DEF UpdateEntry
<1> QED BY <1>3, Zenon DEF ApplyInfo, ViewStates

\* query_node_info writes its answer, however late.
LEMMA OnInfoStep ==
    ASSUME Inv, NEW n \in Clients, OnInfo(n)
    PROVE  Inv'
<1>1. c \in [Clients -> ClientStates] /\ c[n] \in ClientStates
    BY DEF Inv
<1>2. ClientOK(n, c[n], task[n], n \in left.queried) /\ \A k \in KeyBounds(n) : KeysOK(n, c[n], task[n], k)
    BY ClientFact
<1>3. PICK x : x = c[n].answer
    OBVIOUS
<1>4. x.key \in Keys /\ x.key # 0 /\ x.slot \in SlotIds /\ n \in left.queried
    BY <1>1, <1>2, <1>3 DEF OnInfo, ClientOK, ViewOK, InfoOK, ClientStates
<1>5. PICK v : v = UpdateEntry(n, x)
    OBVIOUS
<1>6. /\ v \in ViewStates /\ v.key = x.key /\ v.slot = x.slot /\ v.gen # 0
      /\ c[n].view # NoView => v.gen = c[n].view.gen
    BY <1>4, <1>5, UpdateEntrySound
<1>7. PICK u : u = [c[n] EXCEPT !.view = v, !.answer = NoInfo]
    OBVIOUS
<1>8. /\ u \in ClientStates /\ u.key = c[n].key /\ u.sess = c[n].sess /\ u.fwd = c[n].fwd
      /\ u.view = v /\ u.nodes = c[n].nodes /\ u.conn = c[n].conn /\ u.answer = NoInfo
    BY <1>1, <1>6, <1>7, Zenon DEF ClientStates, ViewStates, NoInfo, NoSlot
<1>9. c' = [c EXCEPT ![n] = u] /\ UNCHANGED <<left, relay, task, out, net>>
    BY <1>1, <1>3, <1>5, <1>7, Zenon DEF OnInfo
<1>10. HasRoute(n, c[n]) \/ c[n].conn.pc # "idle" => v.gen = c[n].view.gen
    <2>1. HasRoute(n, c[n]) \/ c[n].conn.pc # "idle" => c[n].view.gen # 0
        BY <1>2, Zenon DEF ClientOK, ConnOK, RouteOK
    <2>2. NoView.gen = 0
        BY ZenonT(40) DEF NoView
    <2> QED BY <1>6, <2>1, <2>2, Zenon
<1>11. RouteIn(n, u) = RouteIn(n, c[n]) /\ HasRoute(n, u) = HasRoute(n, c[n])
    BY <1>8, ZenonT(40) DEF RouteIn, HasRoute
<1>12. ConnOK(n, u) /\ RouteOK(n, u)
    BY <1>2, <1>4, <1>6, <1>8, <1>10, <1>11, Zenon DEF ClientOK, ConnOK, RouteOK
<1>13. ViewOK(u)
    BY <1>4, <1>6, <1>8, ZenonT(40) DEF ViewOK
<1>14. \A w \in Whys : TaskOK(n, u, task[n][w])
    BY <1>2, <1>11, Zenon DEF ClientOK, TaskOK
<1>15. ClientOK(n, u, task[n], n \in left.queried)
    BY <1>2, <1>4, <1>8, <1>12, <1>13, <1>14, ZenonT(40) DEF ClientOK, InfoOK
<1>16. ASSUME NEW k \in KeyBounds(n)
       PROVE  KeysOK(n, u, task[n], k)
    <2>1. KeysOK(n, c[n], task[n], k) /\ 0 <= k
        BY <1>2, Bounds, SMTT(30)
    <2> QED BY <1>3, <1>6, <1>8, <1>11, <2>1, SMTT(30) DEF KeysOK, NoInfo
<1>17. OutOK' /\ NetOK(net') /\ left' \in [Events -> SUBSET Clients]
    BY <1>9 DEF Inv, OutOK
<1>18. task[n] \in [Whys -> TaskStates] /\ Moves(n, u, task[n])
    BY <1>9, ClientFact DEF Moves
<1> QED BY <1>8, <1>9, <1>15, <1>16, <1>17, <1>18, ClientStep

\* A connection by relay takes its permit and its new generation.
LEMMA LockStep ==
    ASSUME Inv, NEW n \in Clients, Lock(n)
    PROVE  Inv'
<1>1. c \in [Clients -> ClientStates] /\ c[n] \in ClientStates
    BY DEF Inv
<1>2. ClientOK(n, c[n], task[n], n \in left.queried) /\ \A k \in KeyBounds(n) : KeysOK(n, c[n], task[n], k)
    BY ClientFact
<1>3. UNCHANGED <<left, relay, task, out, net>>
    BY ZenonT(40) DEF Lock
<1>4. OutOK' /\ NetOK(net') /\ left' \in [Events -> SUBSET Clients]
    BY <1>3 DEF Inv, OutOK
<1>5. CASE c' = [c EXCEPT ![n].want = FALSE]
    <2>1. PICK u : u = [c[n] EXCEPT !.want = FALSE]
        BY Zenon
    <2>2. u \in ClientStates /\ SameCore(u, c[n])
        BY <1>1, <2>1, ZenonT(40) DEF ClientStates, SameCore
    <2>3. c' = [c EXCEPT ![n] = u]
        BY <1>1, <1>5, <2>1
    <2> QED BY <1>3, <1>4, <2>2, <2>3, FlagStep, Zenon
<1>6. CASE c' # [c EXCEPT ![n].want = FALSE]
    <2>1. PICK g \in Numbers : g = NewGeneration(n) /\ g # 0
        BY NewNumbers
    <2>2. PICK x \in {c[n].view, UpdateEntry(n, relay[Peer(n)])} :
            /\ x.key # 0
            /\ c' = [c EXCEPT ![n].view = [x EXCEPT !.gen = g],
                              ![n].conn = [NoConn EXCEPT !.pc = "relayed", !.gen = g]]
        BY <1>6, <2>1 DEF Lock
    <2>3. x \in ViewStates /\ x.slot \in SlotIds /\ \A k \in KeyBounds(n) : x.key <= k
        <3>1. CASE x = c[n].view
            BY <1>1, <1>2, <2>2, <3>1, SMTT(30) DEF ClientOK, ViewOK, ClientStates, ViewStates, NoView, KeysOK
        <3>2. CASE x = UpdateEntry(n, relay[Peer(n)])
            <4>1. PICK r : r = relay[Peer(n)]
                BY Zenon
            <4>2. r \in RelayStates
                BY <4>1, PeerFact DEF Inv
            <4>3. r.key \in Keys \cup {0} /\ r.slot \in SlotIds
                BY <4>2 DEF RelayStates
            <4>4. x \in ViewStates /\ x.key = r.key /\ x.slot = r.slot
                BY <3>2, <4>1, <4>3, UpdateEntrySound
            <4> QED BY <4>1, <4>3, <4>4, Bounds
        <3> QED BY <2>2, <3>1, <3>2
    <2>4. PICK v, k0 : v = [x EXCEPT !.gen = g] /\ k0 = [NoConn EXCEPT !.pc = "relayed", !.gen = g]
        BY Zenon
    <2>5. v \in ViewStates /\ v.gen = g /\ v.key = x.key /\ v.slot = x.slot
        BY <2>3, <2>4 DEF ViewStates
    <2>6. k0 = [pc |-> "relayed", gen |-> g, sess |-> 0, key |-> 0]
        BY <2>4, Zenon DEF NoConn
    <2>7. PICK u : u = [c[n] EXCEPT !.view = v, !.conn = k0]
        OBVIOUS
    <2>8. /\ u \in ClientStates /\ u.key = c[n].key /\ u.sess = c[n].sess /\ u.fwd = c[n].fwd
          /\ u.view = v /\ u.nodes = c[n].nodes /\ u.conn = k0 /\ u.answer = c[n].answer
        BY <1>1, <2>5, <2>6, <2>7, ZenonT(40) DEF ClientStates, ViewStates
    <2>9. c' = [c EXCEPT ![n] = u]
        BY <1>1, <2>2, <2>4, <2>7, Zenon
    <2>10. RouteIn(n, u) = RouteIn(n, c[n]) /\ ~HasRoute(n, u)
        BY <2>8 DEF RouteIn, HasRoute, Lock, Routed, Route
    <2>11. ConnOK(n, u)
        BY <2>1, <2>2, <2>5, <2>6, <2>8, <2>10 DEF ConnOK
    <2>12. ViewOK(u)
        BY <1>2, <2>1, <2>3, <2>5, <2>8, Zenon DEF ClientOK, ViewOK
    <2>13. RouteOK(n, u)
        BY <1>2, <2>8, <2>10, Zenon DEF ClientOK, RouteOK
    <2>14. InfoOK(n, u, n \in left.queried)
        <3>1. u.conn.pc # "route"
            BY <2>6, <2>8
        <3> QED BY <1>2, <2>8, <2>10, <3>1, Zenon DEF ClientOK, InfoOK
    <2>15. ClientOK(n, u, task[n], n \in left.queried)
        BY <1>2, <2>8, <2>10, <2>11, <2>12, <2>13, <2>14, NoRouteTask, Zenon DEF ClientOK
    <2>16. ASSUME NEW k \in KeyBounds(n)
           PROVE  KeysOK(n, u, task[n], k)
        <3>1. KeysOK(n, c[n], task[n], k) /\ 0 <= k /\ x.key <= k
            BY <1>2, <2>3, Bounds
        <3>2. u.view.key = x.key /\ u.conn.key = 0
            BY <2>5, <2>6, <2>8
        <3> QED BY <2>8, <2>10, <3>1, <3>2, ZenonT(40) DEF KeysOK
    <2>17. task[n] \in [Whys -> TaskStates] /\ Moves(n, u, task[n])
        BY <1>3, <2>9, ClientFact, ZenonT(40) DEF Moves
    <2> QED BY <1>3, <1>4, <2>8, <2>15, <2>16, <2>17, ClientStep, Zenon
<1> QED BY <1>5, <1>6

\* The slot is allowed on the relay session before the route is added.
LEMMA AllowForwardStep ==
    ASSUME Inv, NEW n \in Clients, AllowForward(n)
    PROVE  Inv'
<1>1. c \in [Clients -> ClientStates] /\ c[n] \in ClientStates
    BY DEF Inv
<1>2. ClientOK(n, c[n], task[n], n \in left.queried) /\ \A k \in KeyBounds(n) : KeysOK(n, c[n], task[n], k)
    BY ClientFact
<1>3. PICK x \in ViewStates : x = c[n].view
    BY <1>1 DEF ClientStates, ViewStates
<1>4. x.slot \in SlotIds /\ x.key # 0 /\ x.gen # 0 /\ x.gen = c[n].conn.gen /\ ~HasRoute(n, c[n])
    BY <1>2, <1>3 DEF ClientOK, ConnOK, ViewOK, AllowForward, NoView
<1>5. PICK e \in NodeEntries : e = EntryOf(Peer(n))
    BY PeerFact
<1>6. e.default \in e.identities /\ Peer(n) \in e.identities
    BY <1>5, PeerFact DEF EntryOf
<1>7. PICK f : f = Add(c[n].fwd, e, x.slot)
    OBVIOUS
<1>8. f \in Forwards /\ Agree(f) /\ SlotOf(f, Peer(n)) = x.slot
    <2>1. c[n].fwd \in Forwards /\ Agree(c[n].fwd)
        BY <1>1, <1>2, Zenon DEF ClientStates, ClientOK
    <2> QED BY <1>4, <1>6, <1>7, <2>1, AddSound, ZenonT(40)
<1>9. PICK k0 : k0 = [c[n].conn EXCEPT !.pc = "route", !.sess = c[n].sess, !.key = x.key]
    OBVIOUS
<1>10. k0 = [pc |-> "route", gen |-> c[n].conn.gen, sess |-> c[n].sess, key |-> x.key]
    BY <1>1, <1>9, Zenon DEF ClientStates
<1>11. PICK u : u = [c[n] EXCEPT !.fwd = f, !.conn = k0]
    OBVIOUS
<1>12. /\ u \in ClientStates /\ u.key = c[n].key /\ u.sess = c[n].sess /\ u.fwd = f
       /\ u.view = x /\ u.nodes = c[n].nodes /\ u.conn = k0 /\ u.answer = c[n].answer
    BY <1>1, <1>3, <1>8, <1>10, <1>11, ZenonT(40) DEF ClientStates, ViewStates
<1>13. c' = [c EXCEPT ![n] = u] /\ UNCHANGED <<left, relay, task, out, net>>
    BY <1>1, <1>3, <1>5, <1>7, <1>9, <1>11, Zenon DEF AllowForward
<1>14. RouteIn(n, u) = RouteIn(n, c[n]) /\ ~HasRoute(n, u)
    BY <1>4, <1>12 DEF RouteIn, HasRoute
<1>15. ConnOK(n, u)
    BY <1>4, <1>10, <1>12, <1>14, SMTT(30) DEF ConnOK, AllowForward
<1>16. ViewOK(u) /\ RouteOK(n, u)
    BY <1>2, <1>3, <1>12, <1>14, Zenon DEF ClientOK, ViewOK, RouteOK
<1>17. InfoOK(n, u, n \in left.queried)
    <2>1. u.conn.key = u.view.key /\ u.view.slot = x.slot
        BY <1>10, <1>12
    <2> QED BY <1>2, <1>8, <1>12, <1>14, <2>1, Zenon DEF ClientOK, InfoOK
<1>18. ClientOK(n, u, task[n], n \in left.queried)
    BY <1>2, <1>8, <1>12, <1>14, <1>15, <1>16, <1>17, NoRouteTask, ZenonT(40) DEF ClientOK
<1>19. \A k \in KeyBounds(n) : KeysOK(n, u, task[n], k)
    BY <1>2, <1>3, <1>10, <1>12, <1>14, SMTT(30) DEF KeysOK
<1>20. OutOK' /\ NetOK(net') /\ left' \in [Events -> SUBSET Clients]
    BY <1>13 DEF Inv, OutOK
<1>21. task[n] \in [Whys -> TaskStates] /\ Moves(n, u, task[n])
    BY <1>13, ClientFact DEF Moves
<1> QED BY <1>12, <1>13, <1>18, <1>19, <1>20, <1>21, ClientStep

\* A route for every identity of the peer.
LEMMA RoutesSound ==
    ASSUME Inv, NEW n \in Clients, NEW r \in RouteStates
    PROVE  /\ Routes(n, r) \in [NodeIds -> RouteStates] /\ Routes(n, r)[Peer(n)] = r
           /\ \A i \in IdsOf[Peer(n)] : Routes(n, r)[i] = r
<1>1. c[n].nodes \in [NodeIds -> RouteStates]
    BY DEF Inv, ClientStates, RouteStates
<1> QED BY <1>1, PeerFact, ZenonT(40) DEF Routes

\* The new routing object is none that a refresh wants to replace.
LEMMA RegisterRoutingStep ==
    ASSUME Inv, NEW n \in Clients, RegisterRouting(n)
    PROVE  Inv'
<1>1. c \in [Clients -> ClientStates] /\ c[n] \in ClientStates
    BY DEF Inv
<1>2. ClientOK(n, c[n], task[n], n \in left.queried) /\ \A k \in KeyBounds(n) : KeysOK(n, c[n], task[n], k)
    BY ClientFact
<1>3. UNCHANGED <<left, relay, task, out, net>>
    BY DEF RegisterRouting
<1>4. OutOK' /\ NetOK(net') /\ left' \in [Events -> SUBSET Clients]
    BY <1>3 DEF Inv, OutOK
<1>5. PICK k0 \in [pc : {"idle", "relayed", "route"}, gen : Numbers \cup {0}, sess : Numbers \cup {0}, key : Keys \cup {0}] :
        k0 = c[n].conn
    BY <1>1 DEF ClientStates
<1>6. k0.pc = "route" /\ k0.gen # 0 /\ k0.sess # 0 /\ ~HasRoute(n, c[n]) /\ c[n].view.gen = k0.gen
    BY <1>2, <1>5 DEF RegisterRouting, ClientOK, ConnOK
<1>7. NoConn.pc = "idle" /\ NoConn.key = 0
    BY ZenonT(40) DEF NoConn
<1>8. CASE k0.sess = c[n].sess
    <2>1. PICK o \in Numbers : /\ o = NewObject(n, Whys) /\ o # 0 
                               /\ \A w \in Whys : o # task[n][w].obj
        BY NewNumbers
    <2>2. PICK r : r = [obj |-> o, gen |-> k0.gen, sess |-> k0.sess, key |-> k0.key]
        BY Zenon
    <2>3. r \in RouteStates /\ r # NoRoute
        BY <1>5, <2>1, <2>2 DEF RouteStates, NoRoute
    <2>4. PICK u : u = [c[n] EXCEPT !.nodes = Routes(n, r), !.conn = NoConn, !.want = FALSE]
        OBVIOUS
    <2>5. Routes(n, r) \in [NodeIds -> RouteStates]
        BY <2>3, RoutesSound
    <2>6. /\ u \in ClientStates /\ u.key = c[n].key /\ u.sess = c[n].sess /\ u.fwd = c[n].fwd
          /\ u.view = c[n].view /\ u.nodes = Routes(n, r) /\ u.conn = NoConn /\ u.answer = c[n].answer
        BY <1>1, <2>4, <2>5, NoValues, ZenonT(40) DEF ClientStates, RouteStates
    <2>7. c' = [c EXCEPT ![n] = u]
        BY <1>1, <1>5, <1>6, <1>8, <2>1, <2>2, <2>4, Zenon DEF RegisterRouting
    <2>8. RouteIn(n, u) = r /\ HasRoute(n, u) /\ \A i \in IdsOf[Peer(n)] : u.nodes[i] = r
        BY <2>3, <2>6, RoutesSound, SMTT(30) DEF RouteIn, HasRoute
    <2>9. ConnOK(n, u) /\ ViewOK(u)
        BY <1>2, <1>7, <2>6, ZenonT(40) DEF ClientOK, ConnOK, ViewOK
    <2>10. RouteOK(n, u)
        BY <1>6, <1>8, <2>1, <2>2, <2>6, <2>8, SMTT(30) DEF RouteOK
    <2>11. InfoOK(n, u, n \in left.queried)
        <3>1. r.key = k0.key /\ u.conn.pc # "route"
            BY <1>7, <2>2, <2>6
        <3>2. InfoOK(n, c[n], n \in left.queried)
            BY <1>2, Zenon DEF ClientOK
        <3> QED BY <1>5, <1>6, <2>6, <2>8, <3>1, <3>2, Zenon DEF InfoOK
    <2>12. \A w \in Whys : TaskOK(n, u, task[n][w])
        <3>1. r.obj = o
            BY <2>2
        <3> QED BY <1>2, <2>1, <2>8, <3>1, Zenon DEF ClientOK, TaskOK
    <2>13. ClientOK(n, u, task[n], n \in left.queried)
        BY <1>2, <2>6, <2>9, <2>10, <2>11, <2>12, ZenonT(40) DEF ClientOK
    <2>14. ASSUME NEW k \in KeyBounds(n)
           PROVE  KeysOK(n, u, task[n], k)
        <3>1. KeysOK(n, c[n], task[n], k) /\ k \in Nat
            BY <1>2, Bounds, Zenon
        <3>2. 0 <= k
            BY <3>1, SMTT(30)
        <3>3. u.conn.key = 0 /\ r.key = k0.key
            BY <1>7, <2>2, <2>6
        <3> QED BY <1>5, <2>6, <2>8, <3>1, <3>2, <3>3, Zenon DEF KeysOK
    <2>15. task[n] \in [Whys -> TaskStates] /\ Moves(n, u, task[n])
        BY <1>3, <2>7, ClientFact, ZenonT(40) DEF Moves
    <2> QED BY <1>3, <1>4, <2>6, <2>13, <2>14, <2>15, ClientStep, Zenon
<1>9. CASE k0.sess # c[n].sess
    <2>1. PICK u : u = [c[n] EXCEPT !.view = NoView, !.conn = NoConn, !.want = FALSE]
        OBVIOUS
    <2>2. /\ u \in ClientStates /\ u.key = c[n].key /\ u.sess = c[n].sess /\ u.fwd = c[n].fwd
          /\ u.view = NoView /\ u.nodes = c[n].nodes /\ u.conn = NoConn /\ u.answer = c[n].answer
        BY <1>1, <2>1, NoValues, ZenonT(40) DEF ClientStates, ViewStates
    <2>3. c' = [c EXCEPT ![n] = u]
        BY <1>1, <1>5, <1>6, <1>9, <2>1, Zenon DEF RegisterRouting
    <2>4. RouteIn(n, u) = RouteIn(n, c[n]) /\ ~HasRoute(n, u)
        BY <1>6, <2>2 DEF RouteIn, HasRoute
    <2>5. ConnOK(n, u) /\ ViewOK(u) /\ RouteOK(n, u) /\ InfoOK(n, u, n \in left.queried)
        BY <1>2, <1>7, <2>2, <2>4, ZenonT(40) DEF ClientOK, ConnOK, ViewOK, RouteOK, InfoOK
    <2>6. ClientOK(n, u, task[n], n \in left.queried)
        BY <1>2, <2>2, <2>4, <2>5, NoRouteTask, Zenon DEF ClientOK
    <2>7. ASSUME NEW k \in KeyBounds(n)
          PROVE  KeysOK(n, u, task[n], k)
        <3>1. KeysOK(n, c[n], task[n], k) /\ 0 <= k
            BY <1>2, Bounds
        <3>2. u.view.key = 0 /\ u.conn.key = 0
            BY <1>7, <2>2 DEF NoView
        <3> QED BY <2>2, <2>4, <3>1, <3>2, Zenon DEF KeysOK
    <2>8. task[n] \in [Whys -> TaskStates] /\ Moves(n, u, task[n])
        BY <1>3, <2>3, ClientFact DEF Moves
    <2> QED BY <1>3, <1>4, <2>2, <2>6, <2>7, <2>8, ClientStep, Zenon
<1> QED BY <1>8, <1>9

-----------------------------------------------------------------------------
(* The steps of a refresh *)

\* A task that ends, or that begins to look up, while the client itself changes no more than
\* its flags.
LEMMA FreshTaskStep ==
    ASSUME Inv, NEW n \in Clients, NEW w \in Whys, NEW x \in TaskStates, x.key = 0, TaskOK(n, c[n], x),
           NEW u \in ClientStates, SameCore(u, c[n]), c' = [c EXCEPT ![n] = u],
           task' = [task EXCEPT ![n] = [task[n] EXCEPT ![w] = x]], relay' = relay, left' = left,
           OutOK', NetOK(net')
    PROVE  Inv'
<1>1. PICK t : t = [task[n] EXCEPT ![w] = x]
    BY Zenon
<1>2. /\ task[n] \in [Whys -> TaskStates] /\ ClientOK(n, c[n], task[n], n \in left.queried)
      /\ \A k \in KeyBounds(n) : KeysOK(n, c[n], task[n], k) /\ k \in Nat
    BY ClientFact, Bounds
<1>3. /\ t \in [Whys -> TaskStates] /\ ClientOK(n, c[n], t, n \in left.queried)
      /\ \A k \in KeyBounds(n) : KeysOK(n, c[n], t, k)
    BY <1>1, <1>2, FreshTask
<1>4. Moves(n, u, t)
    BY <1>1 DEF Moves
<1>5. left' \in [Events -> SUBSET Clients]
    BY Zenon DEF Inv
<1> QED BY <1>3, <1>4, <1>5, QuietStep

\* A lookup that fails ends its refresh.
LEMMA LookupFailsStep ==
    ASSUME Inv, NEW n \in Clients, NEW w \in Whys, LookupFails(n, w)
    PROVE  Inv'
<1>1. PICK x : x = [NoTask EXCEPT !.pc = After(w)]
    BY Zenon
<1>2. After(w) \in {"idle", "notify"}
    BY DEF After
<1>3. x \in TaskStates /\ x.key = 0 /\ TaskOK(n, c[n], x)
    BY <1>1, <1>2, IdleTask, SMTT(30)
<1>4. task \in [Clients -> [Whys -> TaskStates]]
    BY DEF Inv
<1>5. task' = [task EXCEPT ![n] = [task[n] EXCEPT ![w] = x]] /\ UNCHANGED <<left, relay, c, out, net>>
    BY <1>1, <1>4 DEF LookupFails
<1>6. c[n] \in ClientStates /\ SameCore(c[n], c[n]) /\ c' = [c EXCEPT ![n] = c[n]]
    BY <1>5, ClientFact, ZenonT(40) DEF SameCore
<1>7. OutOK' /\ NetOK(net')
    BY <1>5, Zenon DEF Inv, OutOK
<1> QED BY <1>3, <1>5, <1>6, <1>7, FreshTaskStep, Zenon

\* handle_encryption_failure ends by send_encryption_sync.
LEMMA NotifyStep ==
    ASSUME Inv, NEW n \in Clients, Notify(n)
    PROVE  Inv'
<1>1. PICK x : x = [NoTask EXCEPT !.pc = "idle"]
    BY Zenon
<1>2. x = NoTask
    BY <1>1 DEF NoTask
<1>3. x \in TaskStates /\ x.key = 0 /\ TaskOK(n, c[n], x)
    BY <1>1, IdleTask, ZenonT(40)
<1>4. task \in [Clients -> [Whys -> TaskStates]] /\ "failure" \in Whys
    BY DEF Inv, Whys
<1>5. task' = [task EXCEPT ![n] = [task[n] EXCEPT !["failure"] = x]] /\ UNCHANGED <<left, relay, c>>
    BY <1>2, <1>4 DEF Notify
<1>6. c[n] \in ClientStates /\ SameCore(c[n], c[n]) /\ c' = [c EXCEPT ![n] = c[n]]
    BY <1>5, ClientFact DEF SameCore
<1>7. OutOK' /\ NetOK(net')
    BY TransmitSound, ZenonT(40) DEF Notify, Senders
<1> QED BY <1>3, <1>4, <1>5, <1>6, <1>7, FreshTaskStep, Zenon

\* A refresh begins with the object of now.
LEMMA NewRefreshSound ==
    ASSUME Inv, NEW n \in Clients, NEW w \in Whys
    PROVE  NewRefresh(n, w) \in TaskStates /\ NewRefresh(n, w).key = 0 /\ TaskOK(n, c[n], NewRefresh(n, w))
<1>1. ClientOK(n, c[n], task[n], n \in left.queried) /\ c[n] \in ClientStates
    BY ClientFact
<1>2. CASE c[n].view = NoView \/ ~Routed(n) \/ Route(n).gen # c[n].view.gen
    <2>1. NewRefresh(n, w) = [NoTask EXCEPT !.pc = After(w)] /\ After(w) \in {"idle", "notify"}
        BY <1>2, ZenonT(40) DEF NewRefresh, After
    <2> QED BY <2>1, IdleTask
<1>3. CASE ~(c[n].view = NoView \/ ~Routed(n) \/ Route(n).gen # c[n].view.gen)
    <2>1. PICK r \in RouteStates : r = Route(n)
        BY <1>1, PeerFact DEF ClientStates, RouteStates, Route
    <2>2. PICK v \in ViewStates : v = c[n].view
        BY <1>1 DEF ClientStates, ViewStates
    <2>3. NewRefresh(n, w) = [pc |-> "lookup", gen |-> v.gen, obj |-> r.obj, sess |-> r.sess, prev |-> v.key,
                             key |-> 0, slot |-> NoSlot]
        BY <1>3, <2>1, <2>2, Zenon DEF NewRefresh, NoTask
    <2>4. r.obj # 0 /\ r.sess # 0
        BY <1>1, <1>3, <2>1, Zenon DEF ClientOK, RouteOK, HasRoute, RouteIn, Routed, Route
    <2> QED BY <2>1, <2>2, <2>3, <2>4, SMTT(30) DEF TaskStates, TaskOK, RouteStates, ViewStates
<1> QED BY <1>2, <1>3

\* An encryption sync of the peer starts a refresh.
LEMMA OnSyncStep ==
    ASSUME Inv, NEW m \in net, OnSync(m)
    PROVE  Inv'
<1>1. PICK n \in Clients : n = m.to
    BY DEF Inv, NetOK
<1>2. UNCHANGED <<left, relay, out>> /\ net' = net \ {m}
    BY ZenonT(40) DEF OnSync, Arrives
<1>3. OutOK' /\ NetOK(net')
    BY <1>2, NetLess, Zenon DEF Inv, OutOK
<1>4. CASE UNCHANGED <<c, task>>
    BY <1>2, <1>3, <1>4, PacketStep
<1>5. CASE ~UNCHANGED <<c, task>>
    <2>1. PICK u : u = [c[n] EXCEPT !.asked = TRUE]
        BY Zenon
    <2>2. /\ c \in [Clients -> ClientStates] /\ c[n] \in ClientStates
          /\ task \in [Clients -> [Whys -> TaskStates]] /\ "sync" \in Whys
        BY DEF Inv, Whys
    <2>3. u \in ClientStates /\ SameCore(u, c[n])
        BY <2>1, <2>2, Zenon DEF ClientStates, SameCore
    <2>4. PICK x \in TaskStates : x = NewRefresh(n, "sync") /\ x.key = 0 /\ TaskOK(n, c[n], x)
        BY <2>2, NewRefreshSound
    <2>5. c' = [c EXCEPT ![n] = u] /\ task' = [task EXCEPT ![n] = [task[n] EXCEPT !["sync"] = x]]
        BY <1>1, <1>5, <2>1, <2>2, <2>4 DEF OnSync
    <2> QED BY <1>2, <1>3, <2>2, <2>3, <2>4, <2>5, FreshTaskStep, Zenon
<1> QED BY <1>4, <1>5

\* A packet that cannot be read starts a refresh.
LEMMA OnUndecryptableStep ==
    ASSUME Inv, NEW m \in net, OnUndecryptable(m)
    PROVE  Inv'
<1>1. PICK n \in Clients : n = m.to
    BY DEF Inv, NetOK
<1>2. UNCHANGED <<left, relay, out>> /\ net' = net \ {m}
    BY DEF OnUndecryptable, Arrives
<1>3. OutOK' /\ NetOK(net') /\ left' \in [Events -> SUBSET Clients]
    BY <1>2, NetLess, Zenon DEF Inv, OutOK
<1>4. PICK u : u = [c[n] EXCEPT !.failures = [wait |-> TRUE, succ |-> 0]]
    BY Zenon
<1>5. /\ c \in [Clients -> ClientStates] /\ c[n] \in ClientStates
      /\ task \in [Clients -> [Whys -> TaskStates]] /\ "failure" \in Whys
    BY DEF Inv, Whys
<1>6. u \in ClientStates /\ SameCore(u, c[n])
    <2>1. [wait |-> TRUE, succ |-> 0] \in [wait : BOOLEAN, succ : 0..Resets]
        BY ForwardingAssumption
    <2> QED BY <1>4, <1>5, <2>1, Zenon DEF ClientStates, SameCore
<1>7. c' = [c EXCEPT ![n] = u]
    BY <1>1, <1>4, <1>5 DEF OnUndecryptable
<1>8. CASE c[n].failures.wait
    BY <1>1, <1>2, <1>3, <1>6, <1>7, <1>8, FlagStep, Zenon DEF OnUndecryptable
<1>9. CASE ~c[n].failures.wait
    <2>1. PICK x \in TaskStates : x = NewRefresh(n, "failure") /\ x.key = 0 /\ TaskOK(n, c[n], x)
        BY <1>5, NewRefreshSound
    <2>2. task' = [task EXCEPT ![n] = [task[n] EXCEPT !["failure"] = x]]
        BY <1>1, <1>5, <1>9, <2>1 DEF OnUndecryptable
    <2> QED BY <1>2, <1>3, <1>5, <1>6, <1>7, <2>1, <2>2, FreshTaskStep, Zenon
<1> QED BY <1>8, <1>9

\* The relay's answer is not older than any key the client has.
LEMMA LookupStep ==
    ASSUME Inv, NEW n \in Clients, NEW w \in Whys, Lookup(n, w)
    PROVE  Inv'
<1>1. /\ c[n] \in ClientStates /\ task[n] \in [Whys -> TaskStates]
      /\ ClientOK(n, c[n], task[n], n \in left.queried)
      /\ \A k \in KeyBounds(n) : KeysOK(n, c[n], task[n], k)
    BY ClientFact, ZenonT(40)
<1>2. PICK r \in RelayStates : r = relay[Peer(n)]
    BY PeerFact DEF Inv
<1>3. /\ r.key # 0 /\ r.key \in Keys /\ r.slot \in SlotIds /\ r.key \in KeyBounds(n)
      /\ \A k \in KeyBounds(n) : r.key <= k
    BY <1>2, Bounds DEF Lookup, Findable, RelayStates
<1>4. PICK o \in TaskStates : o = task[n][w]
    BY <1>1
<1>5. PICK x : x = [o EXCEPT !.pc = "publish", !.key = r.key, !.slot = r.slot]
    OBVIOUS
<1>6. /\ x \in TaskStates /\ x.pc = "publish" /\ x.key = r.key /\ x.slot = r.slot
      /\ x.obj = o.obj /\ x.sess = o.sess
    BY <1>3, <1>4, <1>5, Zenon DEF TaskStates
<1>7. RouteIn(n, c[n]).key <= r.key
    BY <1>1, <1>3 DEF KeysOK
<1>8. TaskOK(n, c[n], o) /\ o.pc = "lookup"
    BY <1>1, <1>4, SMTT(30) DEF ClientOK, Lookup
<1>9. TaskOK(n, c[n], x)
    BY <1>3, <1>6, <1>7, <1>8 DEF TaskOK
<1>10. PICK t : t = [task[n] EXCEPT ![w] = x]
    BY ZenonT(40)
<1>11. t \in [Whys -> TaskStates] /\ t[w] = x /\ \A y \in Whys : y # w => t[y] = task[n][y]
    BY <1>1, <1>6, <1>10
<1>12. ClientOK(n, c[n], t, n \in left.queried)
    BY <1>1, <1>9, <1>11, ZenonT(40) DEF ClientOK
<1>13. \A k \in KeyBounds(n) : KeysOK(n, c[n], t, k)
    BY <1>1, <1>3, <1>6, <1>11 DEF KeysOK
<1>14. task' = [task EXCEPT ![n] = t] /\ UNCHANGED <<left, relay, c, out, net>>
    <2>1. task \in [Clients -> [Whys -> TaskStates]]
        BY DEF Inv
    <2> QED BY <1>2, <1>4, <1>5, <1>10, <2>1, ZenonT(40) DEF Lookup
<1>15. Moves(n, c[n], t) /\ SameCore(c[n], c[n])
    BY <1>14, ClientFact, ZenonT(40) DEF Moves, SameCore
<1>16. OutOK' /\ NetOK(net') /\ left' \in [Events -> SUBSET Clients]
    BY <1>14, ZenonT(40) DEF Inv, OutOK
<1> QED BY <1>1, <1>11, <1>12, <1>13, <1>14, <1>15, <1>16, QuietStep, Zenon

\* What a refresh may replace: the route it began with, of the view and the session of now.
LEMMA PublishFact ==
    ASSUME Inv, NEW n \in Clients, NEW w \in Whys, task[n][w].pc = "publish", MayPublish(n, task[n][w])
    PROVE  /\ HasRoute(n, c[n]) /\ c[n].conn.pc = "idle" /\ c[n].view # NoView
           /\ task[n][w].slot \in SlotIds
           /\ task[n][w].gen # 0 /\ task[n][w].sess # 0
           /\ RouteIn(n, c[n]).key <= task[n][w].key
<1>1. ClientOK(n, c[n], task[n], n \in left.queried) /\ c[n] \in ClientStates
    BY ClientFact, ZenonT(40)
<1>2. TaskOK(n, c[n], task[n][w])
    BY <1>1, Zenon DEF ClientOK
<1>3. task[n][w].obj # 0 /\ task[n][w].sess # 0 /\ task[n][w].slot \in SlotIds
    BY <1>2, ZenonT(40) DEF TaskOK
<1>4. task[n][w].obj = RouteIn(n, c[n]).obj /\ HasRoute(n, c[n])
    BY <1>3, SMTT(30) DEF MayPublish, Route, RouteIn, HasRoute, NoRoute
<1>5. RouteIn(n, c[n]).key <= task[n][w].key
    BY <1>2, <1>4, ZenonT(40) DEF TaskOK
<1>6. c[n].conn.pc = "idle" /\ c[n].view.gen # 0
    BY <1>1, <1>4, Zenon DEF ClientOK, ConnOK, RouteOK
<1> QED BY <1>3, <1>4, <1>5, <1>6 DEF MayPublish, NoView

\* A refresh commits its answer, or finds the route changed.
LEMMA CommitStep ==
    ASSUME Inv, NEW n \in Clients, NEW w \in Whys, Commit(n, w)
    PROVE  Inv'
<1>1. /\ c[n] \in ClientStates /\ task[n] \in [Whys -> TaskStates]
      /\ ClientOK(n, c[n], task[n], n \in left.queried)
      /\ \A k \in KeyBounds(n) : KeysOK(n, c[n], task[n], k)
    BY ClientFact
<1>2. c \in [Clients -> ClientStates] /\ task \in [Clients -> [Whys -> TaskStates]]
    BY Zenon DEF Inv
<1>3. PICK x : x = [NoTask EXCEPT !.pc = After(w)]
    BY Zenon
<1>4. x \in TaskStates /\ x.key = 0
    <2>1. After(w) \in {"idle", "notify"}
        BY DEF After
    <2> QED BY <1>3, <2>1, IdleTask
<1>5. \A v : TaskOK(n, v, x)
    <2>1. After(w) \in {"idle", "notify"}
        BY DEF After
    <2> QED BY <1>3, <2>1, IdleTask, ZenonT(40)
<1>6. PICK t : t = [task[n] EXCEPT ![w] = x]
    BY ZenonT(40)
<1>7. t \in [Whys -> TaskStates] /\ t[w] = x /\ \A y \in Whys : y # w => t[y] = task[n][y]
    BY <1>1, <1>4, <1>6
<1>8. task' = [task EXCEPT ![n] = t] /\ UNCHANGED <<left, relay, out, net>>
    BY <1>2, <1>3, <1>6, ZenonT(40) DEF Commit
<1>9. OutOK' /\ NetOK(net') /\ left' \in [Events -> SUBSET Clients]
    BY <1>8, ZenonT(40) DEF Inv, OutOK
<1>10. PICK o \in TaskStates : o = task[n][w]
    BY <1>1
<1>11. o.pc = "publish"
    BY <1>10 DEF Commit
<1>12. CASE ~MayPublish(n, o)
    <2>1. c' = [c EXCEPT ![n] = c[n]] /\ SameCore(c[n], c[n])
        BY <1>10, <1>12, ClientFact DEF Commit, SameCore
    <2> QED BY <1>1, <1>4, <1>5, <1>6, <1>8, <1>9, <2>1, FreshTaskStep, Zenon
<1>13. CASE MayPublish(n, o)
    <2>1. /\ HasRoute(n, c[n]) /\ c[n].conn.pc = "idle" /\ c[n].view # NoView /\ o.slot \in SlotIds
          /\ o.gen # 0 /\ o.sess # 0 /\ o.gen = c[n].view.gen /\ o.sess = c[n].sess
        BY <1>10, <1>11, <1>13, PublishFact, ZenonT(40) DEF MayPublish
    <2>2. PICK j \in Numbers : /\ j = NewObject(n, Whys \ {w}) /\ j # 0
                               /\ \A y \in Whys \ {w} : j # task[n][y].obj
        <3>1. Whys \ {w} \in SUBSET Whys
            OBVIOUS
        <3> QED BY <3>1, NewNumbers
    <2>3. PICK r : r = [obj |-> j, gen |-> o.gen, sess |-> o.sess, key |-> o.key]
        BY ZenonT(40)
    <2>4. /\ r \in RouteStates /\ r # NoRoute
          /\ r.obj = j /\ r.gen = o.gen /\ r.sess = o.sess /\ r.key = o.key
        BY <1>10, <2>2, <2>3 DEF RouteStates, TaskStates, NoRoute
    <2>5. PICK e \in NodeEntries : e = EntryOf(Peer(n))
        BY PeerFact
    <2>6. e.default \in e.identities /\ Peer(n) \in e.identities
        BY <2>5, PeerFact DEF EntryOf
    <2>7. PICK f : f = Add(c[n].fwd, e, o.slot)
        OBVIOUS
    <2>8. f \in Forwards /\ Agree(f) /\ SlotOf(f, Peer(n)) = o.slot
        <3>1. c[n].fwd \in Forwards /\ Agree(c[n].fwd)
            BY <1>1, Zenon DEF ClientStates, ClientOK
        <3> QED BY <2>1, <2>6, <2>7, <3>1, AddSound, ZenonT(40)
    <2>9. PICK v : v = ApplyInfo(c[n].view, o)
        OBVIOUS
    <2>10. v \in ViewStates /\ v.key = o.key /\ v.slot = o.slot /\ v.gen = c[n].view.gen
        BY <1>1, <1>10, <2>9, ZenonT(40) DEF ApplyInfo, ClientStates, ViewStates, TaskStates
    <2>11. PICK a \in BOOLEAN : a = (c[n].asked /\ ~(w = "sync" /\ o.key # o.prev))
        BY Zenon
    <2>12. PICK u : u = [c[n] EXCEPT !.fwd = f, !.nodes = Routes(n, r), !.view = v, !.asked = a]
        OBVIOUS
    <2>13. Routes(n, r) \in [NodeIds -> RouteStates]
        BY <2>4, RoutesSound
    <2>14. /\ u \in ClientStates /\ u.key = c[n].key /\ u.sess = c[n].sess /\ u.fwd = f
           /\ u.view = v /\ u.nodes = Routes(n, r) /\ u.conn = c[n].conn /\ u.answer = c[n].answer
        BY <1>1, <2>8, <2>10, <2>12, <2>13, ZenonT(40) DEF ClientStates, RouteStates, ViewStates
    <2>15. c' = [c EXCEPT ![n] = u]
        <3>1. PICK b : b = Published(n, w, o)
            OBVIOUS
        <3>2. b = [c[n] EXCEPT !.fwd = f, !.nodes = Routes(n, r), !.view = v]
            BY <1>1, <2>2, <2>3, <2>5, <2>7, <2>9, <3>1 DEF Published, Refreshed, ClientStates
        <3>3. b.asked = c[n].asked
            BY <1>1, <3>2 DEF ClientStates
        <3>4. u = [b EXCEPT !.asked = a]
            BY <1>1, <2>12, <3>2 DEF ClientStates
        <3>5. c' = [c EXCEPT ![n] = [b EXCEPT !.asked = @ /\ ~(w = "sync" /\ o.key # o.prev)]]
            BY <1>10, <1>13, <3>1, SMTT(30) DEF Commit
        <3> QED BY <2>11, <3>3, <3>4, <3>5
    <2>16. RouteIn(n, u) = r /\ HasRoute(n, u) /\ \A i \in IdsOf[Peer(n)] : u.nodes[i] = r
        BY <2>4, <2>14, RoutesSound DEF RouteIn, HasRoute
    <2>17. ConnOK(n, u)
        BY <2>1, <2>14, ZenonT(40) DEF ConnOK
    <2>18. ViewOK(u)
        BY <1>1, <2>1, <2>10, <2>14, ZenonT(40) DEF ClientOK, ViewOK
    <2>19. RouteOK(n, u)
        BY <2>1, <2>2, <2>4, <2>10, <2>14, <2>16, ZenonT(40) DEF RouteOK
    <2>20. InfoOK(n, u, n \in left.queried)
        BY <1>1, <2>1, <2>4, <2>8, <2>10, <2>14, <2>16, Zenon DEF ClientOK, InfoOK
    <2>21. ASSUME NEW y \in Whys
           PROVE  TaskOK(n, u, t[y])
        <3>1. CASE y = w
            BY <1>5, <1>7, <3>1, ZenonT(40)
        <3>2. CASE y # w
            <4>1. t[y] = task[n][y] /\ t[y].obj # r.obj /\ TaskOK(n, c[n], t[y])
                BY <1>1, <1>7, <2>2, <2>3, <3>2, Zenon DEF ClientOK
            <4> QED BY <2>16, <4>1, ZenonT(40) DEF TaskOK
        <3> QED BY <3>1, <3>2
    <2>22. ClientOK(n, u, t, n \in left.queried)
        BY <2>8, <2>14, <2>17, <2>18, <2>19, <2>20, <2>21, Zenon DEF ClientOK
    <2>23. ASSUME NEW k \in KeyBounds(n)
           PROVE  KeysOK(n, u, t, k)
        <3>1. KeysOK(n, c[n], task[n], k)
            BY <1>1, Zenon
        <3>2. o.key <= k
            BY <1>10, <3>1, ZenonT(40) DEF KeysOK
        <3>3. \A y \in Whys : t[y].key <= k
            <4>1. 0 <= k
                BY Bounds
            <4> QED BY <1>4, <1>7, <3>1, <4>1, ZenonT(40) DEF KeysOK
        <3> QED BY <2>4, <2>10, <2>14, <2>16, <3>1, <3>2, <3>3, Zenon DEF KeysOK
    <2>24. Moves(n, u, t)
        BY <1>8, <2>15 DEF Moves
    <2> QED BY <1>7, <1>8, <1>9, <2>14, <2>22, <2>23, <2>24, ClientStep, ZenonT(40)
<1> QED BY <1>12, <1>13, ZenonT(40)

\* A sender that waited for the relay to resume transmits.
LEMMA ResumedStep ==
    ASSUME Inv, NEW n \in Clients, NEW w \in Senders, Resumed(n, w)
    PROVE  Inv'
<1>1. PICK x \in WaitStates : x = out[n][w]
    BY ZenonT(40) DEF Inv, OutOK
<1>2. x.packet \in Packets /\ x.packet.slot \in SlotIds
    <2>1. x.woken
        BY <1>1 DEF Resumed
    <2>2. x # NoWait
        BY <2>1 DEF NoWait
    <2> QED BY <1>1, <2>2 DEF Inv, OutOK, WaitStates
<1>3. NetOK(net')
    BY <1>1, <1>2, ForwardedSound DEF Resumed
<1>4. NoWait \in WaitStates
    BY ZenonT(40) DEF NoWait, WaitStates, Packets, NoPacket, NoSlot
<1>5. OutOK'
    BY <1>4, Zenon DEF Inv, OutOK, Resumed
<1> QED BY <1>3, <1>5, PacketStep, ZenonT(40) DEF Resumed

\* A message is lost.
LEMMA DropStep ==
    ASSUME Inv, NEW m \in net, OnUnknown(m) \/ Lost(m)
    PROVE  Inv'
<1>1. PICK n \in Clients : n = m.to
    BY ZenonT(40) DEF Inv, NetOK
<1>2. UNCHANGED <<left, relay, c, task, out>> /\ net' = net \ {m}
    BY Zenon DEF OnUnknown, Lost
<1>3. OutOK' /\ NetOK(net')
    BY <1>2, NetLess, ZenonT(40) DEF Inv, OutOK
<1> QED BY <1>2, <1>3, PacketStep, ZenonT(40)

-----------------------------------------------------------------------------
(* What is proved *)

\* The invariant holds initially.
LEMMA InitInv ==
    ASSUME Init
    PROVE  Inv
<1>1. left \in [Events -> SUBSET Clients]
    BY ForwardingAssumption DEF Init
<1>2. relay \in [Clients -> RelayStates] /\ \A n \in Clients : relay[n].key = 0
    BY ForwardingAssumption DEF Init, RelayStates
<1>3. PICK u, t : u = NewClient(1) /\ t = [w \in Whys |-> NoTask]
    BY ZenonT(40)
<1>4. u \in ClientStates
    <2>1. 1 \in Keys
        BY ForwardingAssumption DEF Keys
    <2> QED BY <1>3, <2>1, EmptySound, NoValues
            DEF ClientStates, NewClient, ViewStates, RouteStates, NoInfo, NoSlot
<1>5. t \in [Whys -> TaskStates] /\ \A w \in Whys : t[w] = NoTask
    BY <1>3 DEF NoTask, TaskStates, NoSlot
<1>6. c = [n \in Clients |-> u] /\ task = [n \in Clients |-> t]
    BY <1>3 DEF Init
<1>7. c \in [Clients -> ClientStates] /\ task \in [Clients -> [Whys -> TaskStates]]
    BY <1>4, <1>5, <1>6, ZenonT(40)
<1>8. OutOK /\ NetOK(net)
    BY DEF Init, OutOK, NetOK, NoWait, WaitStates, Packets, NoPacket, NoSlot
<1>9. /\ u.key = 1 /\ u.sess = 0 /\ u.fwd = Empty /\ u.view = NoView /\ u.answer = NoInfo
      /\ u.nodes = [i \in NodeIds |-> NoRoute] /\ u.conn = NoConn
    BY <1>3, ZenonT(40) DEF NewClient
<1>10. ASSUME NEW n \in Clients
       PROVE  ClientOK(n, c[n], task[n], n \in left.queried) /\ KeyOrder(n)
    <2>1. c[n] = u /\ task[n] = t /\ c[Peer(n)] = u /\ relay[Peer(n)].key = 0
        BY <1>2, <1>6, PeerFact, ZenonT(40)
    <2>2. RouteIn(n, u) = NoRoute /\ \A i \in IdsOf[Peer(n)] : u.nodes[i] = NoRoute
        BY <1>9, PeerFact DEF RouteIn
    <2>3. \A w \in Whys : TaskOK(n, u, t[w])
        BY <1>5, SMTT(30) DEF TaskOK, NoTask
    <2>4. ClientOK(n, u, t, n \in left.queried)
        <3>1. u.conn.pc = "idle"
            BY <1>9 DEF NoConn
        <3>2. ~HasRoute(n, u) /\ Agree(u.fwd)
            BY <1>9, <2>2, EmptySound, Zenon DEF HasRoute
        <3>3. ConnOK(n, u) /\ ViewOK(u) /\ RouteOK(n, u)
            BY <1>9, <2>2, <3>1, <3>2, Zenon DEF ConnOK, ViewOK, RouteOK
        <3>4. u.conn.pc # "route"
            BY <3>1
        <3>5. InfoOK(n, u, n \in left.queried)
            BY <1>9, <3>2, <3>4, Zenon DEF InfoOK
        <3> QED BY <2>3, <3>2, <3>3, <3>5, Zenon DEF ClientOK
    <2>5. KeyBounds(n) = {1}
        BY <1>9, <2>1 DEF KeyBounds
    <2>6. KeysOK(n, u, t, 1)
        <3>1. NoView.key = 0 /\ NoConn.key = 0 /\ NoInfo.key = 0 /\ NoRoute.key = 0 /\ NoTask.key = 0
            BY ZenonT(40) DEF NoView, NoConn, NoInfo, NoRoute, NoTask
        <3>2. 0 <= 1
            OBVIOUS
        <3> QED BY <1>5, <1>9, <2>2, <3>1, <3>2, Zenon DEF KeysOK
    <2>7. relay[n].key <= c[n].key
        BY <1>2, <1>9, <2>1
    <2>8. \A k \in KeyBounds(n) : KeysOK(n, c[n], task[n], k)
        BY <2>1, <2>5, <2>6, ZenonT(40)
    <2> QED BY <2>1, <2>4, <2>7, <2>8, Zenon DEF KeyOrder
<1> QED BY <1>1, <1>2, <1>7, <1>8, <1>10 DEF Inv

\* Every step preserves the invariant.
LEMMA NextInv ==
    ASSUME Inv, [Next]_vars
    PROVE  Inv'
<1>1. ASSUME NEW n \in Clients,
             \/ Register(n) \/ CloseRelay(n) \/ Restart(n) \/ Forget(n) \/ GiveSlot(n)
             \/ QueryInfo(n) \/ OnInfo(n) \/ Lock(n) \/ AllowForward(n) \/ RegisterRouting(n) \/ Disconnect(n)
      PROVE  Inv'
    BY <1>1, RegisterStep, CloseRelayStep, RestartStep, RelayStep, QueryInfoStep, OnInfoStep, LockStep,
       AllowForwardStep, RegisterRoutingStep, DisconnectStep
<1>2. ASSUME NEW n \in Clients, Send(n) \/ Pause(n) \/ Resume(n) \/ Notify(n) \/ Tick(n)
      PROVE  Inv'
    BY <1>2, SendStep, PauseStep, ResumeStep, NotifyStep, TickStep
<1>3. ASSUME NEW n \in Clients, NEW w \in Senders, Resumed(n, w)
      PROVE  Inv'
    BY <1>3, ResumedStep
<1>4. ASSUME NEW n \in Clients, NEW w \in Whys, Lookup(n, w) \/ LookupFails(n, w) \/ Commit(n, w)
      PROVE  Inv'
    BY <1>4, LookupStep, LookupFailsStep, CommitStep
<1>5. ASSUME NEW m \in net, \/ Resolve(m) \/ OnSync(m) \/ OnPacket(m) \/ OnUndecryptable(m)
                            \/ OnSlotGone(m) \/ OnUnknown(m) \/ Lost(m)
      PROVE  Inv'
    BY <1>5, ResolveStep, OnSyncStep, OnPacketStep, OnUndecryptableStep, OnSlotGoneStep, DropStep, ZenonT(40)
<1>6. CASE UNCHANGED vars
    BY <1>6, Zenon DEF vars, Inv, OutOK, KeyOrder, KeyBounds
<1> QED BY <1>1, <1>2, <1>3, <1>4, <1>5, <1>6, SMTT(30) DEF Next

\* The inductive invariant: what a client knows of its peer belongs together, and no key it
\* has is newer than what the relay has given out.
THEOREM InvCorrect == Spec => []Inv
<1>1. Init => Inv
    BY InitInv
<1>2. Inv /\ [Next]_vars => Inv'
    BY NextInv
<1> QED BY <1>1, <1>2, PTL DEF Spec

\* Tables, tasks and packets of session.rs keep their types: in particular numbers never run
\* out, and no step reads a slot that was not given.
THEOREM TypeCorrect == Spec => []TypeOK
<1>1. Inv => TypeOK
    BY ZenonT(40) DEF Inv, TypeOK, OutOK, NetOK, RelayStates, TaskStates, WaitStates
<1> QED BY <1>1, InvCorrect, PTL

\* AllowedForwards: whatever connects, refreshes or is told that a slot is gone, the table of
\* slots and that of nodes are inverse to each other.
THEOREM ForwardsAgreeCorrect == Spec => []ForwardsAgree
<1>1. Inv => ForwardsAgree
    BY ZenonT(40) DEF Inv, ClientOK, ForwardsAgree
<1> QED BY <1>1, InvCorrect, PTL

\* NodeRouting: every route is of the view and the session that are there, and the registry
\* knows the key and the slot it was made with.
THEOREM RoutesAreCurrentCorrect == Spec => []RoutesAreCurrent
<1>1. Inv => RouteIsOwned
    BY Zenon DEF Inv, ClientOK, RouteOK, RouteIsOwned, HasRoute, RouteIn, Routed, Route
<1>2. Inv => MetadataMatchesRoute
    BY Zenon DEF Inv, ClientOK, InfoOK, MetadataMatchesRoute, HasRoute, RouteIn, Routed, Route
<1>3. Inv => RoutesAreCurrent
    BY <1>1, <1>2, ZenonT(40) DEF RoutesAreCurrent
<1> QED BY <1>3, InvCorrect, PTL

\* What commit_refresh writes.
LEMMA CommitRoute ==
    ASSUME Inv, NEW n \in Clients, NEW w \in Whys, Commit(n, w), MayPublish(n, task[n][w])
    PROVE  RouteIn(n, c'[n]).key = task[n][w].key
<1>1. /\ c \in [Clients -> ClientStates] /\ c[n] \in ClientStates /\ task[n][w] \in TaskStates
      /\ Peer(n) \in NodeIds /\ Peer(n) \in IdsOf[Peer(n)]
    <2>1. c \in [Clients -> ClientStates] /\ task \in [Clients -> [Whys -> TaskStates]]
        BY Zenon DEF Inv
    <2>2. c[n] \in ClientStates /\ task[n][w] \in TaskStates
        BY <2>1, Zenon
    <2> QED BY <2>1, <2>2, PeerFact, Zenon
<1>2. PICK r : r = [obj |-> NewObject(n, Whys \ {w}), gen |-> task[n][w].gen, sess |-> task[n][w].sess,
                    key |-> task[n][w].key]
    BY Zenon
<1>3. PICK d : d = Published(n, w, task[n][w])
    OBVIOUS
<1>4. d.nodes = Routes(n, r)
    BY <1>1, <1>2, <1>3 DEF Published, Refreshed, ClientStates
<1>5. PICK a : c'[n] = [d EXCEPT !.asked = a]
    BY <1>1, <1>3, Zenon DEF Commit
<1>6. c'[n].nodes = d.nodes
    BY <1>1, <1>3, <1>5, SMTT(30) DEF Published, ClientStates
<1>7. Routes(n, r)[Peer(n)] = r
    BY <1>1 DEF Routes
<1> QED BY <1>2, <1>4, <1>6, <1>7, SMTT(30) DEF RouteIn

\* A step that leaves a client routed leaves its route alone, or publishes an answer.
LEMMA RoutesChange ==
    ASSUME Inv, Next, NEW n \in Clients, HasRoute(n, c[n]), HasRoute(n, c'[n])
    PROVE  \/ RouteIn(n, c'[n]) = RouteIn(n, c[n])
           \/ \E w \in Whys : Commit(n, w) /\ MayPublish(n, task[n][w])
<1> USE DEF RouteIn, HasRoute
<1>1. c \in [Clients -> ClientStates] /\ Peer(n) \in NodeIds
    BY PeerFact, Zenon DEF Inv
<1>2. CASE c'[n].nodes = c[n].nodes
    BY <1>2, ZenonT(40)
<1>3. CASE c'[n].nodes = [i \in NodeIds |-> NoRoute]
    BY <1>1, <1>3, ZenonT(40)
<1>4. ASSUME NEW k \in Clients, NEW u, c' = [c EXCEPT ![k] = u],
             u.nodes = c[k].nodes \/ u.nodes = [i \in NodeIds |-> NoRoute]
      PROVE  c'[n].nodes = c[n].nodes \/ c'[n].nodes = [i \in NodeIds |-> NoRoute]
    BY <1>1, <1>4, ZenonT(40)
<1>5. ASSUME NEW k \in Clients,
             \/ Register(k) \/ CloseRelay(k) \/ Forget(k) \/ GiveSlot(k)
             \/ QueryInfo(k) \/ OnInfo(k) \/ AllowForward(k)
      PROVE  c'[n].nodes = c[n].nodes \/ c'[n].nodes = [i \in NodeIds |-> NoRoute]
    <2>1. CASE Register(k)
        BY <1>1, <2>1, SMTT(30) DEF Register, ClientStates
    <2>2. CASE CloseRelay(k)
        BY <1>1, <2>2 DEF CloseRelay, ClientStates
    <2>3. CASE Forget(k)
        BY <1>1, <2>3 DEF Forget, ClientStates
    <2>4. CASE GiveSlot(k)
        BY <1>1, <2>4 DEF GiveSlot, ClientStates
    <2>5. CASE QueryInfo(k)
        BY <1>1, <2>5 DEF QueryInfo, ClientStates
    <2>6. CASE OnInfo(k)
        BY <1>1, <2>6 DEF OnInfo, ClientStates
    <2>7. CASE AllowForward(k)
        BY <1>1, <2>7, ZenonT(40) DEF AllowForward, ClientStates
    <2> QED BY <1>5, <2>1, <2>2, <2>3, <2>4, <2>5, <2>6, <2>7, Zenon
<1>6. ASSUME NEW k \in Clients, Lock(k) \/ Send(k) \/ Pause(k) \/ Resume(k) \/ Notify(k) \/ Tick(k)
      PROVE  c'[n].nodes = c[n].nodes
    <2>1. CASE Lock(k)
        <3>1. \/ c' = [c EXCEPT ![k].want = FALSE]
              \/ \E a, b : c' = [c EXCEPT ![k].view = a, ![k].conn = b]
            BY <2>1 DEF Lock
        <3>2. CASE c' = [c EXCEPT ![k].want = FALSE]
            BY <1>1, <3>2 DEF ClientStates
        <3>3. ASSUME NEW a, NEW b, c' = [c EXCEPT ![k].view = a, ![k].conn = b]
              PROVE  c'[n].nodes = c[n].nodes
            BY <1>1, <3>3 DEF ClientStates
        <3> QED BY <3>1, <3>2, <3>3, Zenon
    <2>2. CASE Send(k)
        <3>1. c' = c \/ c' = [c EXCEPT ![k].want = TRUE]
            BY <2>2 DEF Send
        <3>2. CASE c' = [c EXCEPT ![k].want = TRUE]
            BY <1>1, <3>2 DEF ClientStates
        <3> QED BY <3>1, <3>2
    <2>3. CASE Pause(k)
        BY <1>1, <2>3 DEF Pause, ClientStates
    <2>4. CASE Resume(k)
        BY <1>1, <2>4 DEF Resume, ClientStates
    <2>5. CASE Notify(k)
        BY <1>1, <2>5 DEF Notify, ClientStates
    <2>6. CASE Tick(k)
        BY <1>1, <2>6, ZenonT(40) DEF Tick, ClientStates
    <2> QED BY <1>6, <2>1, <2>2, <2>3, <2>4, <2>5, <2>6
<1>7. ASSUME NEW k \in Clients, Restart(k)
      PROVE  c'[n].nodes = c[n].nodes \/ c'[n].nodes = [i \in NodeIds |-> NoRoute]
    BY <1>1, <1>7, ZenonT(40) DEF Restart, NewClient
<1>8. ASSUME NEW k \in Clients, Disconnect(k)
      PROVE  c'[n].nodes = c[n].nodes \/ c'[n].nodes = [i \in NodeIds |-> NoRoute]
    <2>1. Disconnected(k).nodes \in {c[k].nodes, [i \in NodeIds |-> NoRoute]}
        BY DisconnectedSound
    <2> QED BY <1>4, <1>8, <2>1, ZenonT(40) DEF Disconnect
<1>9. ASSUME NEW k \in Clients, RegisterRouting(k)
      PROVE  c'[n].nodes = c[n].nodes
    <2>1. k # n => c'[n] = c[n]
        BY <1>1, <1>9 DEF RegisterRouting
    <2>2. ~HasRoute(k, c[k])
        BY <1>9, ClientFact DEF RegisterRouting, ClientOK, ConnOK
    <2> QED BY <2>1, <2>2
<1>10. ASSUME NEW k \in Clients, NEW w \in Senders, Resumed(k, w)
       PROVE  c'[n].nodes = c[n].nodes
    BY <1>10 DEF Resumed
<1>11. ASSUME NEW k \in Clients, NEW w \in Whys, Lookup(k, w) \/ LookupFails(k, w)
       PROVE  c'[n].nodes = c[n].nodes
    BY <1>11, ZenonT(40) DEF Lookup, LookupFails
<1>12. ASSUME NEW k \in Clients, NEW w \in Whys, Commit(k, w)
       PROVE  c'[n].nodes = c[n].nodes \/ (Commit(n, w) /\ MayPublish(n, task[n][w]))
    <2>1. CASE ~MayPublish(k, task[k][w])
        <3>1. c' = c
            BY <1>12, <2>1 DEF Commit
        <3> QED BY <3>1
    <2>2. CASE MayPublish(k, task[k][w]) /\ k # n
        <3>1. PICK u : c' = [c EXCEPT ![k] = u]
            BY <1>12, <2>2, Zenon DEF Commit
        <3>2. c'[n] = c[n]
            BY <1>1, <2>2, <3>1
        <3> QED BY <3>2
    <2>3. CASE MayPublish(k, task[k][w]) /\ k = n
        BY <1>12, <2>3
    <2> QED BY <2>1, <2>2, <2>3, ZenonT(40)
<1>13. ASSUME NEW m \in net, Resolve(m) \/ OnSync(m) \/ OnUndecryptable(m) \/ OnUnknown(m) \/ Lost(m)
       PROVE  c'[n].nodes = c[n].nodes
    <2>1. PICK k \in Clients : k = m.to
        BY DEF Inv, NetOK
    <2>2. CASE Resolve(m)
        BY <1>1, <2>1, <2>2 DEF Resolve, ClientStates
    <2>3. CASE OnSync(m)
        <3>1. c' = c \/ c' = [c EXCEPT ![k].asked = TRUE]
            BY <2>1, <2>3 DEF OnSync
        <3>2. CASE c' = [c EXCEPT ![k].asked = TRUE]
            BY <1>1, <3>2 DEF ClientStates
        <3> QED BY <3>1, <3>2
    <2>4. CASE OnUndecryptable(m)
        BY <1>1, <2>1, <2>4, ZenonT(40) DEF OnUndecryptable, ClientStates
    <2>5. CASE OnUnknown(m) \/ Lost(m)
        BY <2>5, ZenonT(40) DEF OnUnknown, Lost
    <2> QED BY <1>13, <2>2, <2>3, <2>4, <2>5, ZenonT(40)
<1>14. ASSUME NEW m \in net, OnPacket(m)
       PROVE  c'[n].nodes = c[n].nodes
    <2>1. m.to \in Clients
        BY Zenon DEF Inv, NetOK
    <2>2. Succeeded(m.to).nodes = c[m.to].nodes
        BY <1>1, <2>1, SMTT(30) DEF Succeeded, ClientStates
    <2> QED BY <1>1, <1>14, <2>1, <2>2, ZenonT(40) DEF OnPacket
<1>15. ASSUME NEW m \in net, OnSlotGone(m)
       PROVE  c'[n].nodes = c[n].nodes \/ c'[n].nodes = [i \in NodeIds |-> NoRoute]
    <2>1. PICK k \in Clients : k = m.to
        BY DEF Inv, NetOK
    <2>2. /\ Disconnected(k).nodes \in {c[k].nodes, [i \in NodeIds |-> NoRoute]}
          /\ Disconnected(k) \in ClientStates
        BY <2>1, DisconnectedSound, ZenonT(40)
    <2>3. PICK u : c' = [c EXCEPT ![k] = u] /\ u.nodes \in {c[k].nodes, [i \in NodeIds |-> NoRoute]}
        <3>1. CASE Allowed(k, m) /\ Routed(k)
            <4>1. PICK f : c' = [c EXCEPT ![k] = [Disconnected(k) EXCEPT !.fwd = f]]
                BY <1>15, <2>1, <3>1, Zenon DEF OnSlotGone
            <4>2. [Disconnected(k) EXCEPT !.fwd = f].nodes = Disconnected(k).nodes
                BY <2>2 DEF ClientStates
            <4> QED BY <2>2, <4>1, <4>2, Zenon
        <3>2. CASE ~(Allowed(k, m) /\ Routed(k))
            <4>1. PICK f : c' = [c EXCEPT ![k] = [c[k] EXCEPT !.fwd = f]]
                BY <1>1, <1>15, <2>1, <3>2, Zenon DEF OnSlotGone
            <4>2. [c[k] EXCEPT !.fwd = f].nodes = c[k].nodes
                BY <1>1 DEF ClientStates
            <4> QED BY <4>1, <4>2, Zenon
        <3> QED BY <3>1, <3>2
    <2> QED BY <1>4, <2>3, ZenonT(40)
<1> QED BY <1>2, <1>3, <1>5, <1>6, <1>7, <1>8, <1>9, <1>10, <1>11, <1>12, <1>13, <1>14, <1>15, Zenon DEF Next

\* publish_encryption_refresh: while a client has a route to its peer, the key of the route
\* never goes back to an older one, whichever refresh, connection or notice comes late.
THEOREM KeyNeverGoesBackCorrect == Spec => KeyNeverGoesBack
<1> DEFINE Keeps == \A n \in Clients : Routed(n) /\ Routed(n)' => Route(n)'.key >= Route(n).key
<1>1. ASSUME Inv, [Next]_vars
      PROVE  [Keeps]_vars
    <2>1. SUFFICES ASSUME Next, NEW n \in Clients, HasRoute(n, c[n]), HasRoute(n, c'[n])
                   PROVE  RouteIn(n, c'[n]).key >= RouteIn(n, c[n]).key
        BY <1>1, ZenonT(40) DEF HasRoute, RouteIn, Routed, Route
    <2>2. c[n] \in ClientStates /\ task[n] \in [Whys -> TaskStates] /\ Peer(n) \in NodeIds
        BY <1>1, ClientFact, PeerFact, ZenonT(40)
    <2>3. RouteIn(n, c[n]).key \in Nat
        BY <2>2, KeysAreNumbers DEF ClientStates, RouteIn
    <2>4. CASE RouteIn(n, c'[n]) = RouteIn(n, c[n])
        BY <2>3, <2>4
    <2>5. ASSUME NEW w \in Whys, Commit(n, w), MayPublish(n, task[n][w])
          PROVE  RouteIn(n, c'[n]).key >= RouteIn(n, c[n]).key
        <3>1. RouteIn(n, c[n]).key <= task[n][w].key
            BY <1>1, <2>5, PublishFact DEF Commit
        <3>2. task[n][w].key \in Nat
            BY <2>2, KeysAreNumbers DEF TaskStates
        <3>3. RouteIn(n, c'[n]).key = task[n][w].key
            BY <1>1, <2>5, CommitRoute
        <3> QED BY <2>3, <3>1, <3>2, <3>3
    <2> QED BY <1>1, <2>1, <2>4, <2>5, RoutesChange, ZenonT(40)
<1>2. Inv /\ [Next]_vars => [Keeps]_vars
    BY <1>1
<1> QED BY <1>2, InvCorrect, PTL DEF Spec, KeyNeverGoesBack
=============================================================================
