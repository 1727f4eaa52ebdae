------------------------- MODULE RelaySessionProofs --------------------------
(***************************************************************************)
(* Proofs about RelaySession: whatever is lost, repeated, restarted or     *)
(* moved, the tables of the relay stay in order, what it has told a client *)
(* stays true, and a session belongs to one node as long as it lives.      *)
(***************************************************************************)
EXTENDS RelaySession, FiniteSetTheorems, WellFoundedInduction, TLAPS

-----------------------------------------------------------------------------
(* The inductive invariant *)

Attempts(I) == [step : {"hello", "answer", "register"}, rid : Nat, id : I] \cup {NoAttempt}
SessionRefs(I) == [obj : Nat, id : I]
ClientStates(I) ==
    [addr : Addrs, att : Attempts(I), sess : SessionRefs(I), ka : {"off", "establish", "connect", "subscribe", "wait"},
     watch : BOOLEAN, exp : SessionRefs(I), seen : BOOLEAN]
Packets(I) == [kind : ToRelay \cup ToClient, addr : Addrs, id : I, rid : Nat, who : Clients]

\* A salt that is configured is never drawn again.
SaltKept == "static" \in DOMAIN left /\ (left.static = 1 => salt = 0)

Tables ==
    /\ SessionTable(sessions) /\ SessionTable(disk) /\ marked \subseteq Ids
    /\ MadeForPeer(sessions) /\ MadeForPeer(disk)
    /\ IsFiniteSet(DOMAIN sessions) /\ IsFiniteSet(DOMAIN disk)

Links == index \in [Clients -> Seq(Ids)] /\ LinksAreOwn

Traffic == IsFiniteSet(net) /\ net \subseteq Packets(Ids) /\ cl \in [Clients -> ClientStates(Ids)]

\* The inductive invariant.  Every id that anybody holds has a salt and a time slice that there
\* have been, so that with a configured salt it was made with the salt of now.
Inv == epoch \in Nat /\ salt \in Nat /\ SaltKept /\ Tables /\ Links /\ Traffic

\* What a step that is not the relay's leaves behind.
LeftStays == "static" \in DOMAIN left' /\ left'.static = left.static
Carried == LeftStays /\ IsFiniteSet(net') /\ net' \subseteq Packets(Ids)
-----------------------------------------------------------------------------
(* The operators *)

\* A set of natural numbers that is not empty has a least element, which Least finds.
LEMMA LeastFact ==
    ASSUME NEW S, S \subseteq Nat, S # {}
    PROVE  Least(S) \in S
<1>1. IsWellFoundedOn(OpToRel(<, Nat), Nat)
    BY NatLessThanWellFounded, Zenon
<1>2. PICK x \in S : \A y \in S : ~(<<y, x>> \in OpToRel(<, Nat))
    BY <1>1, WFMin, Zenon
<1>3. ASSUME NEW y \in S
      PROVE  x <= y
    <2>1. ~(<<y, x>> \in OpToRel(<, Nat))
        BY <1>2, Zenon
    <2>2. ~(y < x)
        BY <2>1 DEF OpToRel
    <2> QED BY <2>2
<1> QED BY <1>3, Zenon DEF Least

\* There are more numbers than packets, so that one is in no packet of the client.
LEMMA NewRequestFact ==
    ASSUME IsFiniteSet(net), NEW c
    PROVE  NewRequest(c) \in Nat /\ \A m \in net : m.who = c => m.rid # NewRequest(c)
<1>1. PICK n \in Nat : n = Cardinality(net)
    BY FS_CardinalityType, Zenon
<1>2. PICK R : R = {m.rid : m \in {m \in net : m.who = c}}
    BY Zenon
<1>3. PICK S : S = (1..(n + 1)) \ R
    BY Zenon
<1>4. S # {}
    <2>1. SUFFICES ASSUME S = {}
                   PROVE  FALSE
        OBVIOUS
    <2>2. \A r \in 1..(n + 1) : \E p \in net : p.rid = r
        BY <1>2, <1>3, <2>1
    <2>3. PICK f : f = [r \in 1..(n + 1) |-> CHOOSE p \in net : p.rid = r]
        BY Zenon
    <2>4. f \in [1..(n + 1) -> net] /\ \A r \in 1..(n + 1) : f[r].rid = r
        BY <2>2, <2>3, Zenon
    <2>5. IsFiniteSet(1..(n + 1)) /\ Cardinality(1..(n + 1)) = n + 1
        BY FS_Interval
    <2>6. Cardinality(net) < Cardinality(1..(n + 1))
        BY <1>1, <2>5
    <2>7. PICK x, y \in 1..(n + 1) : x # y /\ f[x] = f[y]
        BY <2>4, <2>5, <2>6, FS_PigeonHole, Zenon
    <2> QED BY <2>4, <2>7, Zenon
<1>5. S \subseteq Nat
    BY <1>3
<1>6. NewRequest(c) = Least(S)
    BY <1>1, <1>2, <1>3, Zenon DEF NewRequest
<1>7. NewRequest(c) \in S
    BY <1>4, <1>5, <1>6, LeastFact, Zenon
<1>8. NewRequest(c) \in Nat /\ NewRequest(c) \notin R
    BY <1>3, <1>5, <1>7, Zenon
<1> QED BY <1>2, <1>8, Zenon

\* A session object has a number.
LEMMA NewObjectFact ==
    ASSUME NEW c
    PROVE  NewObject(c) \in Nat
<1>1. PICK S : S = {1, 2} \ {cl[c].exp.obj}
    BY Zenon
<1>2. S # {} /\ S \subseteq Nat
    BY <1>1
<1> QED BY <1>1, <1>2, LeastFact, Zenon DEF NewObject

\* The links without one of them are a sequence of the others.
LEMMA UnlinkedFact ==
    ASSUME NEW I, NEW s \in Seq(I), NEW id,
           \A j, k \in DOMAIN s : s[j] = s[k] => j = k
    PROVE  /\ Unlinked(s, id) \in Seq(I)
           /\ \A k \in DOMAIN Unlinked(s, id) :
                \E j \in DOMAIN s : Unlinked(s, id)[k] = s[j] /\ s[j] # id
           /\ \A j, k \in DOMAIN Unlinked(s, id) : Unlinked(s, id)[j] = Unlinked(s, id)[k] => j = k
<1>1. CASE ~Linked(s, id)
    <2>1. \A k \in DOMAIN s : s[k] # id
        BY <1>1, Zenon DEF Linked
    <2>2. Unlinked(s, id) = s
        BY <1>1, Zenon DEF Unlinked
    <2> QED BY <2>1, <2>2, Zenon
<1>2. CASE Linked(s, id)
    <2>1. \E k \in DOMAIN s : s[k] = id
        BY <1>2, Zenon DEF Linked
    <2>2. PICK i : i = CHOOSE k \in DOMAIN s : s[k] = id
        OBVIOUS
    <2>3. i \in DOMAIN s /\ s[i] = id
        BY <2>1, <2>2, Zenon
    <2>4. PICK t : t = [k \in 1..(Len(s) - 1) |-> s[IF k < i THEN k ELSE k + 1]]
        BY Zenon
    <2>5. Unlinked(s, id) = t
        BY <1>2, <2>2, <2>4, Zenon DEF Unlinked
    <2>6. PICK n \in Nat : n = Len(s) /\ DOMAIN s = 1..n
        OBVIOUS
    <2>7. i \in 1..n /\ n - 1 \in Nat
        BY <2>3, <2>6
    <2>8. t \in Seq(I)
        <3>1. t = [k \in 1..(n - 1) |-> s[IF k < i THEN k ELSE k + 1]]
            BY <2>4, <2>6, Zenon
        <3>2. \A k \in 1..(n - 1) : s[IF k < i THEN k ELSE k + 1] \in I
            BY <2>6, <2>7
        <3>3. t \in [1..(n - 1) -> I]
            BY <3>1, <3>2, Zenon
        <3> QED BY <2>7, <3>3
    <2>9. \A k \in 1..(n - 1) : t[k] = IF k < i THEN s[k] ELSE s[k + 1]
        BY <2>4, <2>6, Zenon
    <2>10. DOMAIN t = 1..(n - 1)
        BY <2>4, <2>6, Zenon
    <2>11. ASSUME NEW k \in DOMAIN t
           PROVE  \E j \in DOMAIN s : t[k] = s[j] /\ s[j] # id
        <3>1. k \in 1..(n - 1) /\ k \in 1..n /\ k + 1 \in 1..n
            BY <2>10
        <3>2. CASE k < i
            <4>1. t[k] = s[k] /\ k # i
                BY <2>7, <2>9, <3>1, <3>2
            <4> QED BY <2>3, <2>6, <3>1, <4>1, Zenon
        <3>3. CASE ~(k < i)
            <4>1. t[k] = s[k + 1] /\ k + 1 # i
                BY <2>7, <2>9, <3>1, <3>3
            <4> QED BY <2>3, <2>6, <3>1, <4>1, Zenon
        <3> QED BY <3>2, <3>3
    <2>12. ASSUME NEW j \in DOMAIN t, NEW k \in DOMAIN t, t[j] = t[k]
           PROVE  j = k
        <3>1. j \in 1..(n - 1) /\ k \in 1..(n - 1)
            BY <2>10
        <3>2. PICK a \in 1..n : a = IF j < i THEN j ELSE j + 1
            BY <2>7, <3>1
        <3>3. PICK b \in 1..n : b = IF k < i THEN k ELSE k + 1
            BY <2>7, <3>1
        <3>4. t[j] = s[a] /\ t[k] = s[b]
            BY <2>9, <3>1, <3>2, <3>3, Zenon
        <3>5. a = b
            BY <2>6, <2>12, <3>4, Zenon
        <3> QED BY <2>7, <3>1, <3>2, <3>3, <3>5
    <2> QED BY <2>5, <2>8, <2>11, <2>12, Zenon
<1> QED BY <1>1, <1>2
-----------------------------------------------------------------------------
(* What steps have in common *)

\* NoId is of no address, and an id that passes the check is one of the relay's.
LEMMA IdFact ==
    ASSUME epoch \in Nat, salt \in Nat
    PROVE  /\ NoId \in Ids /\ NoId.addr \notin Addrs
           /\ \A a \in Addrs : gen_new_challenge(a, epoch) \in Ids
           /\ \A id \in Ids : id # NoId => id \in [addr : Addrs, salt : 0..salt, epoch : 0..epoch]
           /\ \A id : \A a \in Addrs : check_session_id(id, a) => id # NoId /\ id.addr = a
<1>1. NoId \in Ids /\ NoId.addr = NoAddr
    BY DEF Ids, NoId
<1>2. \A a \in Addrs : gen_new_challenge(a, epoch) \in Ids
    BY DEF Ids, Epochs, gen_new_challenge
<1>3. \A id \in Ids : id # NoId => id \in [addr : Addrs, salt : 0..salt, epoch : 0..epoch]
    BY DEF Ids, Epochs
<1>4. NoAddr \notin Addrs
    BY RelaySessionAssumption
<1>5. ASSUME NEW id, NEW a \in Addrs, check_session_id(id, a)
      PROVE  id # NoId /\ id.addr = a
    <2>1. id.addr = a
        BY <1>5 DEF check_session_id, gen_new_challenge
    <2> QED BY <1>1, <1>4, <2>1, Zenon
<1> QED BY <1>1, <1>2, <1>3, <1>4, <1>5, Zenon

\* An event of the budget leaves the configuration alone.
LEMMA HappensFact ==
    ASSUME Inv, NEW what, what # "static", Happens(what)
    PROVE  LeftStays
BY DEF Inv, SaltKept, Happens, LeftStays

LEMMA LeftFact ==
    ASSUME Inv, UNCHANGED left
    PROVE  LeftStays
BY DEF Inv, SaltKept, LeftStays

\* A packet that arrives, once or as one of two copies.
LEMMA TakesFact ==
    ASSUME Inv, NEW m, NEW R, IsFiniteSet(R), R \subseteq Packets(Ids), Takes(m, R)
    PROVE  Carried
<1>1. IsFiniteSet(net) /\ net \subseteq Packets(Ids)
    BY Zenon DEF Inv, Traffic
<1>2. CASE net' = (net \ {m}) \cup R /\ UNCHANGED left
    <2>1. IsFiniteSet(net \ {m})
        BY <1>1, FS_RemoveElement, Zenon
    <2>2. IsFiniteSet(net')
        BY <1>2, <2>1, FS_Union, Zenon
    <2>3. net' \subseteq Packets(Ids)
        BY <1>1, <1>2, Zenon
    <2> QED BY <1>2, <2>2, <2>3, LeftFact, Zenon DEF Carried
<1>3. CASE net' = net \cup R /\ Happens("dup")
    <2>1. IsFiniteSet(net')
        BY <1>1, <1>3, FS_Union, Zenon
    <2>2. net' \subseteq Packets(Ids)
        BY <1>1, <1>3, Zenon
    <2>3. LeftStays
        BY <1>3, HappensFact
    <2> QED BY <2>1, <2>2, <2>3, Zenon DEF Carried
<1> QED BY <1>2, <1>3, Zenon DEF Takes

\* Packets that are sent.
LEMMA SendsFact ==
    ASSUME Inv, LeftStays, NEW R, IsFiniteSet(R), R \subseteq Packets(Ids), net' = net \cup R
    PROVE  Carried
<1>1. IsFiniteSet(net) /\ net \subseteq Packets(Ids)
    BY Zenon DEF Inv, Traffic
<1>2. IsFiniteSet(net')
    BY <1>1, FS_Union, Zenon
<1> QED BY <1>1, <1>2, Zenon DEF Carried

LEMMA SameNet ==
    ASSUME Inv, LeftStays, UNCHANGED net
    PROVE  Carried
BY Zenon DEF Inv, Traffic, Carried

LEMMA NoneFact == IsFiniteSet({}) /\ {} \subseteq Packets(Ids)
BY FS_EmptySet, Zenon

LEMMA OneFact ==
    ASSUME NEW p \in Packets(Ids)
    PROVE  IsFiniteSet({p}) /\ {p} \subseteq Packets(Ids)
BY FS_Singleton, Zenon

\* What is known of a packet on its way.
LEMMA PacketFact ==
    ASSUME Inv, NEW m \in net
    PROVE  /\ m \in Packets(Ids)
           /\ m.kind \in ToRelay \cup ToClient /\ m.addr \in Addrs /\ m.id \in Ids /\ m.rid \in Nat
           /\ m.who \in Clients
<1>1. m \in Packets(Ids)
    BY Zenon DEF Inv, Traffic
<1> QED BY <1>1 DEF Packets

\* An answer of the relay is a packet.
LEMMA ReplyFact ==
    ASSUME Inv, NEW m \in net, NEW kind \in ToClient, NEW id \in Ids
    PROVE  IsFiniteSet(Reply(m, kind, id)) /\ Reply(m, kind, id) \subseteq Packets(Ids)
<1>1. Packet(kind, m.addr, id, m.rid, m.who) \in Packets(Ids)
    BY PacketFact DEF Packets, Packet
<1> QED BY <1>1, OneFact, Zenon DEF Reply

\* What is known of a client.
LEMMA ClientFact ==
    ASSUME Inv, NEW c \in Clients
    PROVE  /\ cl \in [Clients -> ClientStates(Ids)] /\ cl[c] \in ClientStates(Ids)
           /\ cl[c].addr \in Addrs /\ cl[c].att \in Attempts(Ids)
           /\ cl[c].sess \in SessionRefs(Ids) /\ cl[c].exp \in SessionRefs(Ids)
           /\ cl[c].sess.id \in Ids /\ cl[c].exp.id \in Ids
           /\ cl[c].att.id \in Ids /\ cl[c].att.rid \in Nat
           /\ cl[c].att.step \in {"none", "hello", "answer", "register"}
           /\ cl[c].att # NoAttempt => cl[c].att.step \in ToRelay
<1>1. cl \in [Clients -> ClientStates(Ids)]
    BY Zenon DEF Inv, Traffic
<1>2. cl[c] \in ClientStates(Ids)
    BY <1>1, Zenon
<1>3. /\ cl[c].addr \in Addrs /\ cl[c].att \in Attempts(Ids)
      /\ cl[c].sess \in SessionRefs(Ids) /\ cl[c].exp \in SessionRefs(Ids)
    BY <1>2 DEF ClientStates
<1>4. /\ cl[c].sess.id \in Ids /\ cl[c].exp.id \in Ids
      /\ cl[c].att.id \in Ids /\ cl[c].att.rid \in Nat
      /\ cl[c].att.step \in {"none", "hello", "answer", "register"}
      /\ cl[c].att # NoAttempt => cl[c].att.step \in ToRelay
    <2>1. NoId \in Ids
        BY IdFact, Zenon DEF Inv
    <2> QED BY <1>3, <2>1 DEF Attempts, SessionRefs, NoAttempt, ToRelay
<1> QED BY <1>1, <1>2, <1>3, <1>4, Zenon

\* A request of a client is a packet.
LEMMA RequestFact ==
    ASSUME Inv, NEW c \in Clients, NEW kind \in ToRelay, NEW id \in Ids, NEW rid \in Nat
    PROVE  Request(c, kind, id, rid) \in Packets(Ids)
BY ClientFact DEF Request, Packet, Packets

LEMMA GoodbyeFact ==
    ASSUME Inv, NEW c \in Clients, NEW s \in SessionRefs(Ids)
    PROVE  IsFiniteSet(Goodbye(c, s)) /\ Goodbye(c, s) \subseteq Packets(Ids)
<1>1. s.id \in Ids /\ "bye" \in ToRelay /\ 0 \in Nat
    BY DEF SessionRefs, ToRelay
<1>2. Request(c, "bye", s.id, 0) \in Packets(Ids)
    BY <1>1, RequestFact, Zenon
<1> QED BY <1>2, OneFact, NoneFact, Zenon DEF Goodbye

\* The constant records have their types.
LEMMA ConstantFact ==
    ASSUME Inv
    PROVE  /\ NoId \in Ids /\ NoAttempt \in Attempts(Ids) /\ NoSession \in SessionRefs(Ids)
           /\ \A a \in Addrs : NewClient(a) \in ClientStates(Ids)
<1>1. NoId \in Ids
    BY IdFact, Zenon DEF Inv
<1>2. NoAttempt \in Attempts(Ids) /\ NoSession \in SessionRefs(Ids)
    BY <1>1 DEF NoAttempt, NoSession, Attempts, SessionRefs
<1>3. \A a \in Addrs : NewClient(a) \in ClientStates(Ids)
    BY <1>2 DEF NewClient, ClientStates
<1> QED BY <1>1, <1>2, <1>3, Zenon

\* A step that leaves the relay alone.
LEMMA QuietRelay ==
    ASSUME Inv, Carried, UNCHANGED relay, cl' \in [Clients -> ClientStates(Ids)]
    PROVE  Inv'
<1>1. UNCHANGED <<epoch, salt, sessions, index, disk, marked>>
    BY DEF relay
<1>2. Ids' = Ids
    BY <1>1 DEF Ids, Epochs
<1>3. SaltKept'
    BY <1>1 DEF Inv, SaltKept, Carried, LeftStays
<1>4. Tables'
    BY <1>1, <1>2 DEF Inv, Tables, SessionTable, MadeForPeer
<1>5. Links'
    BY <1>1, <1>2, Zenon DEF Inv, Links, LinksAreOwn, Live
<1>6. Packets(Ids)' = Packets(Ids) /\ ClientStates(Ids)' = ClientStates(Ids)
    BY <1>2 DEF Packets, ClientStates, Attempts, SessionRefs
<1>7. Traffic'
    BY <1>6, Zenon DEF Traffic, Carried
<1> QED BY <1>1, <1>3, <1>4, <1>5, <1>7, Zenon DEF Inv

\* Ids stay ids when time passes and a salt is drawn.
LEMMA GrowFact ==
    ASSUME epoch \in Nat, salt \in Nat, epoch' \in Nat, salt' \in Nat, epoch <= epoch', salt <= salt'
    PROVE  /\ Ids \subseteq Ids' /\ Packets(Ids) \subseteq Packets(Ids')
           /\ ClientStates(Ids) \subseteq ClientStates(Ids') /\ Seq(Ids) \subseteq Seq(Ids')
<1>1. Ids \subseteq Ids'
    BY DEF Ids, Epochs, NoId
<1>2. PICK I : I = Ids
    OBVIOUS
<1>3. PICK J : J = Ids'
    OBVIOUS
<1>4. I \subseteq J
    BY <1>1, <1>2, <1>3, Zenon
<1>5. Packets(I) \subseteq Packets(J)
    BY <1>4 DEF Packets
<1>6. Attempts(I) \subseteq Attempts(J) /\ SessionRefs(I) \subseteq SessionRefs(J)
    BY <1>4 DEF Attempts, SessionRefs
<1>7. ClientStates(I) \subseteq ClientStates(J)
    BY <1>6 DEF ClientStates
<1>8. Seq(I) \subseteq Seq(J)
    BY <1>4
<1> QED BY <1>1, <1>2, <1>3, <1>5, <1>7, <1>8, Zenon

\* A step of the relay, whose tables are in order after it.
LEMMA RelayStep ==
    ASSUME Inv, Carried, UNCHANGED cl, epoch' \in Nat, salt' \in Nat, epoch <= epoch', salt <= salt',
           SaltKept', Tables', Links'
    PROVE  Inv'
<1>1. epoch \in Nat /\ salt \in Nat /\ cl \in [Clients -> ClientStates(Ids)]
    BY Zenon DEF Inv, Traffic
<1>2. Packets(Ids) \subseteq Packets(Ids') /\ ClientStates(Ids) \subseteq ClientStates(Ids')
    BY <1>1, GrowFact, Zenon
<1>3. cl' \in [Clients -> ClientStates(Ids')]
    BY <1>1, <1>2
<1>4. net' \subseteq Packets(Ids') /\ IsFiniteSet(net')
    BY <1>2, Zenon DEF Carried
<1>5. Packets(Ids)' = Packets(Ids') /\ ClientStates(Ids)' = ClientStates(Ids')
    BY Zenon DEF Packets, ClientStates, Attempts, SessionRefs
<1> QED BY <1>3, <1>4, <1>5, Zenon DEF Inv, Traffic

\* A step of the relay within a process and a time slice.
LEMMA TableStep ==
    ASSUME Inv, Carried, UNCHANGED <<cl, epoch, salt, disk>>,
           SessionTable(sessions'), MadeForPeer(sessions'), IsFiniteSet(DOMAIN sessions'), marked' \subseteq Ids,
           index' \in [Clients -> Seq(Ids)], LinksAreOwn'
    PROVE  Inv'
<1>1. epoch \in Nat /\ salt \in Nat
    BY DEF Inv
<1>2. epoch' \in Nat /\ salt' \in Nat /\ epoch <= epoch' /\ salt <= salt'
    BY <1>1
<1>3. SaltKept'
    BY DEF Inv, SaltKept, Carried, LeftStays
<1>4. Ids' = Ids
    BY DEF Ids, Epochs
<1>5. SessionTable(sessions)' /\ SessionTable(disk)'
    <2>1. SessionTable(disk)
        BY Zenon DEF Inv, Tables
    <2> QED BY <1>4, <2>1, Zenon DEF SessionTable
<1>6. MadeForPeer(sessions)' /\ MadeForPeer(disk)'
    <2>1. MadeForPeer(disk)
        BY Zenon DEF Inv, Tables
    <2> QED BY <2>1, Zenon DEF MadeForPeer
<1>7. Tables' /\ Links'
    BY <1>4, <1>5, <1>6, Zenon DEF Inv, Tables, Links
<1> QED BY <1>2, <1>3, <1>7, RelayStep, Zenon

\* A session is removed, and the links to it.
LEMMA RemoveFact ==
    ASSUME Inv, NEW id, RemoveSession(id)
    PROVE  /\ SessionTable(sessions') /\ MadeForPeer(sessions') /\ IsFiniteSet(DOMAIN sessions')
           /\ index' \in [Clients -> Seq(Ids)] /\ LinksAreOwn'
<1>1. DOMAIN sessions' = DOMAIN sessions \ {id} /\ \A i \in DOMAIN sessions' : sessions'[i] = sessions[i]
    BY Zenon DEF RemoveSession, Without
<1>2. SessionTable(sessions') /\ MadeForPeer(sessions') /\ IsFiniteSet(DOMAIN sessions')
    <2>1. SessionTable(sessions) /\ MadeForPeer(sessions) /\ IsFiniteSet(DOMAIN sessions)
        BY Zenon DEF Inv, Tables
    <2>2. IsFiniteSet(DOMAIN sessions')
        BY <1>1, <2>1, FS_RemoveElement, Zenon
    <2> QED BY <1>1, <2>1, <2>2, Zenon DEF SessionTable, MadeForPeer
<1>3. index \in [Clients -> Seq(Ids)] /\ LinksAreOwn
    BY Zenon DEF Inv, Links
<1>4. index' = [n \in Clients |-> Unlinked(index[n], id)]
    BY Zenon DEF RemoveSession
<1>5. ASSUME NEW c \in Clients
      PROVE  /\ index'[c] \in Seq(Ids)
             /\ \A k \in DOMAIN index'[c] : \E j \in DOMAIN index[c] : index'[c][k] = index[c][j] /\ index[c][j] # id
             /\ \A j, k \in DOMAIN index'[c] : index'[c][j] = index'[c][k] => j = k
    <2>1. PICK s \in Seq(Ids) : s = index[c]
        BY <1>3, Zenon
    <2>2. \A j, k \in DOMAIN s : s[j] = s[k] => j = k
        BY <1>3, <2>1, Zenon DEF LinksAreOwn
    <2>3. PICK t : t = Unlinked(s, id)
        OBVIOUS
    <2>4. /\ t \in Seq(Ids)
          /\ \A k \in DOMAIN t : \E j \in DOMAIN s : t[k] = s[j] /\ s[j] # id
          /\ \A j, k \in DOMAIN t : t[j] = t[k] => j = k
        BY <2>2, <2>3, UnlinkedFact
    <2>5. index'[c] = t
        BY <1>4, <2>1, <2>3, Zenon
    <2> QED BY <2>1, <2>4, <2>5, Zenon
<1>6. index' \in [Clients -> Seq(Ids)]
    <2>1. \A c \in Clients : Unlinked(index[c], id) \in Seq(Ids)
        BY <1>4, <1>5, Zenon
    <2> QED BY <1>4, <2>1, Zenon
<1>7. ASSUME NEW c \in Clients, NEW k \in DOMAIN index'[c]
      PROVE  index'[c][k] \in DOMAIN sessions' /\ sessions'[index'[c][k]].node = c
    <2>1. PICK j \in DOMAIN index[c] : index'[c][k] = index[c][j] /\ index[c][j] # id
        BY <1>5, Zenon
    <2>2. index[c][j] \in DOMAIN sessions /\ sessions[index[c][j]].node = c
        BY <1>3, Zenon DEF LinksAreOwn, Live
    <2> QED BY <1>1, <2>1, <2>2, Zenon
<1> QED BY <1>2, <1>5, <1>6, <1>7, Zenon DEF LinksAreOwn, Live
-----------------------------------------------------------------------------
(* The steps of the relay *)

\* Answers that change no table.
LEMMA SilentKeeps ==
    ASSUME Inv, NEW m \in net,
           Hello(m) \/ AnswerRefused(m) \/ RegisterUnknown(m) \/ Query(m)
    PROVE  Inv'
<1>1. UNCHANGED <<relay, cl>>
    BY Zenon DEF Hello, AnswerRefused, RegisterUnknown, Query
<1>2. cl' \in [Clients -> ClientStates(Ids)]
    BY <1>1, Zenon DEF Inv, Traffic
<1>3. /\ {"refused", "challenge", "unauthorized", "found"} \subseteq ToClient
      /\ m.id \in Ids /\ NoId \in Ids /\ gen_new_challenge(m.addr, epoch) \in Ids
    <2>1. {"refused", "challenge", "unauthorized", "found"} \subseteq ToClient
        BY DEF ToClient
    <2>2. m.id \in Ids /\ m.addr \in Addrs
        BY PacketFact, Zenon
    <2> QED BY <2>1, <2>2, IdFact, Zenon DEF Inv
<1>4. \E R : IsFiniteSet(R) /\ R \subseteq Packets(Ids) /\ Takes(m, R)
    <2>1. CASE Hello(m)
        <3>1. \/ Takes(m, Reply(m, "refused", NoId))
              \/ Takes(m, Reply(m, "challenge", gen_new_challenge(m.addr, epoch)))
            BY <2>1, Zenon DEF Hello
        <3> QED BY <1>3, <3>1, ReplyFact, Zenon
    <2>2. CASE AnswerRefused(m)
        <3>1. Takes(m, Reply(m, "refused", m.id)) \/ Takes(m, {})
            BY <2>2, Zenon DEF AnswerRefused
        <3> QED BY <1>3, <3>1, ReplyFact, NoneFact, Zenon
    <2>3. CASE RegisterUnknown(m)
        <3>1. Takes(m, Reply(m, "unauthorized", m.id))
            BY <2>3, Zenon DEF RegisterUnknown
        <3> QED BY <1>3, <3>1, ReplyFact, Zenon
    <2>4. CASE Query(m)
        <3>1. Takes(m, Reply(m, "found", m.id)) \/ Takes(m, Reply(m, "unauthorized", m.id))
            BY <2>4, Zenon DEF Query
        <3> QED BY <1>3, <3>1, ReplyFact, Zenon
    <2> QED BY <2>1, <2>2, <2>3, <2>4, Zenon
<1>5. Carried
    BY <1>4, TakesFact, Zenon
<1> QED BY <1>1, <1>2, <1>5, QuietRelay, Zenon

\* What is known of the relay's tables.
LEMMA TablesFact ==
    ASSUME Inv
    PROVE  /\ SessionTable(sessions) /\ MadeForPeer(sessions) /\ SessionTable(disk) /\ MadeForPeer(disk)
           /\ marked \subseteq Ids /\ index \in [Clients -> Seq(Ids)] /\ LinksAreOwn
           /\ IsFiniteSet(DOMAIN sessions) /\ IsFiniteSet(DOMAIN disk)
           /\ epoch \in Nat /\ salt \in Nat
BY Zenon DEF Inv, Tables, Links

LEMMA AnswerKeeps ==
    ASSUME Inv, NEW m \in net, AnswerAccepted(m)
    PROVE  Inv'
<1>1. m.addr \in Addrs /\ m.id \in Ids /\ m.who \in Clients
    BY PacketFact, Zenon
<1>2. {"refused", "accepted"} \subseteq ToClient
    BY DEF ToClient
<1>3. Carried
    <2>1. Takes(m, Reply(m, "refused", m.id)) \/ Takes(m, Reply(m, "accepted", m.id))
        BY Zenon DEF AnswerAccepted
    <2> QED BY <1>1, <1>2, <2>1, ReplyFact, TakesFact, Zenon
<1>4. m.id # NoId /\ m.id.addr = m.addr
    BY <1>1, IdFact, TablesFact, Zenon DEF AnswerAccepted
<1>5. PICK new : new = [node |-> m.who, peer |-> m.addr]
    BY Zenon
<1>6. new.node = m.who /\ new.peer = m.addr
    BY <1>5
<1>7. /\ DOMAIN sessions' = DOMAIN sessions \cup {m.id}
      /\ \A i \in DOMAIN sessions : sessions'[i] = sessions[i]
      /\ m.id \notin DOMAIN sessions => sessions'[m.id] = new
    BY <1>5, Zenon DEF AnswerAccepted, Live
<1>8. SessionTable(sessions')
    BY <1>1, <1>4, <1>6, <1>7, TablesFact, Zenon DEF SessionTable
<1>9. MadeForPeer(sessions')
    BY <1>4, <1>6, <1>7, TablesFact, Zenon DEF MadeForPeer
<1>10. UNCHANGED <<epoch, salt, index, disk, marked, cl>>
    BY Zenon DEF AnswerAccepted
<1>11. LinksAreOwn'
    BY <1>7, <1>10, TablesFact, ZenonT(40) DEF LinksAreOwn, Live
<1>12. IsFiniteSet(DOMAIN sessions')
    <2>1. PICK D : D = DOMAIN sessions
        OBVIOUS
    <2>2. IsFiniteSet(D)
        BY <2>1, TablesFact, Zenon
    <2>3. IsFiniteSet(D \cup {m.id})
        BY <2>2, FS_AddElement
    <2> QED BY <1>7, <2>1, <2>3, Zenon
<1> QED BY <1>3, <1>8, <1>9, <1>10, <1>11, <1>12, TablesFact, TableStep, Zenon

\* A session that is not linked yet becomes the last one of its node.
LEMMA RegisterKeeps ==
    ASSUME Inv, NEW m \in net, Register(m)
    PROVE  Inv'
<1>1. m.addr \in Addrs /\ m.id \in Ids /\ m.who \in Clients /\ m.rid \in Nat
    BY PacketFact, Zenon
<1>2. UNCHANGED <<epoch, salt, sessions, disk, marked, cl>> /\ m.id \in DOMAIN sessions
    BY Zenon DEF Register, Live
<1>3. PICK n \in Clients : n = sessions[m.id].node
    BY <1>2, TablesFact, Zenon DEF SessionTable
<1>4. sessions[m.id].peer \in Addrs
    BY <1>2, TablesFact, Zenon DEF SessionTable
<1>5. Carried
    <2>1. PICK to \in {m.addr, sessions[m.id].peer} : Takes(m, {Packet("registered", to, m.id, m.rid, m.who)})
        BY Zenon DEF Register
    <2>2. to \in Addrs
        BY <1>1, <1>4, <2>1, Zenon
    <2>3. Packet("registered", to, m.id, m.rid, m.who) \in Packets(Ids)
        BY <1>1, <2>2 DEF Packets, Packet, ToClient
    <2> QED BY <2>1, <2>3, OneFact, TakesFact, Zenon
<1>6. index \in [Clients -> Seq(Ids)] /\ LinksAreOwn
    BY TablesFact, Zenon
<1>7. PICK s \in Seq(Ids) : s = index[n]
    BY <1>6, Zenon
<1>8. index' = [index EXCEPT ![n] = IF Linked(s, m.id) THEN s ELSE Append(s, m.id)]
    BY <1>3, <1>7, Zenon DEF Register
<1>9. CASE Linked(s, m.id)
    <2>1. index' = index
        BY <1>6, <1>7, <1>8, <1>9
    <2>2. LinksAreOwn'
        BY <1>2, <1>6, <2>1, Zenon DEF LinksAreOwn, Live
    <2> QED BY <1>2, <1>5, <1>6, <2>1, <2>2, TablesFact, TableStep, Zenon
<1>10. CASE ~Linked(s, m.id)
    <2>1. PICK t : t = Append(s, m.id)
        BY Zenon
    <2>2. /\ t \in Seq(Ids) /\ DOMAIN t = 1..(Len(s) + 1) /\ DOMAIN s = 1..Len(s) /\ Len(s) \in Nat
          /\ \A k \in 1..Len(s) : t[k] = s[k]
          /\ t[Len(s) + 1] = m.id
        BY <1>1, <2>1
    <2>3. index' = [index EXCEPT ![n] = t]
        BY <1>8, <1>10, <2>1, Zenon
    <2>4. index' \in [Clients -> Seq(Ids)] /\ index'[n] = t /\ \A c \in Clients : c # n => index'[c] = index[c]
        BY <1>6, <2>2, <2>3, Zenon
    <2>5. \A k \in DOMAIN s : s[k] # m.id
        BY <1>10, <2>2, Zenon DEF Linked
    <2>6. \A k \in DOMAIN s : s[k] \in DOMAIN sessions /\ sessions[s[k]].node = n
        BY <1>6, <1>7, Zenon DEF LinksAreOwn, Live
    <2>7. \A j, k \in DOMAIN s : s[j] = s[k] => j = k
        BY <1>6, <1>7, Zenon DEF LinksAreOwn
    <2>8. \A k \in DOMAIN t : k \in DOMAIN s \/ k = Len(s) + 1
        BY <2>2
    <2>9. \A k \in DOMAIN t : t[k] \in DOMAIN sessions /\ sessions[t[k]].node = n
        BY <1>2, <1>3, <2>2, <2>6, <2>8, Zenon
    <2>10. \A j, k \in DOMAIN t : t[j] = t[k] => j = k
        BY <2>2, <2>5, <2>7, <2>8, Zenon
    <2>11. ASSUME NEW c \in Clients, NEW k \in DOMAIN index'[c]
           PROVE  /\ index'[c][k] \in DOMAIN sessions /\ sessions[index'[c][k]].node = c
                  /\ \A j \in DOMAIN index'[c] : index'[c][j] = index'[c][k] => j = k
        <3>1. CASE c = n
            BY <2>4, <2>9, <2>10, <3>1, Zenon
        <3>2. CASE c # n
            BY <1>6, <2>4, <3>2, ZenonT(40) DEF LinksAreOwn, Live
        <3> QED BY <3>1, <3>2
    <2>12. LinksAreOwn'
        BY <1>2, <2>11, Zenon DEF LinksAreOwn, Live
    <2> QED BY <1>2, <1>5, <2>4, <2>12, TablesFact, TableStep, Zenon
<1> QED BY <1>9, <1>10

LEMMA PingKeeps ==
    ASSUME Inv, NEW m \in net, Ping(m)
    PROVE  Inv'
<1>1. m.id \in Ids
    BY PacketFact, Zenon
<1>2. {"pong", "disconnected"} \subseteq ToClient
    BY DEF ToClient
<1>3. Takes(m, Reply(m, "pong", m.id)) \/ Takes(m, Reply(m, "disconnected", m.id)) \/ Takes(m, {})
    BY Zenon DEF Ping
<1>4. Carried
    BY <1>1, <1>2, <1>3, ReplyFact, NoneFact, TakesFact, Zenon
<1>5. UNCHANGED <<epoch, salt, sessions, index, disk, cl>> /\ marked' \subseteq marked \cup {m.id}
    BY Zenon DEF Ping
<1>6. LinksAreOwn'
    BY <1>5, TablesFact, Zenon DEF LinksAreOwn, Live
<1>7. marked' \subseteq Ids
    BY <1>1, <1>5, TablesFact, Zenon
<1> QED BY <1>4, <1>5, <1>6, <1>7, TablesFact, TableStep, Zenon

LEMMA ByeKeeps ==
    ASSUME Inv, NEW m \in net, Bye(m)
    PROVE  Inv'
<1>1. Carried
    BY NoneFact, TakesFact, Zenon DEF Bye
<1>2. UNCHANGED <<epoch, salt, disk, marked, cl>>
    BY Zenon DEF Bye
<1>3. CASE RemoveSession(m.id)
    BY <1>1, <1>2, <1>3, RemoveFact, TablesFact, TableStep, Zenon
<1>4. CASE UNCHANGED <<sessions, index>>
    <2>1. LinksAreOwn'
        BY <1>4, TablesFact, Zenon DEF LinksAreOwn, Live
    <2> QED BY <1>1, <1>2, <1>4, <2>1, TablesFact, TableStep, Zenon
<1> QED BY <1>3, <1>4, Zenon DEF Bye

LEMMA PurgeKeeps ==
    ASSUME Inv, NEW id, Purge(id)
    PROVE  Inv'
<1>1. UNCHANGED <<epoch, salt, disk, marked, net, cl>> /\ RemoveSession(id)
    BY Zenon DEF Purge
<1>2. Happens("purge") \/ UNCHANGED left
    BY Zenon DEF Purge
<1>3. LeftStays
    BY <1>2, HappensFact, LeftFact
<1>4. Carried
    BY <1>1, <1>3, SameNet, Zenon
<1> QED BY <1>1, <1>4, RemoveFact, TablesFact, TableStep, Zenon

LEMMA TickKeeps ==
    ASSUME Inv, Tick
    PROVE  Inv'
<1>1. UNCHANGED <<salt, sessions, index, disk, marked, net, cl>> /\ epoch' = epoch + 1 /\ Happens("tick")
    BY Zenon DEF Tick
<1>2. LeftStays
    BY <1>1, HappensFact
<1>3. Carried
    BY <1>1, <1>2, SameNet, Zenon
<1>4. epoch \in Nat /\ salt \in Nat /\ epoch' \in Nat /\ salt' \in Nat /\ epoch <= epoch' /\ salt <= salt'
    BY <1>1, TablesFact
<1>5. Ids \subseteq Ids' /\ Seq(Ids) \subseteq Seq(Ids')
    BY <1>4, GrowFact, Zenon
<1>6. SaltKept'
    BY <1>1, <1>2 DEF Inv, SaltKept, LeftStays
<1>7. Tables'
    BY <1>1, <1>5, TablesFact, Zenon DEF Tables, SessionTable, MadeForPeer
<1>8. Links'
    <2>1. index' \in [Clients -> Seq(Ids')]
        BY <1>1, <1>5, TablesFact
    <2>2. LinksAreOwn'
        BY <1>1, TablesFact, Zenon DEF LinksAreOwn, Live
    <2>3. Seq(Ids)' = Seq(Ids')
        OBVIOUS
    <2> QED BY <2>1, <2>2, <2>3, Zenon DEF Links
<1> QED BY <1>1, <1>3, <1>4, <1>6, <1>7, <1>8, RelayStep, Zenon

\* The order in which the sessions of a node are read back is one of those there are.
LEMMA OrdersFact ==
    ASSUME NEW saved, IsFiniteSet(DOMAIN saved), SessionTable(saved), NEW c, NEW s \in Orders(saved, c)
    PROVE  /\ s \in Seq(Ids)
           /\ \A k \in DOMAIN s : s[k] \in DOMAIN saved /\ saved[s[k]].node = c
           /\ \A j, k \in DOMAIN s : s[j] = s[k] => j = k
<1>1. PICK S : S = {id \in DOMAIN saved : saved[id].node = c}
    BY Zenon
<1>2. S \subseteq DOMAIN saved /\ S \subseteq Ids
    BY <1>1, Zenon DEF SessionTable
<1>3. IsFiniteSet(S)
    BY <1>2, FS_Subset, Zenon
<1>4. PICK n \in Nat : n = Cardinality(S)
    BY <1>3, FS_CardinalityType, Zenon
<1>5. s \in {f \in [1..Cardinality(S) -> S] : \A j, k \in DOMAIN f : f[j] = f[k] => j = k}
    BY <1>1, Zenon DEF Orders
<1>6. s \in [1..n -> S] /\ \A j, k \in DOMAIN s : s[j] = s[k] => j = k
    BY <1>4, <1>5, Zenon
<1>7. DOMAIN s = 1..n
    BY <1>6, Zenon
<1>8. s \in [1..n -> Ids]
    BY <1>2, <1>6
<1>9. s \in Seq(Ids)
    BY <1>4, <1>8
<1> QED BY <1>1, <1>6, <1>7, <1>9, Zenon

\* A process begins with tables that are in order if the saved one is.
LEMMA StartKeeps ==
    ASSUME Inv, LeftStays, NEW saved, Start(saved),
           SessionTable(saved), MadeForPeer(saved), IsFiniteSet(DOMAIN saved),
           SessionTable(disk'), MadeForPeer(disk'), IsFiniteSet(DOMAIN disk')
    PROVE  Inv'
<1>1. /\ sessions' = saved /\ marked' = {} /\ UNCHANGED <<epoch, net, cl>>
      /\ salt' = IF left.static = 1 THEN salt ELSE salt + 1
    BY Zenon DEF Start
<1>2. Carried
    BY <1>1, SameNet, Zenon
<1>3. epoch \in Nat /\ salt \in Nat /\ epoch' \in Nat /\ salt' \in Nat /\ epoch <= epoch' /\ salt <= salt'
    BY <1>1, TablesFact
<1>4. Ids \subseteq Ids' /\ Seq(Ids) \subseteq Seq(Ids')
    BY <1>3, GrowFact, Zenon
<1>5. SaltKept'
    <2>1. "static" \in DOMAIN left' /\ left'.static = left.static
        BY Zenon DEF LeftStays
    <2>2. left.static = 1 => salt = 0
        BY Zenon DEF Inv, SaltKept
    <2>3. left.static = 1 => salt' = 0
        BY <1>1, <2>2, Zenon
    <2> QED BY <2>1, <2>3, Zenon DEF SaltKept
<1>6. Tables'
    BY <1>1, <1>4, Zenon DEF Tables, SessionTable, MadeForPeer
<1>7. PICK f \in [Clients -> UNION {Orders(saved, c) : c \in Clients}] :
            (\A c \in Clients : f[c] \in Orders(saved, c)) /\ index' = f
    BY Zenon DEF Start
<1>8. ASSUME NEW c \in Clients
      PROVE  /\ index'[c] \in Seq(Ids')
             /\ \A k \in DOMAIN index'[c] : index'[c][k] \in DOMAIN sessions' /\ sessions'[index'[c][k]].node = c
             /\ \A j, k \in DOMAIN index'[c] : index'[c][j] = index'[c][k] => j = k
    <2>1. index'[c] \in Orders(saved, c)
        BY <1>7, Zenon
    <2>2. PICK s \in Orders(saved, c) : s = index'[c]
        BY <2>1, Zenon
    <2>3. /\ s \in Seq(Ids)
          /\ \A k \in DOMAIN s : s[k] \in DOMAIN saved /\ saved[s[k]].node = c
          /\ \A j, k \in DOMAIN s : s[j] = s[k] => j = k
        BY OrdersFact
    <2> QED BY <1>1, <1>4, <2>2, <2>3, Zenon
<1>9. index' \in [Clients -> Seq(Ids')]
    <2>1. index' = [c \in Clients |-> index'[c]]
        BY <1>7, Zenon
    <2> QED BY <1>8, <2>1, Zenon
<1>10. Links'
    BY <1>8, <1>9, Zenon DEF Links, LinksAreOwn, Live
<1> QED BY <1>1, <1>2, <1>3, <1>5, <1>6, <1>10, RelayStep, Zenon

LEMMA StopKeeps ==
    ASSUME Inv, Stop
    PROVE  Inv'
<1>1. LeftStays
    BY HappensFact DEF Stop
<1>2. (disk' = sessions \/ disk' = Empty) /\ Start(disk')
    BY Zenon DEF Stop
<1>3. DOMAIN Empty = {}
    BY DEF Empty
<1>4. SessionTable(Empty) /\ MadeForPeer(Empty) /\ IsFiniteSet(DOMAIN Empty)
    BY <1>3, FS_EmptySet, Zenon DEF SessionTable, MadeForPeer
<1>5. PICK saved : saved = disk'
    OBVIOUS
<1>6. SessionTable(saved) /\ MadeForPeer(saved) /\ IsFiniteSet(DOMAIN saved)
    BY <1>2, <1>4, <1>5, TablesFact, Zenon
<1>7. Start(saved)
    BY <1>2, <1>5, Zenon
<1> QED BY <1>1, <1>5, <1>6, <1>7, StartKeeps, Zenon

LEMMA CrashKeeps ==
    ASSUME Inv, Crash
    PROVE  Inv'
<1>1. LeftStays
    BY HappensFact DEF Crash
<1>2. Start(disk) /\ disk' = disk
    BY Zenon DEF Crash
<1> QED BY <1>1, <1>2, TablesFact, StartKeeps, Zenon
-----------------------------------------------------------------------------
(* The steps of clients *)

LEMMA ClientStep ==
    ASSUME Inv, Carried, UNCHANGED relay, NEW c \in Clients, NEW r \in ClientStates(Ids),
           cl' = [cl EXCEPT ![c] = r]
    PROVE  Inv'
<1>1. cl' \in [Clients -> ClientStates(Ids)]
    BY ClientFact
<1> QED BY <1>1, QuietRelay, Zenon

\* A step of a client that changes only the client.
LEMMA LocalStep ==
    ASSUME Inv, UNCHANGED <<left, relay, net>>, NEW c \in Clients, NEW r \in ClientStates(Ids),
           cl' = [cl EXCEPT ![c] = r]
    PROVE  Inv'
<1>1. Carried
    BY LeftFact, SameNet, Zenon
<1> QED BY <1>1, ClientStep, Zenon

LEMMA RetiredFact ==
    ASSUME Inv, NEW r \in ClientStates(Ids)
    PROVE  Retired(r) \in ClientStates(Ids)
<1>1. NoAttempt \in Attempts(Ids) /\ NoSession \in SessionRefs(Ids)
    BY ConstantFact, Zenon
<1> QED BY <1>1, Zenon DEF Retired, ClientStates

LEMMA BegunFact ==
    ASSUME Inv, NEW c \in Clients
    PROVE  /\ Begun(c) \in ClientStates(Ids)
           /\ Request(c, "hello", NoId, NewRequest(c)) \in Packets(Ids)
<1>1. PICK rid \in Nat : rid = NewRequest(c)
    BY NewRequestFact, Zenon DEF Inv, Traffic
<1>2. NoId \in Ids /\ "hello" \in ToRelay
    BY ConstantFact DEF ToRelay
<1>3. PICK a : a = [step |-> "hello", rid |-> rid, id |-> NoId]
    BY Zenon
<1>4. a \in Attempts(Ids)
    BY <1>2, <1>3 DEF Attempts
<1>5. Begun(c) = [cl[c] EXCEPT !.att = a]
    BY <1>1, <1>3, Zenon DEF Begun
<1>6. Begun(c) \in ClientStates(Ids)
    BY <1>4, <1>5, ClientFact DEF ClientStates
<1> QED BY <1>1, <1>2, <1>6, RequestFact, Zenon

LEMMA EstablishKeeps ==
    ASSUME Inv, NEW c \in Clients, Establish(c)
    PROVE  Inv'
<1>1. LeftStays
    <2>1. Happens("overtake") \/ UNCHANGED left
        BY Zenon DEF Establish
    <2> QED BY <2>1, HappensFact, LeftFact
<1>2. UNCHANGED relay
    BY Zenon DEF Establish
<1>3. CASE Viewed(cl[c])
    <2>1. PICK k \in {"subscribe", "connect"} :
            cl' = [cl EXCEPT ![c].ka = k, ![c].watch = TRUE] /\ UNCHANGED net
        BY <1>3, Zenon DEF Establish
    <2>2. PICK r : r = [cl[c] EXCEPT !.ka = k, !.watch = TRUE]
        OBVIOUS
    <2>3. r \in ClientStates(Ids)
        BY <2>2, ClientFact, Zenon DEF ClientStates
    <2>4. cl' = [cl EXCEPT ![c] = r]
        BY <2>1, <2>2, ClientFact, Zenon
    <2>5. Carried
        BY <1>1, <2>1, SameNet, Zenon
    <2> QED BY <1>2, <2>3, <2>4, <2>5, ClientStep, Zenon
<1>4. CASE ~Viewed(cl[c])
    <2>1. PICK r : r = [Begun(c) EXCEPT !.ka = "connect", !.watch = TRUE]
        OBVIOUS
    <2>2. cl' = [cl EXCEPT ![c] = r] /\ net' = net \cup {Request(c, "hello", NoId, NewRequest(c))}
        BY <1>4, <2>1, Zenon DEF Establish
    <2>3. r \in ClientStates(Ids)
        BY <2>1, BegunFact, Zenon DEF ClientStates
    <2>4. Carried
        BY <1>1, <2>2, BegunFact, OneFact, SendsFact, Zenon
    <2> QED BY <1>2, <2>2, <2>3, <2>4, ClientStep, Zenon
<1> QED BY <1>3, <1>4

\* The steps of keep_alive_server_session between its calls.
LEMMA WaitKeeps ==
    ASSUME Inv, NEW c \in Clients, Connected(c) \/ Subscribe(c) \/ Awake(c)
    PROVE  Inv'
<1>1. UNCHANGED <<left, relay, net>>
    BY Zenon DEF Connected, Subscribe, Awake
<1>2. CASE Connected(c) \/ Awake(c)
    <2>1. PICK k \in {"subscribe", "establish"} : cl' = [cl EXCEPT ![c].ka = k]
        BY <1>2, Zenon DEF Connected, Awake
    <2>2. PICK r : r = [cl[c] EXCEPT !.ka = k]
        BY Zenon
    <2>3. r \in ClientStates(Ids)
        BY <2>2, ClientFact DEF ClientStates
    <2>4. cl' = [cl EXCEPT ![c] = r]
        BY <2>1, <2>2, ClientFact
    <2> QED BY <1>1, <2>3, <2>4, LocalStep, Zenon
<1>3. CASE Subscribe(c)
    <2>1. PICK b \in BOOLEAN : b = Viewed(cl[c])
        BY Zenon DEF Viewed
    <2>2. PICK k \in {"wait", "establish"} : cl' = [cl EXCEPT ![c].ka = k, ![c].watch = b]
        BY <1>3, <2>1, Zenon DEF Subscribe
    <2>3. PICK r : r = [cl[c] EXCEPT !.ka = k, !.watch = b]
        OBVIOUS
    <2>4. r \in ClientStates(Ids)
        BY <2>3, ClientFact, Zenon DEF ClientStates
    <2>5. cl' = [cl EXCEPT ![c] = r]
        BY <2>2, <2>3, ClientFact, Zenon
    <2> QED BY <1>1, <2>4, <2>5, LocalStep, Zenon
<1> QED BY <1>2, <1>3, Zenon

\* What other tasks of a client do with the session.
LEMMA TaskKeeps ==
    ASSUME Inv, NEW c \in Clients, Call(c) \/ Ask(c) \/ Reconnect(c)
    PROVE  Inv'
<1>1. UNCHANGED relay
    BY Zenon DEF Call, Ask, Reconnect
<1>2. Happens("call") \/ Happens("ask") \/ Happens("reconnect")
    BY Zenon DEF Call, Ask, Reconnect
<1>3. LeftStays
    BY <1>2, HappensFact
<1>4. CASE Call(c)
    <2>1. cl' = [cl EXCEPT ![c] = Begun(c)] /\ net' = net \cup {Request(c, "hello", NoId, NewRequest(c))}
        BY <1>4, Zenon DEF Call
    <2>2. Carried
        BY <1>3, <2>1, BegunFact, OneFact, SendsFact, Zenon
    <2> QED BY <1>1, <2>1, <2>2, BegunFact, ClientStep, Zenon
<1>5. CASE Ask(c)
    <2>1. net' = net \cup {Request(c, "query", cl[c].sess.id, 0)} /\ UNCHANGED cl
        BY <1>5, Zenon DEF Ask
    <2>2. "query" \in ToRelay /\ 0 \in Nat
        BY DEF ToRelay
    <2>3. Request(c, "query", cl[c].sess.id, 0) \in Packets(Ids)
        BY <2>2, ClientFact, RequestFact, Zenon
    <2>4. Carried
        BY <1>3, <2>1, <2>3, OneFact, SendsFact, Zenon
    <2> QED BY <1>1, <2>1, <2>4, ClientFact, QuietRelay, Zenon
<1>6. CASE Reconnect(c)
    <2>1. cl' = [cl EXCEPT ![c] = Retired(cl[c])] /\ net' = net \cup Goodbye(c, cl[c].sess)
        BY <1>6, Zenon DEF Reconnect
    <2>2. Carried
        BY <1>3, <2>1, ClientFact, GoodbyeFact, SendsFact, Zenon
    <2> QED BY <1>1, <2>1, <2>2, ClientFact, RetiredFact, ClientStep, Zenon
<1> QED BY <1>4, <1>5, <1>6, Zenon

LEMMA SeenFact ==
    ASSUME Inv, NEW c \in Clients
    PROVE  Seen(c) \in ClientStates(Ids)
<1>1. PICK b \in BOOLEAN : b = (cl[c].seen \/ (cl[c].exp # NoSession /\ cl[c].sess = cl[c].exp))
    BY Zenon
<1>2. Seen(c) = [cl[c] EXCEPT !.seen = b]
    BY <1>1, Zenon DEF Seen
<1> QED BY <1>2, ClientFact DEF ClientStates

LEMMA ChallengeKeeps ==
    ASSUME Inv, NEW c \in Clients, NEW m \in net, OnChallenge(c, m)
    PROVE  Inv'
<1>1. PICK rid \in Nat : rid = NewRequest(c)
    BY NewRequestFact, Zenon DEF Inv, Traffic
<1>2. m.id \in Ids /\ "answer" \in ToRelay
    BY PacketFact DEF ToRelay
<1>3. PICK a : a = [step |-> "answer", rid |-> rid, id |-> m.id]
    BY Zenon
<1>4. a \in Attempts(Ids)
    BY <1>2, <1>3 DEF Attempts
<1>5. cl' = [cl EXCEPT ![c].att = a] /\ Takes(m, {Request(c, "answer", m.id, rid)}) /\ UNCHANGED relay
    BY <1>1, <1>3, Zenon DEF OnChallenge
<1>6. PICK r : r = [cl[c] EXCEPT !.att = a]
    BY Zenon
<1>7. r \in ClientStates(Ids)
    BY <1>4, <1>6, ClientFact DEF ClientStates
<1>8. cl' = [cl EXCEPT ![c] = r]
    BY <1>5, <1>6, ClientFact
<1>9. Request(c, "answer", m.id, rid) \in Packets(Ids)
    BY <1>2, RequestFact, Zenon
<1>10. Carried
    BY <1>5, <1>9, OneFact, TakesFact, Zenon
<1> QED BY <1>5, <1>7, <1>8, <1>10, ClientStep, Zenon

LEMMA AcceptedKeeps ==
    ASSUME Inv, NEW c \in Clients, NEW m \in net, OnAccepted(c, m)
    PROVE  Inv'
<1>1. PICK rid \in Nat : rid = NewRequest(c)
    BY NewRequestFact, Zenon DEF Inv, Traffic
<1>2. PICK obj \in Nat : obj = NewObject(c)
    BY NewObjectFact, Zenon
<1>3. m.id \in Ids /\ "register" \in ToRelay /\ "ping" \in ToRelay /\ 0 \in Nat
    BY PacketFact DEF ToRelay
<1>4. PICK a : a = [step |-> "register", rid |-> rid, id |-> m.id]
    BY Zenon
<1>5. PICK s : s = [obj |-> obj, id |-> m.id]
    BY Zenon
<1>6. a \in Attempts(Ids) /\ s \in SessionRefs(Ids)
    BY <1>3, <1>4, <1>5 DEF Attempts, SessionRefs
<1>7. PICK R : R = {Request(c, "register", m.id, rid), Request(c, "ping", m.id, 0)}
    BY Zenon
<1>8. cl' = [cl EXCEPT ![c].att = a, ![c].sess = s] /\ Takes(m, R) /\ UNCHANGED relay
    BY <1>1, <1>2, <1>4, <1>5, <1>7, Zenon DEF OnAccepted
<1>9. PICK r : r = [cl[c] EXCEPT !.att = a, !.sess = s]
    OBVIOUS
<1>10. r \in ClientStates(Ids)
    BY <1>6, <1>9, ClientFact, Zenon DEF ClientStates
<1>11. cl' = [cl EXCEPT ![c] = r]
    BY <1>8, <1>9, ClientFact, Zenon
<1>12. Request(c, "register", m.id, rid) \in Packets(Ids) /\ Request(c, "ping", m.id, 0) \in Packets(Ids)
    BY <1>3, RequestFact, Zenon
<1>13. R \subseteq Packets(Ids) /\ R = {Request(c, "register", m.id, rid)} \cup {Request(c, "ping", m.id, 0)}
    BY <1>7, <1>12, Zenon
<1>14. IsFiniteSet(R)
    <2>1. PICK D : D = {Request(c, "register", m.id, rid)}
        BY Zenon
    <2>2. IsFiniteSet(D)
        BY <2>1, FS_Singleton, Zenon
    <2>3. IsFiniteSet(D \cup {Request(c, "ping", m.id, 0)})
        BY <2>2, FS_AddElement
    <2> QED BY <1>13, <2>1, <2>3, Zenon
<1>15. Carried
    BY <1>8, <1>13, <1>14, TakesFact, Zenon
<1> QED BY <1>8, <1>10, <1>11, <1>15, ClientStep, Zenon

\* The attempt has its result, or a packet that it does not wait for comes.
LEMMA OtherKeeps ==
    ASSUME Inv, NEW c \in Clients, NEW m \in net, OnRegistered(c, m) \/ OnOther(c, m)
    PROVE  Inv'
<1>1. Takes(m, {}) /\ UNCHANGED relay
    BY Zenon DEF OnRegistered, OnOther
<1>2. Carried
    BY <1>1, NoneFact, TakesFact, Zenon
<1>3. Seen(c) \in ClientStates(Ids) /\ cl[c] \in ClientStates(Ids)
    BY SeenFact, ClientFact, Zenon
<1>4. PICK r : cl' = [cl EXCEPT ![c] = r] /\ r \in {Seen(c), cl[c], [Seen(c) EXCEPT !.att = NoAttempt]}
    BY Zenon DEF OnRegistered, OnOther
<1>5. [Seen(c) EXCEPT !.att = NoAttempt] \in ClientStates(Ids)
    <2>1. NoAttempt \in Attempts(Ids)
        BY ConstantFact, Zenon
    <2> QED BY <1>3, <2>1 DEF ClientStates
<1>6. r \in ClientStates(Ids)
    BY <1>3, <1>4, <1>5, Zenon
<1> QED BY <1>1, <1>2, <1>4, <1>6, ClientStep, Zenon

LEMMA EndKeeps ==
    ASSUME Inv, NEW c \in Clients, NEW m \in net, OnEnd(c, m)
    PROVE  Inv'
<1>1. Takes(m, Goodbye(c, cl[c].sess)) /\ UNCHANGED relay /\ cl' = [cl EXCEPT ![c] = Retired(Seen(c))]
    BY Zenon DEF OnEnd
<1>2. Carried
    BY <1>1, ClientFact, GoodbyeFact, TakesFact, Zenon
<1>3. Retired(Seen(c)) \in ClientStates(Ids)
    BY SeenFact, RetiredFact, Zenon
<1> QED BY <1>1, <1>2, <1>3, ClientStep, Zenon

\* A packet leaves the network without being read.
LEMMA DropKeeps ==
    ASSUME Inv, NEW m \in net, Undeliverable(m) \/ Lose(m)
    PROVE  Inv'
<1>1. UNCHANGED <<relay, cl>> /\ net' = net \ {m} /\ (UNCHANGED left \/ Happens("lose"))
    BY Zenon DEF Undeliverable, Lose
<1>2. LeftStays
    BY <1>1, HappensFact, LeftFact
<1>3. IsFiniteSet(net) /\ net \subseteq Packets(Ids) /\ cl \in [Clients -> ClientStates(Ids)]
    BY Zenon DEF Inv, Traffic
<1>4. Carried
    BY <1>1, <1>2, <1>3, FS_RemoveElement, Zenon DEF Carried
<1> QED BY <1>1, <1>3, <1>4, QuietRelay, Zenon

LEMMA TimeoutKeeps ==
    ASSUME Inv, NEW c \in Clients, Timeout(c)
    PROVE  Inv'
<1>1. /\ cl' = [cl EXCEPT ![c] = Retired(cl[c])] /\ net' = net \cup Goodbye(c, cl[c].sess) /\ UNCHANGED relay
      /\ Happens("late") \/ UNCHANGED left
    BY Zenon DEF Timeout
<1>2. LeftStays
    BY <1>1, HappensFact, LeftFact
<1>3. Carried
    BY <1>1, <1>2, ClientFact, GoodbyeFact, SendsFact, Zenon
<1> QED BY <1>1, <1>3, ClientFact, RetiredFact, ClientStep, Zenon

LEMMA ResendKeeps ==
    ASSUME Inv, NEW c \in Clients, Resend(c)
    PROVE  Inv'
<1>1. PICK p : p = Request(c, cl[c].att.step, cl[c].att.id, cl[c].att.rid)
    OBVIOUS
<1>2. net' = net \cup {p} /\ UNCHANGED <<relay, cl>> /\ Happens("resend")
    BY <1>1, Zenon DEF Resend
<1>3. LeftStays
    BY <1>2, HappensFact
<1>4. cl[c].att.step \in ToRelay
    BY ClientFact, Zenon DEF Resend
<1>5. p \in Packets(Ids)
    BY <1>1, <1>4, ClientFact, RequestFact, Zenon
<1>6. Carried
    BY <1>2, <1>3, <1>5, OneFact, SendsFact, Zenon
<1> QED BY <1>2, <1>6, ClientFact, QuietRelay, Zenon

LEMMA ExpireCheckKeeps ==
    ASSUME Inv, NEW c \in Clients, ExpireCheck(c)
    PROVE  Inv'
<1>1. /\ cl' = [cl EXCEPT ![c].exp = cl[c].sess, ![c].seen = FALSE] /\ UNCHANGED relay
      /\ net' = net \cup {Request(c, "ping", cl[c].sess.id, 0)}
      /\ Happens("early") \/ UNCHANGED left
    BY Zenon DEF ExpireCheck
<1>2. LeftStays
    BY <1>1, HappensFact, LeftFact
<1>3. "ping" \in ToRelay /\ 0 \in Nat
    BY DEF ToRelay
<1>4. Request(c, "ping", cl[c].sess.id, 0) \in Packets(Ids)
    BY <1>3, ClientFact, RequestFact, Zenon
<1>5. Carried
    BY <1>1, <1>2, <1>4, OneFact, SendsFact, Zenon
<1>6. PICK r : r = [cl[c] EXCEPT !.exp = cl[c].sess, !.seen = FALSE]
    OBVIOUS
<1>7. r \in ClientStates(Ids)
    BY <1>6, ClientFact, Zenon DEF ClientStates
<1>8. cl' = [cl EXCEPT ![c] = r]
    BY <1>1, <1>6, ClientFact, Zenon
<1> QED BY <1>1, <1>5, <1>7, <1>8, ClientStep, Zenon

LEMMA ExpireDoneKeeps ==
    ASSUME Inv, NEW c \in Clients, ExpireDone(c)
    PROVE  Inv'
<1>1. UNCHANGED relay /\ (Happens("late") \/ UNCHANGED left)
    BY Zenon DEF ExpireDone
<1>2. LeftStays
    BY <1>1, HappensFact, LeftFact
<1>3. PICK r : r = [cl[c] EXCEPT !.exp = NoSession, !.seen = FALSE]
    OBVIOUS
<1>4. r \in ClientStates(Ids) /\ Retired(r) \in ClientStates(Ids)
    <2>1. NoSession \in SessionRefs(Ids)
        BY ConstantFact, Zenon
    <2>2. r \in ClientStates(Ids)
        BY <1>3, <2>1, ClientFact, Zenon DEF ClientStates
    <2> QED BY <2>2, RetiredFact, Zenon
<1>5. PICK q \in {r, Retired(r)} : cl' = [cl EXCEPT ![c] = q]
    BY <1>3, Zenon DEF ExpireDone
<1>6. UNCHANGED net \/ net' = net \cup Goodbye(c, cl[c].exp)
    BY Zenon DEF ExpireDone
<1>7. Carried
    BY <1>2, <1>6, ClientFact, GoodbyeFact, SendsFact, SameNet, Zenon
<1> QED BY <1>1, <1>4, <1>5, <1>7, ClientStep, Zenon

\* The client has another address, or begins anew.
LEMMA MoveKeeps ==
    ASSUME Inv, NEW c \in Clients, Rebind(c) \/ Restart(c)
    PROVE  Inv'
<1>1. UNCHANGED <<relay, net>> /\ (Happens("rebind") \/ Happens("restart"))
    BY Zenon DEF Rebind, Restart
<1>2. LeftStays
    BY <1>1, HappensFact
<1>3. Carried
    BY <1>1, <1>2, SameNet, Zenon
<1>4. PICK a \in Addrs : cl' = [cl EXCEPT ![c].addr = a] \/ cl' = [cl EXCEPT ![c] = NewClient(a)]
    BY ClientFact, Zenon DEF Rebind, Restart, Free
<1>5. CASE cl' = [cl EXCEPT ![c].addr = a]
    <2>1. PICK r : r = [cl[c] EXCEPT !.addr = a]
        BY Zenon
    <2>2. r \in ClientStates(Ids)
        BY <2>1, ClientFact DEF ClientStates
    <2>3. cl' = [cl EXCEPT ![c] = r]
        BY <1>5, <2>1, ClientFact
    <2> QED BY <1>1, <1>3, <2>2, <2>3, ClientStep, Zenon
<1>6. CASE cl' = [cl EXCEPT ![c] = NewClient(a)]
    BY <1>1, <1>3, <1>6, ConstantFact, ClientStep, Zenon
<1> QED BY <1>4, <1>5, <1>6
-----------------------------------------------------------------------------
(* The theorems *)

LEMMA InitInv ==
    ASSUME Init
    PROVE  Inv
<1>1. epoch = 2 /\ salt = 0 /\ left \in Mixes /\ epoch \in Nat /\ salt \in Nat
    BY DEF Init
<1>2. SaltKept
    BY <1>1, RelaySessionAssumption DEF SaltKept
<1>3. DOMAIN Empty = {} /\ sessions = Empty /\ disk = Empty /\ marked = {} /\ net = {}
    BY DEF Init, Empty
<1>4. Tables
    BY <1>3, FS_EmptySet, Zenon DEF Tables, SessionTable, MadeForPeer
<1>5. index = [c \in Clients |-> <<>>]
    BY DEF Init
<1>6. Links
    <2>1. index \in [Clients -> Seq(Ids)]
        BY <1>5
    <2>2. \A c \in Clients : DOMAIN index[c] = {}
        BY <1>5
    <2> QED BY <2>1, <2>2, Zenon DEF Links, LinksAreOwn
<1>7. cl \in [Clients -> ClientStates(Ids)]
    <2>1. NoId \in Ids
        BY <1>1, IdFact, Zenon
    <2>2. NoAttempt \in Attempts(Ids) /\ NoSession \in SessionRefs(Ids)
        BY <2>1 DEF NoSession, Attempts, SessionRefs
    <2>3. ASSUME NEW c \in Clients
          PROVE  [NewClient(Home[c]) EXCEPT !.ka = IF c \in left.on THEN @ ELSE "off"] \in ClientStates(Ids)
        <3>1. Home[c] \in Addrs
            BY RelaySessionAssumption
        <3> QED BY <2>2, <3>1, Zenon DEF NewClient, ClientStates
    <2> QED BY <2>3, Zenon DEF Init
<1>8. Traffic
    BY <1>3, <1>7, FS_EmptySet, Zenon DEF Traffic
<1> QED BY <1>1, <1>2, <1>4, <1>6, <1>8, Zenon DEF Inv

LEMMA NextInv ==
    ASSUME Inv, [Next]_vars
    PROVE  Inv'
<1>1. ASSUME NEW m \in net, Handle(m)
      PROVE  Inv'
    BY <1>1, SilentKeeps, AnswerKeeps, RegisterKeeps, PingKeeps, ByeKeeps, Zenon DEF Handle
<1>2. ASSUME NEW c \in Clients, NEW m \in net, Deliver(c, m)
      PROVE  Inv'
    BY <1>2, ChallengeKeeps, AcceptedKeeps, OtherKeeps, EndKeeps, Zenon DEF Deliver
<1>3. ASSUME NEW c \in Clients, Step(c)
      PROVE  Inv'
    BY Zenon, <1>1, <1>2, <1>3, EstablishKeeps, WaitKeeps, DropKeeps, TimeoutKeeps, ExpireCheckKeeps,
       ExpireDoneKeeps, Zenon DEF Step
<1>4. ASSUME NEW c \in Clients, Call(c) \/ Ask(c) \/ Reconnect(c) \/ Resend(c) \/ Rebind(c) \/ Restart(c)
      PROVE  Inv'
    BY <1>4, TaskKeeps, ResendKeeps, MoveKeeps, Zenon
<1>5. ASSUME UNCHANGED vars
      PROVE  Inv'
    <2>1. UNCHANGED <<left, relay, net, cl>>
        BY <1>5 DEF vars
    <2>2. Carried
        BY <2>1, LeftFact, SameNet, Zenon
    <2>3. cl' \in [Clients -> ClientStates(Ids)]
        BY <2>1, Zenon DEF Inv, Traffic
    <2> QED BY <2>1, <2>2, <2>3, QuietRelay, Zenon
<1> QED BY <1>3, <1>4, <1>5, PurgeKeeps, DropKeeps, TickKeeps, StopKeeps, CrashKeeps, Zenon DEF Next

\* With a configured salt, an answer in time is of the salt of now and of one of three slices.
LEMMA InvAnswers ==
    ASSUME Inv
    PROVE  AnswersStayValid
<1>1. SUFFICES ASSUME left.static = 1, NEW m \in net,
                      m.kind = "answer", m.id.addr = m.addr, m.id.epoch + 2 >= epoch
               PROVE  check_session_id(m.id, m.addr) /\ Verifies(m.id)
    BY Zenon DEF AnswersStayValid
<1>2. salt = 0 /\ epoch \in Nat
    BY <1>1, Zenon DEF Inv, SaltKept
<1>3. m.id \in Ids /\ m.addr \in Addrs
    BY PacketFact, Zenon
<1>4. m.id # NoId
    BY <1>1, <1>3, IdFact, TablesFact, Zenon
<1>5. m.id \in [addr : Addrs, salt : 0..salt, epoch : 0..epoch]
    BY <1>3, <1>4, IdFact, TablesFact, Zenon
<1>6. m.id.salt = salt /\ m.id.epoch \in (epoch - 2)..epoch
    BY <1>1, <1>2, <1>5
<1>7. m.id = [addr |-> m.addr, salt |-> salt, epoch |-> m.id.epoch]
    BY <1>1, <1>5, <1>6
<1> QED BY <1>6, <1>7, Zenon DEF check_session_id, gen_new_challenge, Verifies

LEMMA InvType ==
    ASSUME Inv
    PROVE  TypeOK
<1>1. SessionTable(sessions) /\ SessionTable(disk) /\ marked \subseteq Ids
    BY TablesFact, Zenon
<1>2. \A m \in net : m.kind \in ToRelay \cup ToClient /\ m.addr \in Addrs /\ m.id \in Ids /\ m.who \in Clients
    BY PacketFact, Zenon
<1>3. ASSUME NEW c \in Clients
      PROVE  /\ cl[c].addr \in Addrs
             /\ cl[c].ka \in {"off", "establish", "connect", "subscribe", "wait"}
             /\ cl[c].att.step \in {"none", "hello", "answer", "register"} /\ cl[c].att.id \in Ids
             /\ cl[c].sess.id \in Ids /\ cl[c].exp.id \in Ids
             /\ cl[c].watch \in BOOLEAN /\ cl[c].seen \in BOOLEAN
    <2>1. /\ cl[c].ka \in {"off", "establish", "connect", "subscribe", "wait"}
          /\ cl[c].watch \in BOOLEAN /\ cl[c].seen \in BOOLEAN
        BY ClientFact DEF ClientStates
    <2> QED BY <2>1, ClientFact, Zenon
<1> QED BY <1>1, <1>2, <1>3, Zenon DEF TypeOK

\* Whatever is lost, repeated, restarted or moved, and for any number of clients: a node is found
\* by live sessions of its own, a session has the address that its id was made for, also when
\* load brings it back, and with a configured salt an answer on its way at a restart of the relay
\* is accepted unless it is late or comes from another address (check_session_id, link_sessions).
THEOREM RelayKeepsWordCorrect == Spec => []RelayKeepsWord
<1>1. Init => Inv
    BY InitInv
<1>2. Inv /\ [Next]_vars => Inv'
    BY NextInv
<1>3. Inv => RelayKeepsWord
    BY InvAnswers, InvType, TablesFact, Zenon DEF RelayKeepsWord
<1> QED BY <1>1, <1>2, <1>3, PTL DEF Spec

\* Steps that leave the sessions of the relay alone.
LEMMA ClientsLeaveSessions ==
    ASSUME NEW c \in Clients, NEW m,
           \/ Establish(c) \/ Connected(c) \/ Subscribe(c) \/ Awake(c) \/ Timeout(c)
           \/ ExpireCheck(c) \/ ExpireDone(c) \/ Call(c) \/ Ask(c) \/ Reconnect(c) \/ Resend(c)
           \/ Rebind(c) \/ Restart(c) \/ Deliver(c, m) \/ Undeliverable(m) \/ Lose(m)
    PROVE  UNCHANGED relay
<1>1. ASSUME Deliver(c, m)
      PROVE  UNCHANGED relay
    BY <1>1, Zenon DEF Deliver, OnChallenge, OnAccepted, OnRegistered, OnEnd, OnOther
<1>2. ASSUME Undeliverable(m) \/ Lose(m)
      PROVE  UNCHANGED relay
    BY <1>2, Zenon DEF Undeliverable, Lose
<1>3. ASSUME Establish(c) \/ Connected(c) \/ Subscribe(c) \/ Awake(c) \/ Timeout(c)
      PROVE  UNCHANGED relay
    BY <1>3, Zenon DEF Establish, Connected, Subscribe, Awake, Timeout
<1>4. ASSUME ExpireCheck(c) \/ ExpireDone(c) \/ Call(c) \/ Ask(c) \/ Reconnect(c)
      PROVE  UNCHANGED relay
    BY <1>4, Zenon DEF ExpireCheck, ExpireDone, Call, Ask, Reconnect
<1>5. ASSUME Resend(c) \/ Rebind(c) \/ Restart(c)
      PROVE  UNCHANGED relay
    BY <1>5, Zenon DEF Resend, Rebind, Restart
<1> QED BY <1>1, <1>2, <1>3, <1>4, <1>5, Zenon

\* A session that lives on after a step is what it was, unless the step is a crash.
OwnersStay == \A id \in DOMAIN sessions \cap DOMAIN sessions' : sessions'[id] = sessions[id]

LEMMA HandleOwners ==
    ASSUME NEW m, Handle(m)
    PROVE  OwnersStay
<1>1. CASE AnswerAccepted(m)
    BY <1>1, Zenon DEF AnswerAccepted, OwnersStay, Live
<1>2. CASE Bye(m)
    BY <1>2, Zenon DEF Bye, RemoveSession, Without, OwnersStay
<1>3. CASE Hello(m) \/ AnswerRefused(m) \/ RegisterUnknown(m) \/ Query(m)
    <2>1. UNCHANGED relay
        BY <1>3, Zenon DEF Hello, AnswerRefused, RegisterUnknown, Query
    <2> QED BY <2>1, Zenon DEF relay, OwnersStay
<1>4. CASE Register(m) \/ Ping(m)
    <2>1. UNCHANGED sessions
        BY <1>4, Zenon DEF Register, Ping
    <2> QED BY <2>1, Zenon DEF OwnersStay
<1> QED BY <1>1, <1>2, <1>3, <1>4, Zenon DEF Handle

\* As long as a session lives, its id belongs to one node at one address: new_session finds the
\* old session under the id and does not replace it, remove_session_from and the cleaner only
\* take sessions away, and what save has written is what load reads back.
THEOREM SessionKeepsOwnerCorrect == Spec => SessionKeepsOwner
<1>1. ASSUME [Next]_vars
      PROVE  [Crash \/ OwnersStay]_vars
    <2>1. ASSUME UNCHANGED relay
          PROVE  OwnersStay
        BY <2>1, Zenon DEF relay, OwnersStay
    <2>2. ASSUME NEW c \in Clients, Step(c)
          PROVE  OwnersStay
        BY <2>1, <2>2, ClientsLeaveSessions, HandleOwners, Zenon DEF Step
    <2>3. ASSUME NEW c \in Clients, Call(c) \/ Ask(c) \/ Reconnect(c) \/ Resend(c) \/ Rebind(c) \/ Restart(c)
          PROVE  OwnersStay
        BY <2>1, <2>3, ClientsLeaveSessions, Zenon
    <2>4. ASSUME NEW id, Purge(id)
          PROVE  OwnersStay
        BY <2>4, Zenon DEF Purge, RemoveSession, Without, OwnersStay
    <2>5. ASSUME NEW m, Lose(m)
          PROVE  OwnersStay
        BY <2>1, <2>5, Zenon DEF Lose
    <2>6. ASSUME Tick
          PROVE  OwnersStay
        BY <2>6, Zenon DEF Tick, OwnersStay
    <2>7. ASSUME Stop
          PROVE  OwnersStay
        <3>1. sessions' = sessions \/ sessions' = Empty
            BY <2>7, Zenon DEF Stop, Start
        <3>2. DOMAIN Empty = {}
            BY DEF Empty
        <3> QED BY <3>1, <3>2, Zenon DEF OwnersStay
    <2> QED BY <1>1, <2>2, <2>3, <2>4, <2>5, <2>6, <2>7, Zenon DEF Next
<1> QED BY <1>1, PTL DEF Spec, SessionKeepsOwner, OwnersStay
=============================================================================
