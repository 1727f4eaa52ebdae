------------------------ MODULE VirtualNetworkProofs -------------------------
(***************************************************************************)
(* Proofs about VirtualNetwork, for any nodes, ports, callers and number   *)
(* of sockets: that Allocator::next finds a free port, that the stack is   *)
(* consistent, that every loss of a connection is reported and that        *)
(* disconnect_all aborts connections of its own node only.                 *)
(***************************************************************************)
EXTENDS VirtualNetwork, WellFoundedInduction, FiniteSetTheorems, TLAPS

\* Sockets that have a remote endpoint, sockets that have just closed, and the socket that a
\* call of connect leaves when there is no port.
Live == [st : {"synsent", "synrcvd", "open", "closing"}, local : Range1 \cup {Service}, remote : Endpoints]
Dying == [st : {"closed"}, local : Range1 \cup {Service}, remote : Endpoints \cup {Nowhere}]
Leftover == [Free EXCEPT !.st = "closed"]

Shaped(s) == s \in [Handles -> Live \cup Dying \cup {Free, Leftover, Listener(Service)}]

\* A connection has a handle that has this connection, and a socket with its endpoints.
Matched(s, cs, hs) ==
    /\ cs \in [Metas -> Handles \cup {0}] /\ hs \in [Handles -> Metas \cup {Unspecified}]
    /\ \A m \in Metas : cs[m] # 0 => hs[cs[m]] = m
    /\ \A h \in Handles : hs[h] # Unspecified =>
        /\ cs[hs[h]] = h
        /\ s[h].st \in {"open", "closing", "closed"}
        /\ s[h].local = hs[h].local /\ s[h].remote \in {hs[h].remote, Nowhere}

\* A port of the range has one socket, and is taken; two endpoints have one socket.
Exclusive(s, used) ==
    /\ used \subseteq Range1
    /\ \A h \in Handles : s[h].local \in Range1 => s[h].local \in used
    /\ \A g, h \in Handles : s[g].local = s[h].local /\ s[g].local \in Range1 => g = h
    /\ \A g, h \in Handles : Connected(s[g]) /\ Desc(s[g]) = Desc(s[h]) => g = h

Good(s, cs, hs, used) == Shaped(s) /\ Matched(s, cs, hs) /\ Exclusive(s, used)

\* A call of connect that waits has its own socket, until that is removed.
Waits(s, t) ==
    t.pc = "connect" =>
        /\ t.h \in Handles /\ t.meta \in Metas
        /\ s[t.h] = Free \/ (s[t.h].st \in {"synsent", "open", "closing"} /\ Desc(s[t.h]) = t.meta)

TaskStates == [pc : {"idle", "connect"}, h : Handles \cup {0}, meta : Metas \cup {Unspecified}]
CloserStates == [pc : {"idle", "wait", "grace"}, conns : SUBSET [h : Handles, meta : Metas]]

Swept == \A h \in Handles : sock[h].st = "closed" => sock[h] = Leftover
Callers ==
    /\ task \in [Tasks -> TaskStates] /\ closer \in CloserStates
    /\ \A c \in Tasks : Waits(sock, task[c])

\* The inductive invariant.
Inv == Good(sock, connections, handles, taken) /\ Swept /\ AlwaysListens /\ Callers /\ lost \subseteq Metas
-----------------------------------------------------------------------------
(* Allocator::next *)

\* A set of natural numbers that is not empty has a least element.
LEMMA LeastNat ==
    ASSUME NEW S, S \subseteq Nat, S # {}
    PROVE  \E x \in S : \A y \in S : x <= y
<1>1. IsWellFoundedOn(OpToRel(<, Nat), Nat)
    BY NatLessThanWellFounded, Zenon
<1>2. PICK x \in S : \A y \in S : ~(<<y, x>> \in OpToRel(<, Nat))
    BY <1>1, WFMin, Zenon
<1>3. ASSUME NEW y \in S
      PROVE  x <= y
    <2>1. ~(<<y, x>> \in OpToRel(<, Nat))
        BY <1>2, Zenon
    <2>2. ~(y < x)
        BY <2>1 DEF OpToRel
    <2> QED BY <2>2
<1> QED BY <1>3, Zenon

\* Min is the least element of a set of natural numbers.
LEMMA MinFact ==
    ASSUME NEW S, S \subseteq Nat, S # {}
    PROVE  Min(S) \in S /\ \A y \in S : Min(S) <= y
BY LeastNat, Zenon DEF Min

\* The ports of the range are numbers, and none is the service's, or zero.
LEMMA RangeFact ==
    /\ Ports \in Nat /\ RangeStart \in Nat /\ 1 <= RangeStart /\ RangeStart < Ports
    /\ Service \in Nat /\ Service \notin Range1 /\ Service # 0
    /\ 0 \notin Range1 /\ Range1 \subseteq Nat
    /\ Cardinality(Range1) = Ports - RangeStart
<1>1. Ports \in Nat /\ RangeStart \in 1..(Ports - 1) /\ Service \in 1..(RangeStart - 1)
    BY NetworkAssumption, Zenon
<1>2. Cardinality(RangeStart..(Ports - 1)) = IF RangeStart > Ports - 1 THEN 0 ELSE (Ports - 1) - RangeStart + 1
    BY <1>1, FS_Interval
<1> QED BY <1>1, <1>2 DEF Range1

\* A step goes to the next port of the range, from the last one to the first.
LEMMA StepFact ==
    ASSUME NEW p \in Range1
    PROVE  Step(p) = IF p + 1 < Ports THEN p + 1 ELSE RangeStart
<1> DEFINE q == (p + 1) % Ports
<1>1. Ports \in Nat /\ RangeStart \in Nat /\ 1 <= RangeStart /\ RangeStart < Ports
    BY RangeFact
<1>2. p \in Nat /\ RangeStart <= p /\ p < Ports
    BY <1>1 DEF Range1
<1>3. q = IF p + 1 < Ports THEN p + 1 ELSE 0
    BY <1>1, <1>2
<1>4. Max({RangeStart, q}) = CHOOSE x \in {RangeStart, q} : \A y \in {RangeStart, q} : x >= y
    BY Zenon DEF Max
<1> HIDE DEF q
<1>5. q \in Nat
    BY <1>1, <1>2, <1>3
<1>6. Max({RangeStart, q}) = IF q > RangeStart THEN q ELSE RangeStart
    BY <1>1, <1>4, <1>5
<1> QED BY <1>1, <1>2, <1>3, <1>6 DEF Step, q

\* The i-th port that the search from start tries.
Tried(start, i) == IF start + i < Ports THEN start + i ELSE start + i - (Ports - RangeStart)

\* The search: a function that begins with start and goes on by Step tries these ports.
LEMMA TriedFact ==
    ASSUME NEW start \in Range1, NEW n \in Nat, n = Ports - RangeStart, NEW f,
           f = [i \in 0..n |-> IF i = 0 THEN start ELSE Step(f[i - 1])]
    PROVE  \A i \in 0..n : f[i] = Tried(start, i)
<1> DEFINE bad == {i \in 0..n : f[i] # Tried(start, i)}
<1>1. Ports \in Nat /\ RangeStart \in Nat /\ 1 <= RangeStart /\ RangeStart < Ports
    BY RangeFact
<1>2. start \in Nat /\ RangeStart <= start /\ start < Ports
    BY <1>1 DEF Range1
<1>3. SUFFICES ASSUME bad # {}
               PROVE  FALSE
    BY Zenon
<1>4. PICK k \in bad : \A j \in bad : k <= j
    <2>1. bad \subseteq Nat
        OBVIOUS
    <2> QED BY <2>1, <1>3, LeastNat, Zenon
<1>5. k \in 0..n /\ f[k] # Tried(start, k)
    BY <1>4, Zenon
<1>6. k # 0
    BY <1>1, <1>2, <1>5 DEF Tried
<1>7. k - 1 \in 0..n /\ k - 1 < k
    BY <1>5, <1>6
<1>8. f[k - 1] = Tried(start, k - 1)
    <2>1. k - 1 \notin bad
        BY <1>4, <1>7
    <2> QED BY <2>1, <1>7, Zenon
<1>9. Tried(start, k - 1) \in Range1
    BY <1>1, <1>2, <1>5, <1>6 DEF Tried, Range1
<1>10. f[k] = Step(f[k - 1])
    BY <1>5, <1>6
<1>11. Step(Tried(start, k - 1)) = Tried(start, k)
    <2>1. Step(Tried(start, k - 1)) = IF Tried(start, k - 1) + 1 < Ports THEN Tried(start, k - 1) + 1 ELSE RangeStart
        BY <1>9, StepFact, Zenon
    <2> QED BY <2>1, <1>1, <1>2, <1>5, <1>6, SMTT(30) DEF Tried
<1> QED BY <1>5, <1>8, <1>10, <1>11, Zenon

\* There is such a function.
LEMMA TriedExists ==
    ASSUME NEW start \in Range1, NEW n \in Nat, n = Ports - RangeStart
    PROVE  \E f : f = [i \in 0..n |-> IF i = 0 THEN start ELSE Step(f[i - 1])]
<1> DEFINE g == [i \in 0..n |-> Tried(start, i)]
<1>1. Ports \in Nat /\ RangeStart \in Nat /\ 1 <= RangeStart /\ RangeStart < Ports
    BY RangeFact
<1>2. start \in Nat /\ RangeStart <= start /\ start < Ports
    BY <1>1 DEF Range1
<1>3. ASSUME NEW i \in 0..n
      PROVE  g[i] = IF i = 0 THEN start ELSE Step(g[i - 1])
    <2>1. CASE i = 0
        BY <1>1, <1>2, <2>1 DEF Tried
    <2>2. CASE i # 0
        <3>1. i - 1 \in 0..n
            BY <2>2
        <3>2. Tried(start, i - 1) \in Range1
            BY <1>1, <1>2, <2>2 DEF Tried, Range1
        <3>3. Step(Tried(start, i - 1)) = IF Tried(start, i - 1) + 1 < Ports THEN Tried(start, i - 1) + 1 ELSE RangeStart
            BY <3>2, StepFact, Zenon
        <3>4. Step(Tried(start, i - 1)) = Tried(start, i)
            BY <3>3, <1>1, <1>2, <2>2 DEF Tried
        <3>5. g[i] = Tried(start, i) /\ g[i - 1] = Tried(start, i - 1)
            BY <3>1, Zenon
        <3> QED BY <2>2, <3>4, <3>5, Zenon
    <2> QED BY <2>1, <2>2, Zenon
<1>4. g = [i \in 0..n |-> IF i = 0 THEN start ELSE Step(g[i - 1])]
    BY <1>3, Zenon
<1> QED BY <1>4, Zenon

\* Allocator::next finds a port of the range that is free, wherever its search starts, and
\* none when all are taken.
LEMMA NextPortFact ==
    ASSUME NEW start \in Range1, NEW used
    PROVE  IF Range1 \subseteq used THEN NextPort(start, used) = 0
           ELSE NextPort(start, used) \in Range1 \ used
<1> DEFINE n == Cardinality(Range1)
           search(g) == g = [i \in 0..n |-> IF i = 0 THEN start ELSE Step(g[i - 1])]
           f == CHOOSE g : search(g)
           hits == {i \in 0..(n - 1) : f[i] \notin used}
<1>1. n \in Nat /\ n = Ports - RangeStart
    BY RangeFact
<1>2. search(f)
    <2>1. \E g : search(g)
        BY <1>1, TriedExists, Zenon
    <2> QED BY <2>1, Zenon
<1>3. NextPort(start, used) = IF hits = {} THEN 0 ELSE f[Min(hits)]
    BY DEF NextPort
<1>4. \A i \in 0..n : f[i] = Tried(start, i)
    BY <1>1, <1>2, TriedFact, ZenonT(40)
<1> HIDE DEF n, f
<1>5. Ports \in Nat /\ RangeStart \in Nat /\ 1 <= RangeStart /\ RangeStart < Ports
    BY RangeFact
<1>6. start \in Nat /\ RangeStart <= start /\ start < Ports
    BY <1>5 DEF Range1
<1>7. \A i \in 0..(n - 1) : f[i] = Tried(start, i) /\ f[i] \in Range1
    BY <1>1, <1>4, <1>5, <1>6 DEF Tried, Range1
<1>8. ASSUME hits # {}
      PROVE  NextPort(start, used) \in Range1 \ used
    <2>1. hits \subseteq Nat
        BY <1>1
    <2>2. Min(hits) \in hits
        BY <1>8, <2>1, MinFact, Zenon
    <2> QED BY <1>3, <1>7, <1>8, <2>2, Zenon
<1>9. ASSUME NEW p \in Range1, p \notin used
       PROVE  hits # {}
    <2> DEFINE i == IF p >= start THEN p - start ELSE p - start + n
    <2>1. p \in Nat /\ RangeStart <= p /\ p < Ports
        BY <1>5 DEF Range1
    <2>2. i \in 0..(n - 1)
        BY <1>1, <1>5, <1>6, <2>1
    <2>3. Tried(start, i) = p
        BY <1>1, <1>5, <1>6, <2>1 DEF Tried
    <2> QED BY <1>7, <1>9, <2>2, <2>3, Zenon
<1>10. CASE Range1 \subseteq used
    <2>1. hits = {}
        BY <1>7, <1>10, Zenon
    <2> QED BY <1>3, <1>10, <2>1, Zenon
<1>11. CASE ~(Range1 \subseteq used)
    BY <1>8, <1>9, <1>11, Zenon
<1> QED BY <1>10, <1>11, Zenon

-----------------------------------------------------------------------------
(* Sockets *)

\* What the socket sets and the tables of connections are made of.
LEMMA Distinct ==
    /\ Nowhere \notin Endpoints /\ Unspecified \notin Metas
    /\ \A m \in Metas : /\ m.local \in Range1 \cup {Service} /\ m.remote \in Endpoints
                        /\ m = [local |-> m.local, remote |-> m.remote]
    /\ Handles \subseteq Nat /\ 0 \notin Handles
<1>1. 0 \notin RemotePorts \cup {Service}
    BY RangeFact, NetworkAssumption
<1>2. Nowhere \notin Endpoints
    BY <1>1, Zenon DEF Nowhere, Endpoints
<1> QED BY <1>2, NetworkAssumption DEF Unspecified, Metas, Handles

\* The sockets of each kind, by their fields.
LEMMA LiveFact ==
    ASSUME NEW x \in Live
    PROVE  /\ x.st \in {"synsent", "synrcvd", "open", "closing"} /\ IsOpen(x) /\ Connected(x)
           /\ x.local \in Range1 \cup {Service} /\ x.remote \in Endpoints /\ Desc(x) \in Metas
           /\ x = [st |-> x.st, local |-> x.local, remote |-> x.remote]
BY Distinct DEF Live, Desc, Metas, IsOpen, Connected

\* A closed socket that still has its port, and may still name its peer.
LEMMA DyingFact ==
    ASSUME NEW x \in Dying
    PROVE  /\ x.st = "closed" /\ ~IsOpen(x)
           /\ x.local \in Range1 \cup {Service} /\ x.remote \in Endpoints \cup {Nowhere}
           /\ Connected(x) => Desc(x) \in Metas
           /\ x = [st |-> x.st, local |-> x.local, remote |-> x.remote]
BY Distinct DEF Dying, Desc, Metas, IsOpen, Connected

\* The sockets of no connection: free, left over by a failed connect, listening.
LEMMA OtherFact ==
    /\ Free.st = "free" /\ Free.local = 0 /\ Free.remote = Nowhere /\ ~Connected(Free) /\ ~IsOpen(Free)
    /\ Leftover.st = "closed" /\ Leftover.local = 0 /\ Leftover.remote = Nowhere /\ ~Connected(Leftover)
    /\ Listener(Service).st = "listen" /\ Listener(Service).local = Service
    /\ Listener(Service).remote = Nowhere /\ ~Connected(Listener(Service)) /\ IsOpen(Listener(Service))
    /\ ~IsOpen(Leftover)
BY DEF Free, Leftover, Listener, Connected, IsOpen

\* The kind of a socket is known from its state, its port and its endpoint.
LEMMA KindFact ==
    ASSUME NEW s, Shaped(s), NEW h \in Handles
    PROVE  /\ s[h] \in Live \cup Dying \cup {Free, Leftover, Listener(Service)}
           /\ s[h].local \in Range1 \cup {Service, 0}
           /\ s[h].local \in Range1 => s[h] \in Live \cup Dying
           /\ Connected(s[h]) => s[h] \in Live \cup Dying /\ Desc(s[h]) \in Metas
           /\ s[h].st \in {"synsent", "synrcvd", "open", "closing"} => s[h] \in Live
           /\ s[h].st = "closed" => s[h] \in Dying \cup {Leftover}
           /\ s[h].st = "listen" => s[h] = Listener(Service)
           /\ s[h].st = "free" => s[h] = Free
<1>1. s[h] \in Live \cup Dying \cup {Free, Leftover, Listener(Service)}
    BY Zenon DEF Shaped
<1>2. CASE s[h] \in Live
    BY <1>2, LiveFact
<1>3. CASE s[h] \in Dying
    BY <1>3, DyingFact
<1>4. CASE s[h] \in {Free, Leftover, Listener(Service)}
    BY <1>4, OtherFact, RangeFact
<1> QED BY <1>1, <1>2, <1>3, <1>4, Zenon

\* What process_ingress removes, and what it leaves.
ClosedOf(s) == {h \in Handles : s[h].st = "closed"}
GoneOf(s, hs) == {ClosedMeta(s, hs, h) : h \in ClosedOf(s)}
SweptOf(s) == [h \in Handles |-> IF h \in ClosedOf(s) THEN Free ELSE s[h]]
HandlesOf(s, hs) == [h \in Handles |-> IF h \in ClosedOf(s) THEN Unspecified ELSE hs[h]]

\* A connection that goes had the port of a socket that is closed.
LEMMA GoneFact ==
    ASSUME NEW s, NEW cs, NEW hs, Shaped(s), Matched(s, cs, hs), NEW m \in GoneOf(s, hs)
    PROVE  \/ m = Unspecified
           \/ /\ m \in Metas
              /\ \E h \in ClosedOf(s) : m.local = s[h].local
<1>1. PICK h \in ClosedOf(s) : m = ClosedMeta(s, hs, h)
    BY Zenon DEF GoneOf
<1>2. h \in Handles
    BY <1>1, Zenon DEF ClosedOf
<1>3. hs[h] \in Metas \cup {Unspecified}
    BY <1>2, Zenon DEF Matched
<1>4. CASE hs[h] # Unspecified
    <2>1. m = hs[h] /\ s[h].local = hs[h].local
        BY <1>1, <1>2, <1>4, Zenon DEF ClosedMeta, Matched
    <2> QED BY <1>1, <1>3, <1>4, <2>1, Zenon
<1>5. CASE hs[h] = Unspecified /\ Connected(s[h])
    <2>1. m = Desc(s[h])
        BY <1>1, <1>5, Zenon DEF ClosedMeta
    <2>2. m \in Metas
        BY <1>2, <1>5, <2>1, KindFact, Zenon
    <2>3. m.local = s[h].local
        BY <2>1 DEF Desc
    <2> QED BY <1>1, <2>2, <2>3, Zenon
<1>6. CASE hs[h] = Unspecified /\ ~Connected(s[h])
    BY <1>1, <1>6, Zenon DEF ClosedMeta
<1> QED BY <1>4, <1>5, <1>6, Zenon

\* A socket with a connection in the tables, and which is not closed, keeps its entry.
LEMMA StaysFact ==
    ASSUME NEW s, NEW cs, NEW hs, NEW used, Good(s, cs, hs, used), NEW h \in Handles \ ClosedOf(s),
           hs[h] # Unspecified
    PROVE  hs[h] \in Metas \ GoneOf(s, hs) /\ s[h] \in Live /\ Desc(s[h]) = hs[h]
<1>1. /\ hs[h] \in Metas /\ cs[hs[h]] = h /\ s[h].local = hs[h].local
      /\ s[h].st \in {"open", "closing", "closed"} /\ s[h].remote \in {hs[h].remote, Nowhere}
    BY Zenon DEF Good, Matched
<1>2. s[h].st \in {"open", "closing"}
    BY <1>1, Zenon DEF ClosedOf
<1>3. s[h] \in Live
    BY <1>2, KindFact, Zenon DEF Good
<1>4. s[h].remote = hs[h].remote
    BY <1>1, <1>3, LiveFact, Distinct, Zenon
<1>5. Desc(s[h]) = hs[h]
    BY <1>1, <1>4, Distinct DEF Desc
<1>6. ASSUME hs[h] \in GoneOf(s, hs)
      PROVE  FALSE
    <2>1. PICK g \in ClosedOf(s) : hs[h] = ClosedMeta(s, hs, g)
        BY <1>6, Zenon DEF GoneOf
    <2>2. g \in Handles /\ g # h
        BY <2>1, Zenon DEF ClosedOf
    <2>3. CASE hs[g] # Unspecified
        <3>1. hs[g] = hs[h]
            BY <2>1, <2>3, Zenon DEF ClosedMeta
        <3>2. cs[hs[g]] = g
            BY <2>2, <2>3, Zenon DEF Good, Matched
        <3> QED BY <1>1, <2>2, <3>1, <3>2, Zenon
    <2>4. CASE hs[g] = Unspecified
        <3>1. Connected(s[g]) /\ Desc(s[g]) = hs[h]
            BY <2>1, <2>4, Zenon DEF ClosedMeta
        <3> QED BY <1>5, <2>2, <3>1, Zenon DEF Good, Exclusive
    <2> QED BY <2>3, <2>4, Zenon
<1> QED BY <1>1, <1>3, <1>5, <1>6, Zenon

\* process_ingress leaves a stack that is consistent, without closed sockets.
LEMMA SweepGood ==
    ASSUME NEW s, NEW cs, NEW hs, NEW used, Good(s, cs, hs, used)
    PROVE  Good(SweptOf(s), RemoveConnection(cs, GoneOf(s, hs)), HandlesOf(s, hs),
                RemovePorts(used, GoneOf(s, hs)))
<1> DEFINE t == SweptOf(s)
           ct == RemoveConnection(cs, GoneOf(s, hs))
           ht == HandlesOf(s, hs)
           ut == RemovePorts(used, GoneOf(s, hs))
<1>1. \A h \in Handles : t[h] = IF h \in ClosedOf(s) THEN Free ELSE s[h]
    BY Zenon DEF SweptOf
<1>2. \A h \in Handles : ht[h] = IF h \in ClosedOf(s) THEN Unspecified ELSE hs[h]
    BY Zenon DEF HandlesOf
<1>3. \A m \in Metas : ct[m] = IF m \in GoneOf(s, hs) THEN 0 ELSE cs[m]
    BY Zenon DEF RemoveConnection
<1>4. Shaped(t)
    BY Zenon DEF Good, Shaped, SweptOf
<1>5. ct \in [Metas -> Handles \cup {0}] /\ ht \in [Handles -> Metas \cup {Unspecified}]
    <2>1. cs \in [Metas -> Handles \cup {0}] /\ hs \in [Handles -> Metas \cup {Unspecified}]
        BY Zenon DEF Good, Matched
    <2> QED BY <2>1 DEF RemoveConnection, HandlesOf
<1> HIDE DEF t, ct, ht
<1>6. ASSUME NEW m \in Metas, ct[m] # 0
      PROVE  ht[ct[m]] = m
    <2>1. m \notin GoneOf(s, hs) /\ ct[m] = cs[m]
        BY <1>3, <1>6, Zenon
    <2>2. cs[m] \in Handles /\ hs[cs[m]] = m
        BY <1>6, <2>1, Zenon DEF Good, Matched
    <2>3. cs[m] \notin ClosedOf(s)
        BY <2>1, <2>2, Distinct, Zenon DEF GoneOf, ClosedMeta
    <2> QED BY <1>2, <2>1, <2>2, <2>3, Zenon
<1>7. ASSUME NEW h \in Handles, ht[h] # Unspecified
      PROVE  /\ ct[ht[h]] = h
             /\ t[h].st \in {"open", "closing", "closed"}
             /\ t[h].local = ht[h].local /\ t[h].remote \in {ht[h].remote, Nowhere}
    <2>1. h \notin ClosedOf(s) /\ ht[h] = hs[h] /\ t[h] = s[h]
        BY <1>1, <1>2, <1>7, Zenon
    <2>2. hs[h] \in Metas /\ hs[h] \notin GoneOf(s, hs)
        BY <1>7, <2>1, StaysFact, Zenon
    <2>3. ct[hs[h]] = cs[hs[h]]
        BY <1>3, <2>2, Zenon
    <2> QED BY <1>7, <2>1, <2>3, Zenon DEF Good, Matched
<1>8. Matched(t, ct, ht)
    BY <1>5, <1>6, <1>7, Zenon DEF Matched
<1>9. Exclusive(t, ut)
    <2>1. ut \subseteq Range1
        BY Zenon DEF RemovePorts, Good, Exclusive
    <2>2. ASSUME NEW h \in Handles, t[h].local \in Range1
          PROVE  h \notin ClosedOf(s) /\ t[h] = s[h] /\ t[h].local \in ut
        <3>1. h \notin ClosedOf(s) /\ t[h] = s[h]
            BY <1>1, <2>2, OtherFact, RangeFact, Zenon
        <3>2. s[h].local \in used
            BY <2>2, <3>1, Zenon DEF Good, Exclusive
        <3>3. ASSUME NEW m \in GoneOf(s, hs), m.local = s[h].local
              PROVE  FALSE
            <4>1. m # Unspecified
                BY <2>2, <3>1, <3>3, RangeFact DEF Unspecified
            <4>2. Shaped(s) /\ Matched(s, cs, hs)
                BY Zenon DEF Good
            <4>3. m \in GoneOf(s, hs)
                BY <3>3
            <4>4. m = Unspecified \/ (m \in Metas /\ \E g \in ClosedOf(s) : m.local = s[g].local)
                BY <4>2, <4>3, GoneFact
            <4>5. PICK g \in ClosedOf(s) : m.local = s[g].local
                BY <4>1, <4>4, Zenon
            <4>6. g \in Handles /\ g # h
                BY <3>1, <4>5, Zenon DEF ClosedOf
            <4> QED BY <2>2, <3>1, <3>3, <4>5, <4>6, Zenon DEF Good, Exclusive
        <3> QED BY <3>1, <3>2, <3>3, Zenon DEF RemovePorts
    <2>3. ASSUME NEW h \in Handles, Connected(t[h])
          PROVE  t[h] = s[h]
        BY <1>1, <2>3, OtherFact, Zenon
    <2>4. ASSUME NEW g \in Handles, NEW h \in Handles, Connected(t[g]), Desc(t[g]) = Desc(t[h])
          PROVE  g = h
        <3>1. Connected(t[h])
            BY <2>4 DEF Connected, Desc
        <3> QED BY <2>3, <2>4, <3>1, Zenon DEF Good, Exclusive
    <2>5. ASSUME NEW g \in Handles, NEW h \in Handles, t[g].local = t[h].local, t[g].local \in Range1
          PROVE  g = h
        BY <2>2, <2>5, Zenon DEF Good, Exclusive
    <2> QED BY <2>1, <2>2, <2>4, <2>5, Zenon DEF Exclusive
<1> QED BY <1>4, <1>8, <1>9, Zenon DEF Good, t, ct, ht

\* The connection of a socket that process_ingress removes is among those that go.
LEMMA SweepLoss ==
    ASSUME NEW s, NEW cs, NEW hs, NEW used, Good(s, cs, hs, used), NEW m \in Metas, cs[m] # 0
    PROVE  /\ cs[m] \in Handles /\ hs[cs[m]] = m
           /\ cs[m] \in ClosedOf(s) => m \in GoneOf(s, hs) /\ m # Unspecified
           /\ cs[m] \notin ClosedOf(s) => IsOpen(s[cs[m]])
<1>1. m # Unspecified
    BY Distinct, Zenon
<1>2. cs[m] \in Handles /\ hs[cs[m]] = m /\ m # Unspecified
    BY <1>1, Zenon DEF Good, Matched
<1>3. ASSUME cs[m] \in ClosedOf(s)
      PROVE  m \in GoneOf(s, hs)
    BY <1>2, <1>3, Zenon DEF GoneOf, ClosedMeta
<1>4. ASSUME cs[m] \notin ClosedOf(s)
      PROVE  IsOpen(s[cs[m]])
    <2>1. cs[m] \in Handles \ ClosedOf(s) /\ hs[cs[m]] # Unspecified
        BY <1>2, <1>4, Zenon
    <2>2. s[cs[m]] \in Live
        BY <2>1, StaysFact
    <2> QED BY <2>2, LiveFact, Zenon
<1> QED BY <1>2, <1>3, <1>4, Zenon

\* process_ingress, when no listener was connected.
LEMMA IngressQuiet ==
    ASSUME NEW s, NEW cs, NEW hs, NEW used, Good(s, cs, hs, used),
           \A h \in bindings : ~Connected(s[h]), Ingress(s, cs, hs, used)
    PROVE  /\ Good(sock', connections', handles', taken')
           /\ sock' = SweptOf(s) /\ bindings' = bindings
           /\ lost' = GoneOf(s, hs) \ {Unspecified}
           /\ connections' = RemoveConnection(cs, GoneOf(s, hs))
<1>1. {h \in bindings : Connected(s[h])} = {}
    BY Zenon
<1>2. /\ sock' = SweptOf(s) /\ bindings' = bindings
      /\ lost' = GoneOf(s, hs) \ {Unspecified}
      /\ connections' = RemoveConnection(cs, GoneOf(s, hs))
      /\ handles' = HandlesOf(s, hs) /\ taken' = RemovePorts(used, GoneOf(s, hs))
    BY <1>1, Zenon DEF Ingress, ClosedOf, GoneOf, SweptOf, HandlesOf
<1> QED BY <1>2, SweepGood, Zenon

-----------------------------------------------------------------------------
(* What the protocol does to sockets that are connected *)

\* A socket is as before, goes on or closes; one that was half open can listen again.
Moved(x, y) ==
    \/ y = x
    \/ /\ x \in Live /\ y \in Live \cup Dying /\ y.local = x.local
       /\ \/ y.st \in {"open", "closing"} /\ y.remote = x.remote
          \/ y.st = "closed" /\ y.remote \in {x.remote, Nowhere}
    \/ x \in Live /\ x.st = "synrcvd" /\ y = Listener(Service)

MovedAll(s) == /\ s = [h \in Handles |-> s[h]]
               /\ \A h \in Handles : Moved(sock[h], s[h])

\* A connection in the tables has a socket that is not closed.
LEMMA TableFact ==
    ASSUME Inv, NEW h \in Handles, handles[h] # Unspecified
    PROVE  sock[h] \in Live /\ sock[h].st \in {"open", "closing"} /\ Desc(sock[h]) = handles[h]
<1>1. Good(sock, connections, handles, taken)
    BY Zenon DEF Inv
<1>2. handles[h] \in Metas /\ sock[h].st \in {"open", "closing", "closed"} /\ sock[h].local = handles[h].local
    BY <1>1, Zenon DEF Good, Matched
<1>3. sock[h].st # "closed"
    <2>1. handles[h].local # 0
        BY <1>2, Distinct, RangeFact
    <2> QED BY <1>2, <2>1, OtherFact, Zenon DEF Inv, Swept
<1>4. h \in Handles \ ClosedOf(sock)
    BY <1>3, Zenon DEF ClosedOf
<1>5. sock[h] \in Live /\ Desc(sock[h]) = handles[h]
    BY <1>1, <1>4, StaysFact
<1> QED BY <1>2, <1>3, <1>5, Zenon

\* Sockets that move keep their ports and endpoints.
LEMMA MovedGood ==
    ASSUME Inv, NEW s, MovedAll(s)
    PROVE  Good(s, connections, handles, taken)
<1>1. Good(sock, connections, handles, taken)
    BY Zenon DEF Inv
<1>2. ASSUME NEW h \in Handles
      PROVE  s[h] \in Live \cup Dying \cup {Free, Leftover, Listener(Service)}
    <2>1. sock[h] \in Live \cup Dying \cup {Free, Leftover, Listener(Service)}
        BY <1>1, Zenon DEF Good, Shaped
    <2> QED BY <2>1, Zenon DEF MovedAll, Moved
<1>3. Shaped(s)
    BY <1>2, Zenon DEF Shaped, MovedAll
<1>4. ASSUME NEW h \in Handles, handles[h] # Unspecified
      PROVE  /\ connections[handles[h]] = h
             /\ s[h].st \in {"open", "closing", "closed"}
             /\ s[h].local = handles[h].local /\ s[h].remote \in {handles[h].remote, Nowhere}
    <2>1. sock[h] \in Live /\ sock[h].st \in {"open", "closing"} /\ Desc(sock[h]) = handles[h]
        BY <1>4, TableFact, Zenon
    <2>2. sock[h].local = handles[h].local /\ sock[h].remote = handles[h].remote
        BY <2>1 DEF Desc
    <2>3. Moved(sock[h], s[h])
        BY Zenon DEF MovedAll
    <2>4. connections[handles[h]] = h
        BY <1>1, <1>4, Zenon DEF Good, Matched
    <2> QED BY <2>1, <2>2, <2>3, <2>4 DEF Moved
<1>5. Matched(s, connections, handles)
    BY <1>1, <1>4, Zenon DEF Good, Matched
<1>6. ASSUME NEW h \in Handles, s[h].local \in Range1
      PROVE  sock[h].local = s[h].local
    BY <1>6, OtherFact, RangeFact, Zenon DEF MovedAll, Moved
<1>7. ASSUME NEW h \in Handles, Connected(s[h])
      PROVE  Desc(sock[h]) = Desc(s[h])
    <2>1. Moved(sock[h], s[h])
        BY Zenon DEF MovedAll
    <2>2. s[h] # Listener(Service)
        BY <1>7, OtherFact, Zenon
    <2> QED BY <1>7, <2>1, <2>2, Zenon DEF Moved, Desc, Connected
<1>8. Exclusive(s, taken)
    <2>1. ASSUME NEW g \in Handles, NEW h \in Handles, Connected(s[g]), Desc(s[g]) = Desc(s[h])
          PROVE  g = h
        <3>1. Connected(s[h])
            BY <2>1 DEF Connected, Desc
        <3>2. Desc(sock[g]) = Desc(sock[h]) /\ Desc(sock[g]) = Desc(s[g])
            BY <1>7, <2>1, <3>1, Zenon
        <3>3. Connected(sock[g])
            BY <2>1, <3>2 DEF Connected, Desc
        <3> QED BY <1>1, <3>2, <3>3, Zenon DEF Good, Exclusive
    <2> QED BY <1>1, <1>6, <2>1, Zenon DEF Good, Exclusive
<1> QED BY <1>3, <1>5, <1>8, Zenon DEF Good

\* A step that loses a connection reports it, and removes it from the tables.
Reported ==
    \A m \in Metas : connections[m] # 0 /\ ~IsOpen(sock'[connections[m]]) => m \in lost' /\ connections'[m] = 0

\* Sockets move and are swept: the tables may have got connections before.
LEMMA MovedStep ==
    ASSUME Inv, NEW s, MovedAll(s), NEW cs, NEW hs, Matched(s, cs, hs),
           \A m \in Metas : connections[m] # 0 => cs[m] = connections[m],
           Ingress(s, cs, hs, taken), task' = task, closer' \in CloserStates
    PROVE  Inv' /\ Reported /\ sock' = SweptOf(s)
<1>1. Good(s, connections, handles, taken)
    BY MovedGood, Zenon
<1>2. Good(s, cs, hs, taken)
    BY <1>1, Zenon DEF Good
<1>3. PICK b \in Handles : bindings = {b} /\ sock[b] = Listener(Service)
    BY Zenon DEF Inv, AlwaysListens
<1>4. s[b] = Listener(Service)
    <2>1. Moved(sock[b], s[b])
        BY Zenon DEF MovedAll
    <2>2. sock[b] \notin Live
        BY <1>3, LiveFact, OtherFact, Zenon
    <2> QED BY <1>3, <2>1, <2>2, Zenon DEF Moved
<1>5. \A h \in bindings : ~Connected(s[h])
    BY <1>3, <1>4, OtherFact, Zenon
<1>6. /\ Good(sock', connections', handles', taken')
      /\ sock' = SweptOf(s) /\ bindings' = bindings
      /\ lost' = GoneOf(s, hs) \ {Unspecified}
      /\ connections' = RemoveConnection(cs, GoneOf(s, hs))
    BY <1>2, <1>5, IngressQuiet, Zenon
<1>7. \A h \in Handles : sock'[h] = IF s[h].st = "closed" THEN Free ELSE s[h]
    BY <1>6, Zenon DEF SweptOf, ClosedOf
<1>8. Swept'
    <2>1. \A h \in Handles : sock'[h].st # "closed"
        BY <1>7, OtherFact, Zenon
    <2> QED BY <2>1, Zenon DEF Swept
<1>9. AlwaysListens'
    <2>1. sock'[b] = Listener(Service)
        BY <1>3, <1>4, <1>7, OtherFact, Zenon
    <2>2. bindings' = {b}
        BY <1>3, <1>6, Zenon
    <2> QED BY <1>3, <2>1, <2>2, Zenon DEF AlwaysListens
<1>10. ASSUME NEW c \in Tasks
       PROVE  Waits(sock', task[c])
    <2>1. Waits(sock, task[c])
        BY Zenon DEF Inv, Callers
    <2>2. SUFFICES ASSUME task[c].pc = "connect"
                   PROVE  /\ task[c].h \in Handles /\ task[c].meta \in Metas
                          /\ \/ sock'[task[c].h] = Free
                             \/ sock'[task[c].h].st \in {"synsent", "open", "closing"}
                                /\ Desc(sock'[task[c].h]) = task[c].meta
        BY Zenon DEF Waits
    <2>3. PICK h \in Handles : h = task[c].h
        BY <2>1, <2>2, Zenon DEF Waits
    <2>4. /\ task[c].meta \in Metas
          /\ sock[h] = Free \/ (sock[h].st \in {"synsent", "open", "closing"} /\ Desc(sock[h]) = task[c].meta)
        BY <2>1, <2>2, <2>3, Zenon DEF Waits
    <2>5. Moved(sock[h], s[h])
        BY Zenon DEF MovedAll
    <2>6. sock'[h] = IF s[h].st = "closed" THEN Free ELSE s[h]
        BY <1>7, Zenon
    <2>7. CASE s[h] = sock[h]
        BY <2>3, <2>4, <2>6, <2>7, OtherFact, ZenonT(40)
    <2>8. CASE s[h] # sock[h]
        <3>1. sock[h] \in Live /\ sock[h].st # "synrcvd" /\ Desc(sock[h]) = task[c].meta
            BY <2>4, <2>5, <2>8, LiveFact, OtherFact, Zenon DEF Moved
        <3>2. /\ s[h].local = sock[h].local
              /\ \/ s[h].st \in {"open", "closing"} /\ s[h].remote = sock[h].remote
                 \/ s[h].st = "closed"
            BY <2>5, <2>8, <3>1, Zenon DEF Moved
        <3> QED BY <2>3, <2>4, <2>6, <3>1, <3>2 DEF Desc
    <2> QED BY <2>7, <2>8, Zenon
<1>11. Callers'
    <2>1. task' \in [Tasks -> TaskStates]
        BY Zenon DEF Inv, Callers
    <2> QED BY <1>10, <2>1, Zenon DEF Callers
<1>12. lost' \subseteq Metas
    <2>1. Shaped(s) /\ Matched(s, cs, hs)
        BY <1>2, Zenon DEF Good
    <2>2. \A m \in GoneOf(s, hs) : m = Unspecified \/ m \in Metas
        BY <2>1, GoneFact
    <2> QED BY <1>6, <2>2, Zenon
<1>13. Inv'
    BY <1>6, <1>8, <1>9, <1>11, <1>12, Zenon DEF Inv
<1>14. ASSUME NEW m \in Metas, connections[m] # 0, ~IsOpen(sock'[connections[m]])
       PROVE  m \in lost' /\ connections'[m] = 0
    <2>1. cs[m] = connections[m]
        BY <1>14, Zenon
    <2>2. /\ cs[m] \in Handles
          /\ cs[m] \in ClosedOf(s) => m \in GoneOf(s, hs) /\ m # Unspecified
          /\ cs[m] \notin ClosedOf(s) => IsOpen(s[cs[m]])
        BY <1>2, <1>14, <2>1, SweepLoss
    <2>3. cs[m] \in ClosedOf(s)
        BY <1>6, <1>14, <2>1, <2>2, Zenon DEF SweptOf
    <2> QED BY <1>6, <2>2, <2>3, Zenon DEF RemoveConnection
<1> QED BY <1>6, <1>13, <1>14, Zenon DEF Reported

\* One socket moves.
LEMMA MovesStep ==
    ASSUME Inv, NEW h \in Handles, NEW y, Moved(sock[h], y), Moves(h, y), UNCHANGED <<task, closer>>
    PROVE  Inv' /\ Reported
<1>1. PICK s : s = [sock EXCEPT ![h] = y]
    BY Zenon
<1>2. DOMAIN sock = Handles /\ sock = [g \in Handles |-> sock[g]]
    BY Zenon DEF Inv, Good, Shaped
<1>3. MovedAll(s)
    <2>1. s = [g \in Handles |-> IF g = h THEN y ELSE sock[g]]
        BY <1>1, <1>2, Zenon
    <2> QED BY <2>1, Zenon DEF MovedAll, Moved
<1>4. Matched(s, connections, handles)
    BY <1>3, MovedGood, Zenon DEF Good
<1>5. Ingress(s, connections, handles, taken)
    BY <1>1, Zenon DEF Moves
<1>6. task' = task /\ closer' \in CloserStates
    BY Zenon DEF Inv, Callers
<1> QED BY <1>3, <1>4, <1>5, <1>6, MovedStep

\* A handshake that completes changes the state of one socket only.
LEMMA EstablishKeeps ==
    ASSUME Inv, NEW h \in Handles, Establish(h)
    PROVE  Inv' /\ Reported
<1>1. sock[h] \in Live
    BY KindFact, Zenon DEF Establish, Inv, Good
<1>2. Moved(sock[h], [sock[h] EXCEPT !.st = "open"])
    BY <1>1 DEF Moved, Live
<1> QED BY <1>2, MovesStep, Zenon DEF Establish

\* A connection that smoltcp closes keeps its port, and may lose its endpoint.
LEMMA ClosesKeeps ==
    ASSUME Inv, NEW h \in Handles, Closes(h)
    PROVE  Inv' /\ Reported
<1>1. sock[h] \in Live
    BY KindFact, Zenon DEF Closes, Inv, Good
<1>2. PICK forgets \in BOOLEAN : Moves(h, ToClosed(sock[h], forgets))
    BY Zenon DEF Closes
<1>3. Moved(sock[h], ToClosed(sock[h], forgets))
    BY <1>1, Zenon DEF Moved, Live, Dying, ToClosed
<1> QED BY <1>2, <1>3, MovesStep, Zenon DEF Closes

\* A half-open connection that is reset listens again.
LEMMA ResetHalfOpenKeeps ==
    ASSUME Inv, NEW h \in Handles, ResetHalfOpen(h)
    PROVE  Inv' /\ Reported
<1>1. sock[h] \in Live /\ sock[h].st = "synrcvd"
    BY KindFact, Zenon DEF ResetHalfOpen, Inv, Good
<1>2. Moved(sock[h], Listener(Service))
    BY <1>1, Zenon DEF Moved
<1> QED BY <1>2, MovesStep, Zenon DEF ResetHalfOpen

\* The first data of a connection adds it to the tables.
LEMMA DataKeeps ==
    ASSUME Inv, NEW h \in Handles, Data(h)
    PROVE  Inv' /\ Reported
<1>1. sock[h] \in Live /\ Connected(sock[h])
    BY KindFact, Zenon DEF Data, Inv, Good
<1>2. PICK meta : meta = Desc(sock[h])
    BY Zenon
<1>3. meta \in Metas
    BY <1>1, <1>2, LiveFact, Zenon
<1>4. PICK s : s = [sock EXCEPT ![h].st = IF @ = "closing" THEN @ ELSE "open"]
    BY Zenon
<1>5. DOMAIN sock = Handles /\ sock = [g \in Handles |-> sock[g]]
    BY Zenon DEF Inv, Good, Shaped
<1>6. /\ s = [g \in Handles |-> IF g = h THEN [sock[h] EXCEPT !.st = IF @ = "closing" THEN @ ELSE "open"] ELSE sock[g]]
      /\ Moved(sock[h], s[h]) /\ s[h] \in Live /\ s[h].st \in {"open", "closing"} /\ Desc(s[h]) = meta
    BY <1>1, <1>2, <1>4, <1>5 DEF Moved, Live, Desc
<1>7. MovedAll(s)
    BY <1>6, Zenon DEF MovedAll, Moved
<1>8. Good(s, connections, handles, taken)
    BY <1>7, MovedGood, Zenon
<1>9. task' = task /\ closer' \in CloserStates
    BY Zenon DEF Data, Inv, Callers
<1>10. CASE IsConnected(meta)
    <2>1. Ingress(s, connections, handles, taken)
        BY <1>2, <1>4, <1>10, Zenon DEF Data
    <2>2. Matched(s, connections, handles)
        BY <1>8, Zenon DEF Good
    <2> QED BY <1>7, <1>9, <2>1, <2>2, MovedStep
<1>11. CASE ~IsConnected(meta)
    <2>1. PICK cs : cs = Added(meta, h)
        BY Zenon
    <2>2. PICK hs : hs = AddedHandle(meta, h)
        BY Zenon
    <2>3. Ingress(s, cs, hs, taken)
        BY <1>2, <1>4, <1>11, <2>1, <2>2, Zenon DEF Data
    <2>4. connections[meta] = 0
        BY <1>11, Zenon DEF IsConnected
    <2>5. /\ cs \in [Metas -> Handles \cup {0}] /\ hs \in [Handles -> Metas \cup {Unspecified}]
          /\ \A m \in Metas : cs[m] = IF m = meta THEN h ELSE connections[m]
          /\ \A g \in Handles : hs[g] = IF g = h THEN meta ELSE handles[g]
        <3>1. connections \in [Metas -> Handles \cup {0}] /\ handles \in [Handles -> Metas \cup {Unspecified}]
            BY <1>8, Zenon DEF Good, Matched
        <3> QED BY <1>3, <2>1, <2>2, <3>1 DEF Added, AddedHandle
    <2>6. handles[h] = Unspecified
        <3>1. ASSUME handles[h] # Unspecified
              PROVE  FALSE
            <4>1. handles[h] = meta
                BY <1>2, <3>1, TableFact, Zenon
            <4>2. connections[handles[h]] = h
                BY <1>8, <3>1, Zenon DEF Good, Matched
            <4> QED BY <2>4, <4>1, <4>2, Distinct, Zenon
        <3> QED BY <3>1, Zenon
    <2>7. Matched(s, cs, hs)
        <3>1. ASSUME NEW m \in Metas, cs[m] # 0
              PROVE  hs[cs[m]] = m
            <4>1. CASE m = meta
                BY <2>5, <4>1, Zenon
            <4>2. CASE m # meta
                <5>1. cs[m] = connections[m] /\ connections[m] # 0
                    BY <2>5, <3>1, <4>2, Zenon
                <5>2. cs[m] = connections[m] /\ connections[m] \in Handles /\ handles[connections[m]] = m
                    BY <1>8, <5>1, Zenon DEF Good, Matched
                <5>3. connections[m] # h
                    BY <2>6, <5>2, Distinct, Zenon
                <5> QED BY <2>5, <5>2, <5>3, Zenon
            <4> QED BY <4>1, <4>2, Zenon
        <3>2. ASSUME NEW g \in Handles, hs[g] # Unspecified
              PROVE  /\ cs[hs[g]] = g
                     /\ s[g].st \in {"open", "closing", "closed"}
                     /\ s[g].local = hs[g].local /\ s[g].remote \in {hs[g].remote, Nowhere}
            <4>1. CASE g = h
                <5>1. hs[g] = meta /\ s[g].local = meta.local /\ s[g].remote = meta.remote
                    BY <1>6, <2>5, <4>1 DEF Desc
                <5> QED BY <1>3, <1>6, <2>5, <4>1, <5>1, Zenon
            <4>2. CASE g # h
                <5>1. hs[g] = handles[g] /\ handles[g] \in Metas /\ connections[handles[g]] = g
                    BY <1>8, <2>5, <3>2, <4>2, ZenonT(40) DEF Good, Matched
                <5>2. handles[g] # meta
                    BY <2>4, <5>1, Distinct, Zenon
                <5>3. cs[hs[g]] = g
                    BY <2>5, <5>1, <5>2, Zenon
                <5> QED BY <1>8, <3>2, <5>1, <5>3, Zenon DEF Good, Matched
            <4> QED BY <4>1, <4>2, Zenon
        <3> QED BY <2>5, <3>1, <3>2, Zenon DEF Matched
    <2>8. \A m \in Metas : connections[m] # 0 => cs[m] = connections[m]
        BY <2>4, <2>5, Zenon
    <2> QED BY <1>7, <1>9, <2>3, <2>7, <2>8, MovedStep, Zenon
<1> QED BY <1>10, <1>11, Zenon

\* Sockets of connections are closed or aborted, and nothing else is.
LEMMA CloseAllStep ==
    ASSUME Inv, NEW hs \in SUBSET Handles, \A h \in hs : handles[h] # Unspecified,
           NEW abort \in BOOLEAN, CloseAll(hs, abort), task' = task, closer' \in CloserStates
    PROVE  /\ Inv' /\ Reported
           /\ \A h \in Handles \ hs : Connected(sock[h]) => IsOpen(sock'[h])
<1>1. PICK F \in SUBSET hs :
        Ingress([h \in Handles |->
                   IF h \notin hs THEN sock[h]
                   ELSE IF abort THEN Aborting(sock[h], h \in F) ELSE Closing(sock[h], h \in F)],
                connections, handles, taken)
    BY Zenon DEF CloseAll
<1>2. PICK s : s = [h \in Handles |->
                   IF h \notin hs THEN sock[h]
                   ELSE IF abort THEN Aborting(sock[h], h \in F) ELSE Closing(sock[h], h \in F)]
    BY Zenon
<1>3. Ingress(s, connections, handles, taken)
    BY <1>1, <1>2, Zenon
<1>4. ASSUME NEW h \in hs
      PROVE  Moved(sock[h], s[h])
    <2>1. sock[h] \in Live /\ sock[h].st \in {"open", "closing"}
        BY TableFact, Zenon
    <2>2. s[h] = IF abort THEN Aborting(sock[h], h \in F) ELSE Closing(sock[h], h \in F)
        BY <1>2, Zenon
    <2>3. CASE abort
        <3>1. s[h] = ToClosed(sock[h], h \in F)
            BY <2>1, <2>2, <2>3, LiveFact, Zenon DEF Aborting
        <3> QED BY <2>1, <3>1, Zenon DEF Moved, Live, Dying, ToClosed
    <2>4. CASE ~abort /\ sock[h].st = "open"
        <3>1. s[h] = [sock[h] EXCEPT !.st = "closing"]
            BY <2>2, <2>4 DEF Closing
        <3> QED BY <2>1, <3>1 DEF Moved, Live
    <2>5. CASE ~abort /\ sock[h].st = "closing"
        <3>1. s[h] = sock[h]
            BY <2>2, <2>5 DEF Closing
        <3> QED BY <3>1, Zenon DEF Moved
    <2> QED BY <2>1, <2>3, <2>4, <2>5, Zenon
<1>5. \A h \in Handles \ hs : s[h] = sock[h]
    BY <1>2, Zenon
<1>6. MovedAll(s)
    <2>1. s = [h \in Handles |-> s[h]]
        BY <1>2, Zenon
    <2>2. ASSUME NEW h \in Handles
          PROVE  Moved(sock[h], s[h])
        BY <1>4, <1>5, Zenon DEF Moved
    <2> QED BY <2>1, <2>2, Zenon DEF MovedAll
<1>7. Matched(s, connections, handles)
    BY <1>6, MovedGood, Zenon DEF Good
<1>8. Inv' /\ Reported /\ sock' = SweptOf(s)
    BY <1>3, <1>6, <1>7, MovedStep
<1>9. ASSUME NEW h \in Handles \ hs, Connected(sock[h])
      PROVE  IsOpen(sock'[h])
    <2>1. sock[h] \in Live \cup Dying
        BY <1>9, KindFact, Zenon DEF Inv, Good
    <2>2. sock[h] \in Live
        BY <1>9, <2>1, DyingFact, OtherFact, Zenon DEF Inv, Swept
    <2>3. sock'[h] = sock[h]
        <3>1. s[h].st # "closed"
            BY <1>5, <2>2, LiveFact
        <3> QED BY <1>5, <1>8, <3>1, Zenon DEF SweptOf, ClosedOf
    <2> QED BY <2>2, <2>3, LiveFact, Zenon
<1> QED BY <1>8, <1>9, Zenon

\* The handle of a connection has this connection.
LEMMA ConnectionFact ==
    ASSUME Inv, NEW m \in Metas, IsConnected(m)
    PROVE  /\ connections[m] \in Handles /\ handles[connections[m]] = m
           /\ handles[connections[m]] # Unspecified /\ Desc(sock[connections[m]]) = m
<1>1. m # Unspecified
    BY Distinct, Zenon
<1>2. connections[m] \in Handles /\ handles[connections[m]] = m
    BY Zenon DEF Inv, Good, Matched, IsConnected
<1> QED BY <1>1, <1>2, TableFact, Zenon

\* disconnect_all closes the connections of one node and keeps their handles for its waiters.
LEMMA DisconnectAllKeeps ==
    ASSUME Inv, NEW r \in Remotes, DisconnectAll(r)
    PROVE  Inv' /\ Reported
<1>1. PICK metas : metas = {m \in Metas : IsConnected(m) /\ m.remote.addr = r}
    BY Zenon
<1>2. PICK hs : hs = {connections[m] : m \in metas}
    BY Zenon
<1>3. CloseAll(hs, FALSE) /\ task' = task
    BY <1>1, <1>2, Zenon DEF DisconnectAll
<1>4. closer' = [pc |-> "wait", conns |-> {[h |-> connections[m], meta |-> m] : m \in metas}]
    BY <1>1, Zenon DEF DisconnectAll
<1>5. \A m \in metas : m \in Metas /\ connections[m] \in Handles /\ handles[connections[m]] # Unspecified
    BY <1>1, ConnectionFact, Zenon
<1>6. closer' \in CloserStates
    BY <1>4, <1>5 DEF CloserStates
<1>7. hs \in SUBSET Handles /\ \A h \in hs : handles[h] # Unspecified
    BY <1>2, <1>5, Zenon
<1>8. FALSE \in BOOLEAN
    BY Zenon
<1> QED BY <1>3, <1>6, <1>7, <1>8, CloseAllStep, Zenon

\* What is aborted when the wait times out is connected with the node that is closed.
LEMMA DisconnectTimeoutKeeps ==
    ASSUME Inv, DisconnectTimeout
    PROVE  /\ Inv' /\ Reported
           /\ \A h \in Handles : Connected(sock[h]) /\ ~IsOpen(sock'[h])
                => \E c \in closer.conns : c.meta.remote.addr = sock[h].remote.addr
<1>1. PICK metas : metas = {m \in {c.meta : c \in closer.conns} : IsConnected(m)}
    BY Zenon
<1>2. PICK hs : hs = {connections[m] : m \in metas}
    BY Zenon
<1>3. CloseAll(hs, TRUE) /\ task' = task /\ closer' = [closer EXCEPT !.pc = "grace"]
    BY <1>1, <1>2, Zenon DEF DisconnectTimeout
<1>4. closer \in CloserStates
    BY Zenon DEF Inv, Callers
<1>5. closer' \in CloserStates
    BY <1>3, <1>4, Zenon DEF CloserStates
<1>6. \A c \in closer.conns : c.meta \in Metas
    BY <1>4 DEF CloserStates
<1>7. \A m \in metas : /\ m \in Metas /\ connections[m] \in Handles /\ handles[connections[m]] # Unspecified
                       /\ Desc(sock[connections[m]]) = m
    BY <1>1, <1>6, ConnectionFact, Zenon
<1>8. hs \in SUBSET Handles /\ \A h \in hs : handles[h] # Unspecified
    BY <1>2, <1>7, Zenon
<1>9. TRUE \in BOOLEAN
    BY Zenon
<1>10. Inv' /\ Reported /\ \A h \in Handles \ hs : Connected(sock[h]) => IsOpen(sock'[h])
    BY <1>3, <1>5, <1>8, <1>9, CloseAllStep, Zenon
<1>11. ASSUME NEW h \in Handles, Connected(sock[h]), ~IsOpen(sock'[h])
       PROVE  \E c \in closer.conns : c.meta.remote.addr = sock[h].remote.addr
    <2>1. h \in hs
        BY <1>10, <1>11, Zenon
    <2>2. PICK m \in metas : h = connections[m]
        BY <1>2, <2>1, Zenon
    <2>3. PICK c \in closer.conns : c.meta = m
        BY <1>1, <2>2, Zenon
    <2>4. m.remote = sock[h].remote
        BY <1>7, <2>2 DEF Desc
    <2> QED BY <2>3, <2>4, Zenon
<1> QED BY <1>10, <1>11, Zenon

-----------------------------------------------------------------------------
(* New sockets *)

\* A socket without a connection is replaced by one whose port and endpoints are new.
LEMMA PlacedGood ==
    ASSUME NEW s, NEW cs, NEW hs, NEW used, Good(s, cs, hs, used),
           NEW r \in Handles, s[r] \in {Free, Listener(Service)},
           NEW y \in Live \cup {Leftover, Listener(Service)},
           NEW more, used \subseteq more, more \subseteq Range1,
           y.local \in Range1 => y.local \in more \ used,
           \A h \in Handles : Connected(y) => Desc(s[h]) # Desc(y)
    PROVE  Good([s EXCEPT ![r] = y], cs, hs, more)
<1>1. PICK t : t = [s EXCEPT ![r] = y]
    BY Zenon
<1>2. /\ t \in [Handles -> Live \cup Dying \cup {Free, Leftover, Listener(Service)}]
      /\ \A h \in Handles : t[h] = IF h = r THEN y ELSE s[h]
    BY <1>1 DEF Good, Shaped
<1>3. hs[r] = Unspecified
    <2>1. s[r].st \notin {"open", "closing", "closed"}
        BY OtherFact
    <2> QED BY <2>1, Zenon DEF Good, Matched
<1>4. Matched(t, cs, hs)
    <2>1. ASSUME NEW h \in Handles, hs[h] # Unspecified
          PROVE  t[h] = s[h]
        BY <1>2, <1>3, <2>1, Zenon
    <2>2. Matched(s, cs, hs)
        BY Zenon DEF Good
    <2> QED BY <2>1, <2>2, Zenon DEF Matched
<1>5. Exclusive(t, more)
    <2>1. Exclusive(s, used)
        BY Zenon DEF Good
    <2>2. ASSUME NEW h \in Handles, t[h].local \in Range1
          PROVE  t[h].local \in more /\ (h # r => t[h].local \in used /\ t[h].local # y.local)
        BY <1>2, <2>1, <2>2, Zenon DEF Exclusive
    <2>3. ASSUME NEW g \in Handles, NEW h \in Handles, t[g].local = t[h].local, t[g].local \in Range1
          PROVE  g = h
        <3>1. CASE g = r \/ h = r
            BY <1>2, <2>2, <2>3, <3>1, Zenon
        <3>2. CASE g # r /\ h # r
            BY <1>2, <2>1, <2>3, <3>2, Zenon DEF Exclusive
        <3> QED BY <3>1, <3>2, Zenon
    <2>4. ASSUME NEW g \in Handles, NEW h \in Handles, Connected(t[g]), Desc(t[g]) = Desc(t[h])
          PROVE  g = h
        <3>1. Connected(t[h])
            BY <2>4 DEF Connected, Desc
        <3>2. CASE g = r \/ h = r
            BY <1>2, <2>4, <3>1, <3>2, Zenon
        <3>3. CASE g # r /\ h # r
            BY <1>2, <2>1, <2>4, <3>3, Zenon DEF Exclusive
        <3> QED BY <3>2, <3>3, Zenon
    <2> QED BY <2>2, <2>3, <2>4, Zenon DEF Exclusive
<1> QED BY <1>1, <1>2, <1>4, <1>5, Zenon DEF Good, Shaped

\* The first handle that is free; nobody waits for it when handles are not given again early.
LEMMA RoomFact ==
    ASSUME HasRoom, ~Reuse
    PROVE  /\ Min(FreeHandles) \in Handles /\ sock[Min(FreeHandles)] = Free
           /\ \A h \in Handles : sock[h] = Free => Min(FreeHandles) <= h
           /\ \A c \in Tasks : task[c].pc = "connect" => task[c].h # Min(FreeHandles)
<1>1. FreeHandles \subseteq Nat /\ FreeHandles # {}
    BY Distinct, Zenon DEF HasRoom, FreeHandles
<1>2. Min(FreeHandles) \in FreeHandles /\ \A h \in FreeHandles : Min(FreeHandles) <= h
    BY <1>1, MinFact, Zenon
<1>3. Min(FreeHandles) \notin Awaited
    BY Zenon DEF HasRoom, MayTake
<1> QED BY <1>2, <1>3, Zenon DEF FreeHandles, Awaited

\* Who waits for a socket that stays as it is goes on waiting.
LEMMA WaitsKept ==
    ASSUME NEW s, NEW u, NEW t, Waits(s, t), t.pc = "connect" => u[t.h] = s[t.h]
    PROVE  Waits(u, t)
BY Zenon DEF Waits

\* A socket with a connection is open.
LEMMA OpenFact ==
    ASSUME Inv, NEW m \in Metas, connections[m] # 0
    PROVE  connections[m] \in Handles /\ IsOpen(sock[connections[m]])
<1>1. IsConnected(m)
    BY Zenon DEF IsConnected
<1> QED BY <1>1, ConnectionFact, TableFact, LiveFact, Zenon

\* connect without a free port leaves a closed socket behind, which the sweep takes.
LEMMA ConnectNoPortKeeps ==
    ASSUME Inv, ~Reuse, NEW c \in Tasks, ConnectNoPort(c)
    PROVE  Inv' /\ Reported
<1>1. PICK r \in Handles : /\ r = Min(FreeHandles) /\ sock[r] = Free
                           /\ \A d \in Tasks : task[d].pc = "connect" => task[d].h # r
    BY RoomFact, Zenon DEF ConnectNoPort
<1>2. /\ sock' = [sock EXCEPT ![r] = Leftover] /\ lost' = {}
      /\ UNCHANGED <<bindings, connections, handles, taken, task, closer>>
    BY <1>1, Zenon DEF ConnectNoPort, Leftover
<1>3. Good(sock, connections, handles, taken)
    BY Zenon DEF Inv
<1>4. Good(sock', connections, handles, taken)
    <2>1. /\ Leftover.local \notin Range1 /\ ~Connected(Leftover)
        BY OtherFact, RangeFact
    <2>2. taken \subseteq Range1
        BY <1>3, Zenon DEF Good, Exclusive
    <2> QED BY <1>1, <1>2, <1>3, <2>1, <2>2, PlacedGood, Zenon
<1>5. \A h \in Handles : sock'[h] = IF h = r THEN Leftover ELSE sock[h]
    BY <1>2, <1>3, Zenon DEF Good, Shaped
<1>6. Swept'
    BY <1>5, Zenon DEF Inv, Swept
<1>7. AlwaysListens'
    <2>1. PICK b \in Handles : bindings = {b} /\ sock[b] = Listener(Service)
        BY Zenon DEF Inv, AlwaysListens
    <2>2. b # r
        BY <1>1, <2>1, OtherFact
    <2> QED BY <1>2, <1>5, <2>1, <2>2, Zenon DEF AlwaysListens
<1>8. Callers'
    <2>1. ASSUME NEW d \in Tasks
          PROVE  Waits(sock', task[d])
        <3>1. Waits(sock, task[d])
            BY Zenon DEF Inv, Callers
        <3>2. task[d].pc = "connect" => sock'[task[d].h] = sock[task[d].h]
            BY <1>1, <1>5, <3>1, Zenon DEF Waits
        <3> QED BY <3>1, <3>2, WaitsKept
    <2> QED BY <1>2, <2>1, Zenon DEF Inv, Callers
<1>9. Reported
    <2>1. ASSUME NEW m \in Metas, connections[m] # 0
          PROVE  IsOpen(sock'[connections[m]])
        BY <1>1, <1>5, <2>1, OpenFact, OtherFact, Zenon
    <2> QED BY <2>1, Zenon DEF Reported
<1> QED BY <1>2, <1>4, <1>6, <1>7, <1>8, <1>9, Zenon DEF Inv

\* connect gives the socket a port that no connection has, and enters it into the tables.
LEMMA ConnectKeeps ==
    ASSUME Inv, ~Reuse, NEW c \in Tasks, NEW a \in Remotes, Connect(c, [addr |-> a, port |-> Service])
    PROVE  Inv' /\ Reported
<1>1. PICK r \in Handles : /\ r = Min(FreeHandles) /\ sock[r] = Free
                           /\ \A d \in Tasks : task[d].pc = "connect" => task[d].h # r
    BY RoomFact, Zenon DEF Connect
<1>2. PICK remote : remote = [addr |-> a, port |-> Service]
    BY Zenon
<1>3. remote \in Endpoints
    BY <1>2 DEF Endpoints
<1>4. PICK start \in Range1 :
        /\ NextPort(start, taken) # 0
        /\ Ingress([sock EXCEPT ![r] = [st |-> "synsent", local |-> NextPort(start, taken), remote |-> remote]],
                   connections, handles, taken \cup {NextPort(start, taken)})
        /\ task' = [task EXCEPT ![c] = [pc |-> "connect", h |-> r,
                                        meta |-> [local |-> NextPort(start, taken), remote |-> remote]]]
    BY <1>1, <1>2, Zenon DEF Connect
<1>5. PICK port \in Range1 \ taken : port = NextPort(start, taken)
    BY <1>4, NextPortFact, Zenon
<1>6. PICK y : y = [st |-> "synsent", local |-> port, remote |-> remote]
    BY Zenon
<1>7. PICK meta : meta = [local |-> port, remote |-> remote]
    BY Zenon
<1>8. y \in Live /\ y.st = "synsent" /\ y.local = port /\ Desc(y) = meta /\ meta \in Metas
    BY <1>3, <1>6, <1>7 DEF Live, Desc, Metas
<1>9. PICK s : s = [sock EXCEPT ![r] = y]
    BY Zenon
<1>10. /\ Ingress(s, connections, handles, taken \cup {port})
       /\ task' = [task EXCEPT ![c] = [pc |-> "connect", h |-> r, meta |-> meta]]
       /\ closer' = closer /\ task[c].pc = "idle"
    BY <1>4, <1>5, <1>6, <1>7, <1>9, Zenon DEF Connect
<1>11. Good(sock, connections, handles, taken)
    BY Zenon DEF Inv
<1>12. Good(s, connections, handles, taken \cup {port})
    <2>1. taken \subseteq Range1
        BY <1>11, Zenon DEF Good, Exclusive
    <2>2. ASSUME NEW h \in Handles
          PROVE  Desc(sock[h]) # Desc(y)
        <3>1. ASSUME Desc(sock[h]) = Desc(y)
              PROVE  FALSE
            <4>1. sock[h].local = port
                BY <1>8, <3>1 DEF Desc
            <4> QED BY <1>5, <1>11, <4>1, Zenon DEF Good, Exclusive
        <3> QED BY <3>1, Zenon
    <2>3. y.local \in Range1 => y.local \in (taken \cup {port}) \ taken
        BY <1>5, <1>8, Zenon
    <2>4. taken \subseteq taken \cup {port} /\ taken \cup {port} \subseteq Range1
        BY <2>1, <1>5, Zenon
    <2>5. y \in Live \cup {Leftover, Listener(Service)} /\ sock[r] \in {Free, Listener(Service)}
        BY <1>1, <1>8, Zenon
    <2> QED BY <1>9, <1>11, <2>2, <2>3, <2>4, <2>5, PlacedGood, Zenon
<1>13. \A h \in Handles : s[h] = IF h = r THEN y ELSE sock[h]
    BY <1>9, <1>11, Zenon DEF Good, Shaped
<1>14. PICK b \in Handles : bindings = {b} /\ sock[b] = Listener(Service) /\ s[b] = Listener(Service)
    <2>1. PICK b \in Handles : bindings = {b} /\ sock[b] = Listener(Service)
        BY Zenon DEF Inv, AlwaysListens
    <2>2. b # r
        BY <1>1, <2>1, OtherFact
    <2> QED BY <1>13, <2>1, <2>2, Zenon
<1>15. \A h \in bindings : ~Connected(s[h])
    BY <1>14, OtherFact, Zenon
<1>16. /\ Good(sock', connections', handles', taken')
       /\ sock' = SweptOf(s) /\ bindings' = bindings
       /\ lost' = GoneOf(s, handles) \ {Unspecified}
       /\ connections' = RemoveConnection(connections, GoneOf(s, handles))
    BY <1>10, <1>12, <1>15, IngressQuiet, Zenon
<1>17. \A h \in Handles : sock'[h] = IF s[h].st = "closed" THEN Free ELSE s[h]
    BY <1>16, Zenon DEF SweptOf, ClosedOf
<1>18. Swept'
    <2>1. \A h \in Handles : sock'[h].st # "closed"
        BY <1>17, OtherFact, Zenon
    <2> QED BY <2>1, Zenon DEF Swept
<1>19. AlwaysListens'
    <2>1. sock'[b] = Listener(Service) /\ bindings' = {b}
        BY <1>14, <1>16, <1>17, OtherFact, Zenon
    <2> QED BY <2>1, Zenon DEF AlwaysListens
<1>20. task \in [Tasks -> TaskStates] /\ closer \in CloserStates
    BY Zenon DEF Inv, Callers
<1>21. PICK t : t = [pc |-> "connect", h |-> r, meta |-> meta]
    BY Zenon
<1>22. t \in TaskStates /\ t.h = r /\ t.meta = meta
    BY <1>8, <1>21 DEF TaskStates
<1>23. task' \in [Tasks -> TaskStates] /\ \A d \in Tasks : task'[d] = IF d = c THEN t ELSE task[d]
    BY <1>10, <1>20, <1>21, <1>22, Zenon
<1>24. ASSUME NEW d \in Tasks
       PROVE  Waits(sock', task'[d])
    <2>1. CASE d = c
        <3>1. sock'[r] = y
            BY <1>8, <1>13, <1>17
        <3> QED BY <1>8, <1>22, <1>23, <2>1, <3>1, Zenon DEF Waits
    <2>2. CASE d # c
        <3>1. Waits(sock, task[d])
            BY Zenon DEF Inv, Callers
        <3>2. ASSUME task[d].pc = "connect"
              PROVE  sock'[task[d].h] = sock[task[d].h]
            <4>1. task[d].h \in Handles /\ task[d].h # r /\ sock[task[d].h].st # "closed"
                BY <1>1, <3>1, <3>2, OtherFact DEF Waits
            <4> QED BY <1>13, <1>17, <4>1, Zenon
        <3> QED BY <1>23, <2>2, <3>1, <3>2, WaitsKept, Zenon
    <2> QED BY <2>1, <2>2, Zenon
<1>25. Callers'
    BY <1>10, <1>20, <1>23, <1>24, Zenon DEF Callers
<1>26. lost' \subseteq Metas
    <2>1. Shaped(s) /\ Matched(s, connections, handles)
        BY <1>12, Zenon DEF Good
    <2>2. \A m \in GoneOf(s, handles) : m = Unspecified \/ m \in Metas
        BY <2>1, GoneFact
    <2> QED BY <1>16, <2>2, Zenon
<1>27. ASSUME NEW m \in Metas, connections[m] # 0
       PROVE  IsOpen(sock'[connections[m]])
    <2>1. connections[m] \in Handles /\ IsOpen(sock[connections[m]])
        BY <1>27, OpenFact, Zenon
    <2>2. connections[m] # r /\ sock[connections[m]].st # "closed"
        BY <1>1, <2>1, OtherFact, Zenon DEF IsOpen
    <2> QED BY <1>13, <1>17, <2>1, <2>2, Zenon
<1> QED BY <1>16, <1>18, <1>19, <1>25, <1>26, <1>27, Zenon DEF Inv, Reported

\* Connect::poll finds the socket of its own connection.
LEMMA ConnectReadyKeeps ==
    ASSUME Inv, NEW c \in Tasks, ConnectReady(c)
    PROVE  Inv' /\ Reported
<1>1. Good(sock, connections, handles, taken)
    BY Zenon DEF Inv
<1>2. PICK h \in Handles : h = task[c].h /\ sock[h].st = "open" /\ Desc(sock[h]) = task[c].meta
    <2>1. Waits(sock, task[c]) /\ task[c].pc = "connect" /\ sock[task[c].h].st = "open"
        BY Zenon DEF Inv, Callers, ConnectReady
    <2> QED BY <2>1, OtherFact DEF Waits
<1>3. PICK meta : meta = task[c].meta
    BY Zenon
<1>4. /\ connections' = Added(meta, h) /\ handles' = AddedHandle(meta, h)
      /\ task' = [task EXCEPT ![c] = Idle] /\ lost' = {}
      /\ UNCHANGED <<sock, bindings, taken, closer>>
    BY <1>2, <1>3, Zenon DEF ConnectReady, Returns
<1>5. sock[h] \in Live /\ Desc(sock[h]) = meta /\ meta \in Metas /\ Connected(sock[h])
    BY <1>1, <1>2, <1>3, KindFact, LiveFact, Zenon DEF Good
<1>6. handles[h] \in {Unspecified, meta}
    BY <1>5, TableFact, Zenon
<1>7. connections[meta] \in {0, h}
    <2>1. ASSUME connections[meta] # 0
          PROVE  connections[meta] = h
        <3>1. IsConnected(meta)
            BY <2>1, Zenon DEF IsConnected
        <3>2. connections[meta] \in Handles /\ Desc(sock[connections[meta]]) = meta
            BY <1>5, <3>1, ConnectionFact, Zenon
        <3> QED BY <1>1, <1>5, <3>2, Zenon DEF Good, Exclusive
    <2> QED BY <2>1, Zenon
<1>8. /\ connections' \in [Metas -> Handles \cup {0}] /\ handles' \in [Handles -> Metas \cup {Unspecified}]
      /\ \A m \in Metas : connections'[m] = IF m = meta THEN h ELSE connections[m]
      /\ \A g \in Handles : handles'[g] = IF g = h THEN meta ELSE handles[g]
    <2>1. connections \in [Metas -> Handles \cup {0}] /\ handles \in [Handles -> Metas \cup {Unspecified}]
        BY <1>1, Zenon DEF Good, Matched
    <2> QED BY <1>4, <1>5, <2>1 DEF Added, AddedHandle
<1>9. ASSUME NEW m \in Metas, connections'[m] # 0
      PROVE  handles'[connections'[m]] = m
    <2>1. CASE m = meta
        BY <1>8, <2>1, Zenon
    <2>2. CASE m # meta
        <3>1. connections'[m] = connections[m] /\ connections[m] # 0
            BY <1>8, <1>9, <2>2, Zenon
        <3>2. connections[m] \in Handles /\ handles[connections[m]] = m
            BY <1>1, <3>1, ZenonT(40) DEF Good, Matched
        <3>3. connections[m] # h
            BY <1>6, <2>2, <3>2, Distinct, Zenon
        <3> QED BY <1>8, <3>1, <3>2, <3>3, Zenon
    <2> QED BY <2>1, <2>2, Zenon
<1>10. ASSUME NEW g \in Handles, handles'[g] # Unspecified
       PROVE  /\ connections'[handles'[g]] = g
              /\ sock[g].st \in {"open", "closing", "closed"}
              /\ sock[g].local = handles'[g].local /\ sock[g].remote \in {handles'[g].remote, Nowhere}
    <2>1. CASE g = h
        <3>1. handles'[g] = meta /\ sock[g].local = meta.local /\ sock[g].remote = meta.remote
            BY <1>5, <1>8, <2>1 DEF Desc
        <3> QED BY <1>2, <1>5, <1>8, <2>1, <3>1, Zenon
    <2>2. CASE g # h
        <3>1. handles'[g] = handles[g] /\ handles[g] # Unspecified
            BY <1>8, <1>10, <2>2, Zenon
        <3>2. handles[g] \in Metas /\ connections[handles[g]] = g
            BY <1>1, <3>1, Zenon DEF Good, Matched
        <3>3. handles[g] # meta
            BY <1>7, <2>2, <3>2, Distinct, Zenon
        <3>4. connections'[handles'[g]] = g
            BY <1>8, <3>1, <3>2, <3>3, Zenon
        <3> QED BY <1>1, <3>1, <3>4, Zenon DEF Good, Matched
    <2> QED BY <2>1, <2>2, Zenon
<1>11. Good(sock, connections', handles', taken)
    BY <1>1, <1>8, <1>9, <1>10, Zenon DEF Good, Matched
<1>12. Swept' /\ AlwaysListens'
    BY <1>4, Zenon DEF Inv, Swept, AlwaysListens
<1>13. Callers'
    <2>1. task \in [Tasks -> TaskStates] /\ closer \in CloserStates /\ \A d \in Tasks : Waits(sock, task[d])
        BY Zenon DEF Inv, Callers
    <2>2. Idle \in TaskStates /\ Waits(sock, Idle)
        BY DEF Idle, TaskStates, Waits
    <2>3. task' \in [Tasks -> TaskStates] /\ \A d \in Tasks : task'[d] \in {Idle, task[d]}
        BY <1>4, <2>1, <2>2, Zenon
    <2> QED BY <1>4, <2>1, <2>2, <2>3, Zenon DEF Callers
<1>14. Reported
    <2>1. ASSUME NEW m \in Metas, connections[m] # 0
          PROVE  IsOpen(sock'[connections[m]])
        BY <1>4, <2>1, OpenFact, Zenon
    <2> QED BY <2>1, Zenon DEF Reported
<1> QED BY <1>4, <1>11, <1>12, <1>13, <1>14, Zenon DEF Inv

\* A listener accepts, and another one is bound in its place if it was the one in bindings.
LEMMA SynKeeps ==
    ASSUME Inv, ~Reuse, NEW e \in Endpoints, Syn(e)
    PROVE  Inv' /\ Reported
<1>1. PICK r \in Handles : /\ r = Min(FreeHandles) /\ sock[r] = Free
                           /\ \A h \in Handles : sock[h] = Free => r <= h
                           /\ \A d \in Tasks : task[d].pc = "connect" => task[d].h # r
    BY RoomFact, Zenon DEF Syn
<1>2. PICK l \in Handles : l = Min({h \in Handles : sock[h] = Listener(Service)}) /\ sock[l] = Listener(Service)
    <2>1. {h \in Handles : sock[h] = Listener(Service)} # {}
        BY Zenon DEF Syn
    <2>2. {h \in Handles : sock[h] = Listener(Service)} \subseteq Nat
        BY Distinct, Zenon
    <2> QED BY <2>1, <2>2, MinFact, Zenon
<1>3. PICK y : y = [st |-> "synrcvd", local |-> Service, remote |-> e]
    BY Zenon
<1>4. y \in Live /\ y.st = "synrcvd" /\ y.local = Service /\ Desc(y) = [local |-> Service, remote |-> e]
    BY <1>3 DEF Live, Desc
<1>5. PICK s : s = [sock EXCEPT ![l] = y]
    BY Zenon
<1>6. Ingress(s, connections, handles, taken) /\ task' = task /\ closer' = closer
    BY <1>2, <1>3, <1>5, Zenon DEF Syn, Moves
<1>7. Good(sock, connections, handles, taken)
    BY Zenon DEF Inv
<1>8. Good(s, connections, handles, taken)
    <2>1. taken \subseteq Range1
        BY <1>7, Zenon DEF Good, Exclusive
    <2>2. \A h \in Handles : Desc(sock[h]) # Desc(y)
        BY <1>4, Zenon DEF Syn
    <2>3. y.local \in Range1 => y.local \in taken \ taken
        BY <1>4, RangeFact, Zenon
    <2>4. y \in Live \cup {Leftover, Listener(Service)} /\ sock[l] \in {Free, Listener(Service)}
        BY <1>2, <1>4, Zenon
    <2> QED BY <1>5, <1>7, <2>1, <2>2, <2>3, <2>4, PlacedGood, Zenon
<1>9. \A h \in Handles : s[h] = IF h = l THEN y ELSE sock[h]
    BY <1>5, <1>7, Zenon DEF Good, Shaped
<1>10. PICK b \in Handles : bindings = {b} /\ sock[b] = Listener(Service)
    BY Zenon DEF Inv, AlwaysListens
<1>11. \A h \in Handles : SweptOf(s)[h] = IF s[h].st = "closed" THEN Free ELSE s[h]
    BY Zenon DEF SweptOf, ClosedOf
<1>12. /\ Good(sock', connections', handles', taken') /\ AlwaysListens'
       /\ lost' = GoneOf(s, handles) \ {Unspecified}
       /\ connections' = RemoveConnection(connections, GoneOf(s, handles))
       /\ \A h \in Handles : \/ sock'[h] = SweptOf(s)[h]
                             \/ h = r /\ sock'[h] = Listener(Service)
                             \/ s[h].st = "closed" /\ sock'[h] = Listener(Service)
    <2>1. CASE b # l
        <3>1. s[b] = Listener(Service)
            BY <1>9, <1>10, <2>1, Zenon
        <3>2. \A h \in bindings : ~Connected(s[h])
            BY <1>10, <3>1, OtherFact, Zenon
        <3>3. /\ Good(sock', connections', handles', taken')
              /\ sock' = SweptOf(s) /\ bindings' = bindings
              /\ lost' = GoneOf(s, handles) \ {Unspecified}
              /\ connections' = RemoveConnection(connections, GoneOf(s, handles))
            BY <1>6, <1>8, <3>2, IngressQuiet, Zenon
        <3>4. sock'[b] = Listener(Service)
            BY <1>11, <3>1, <3>3, OtherFact, Zenon
        <3>5. AlwaysListens'
            BY <1>10, <3>3, <3>4, Zenon DEF AlwaysListens
        <3> QED BY <3>3, <3>5, Zenon
    <2>2. CASE b = l
        <3>1. s[b] = y /\ Connected(y)
            BY <1>4, <1>9, <2>2, LiveFact, Zenon
        <3>2. {h \in bindings : Connected(s[h])} = {b} /\ {b} # {}
            BY <1>10, <3>1, Zenon
        <3>3. PICK first : first = Min({h \in bindings : Connected(s[h])})
            BY Zenon
        <3>4. PICK room : room = {h \in Handles : s[h] = Free \/ (h \in ClosedOf(s) /\ h < first)}
            BY Zenon
        <3>5. first = b /\ s[first].local = Service
            <4>1. {b} \subseteq Nat /\ {b} # {}
                BY Distinct, Zenon
            <4>2. Min({b}) \in {b}
                BY <4>1, MinFact, Zenon
            <4> QED BY <1>4, <3>1, <3>2, <3>3, <4>2, Zenon
        <3>6. /\ room # {} /\ sock' = Bind(SweptOf(s), Min(room), s[first].local)
               /\ bindings' = (bindings \ {first}) \cup {Min(room)}
            BY <1>6, <3>2, <3>3, <3>4, Zenon DEF Ingress, ClosedOf, SweptOf
        <3>7. /\ lost' = GoneOf(s, handles) \ {Unspecified}
               /\ connections' = RemoveConnection(connections, GoneOf(s, handles))
               /\ handles' = HandlesOf(s, handles) /\ taken' = RemovePorts(taken, GoneOf(s, handles))
            BY <1>6, Zenon DEF Ingress, ClosedOf, GoneOf, HandlesOf
        <3>8. /\ room # {} /\ sock' = Bind(SweptOf(s), Min(room), Service)
              /\ bindings' = (bindings \ {b}) \cup {Min(room)}
              /\ lost' = GoneOf(s, handles) \ {Unspecified}
              /\ connections' = RemoveConnection(connections, GoneOf(s, handles))
              /\ handles' = HandlesOf(s, handles) /\ taken' = RemovePorts(taken, GoneOf(s, handles))
            BY <3>5, <3>6, <3>7, Zenon
        <3>9. room \subseteq Handles /\ room \subseteq Nat
            BY <3>4, Distinct, Zenon
        <3>10. PICK q \in room : q = Min(room) /\ \A h \in room : q <= h
            BY <3>8, <3>9, MinFact, Zenon
        <3>11. q \in Handles /\ SweptOf(s)[q] = Free /\ (q = r \/ s[q].st = "closed")
            <4>1. q \in Handles /\ SweptOf(s)[q] = Free
                BY <1>11, <3>4, <3>10, OtherFact, Zenon DEF ClosedOf
            <4>2. ASSUME s[q] = Free
                  PROVE  q = r
                <5>1. q # l
                    BY <1>4, <1>9, <4>1, <4>2, OtherFact
                <5>2. r <= q
                    BY <1>1, <1>9, <4>1, <4>2, <5>1, Zenon
                <5>3. r # l
                    BY <1>1, <1>2, OtherFact
                <5>4. q <= r
                    BY <1>1, <1>9, <3>4, <3>10, <5>3, Zenon
                <5> QED BY <4>1, <5>2, <5>4, Distinct
            <4> QED BY <3>4, <3>10, <4>1, <4>2, Zenon DEF ClosedOf
        <3>12. sock' = [SweptOf(s) EXCEPT ![q] = Listener(Service)]
            BY <3>8, <3>10, Zenon DEF Bind
        <3>13. Good(SweptOf(s), connections', handles', taken')
            BY <1>8, <3>8, SweepGood, Zenon
        <3>14. Good(sock', connections', handles', taken')
            <4>1. taken' \subseteq taken' /\ taken' \subseteq Range1
                BY <3>13, Zenon DEF Good, Exclusive
            <4>2. Listener(Service).local \notin Range1 /\ ~Connected(Listener(Service))
                BY OtherFact, RangeFact, Zenon
            <4>3. SweptOf(s)[q] \in {Free, Listener(Service)} /\ Listener(Service) \in Live \cup {Leftover, Listener(Service)}
                BY <3>11, Zenon
            <4> QED BY <3>11, <3>12, <3>13, <4>1, <4>2, <4>3, PlacedGood, Zenon
        <3>15. \A h \in Handles : sock'[h] = IF h = q THEN Listener(Service) ELSE SweptOf(s)[h]
            BY <3>12, <3>13, Zenon DEF Good, Shaped
        <3>16. AlwaysListens'
            <4>1. bindings' = {q}
                BY <1>10, <3>8, <3>10, Zenon
            <4> QED BY <3>11, <3>15, <4>1, Zenon DEF AlwaysListens
        <3> QED BY <3>8, <3>11, <3>14, <3>15, <3>16, Zenon
    <2> QED BY <2>1, <2>2, Zenon
<1>13. Swept'
    <2>1. \A h \in Handles : sock'[h].st # "closed"
        BY <1>11, <1>12, OtherFact, Zenon
    <2> QED BY <2>1, Zenon DEF Swept
<1>14. ASSUME NEW d \in Tasks
       PROVE  Waits(sock', task[d])
    <2>1. Waits(sock, task[d])
        BY Zenon DEF Inv, Callers
    <2>2. ASSUME task[d].pc = "connect"
          PROVE  sock'[task[d].h] = sock[task[d].h]
        <3>1. PICK h \in Handles : h = task[d].h /\ h # r /\ sock[h].st \notin {"closed", "listen"}
            BY <1>1, <2>1, <2>2, OtherFact DEF Waits
        <3>2. h # l
            BY <1>2, <3>1, OtherFact, Zenon
        <3> QED BY <1>9, <1>11, <1>12, <3>1, <3>2, Zenon
    <2> QED BY <2>1, <2>2, WaitsKept
<1>15. Callers'
    BY <1>6, <1>14, Zenon DEF Inv, Callers
<1>16. lost' \subseteq Metas
    <2>1. Shaped(s) /\ Matched(s, connections, handles)
        BY <1>8, Zenon DEF Good
    <2>2. \A m \in GoneOf(s, handles) : m = Unspecified \/ m \in Metas
        BY <2>1, GoneFact
    <2> QED BY <1>12, <2>2, Zenon
<1>17. ASSUME NEW m \in Metas, connections[m] # 0
       PROVE  IsOpen(sock'[connections[m]])
    <2>1. connections[m] \in Handles /\ IsOpen(sock[connections[m]])
        BY <1>17, OpenFact, Zenon
    <2>2. connections[m] # r /\ sock[connections[m]].st # "closed"
        BY <1>1, <2>1, OtherFact, Zenon DEF IsOpen
    <2>3. IsOpen(s[connections[m]]) /\ s[connections[m]].st # "closed"
        BY <1>4, <1>9, <2>1, <2>2, LiveFact
    <2> QED BY <1>11, <1>12, <2>1, <2>2, <2>3, Zenon
<1> QED BY <1>12, <1>13, <1>15, <1>16, <1>17, Zenon DEF Inv, Reported

\* Steps that change neither the sockets nor the tables.
LEMMA StillKeeps ==
    ASSUME Inv, UNCHANGED <<sock, bindings, connections, handles, taken>>,
           task' \in [Tasks -> TaskStates], \A c \in Tasks : task'[c] \in {Idle, task[c]},
           closer' \in CloserStates, lost' \subseteq Metas
    PROVE  Inv' /\ Reported
<1>1. Good(sock', connections', handles', taken')
    BY Zenon DEF Inv
<1>2. Swept' /\ AlwaysListens'
    BY Zenon DEF Inv, Swept, AlwaysListens
<1>3. Waits(sock, Idle)
    BY DEF Waits, Idle
<1>4. Callers'
    BY <1>3, Zenon DEF Inv, Callers
<1>5. \A m \in Metas : connections[m] # 0 => IsOpen(sock'[connections[m]])
    BY OpenFact, Zenon
<1> QED BY <1>1, <1>2, <1>4, <1>5, Zenon DEF Inv, Reported

\* A failed connect that is reported, the end of a disconnect and a stutter leave the tables alone.
LEMMA OthersKeep ==
    ASSUME Inv, (\E c \in Tasks : ConnectError(c)) \/ DisconnectEnds \/ UNCHANGED vars
    PROVE  Inv' /\ Reported
<1>1. task \in [Tasks -> TaskStates] /\ closer \in CloserStates /\ lost \subseteq Metas
    BY Zenon DEF Inv, Callers
<1>2. Idle \in TaskStates
    BY DEF Idle, TaskStates
<1>3. ASSUME NEW c \in Tasks, ConnectError(c)
      PROVE  Inv' /\ Reported
    <2>1. /\ task' = [task EXCEPT ![c] = Idle] /\ closer' = closer /\ lost' = {}
          /\ UNCHANGED <<sock, bindings, connections, handles, taken>>
        BY <1>3, Zenon DEF ConnectError, Returns
    <2>2. task' \in [Tasks -> TaskStates] /\ \A d \in Tasks : task'[d] \in {Idle, task[d]}
        BY <1>1, <1>2, <2>1, Zenon
    <2> QED BY <1>1, <2>1, <2>2, StillKeeps, Zenon
<1>4. CASE DisconnectEnds
    <2>1. /\ task' = task /\ closer' = Resting /\ lost' = {}
          /\ UNCHANGED <<sock, bindings, connections, handles, taken>>
        BY <1>4, Zenon DEF DisconnectEnds
    <2>2. Resting \in CloserStates
        BY DEF Resting, CloserStates
    <2> QED BY <1>1, <2>1, <2>2, StillKeeps, Zenon
<1>5. CASE UNCHANGED vars
    <2>1. task' = task /\ closer' = closer /\ lost' = lost /\ UNCHANGED <<sock, bindings, connections, handles, taken>>
        BY <1>5, Zenon DEF vars
    <2> QED BY <1>1, <2>1, StillKeeps, Zenon
<1> QED BY <1>3, <1>4, <1>5, Zenon

\* One listening socket and empty tables satisfy the invariant.
LEMMA InitInv ==
    ASSUME Init
    PROVE  Inv
<1>1. 1 \in Handles
    BY NetworkAssumption DEF Handles
<1>2. \A h \in Handles : sock[h] = IF h = 1 THEN Listener(Service) ELSE Free
    BY Zenon DEF Init
<1>3. Shaped(sock)
    BY Zenon DEF Init, Shaped
<1>4. connections \in [Metas -> Handles \cup {0}] /\ \A m \in Metas : connections[m] = 0
    BY Zenon DEF Init
<1>5. handles \in [Handles -> Metas \cup {Unspecified}] /\ \A h \in Handles : handles[h] = Unspecified
    BY Zenon DEF Init
<1>6. Matched(sock, connections, handles)
    BY <1>4, <1>5, Zenon DEF Matched
<1>7. \A h \in Handles : sock[h].local \notin Range1 /\ ~Connected(sock[h])
    BY <1>2, OtherFact, RangeFact, Zenon
<1>8. Exclusive(sock, taken)
    <2>1. taken = {}
        BY DEF Init
    <2> QED BY <1>7, <2>1, Zenon DEF Exclusive
<1>9. Swept
    BY <1>2, OtherFact, Zenon DEF Swept
<1>10. AlwaysListens
    <2>1. bindings = {1}
        BY DEF Init
    <2> QED BY <1>1, <1>2, <2>1, Zenon DEF AlwaysListens
<1>11. Callers
    <2>1. Idle \in TaskStates /\ Waits(sock, Idle) /\ Resting \in CloserStates
        BY DEF Idle, TaskStates, Waits, Resting, CloserStates
    <2>2. task = [c \in Tasks |-> Idle] /\ closer = Resting
        BY DEF Init
    <2> QED BY <2>1, <2>2, Zenon DEF Callers
<1>12. lost \subseteq Metas
    BY DEF Init
<1> QED BY <1>3, <1>6, <1>8, <1>9, <1>10, <1>11, <1>12, Zenon DEF Inv, Good

\* Every step keeps the invariant, and reports the connections that it loses.
LEMMA NextInv ==
    ASSUME Inv, ~Reuse, Next \/ UNCHANGED vars
    PROVE  Inv' /\ Reported
<1>1. ASSUME NEW r \in Remotes, NEW p \in RemotePorts, Syn([addr |-> r, port |-> p])
      PROVE  Inv' /\ Reported
    <2>1. [addr |-> r, port |-> p] \in Endpoints
        BY DEF Endpoints
    <2> QED BY <1>1, <2>1, SynKeeps, Zenon
<1>2. ASSUME NEW h \in Handles, Establish(h) \/ Data(h) \/ Closes(h) \/ ResetHalfOpen(h)
      PROVE  Inv' /\ Reported
    BY <1>2, EstablishKeeps, DataKeeps, ClosesKeeps, ResetHalfOpenKeeps, Zenon
<1>3. ASSUME NEW c \in Tasks, NEW r \in Remotes, Connect(c, [addr |-> r, port |-> Service])
      PROVE  Inv' /\ Reported
    BY <1>3, ConnectKeeps, Zenon
<1>4. ASSUME NEW c \in Tasks, ConnectNoPort(c) \/ ConnectReady(c) \/ ConnectError(c)
      PROVE  Inv' /\ Reported
    BY <1>4, ConnectNoPortKeeps, ConnectReadyKeeps, OthersKeep, Zenon
<1>5. ASSUME NEW r \in Remotes, DisconnectAll(r)
      PROVE  Inv' /\ Reported
    BY <1>5, DisconnectAllKeeps, Zenon
<1>6. CASE DisconnectEnds \/ DisconnectTimeout \/ UNCHANGED vars
    BY <1>6, OthersKeep, DisconnectTimeoutKeeps, Zenon
<1> QED BY <1>1, <1>2, <1>3, <1>4, <1>5, <1>6, Zenon DEF Next

\* The invariant says that the stack is consistent.
LEMMA InvConsistent ==
    ASSUME Inv
    PROVE  StackIsConsistent
<1>1. Good(sock, connections, handles, taken)
    BY Zenon DEF Inv
<1>2. sock \in [Handles -> Sockets \cup {Free}]
    <2>1. Live \subseteq Sockets /\ Leftover \in Sockets /\ Listener(Service) \in Sockets
        BY DEF Live, Leftover, Free, Listener, Sockets, States
    <2>2. Dying \subseteq Sockets
        BY DEF Dying, Sockets, States
    <2> QED BY <1>1, <2>1, <2>2, Zenon DEF Good, Shaped
<1>3. TypeOK
    <2>1. bindings \subseteq Handles
        BY Zenon DEF Inv, AlwaysListens
    <2> QED BY <1>1, <1>2, <2>1, Zenon DEF TypeOK, Inv, Good, Matched, Exclusive, Callers, TaskStates, CloserStates
<1>4. TablesAgree
    <2>1. ASSUME NEW m \in Metas, connections[m] # 0
          PROVE  LET h == connections[m] IN
                 handles[h] = m /\ Desc(sock[h]) = m /\ IsOpen(sock[h])
        <3>1. IsConnected(m)
            BY <2>1, Zenon DEF IsConnected
        <3> QED BY <2>1, <3>1, ConnectionFact, OpenFact, Zenon
    <2>2. \A h \in Handles : handles[h] # Unspecified => connections[handles[h]] = h
        BY <1>1, Zenon DEF Good, Matched
    <2> QED BY <2>1, <2>2, Zenon DEF TablesAgree
<1>5. PortsExclusive
    <2>1. ASSUME NEW h \in Handles, Connected(sock[h])
          PROVE  /\ sock[h].local # Service => sock[h].local \in taken
                 /\ \A g \in Handles : Desc(sock[g]) = Desc(sock[h]) => g = h
        <3>1. sock[h].local \in Range1 \cup {Service}
            BY <1>1, <2>1, KindFact, LiveFact, DyingFact, Zenon DEF Good
        <3> QED BY <1>1, <2>1, <3>1, Zenon DEF Good, Exclusive
    <2> QED BY <2>1, Zenon DEF PortsExclusive
<1> QED BY <1>3, <1>4, <1>5, Zenon DEF StackIsConsistent, Inv

-----------------------------------------------------------------------------
(***************************************************************************)
(* Allocator::next finds a free port as long as there is one, wherever its *)
(* search starts, and nothing outside its range: in every state.           *)
(***************************************************************************)
THEOREM FreePortIsFoundCorrect == Spec => []FreePortIsFound
<1>1. FreePortIsFound
    BY NextPortFact, Zenon DEF FreePortIsFound
<1> QED BY <1>1, PTL

(***************************************************************************)
(* The tables of the stack agree with its sockets, the service listens and *)
(* ports are exclusive, if the socket of a task that waits in connect is   *)
(* not given to another connection before the task runs.                   *)
(***************************************************************************)
THEOREM StackIsConsistentCorrect == ASSUME ~Reuse PROVE Spec => []StackIsConsistent
<1>1. Init => Inv
    BY InitInv
<1>2. Inv /\ [Next]_vars => Inv'
    BY NextInv, Zenon
<1>3. Inv => StackIsConsistent
    BY InvConsistent
<1> QED BY <1>1, <1>2, <1>3, PTL DEF Spec

(***************************************************************************)
(* Every connection whose socket goes is reported as Disconnected in the   *)
(* same step, and leaves the tables.                                       *)
(***************************************************************************)
THEOREM LossIsReportedCorrect == ASSUME ~Reuse PROVE Spec => LossIsReported
<1>1. Init => Inv
    BY InitInv
<1>2. Inv /\ [Next]_vars => Inv'
    BY NextInv, Zenon
<1>3. Inv /\ [Next]_vars =>
        [\A m \in Metas : connections[m] # 0 /\ ~IsOpen(sock'[connections[m]])
            => m \in lost' /\ connections'[m] = 0]_vars
    BY NextInv, Zenon DEF Reported
<1> QED BY <1>1, <1>2, <1>3, PTL DEF Spec, LossIsReported

(***************************************************************************)
(* disconnect_all aborts, after its wait, connections with its own node    *)
(* only, although handles were given again meanwhile.                      *)
(***************************************************************************)
THEOREM ClosesOnlyPeerCorrect == ASSUME ~Reuse PROVE Spec => ClosesOnlyPeer
<1>1. Init => Inv
    BY InitInv
<1>2. Inv /\ [Next]_vars => Inv'
    BY NextInv, Zenon
<1>3. Inv /\ [Next]_vars =>
        [DisconnectTimeout =>
            \A h \in Handles : Connected(sock[h]) /\ ~IsOpen(sock'[h])
               => \E c \in closer.conns : c.meta.remote.addr = sock[h].remote.addr]_vars
    BY DisconnectTimeoutKeeps, Zenon
<1> QED BY <1>1, <1>2, <1>3, PTL DEF Spec, ClosesOnlyPeer
=============================================================================
