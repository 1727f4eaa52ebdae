--------------------------- MODULE HandshakeProofs ---------------------------
(***************************************************************************)
(* Proofs about Handshake, for any nodes, calls, request ids and limits:   *)
(* handshakes give back what they hold, the table of pending responses is  *)
(* exact, and both ends agree on the sessions they make.                   *)
(***************************************************************************)
EXTENDS Handshake, WellFoundedInduction, FiniteSetTheorems, TLAPS

\* What a task of init_session can be, and a task that serves a handshake, before and after
\* it has entered the tables.
Running == [pc : {"hello", "answer"}, node : Nodes, peer : Nodes, raw : Raws, rid : Rids,
            sid : Sids \cup {0}, got : Packets \cup {Nothing}, cancelled : BOOLEAN]
Done == [pc : {"done"}, node : Nodes, peer : Nodes, sid : Sids \cup {0}]
Failed == [pc |-> "failed"]
AttStates == Running \cup Done \cup {NotStarted, Failed}

Early == [pc : {"admitted"}, node : Nodes, peer : Nodes, token : Nat, rid : Rids,
          ch : Attempts \cup {0}, raw : {0}]
Late == [pc : {"init", "wait", "resume"}, node : Nodes, peer : Nodes, token : Nat, rid : Rids,
         ch : Attempts \cup {0}, raw : Raws]
TaskStates == Early \cup Late \cup {NoTask, Ended}

Entries == [sid : Sids, node : Nodes, remote : Nodes, queue : Rids \cup {0}]
Tables == [Nodes -> [Nodes -> [raw : Raws \cup {0}, users : Nat]]]
Requests == [from : Nodes, sid : Sids \cup {0}, rid : Rids \cup {0}]

Typed ==
    /\ calls \in Mixes /\ up \subseteq Nodes /\ net \subseteq Packets
    /\ att \in [Attempts -> AttStates] /\ task \in [Sids -> TaskStates]
    /\ admitted \in [Nodes -> [Nodes -> 0..MaxSids]]
    /\ nextAdmission \in [Nodes -> 0..MaxSids]
    /\ incoming \subseteq Entries
    /\ tmp \in Tables
    /\ pending \in [Raws -> [Rids -> Attempts \cup {0}]]
    /\ processed \in [Nodes -> Seq(Requests)]
    /\ \A n \in Nodes : Len(processed[n]) <= DedupSize
    /\ p2p \in [Nodes -> [Nodes -> Sids \cup {0}]]
    /\ paused \subseteq Sids /\ ready \subseteq Sids /\ orphans \subseteq Raws

\* Session ids are given in their order, and no node has given more tokens than there are ids.
Numbered ==
    \E k \in 0..MaxSids :
        /\ \A s \in Sids : task[s] # NoTask <=> s <= k
        /\ \A n \in Nodes : nextAdmission[n] <= k

\* A node serves one handshake per remote, which has the remote's admission and, once it has
\* started, the entry for its answer; and there are not too many of them.
Admissions ==
    /\ \A s \in Serving :
        /\ task[s].token # 0
        /\ admitted[task[s].node][task[s].peer] = task[s].token
    /\ \A s, t \in Serving : task[s].node = task[t].node /\ task[s].peer = task[t].peer => s = t
    /\ \A n, p \in Nodes : admitted[n][p] # 0 =>
        \E s \in Serving : task[s].node = n /\ task[s].peer = p
    /\ \A e \in incoming :
        e.sid \in Guarded /\ task[e.sid].node = e.node /\ task[e.sid].peer = e.remote
    /\ \A n \in Nodes : Cardinality({q \in Nodes : admitted[n][q] # 0}) <= MaxIncoming

(***************************************************************************)
(* The leases of temporary sessions, with the holders T and V (attempts    *)
(* and tasks in either order), whose nodes and sessions are in f and g: no *)
(* two entries have one session, none has a session that was dropped, the  *)
(* counters are exact, and who holds a lease finds the session.            *)
(***************************************************************************)
Users(T, f, n, w) == {x \in T : f[x].node = n /\ f[x].raw = w}

Placed(tm, T, f, lost) ==
    \A x \in T :
        /\ f[x].node \in Nodes /\ f[x].peer \in Nodes /\ f[x].raw \in Raws
        /\ f[x].raw \in {tm[f[x].node][f[x].peer].raw} \cup lost

Balanced(tm, T, f, V, g, lost) ==
    /\ \A n, p, m, q \in Nodes : tm[n][p].raw # 0 /\ tm[m][q].raw = tm[n][p].raw => m = n /\ q = p
    /\ \A n, p \in Nodes :
        /\ tm[n][p].raw \notin lost
        /\ tm[n][p].raw = 0 <=> tm[n][p].users = 0
        /\ tm[n][p].users = Cardinality(Users(T, f, n, tm[n][p].raw))
                              + Cardinality(Users(V, g, n, tm[n][p].raw))
    /\ Placed(tm, T, f, lost) /\ Placed(tm, V, g, lost)

Leases == Balanced(tmp, Trying, att, Guarded, task, orphans)

\* Every lease may use one number for a temporary session, so there is one left for the next.
Begun == {a \in Attempts : att[a] # NotStarted}
Past == {s \in Sids : task[s].pc \notin {"none", "admitted"}}
Fits == Cardinality(UsedRaws \ {0}) <= Cardinality(Begun) + Cardinality(Past)

\* What packets tell: a last response was sent by a responder that has registered the session,
\* a ResumeForwarding by an initiator that has; and a response came from the peer.
Known(s) == \E a \in Attempts : att[a].pc = "done" /\ att[a].sid = s

Honest(m) ==
    /\ m.kind \in {"hello", "challenge", "answer", "final"} => m.rid \in Rids
    /\ m.kind = "final" =>
        [sid |-> m.sid, node |-> m.from, peer |-> m.to, ch |-> m.ch] \in registered
    /\ m.kind = "resume" => Known(m.sid)

Told ==
    /\ \A m \in net : Honest(m)
    /\ \A a \in Trying : att[a].got # Nothing =>
        att[a].got \in net /\ att[a].got.to = att[a].node /\ att[a].got.from = att[a].peer
    /\ InitiatorAgrees

\* A responder that waits to be resumed has paused its session, or the initiator has it.
Resumes ==
    /\ \A s \in Sids : task[s].pc = "resume" => s \in paused \/ Known(s)
    /\ ResponderAgrees

\* The inductive invariant.
Inv == Typed /\ Numbered /\ Admissions /\ Leases /\ Fits /\ PendingIsAwaited /\ Told /\ Resumes

-----------------------------------------------------------------------------
(* Facts about numbers, states and sets *)

\* A set of natural numbers that is not empty has a least element, which Min is.
LEMMA MinFact ==
    ASSUME NEW S, S \subseteq Nat, S # {}
    PROVE  Min(S) \in S /\ \A y \in S : Min(S) <= y
<1>1. IsWellFoundedOn(OpToRel(<, Nat), Nat)
    BY NatLessThanWellFounded, Zenon
<1>2. PICK x \in S : \A y \in S : ~(<<y, x>> \in OpToRel(<, Nat))
    BY <1>1, WFMin, Zenon
<1>3. \A y \in S : x <= y
    <2> TAKE y \in S
    <2>1. ~(<<y, x>> \in OpToRel(<, Nat))
        BY <1>2, Zenon
    <2>2. y \in Nat /\ x \in Nat
        BY Zenon
    <2>3. ~(y < x)
        BY <2>1, <2>2 DEF OpToRel
    <2> QED BY <2>2, <2>3
<1> QED BY <1>3, Zenon DEF Min

\* Ids and numbers of sessions are finite ranges without zero.
LEMMA NumberFact ==
    /\ IsFiniteSet(Attempts) /\ Cardinality(Attempts) \in Nat /\ MaxSids \in Nat
    /\ IsFiniteSet(Sids) /\ Cardinality(Sids) = MaxSids /\ Sids \subseteq Nat /\ 0 \notin Sids
    /\ IsFiniteSet(Raws) /\ Cardinality(Raws) = Cardinality(Attempts) + MaxSids
    /\ Raws \subseteq Nat /\ 0 \notin Raws
<1>1. IsFiniteSet(Attempts) /\ MaxSids \in Nat
    BY HandshakeAssumption, Zenon
<1>2. Cardinality(Attempts) \in Nat
    BY <1>1, FS_CardinalityType, Zenon
<1>3. \A k \in Nat : IsFiniteSet(1..k) /\ Cardinality(1..k) = k /\ 1..k \subseteq Nat /\ 0 \notin 1..k
    <2> TAKE k \in Nat
    <2>1. IsFiniteSet(1..k) /\ Cardinality(1..k) = IF 1 > k THEN 0 ELSE k - 1 + 1
        BY FS_Interval
    <2> QED BY <2>1
<1>4. Cardinality(Attempts) + MaxSids \in Nat
    BY <1>1, <1>2
<1> QED BY <1>1, <1>2, <1>3, <1>4, Zenon DEF Sids, Raws

\* A part of a finite set is finite, and not larger.
LEMMA PartFact ==
    ASSUME NEW S, IsFiniteSet(S), NEW T, T \subseteq S
    PROVE  /\ IsFiniteSet(T) /\ Cardinality(T) \in Nat /\ Cardinality(S) \in Nat
           /\ Cardinality(T) <= Cardinality(S)
<1>1. IsFiniteSet(T) /\ Cardinality(T) <= Cardinality(S)
    BY FS_Subset, Zenon
<1> QED BY <1>1, FS_CardinalityType, Zenon

\* The place of an attempt tells which record it has.
LEMMA AttFact ==
    ASSUME NEW x \in AttStates
    PROVE  /\ x.pc \in {"idle", "hello", "answer", "done", "failed"}
           /\ x \in Running <=> x.pc \in {"hello", "answer"}
           /\ x \in Done <=> x.pc = "done"
           /\ x = NotStarted <=> x.pc = "idle"
<1>1. CASE x \in Running
    BY <1>1 DEF Running, Done, NotStarted, Failed
<1>2. CASE x \in Done
    BY <1>2 DEF Running, Done, NotStarted, Failed
<1>3. CASE x = NotStarted
    BY <1>3, Zenon DEF Running, Done, NotStarted, Failed
<1>4. CASE x = Failed
    BY <1>4, Zenon DEF Running, Done, NotStarted, Failed
<1> QED BY <1>1, <1>2, <1>3, <1>4, Zenon DEF AttStates

\* The place of a task tells which record it has.
LEMMA TaskFact ==
    ASSUME NEW x \in TaskStates
    PROVE  /\ x.pc \in {"none", "admitted", "init", "wait", "resume", "ended"}
           /\ x \in Early <=> x.pc = "admitted"
           /\ x \in Late <=> x.pc \in {"init", "wait", "resume"}
           /\ x = NoTask <=> x.pc = "none"
           /\ x = Ended <=> x.pc = "ended"
<1>1. CASE x \in Early
    BY <1>1 DEF Early, Late, NoTask, Ended
<1>2. CASE x \in Late
    BY <1>2 DEF Early, Late, NoTask, Ended
<1>3. CASE x = NoTask
    BY <1>3, Zenon DEF Early, Late, NoTask, Ended
<1>4. CASE x = Ended
    BY <1>4, Zenon DEF Early, Late, NoTask, Ended
<1> QED BY <1>1, <1>2, <1>3, <1>4, Zenon DEF TaskStates

\* Who runs, serves and holds guards.
LEMMA HolderFact ==
    ASSUME Typed
    PROVE  /\ Trying = {a \in Attempts : att[a] \in Running}
           /\ Serving = {s \in Sids : task[s] \in Early \cup Late}
           /\ Guarded = {s \in Sids : task[s] \in Late}
           /\ IsFiniteSet(Trying) /\ IsFiniteSet(Guarded)
<1>1. \A a \in Attempts : att[a] \in AttStates
    BY Zenon DEF Typed
<1>2. \A s \in Sids : task[s] \in TaskStates
    BY Zenon DEF Typed
<1>3. Trying = {a \in Attempts : att[a] \in Running}
    BY <1>1, AttFact, Zenon DEF Trying
<1>4. Serving = {s \in Sids : task[s] \in Early \cup Late}
    BY <1>2, TaskFact, Zenon DEF Serving
<1>5. Guarded = {s \in Sids : task[s] \in Late}
    BY <1>2, <1>4, TaskFact, Zenon DEF Guarded
<1>6. Trying \subseteq Attempts /\ Guarded \subseteq Sids
    BY <1>3, <1>5, Zenon
<1>7. IsFiniteSet(Trying) /\ IsFiniteSet(Guarded)
    BY <1>6, NumberFact, PartFact, Zenon
<1> QED BY <1>3, <1>4, <1>5, <1>7, Zenon

-----------------------------------------------------------------------------
(* Leases of temporary sessions *)

\* Two functions place their holders alike.
Same(T, f, h) == \A x \in T : h[x].node = f[x].node /\ h[x].peer = f[x].peer /\ h[x].raw = f[x].raw

\* Who uses a session is a finite set.
LEMMA UsersFact ==
    ASSUME NEW T, IsFiniteSet(T), NEW f, NEW n, NEW w
    PROVE  IsFiniteSet(Users(T, f, n, w)) /\ Cardinality(Users(T, f, n, w)) \in Nat
<1>1. Users(T, f, n, w) \subseteq T
    BY Zenon DEF Users
<1> QED BY <1>1, PartFact, Zenon

\* A further holder is one more user of its own session.
LEMMA UsersAdd ==
    ASSUME NEW T, IsFiniteSet(T), NEW f, NEW h, NEW x, x \notin T, Same(T, f, h), NEW n, NEW w
    PROVE  /\ h[x].node = n /\ h[x].raw = w =>
                Cardinality(Users(T \cup {x}, h, n, w)) = Cardinality(Users(T, f, n, w)) + 1
           /\ ~(h[x].node = n /\ h[x].raw = w) => Users(T \cup {x}, h, n, w) = Users(T, f, n, w)
<1>1. PICK S : S = Users(T, f, n, w)
    BY Zenon
<1>2. x \notin S
    BY <1>1, Zenon DEF Users
<1>3. IsFiniteSet(S)
    BY <1>1, UsersFact, Zenon
<1>4. ASSUME h[x].node = n /\ h[x].raw = w
      PROVE  Cardinality(Users(T \cup {x}, h, n, w)) = Cardinality(S) + 1
    <2>1. Users(T \cup {x}, h, n, w) = S \cup {x}
        BY <1>1, <1>4, Zenon DEF Users, Same
    <2>2. Cardinality(S \cup {x}) = Cardinality(S) + 1
        BY <1>2, <1>3, FS_AddElement, Zenon
    <2> QED BY <2>1, <2>2, Zenon
<1>5. ASSUME ~(h[x].node = n /\ h[x].raw = w)
      PROVE  Users(T \cup {x}, h, n, w) = S
    BY <1>1, <1>5, Zenon DEF Users, Same
<1> QED BY <1>1, <1>4, <1>5, Zenon

\* A holder less is one user less of its own session.
LEMMA UsersDrop ==
    ASSUME NEW T, IsFiniteSet(T), NEW f, NEW h, NEW x \in T, Same(T \ {x}, f, h), NEW n, NEW w
    PROVE  /\ f[x].node = n /\ f[x].raw = w =>
                Cardinality(Users(T \ {x}, h, n, w)) = Cardinality(Users(T, f, n, w)) - 1
           /\ ~(f[x].node = n /\ f[x].raw = w) => Users(T \ {x}, h, n, w) = Users(T, f, n, w)
<1>1. PICK S : S = Users(T, f, n, w)
    BY Zenon
<1>2. IsFiniteSet(S)
    BY <1>1, UsersFact, Zenon
<1>3. ASSUME f[x].node = n /\ f[x].raw = w
      PROVE  Cardinality(Users(T \ {x}, h, n, w)) = Cardinality(S) - 1
    <2>1. Users(T \ {x}, h, n, w) = S \ {x} /\ x \in S
        BY <1>1, <1>3, Zenon DEF Users, Same
    <2>2. Cardinality(S \ {x}) = Cardinality(S) - 1
        BY <2>1, <1>2, FS_RemoveElement, Zenon
    <2> QED BY <2>1, <2>2, Zenon
<1>4. ASSUME ~(f[x].node = n /\ f[x].raw = w)
      PROVE  Users(T \ {x}, h, n, w) = S
    BY <1>1, <1>4, Zenon DEF Users, Same
<1> QED BY <1>1, <1>3, <1>4, Zenon

\* Attempts and tasks hold leases in the same way.
LEMMA BalancedSwap ==
    ASSUME NEW tm, NEW T, NEW f, NEW V, NEW g, NEW lost, IsFiniteSet(T), IsFiniteSet(V),
           Balanced(tm, T, f, V, g, lost)
    PROVE  Balanced(tm, V, g, T, f, lost)
<1>1. ASSUME NEW n \in Nodes, NEW p \in Nodes
      PROVE  tm[n][p].users = Cardinality(Users(V, g, n, tm[n][p].raw))
                                + Cardinality(Users(T, f, n, tm[n][p].raw))
    <2>1. tm[n][p].users = Cardinality(Users(T, f, n, tm[n][p].raw))
                             + Cardinality(Users(V, g, n, tm[n][p].raw))
        BY Zenon DEF Balanced
    <2>2. /\ Cardinality(Users(T, f, n, tm[n][p].raw)) \in Nat
          /\ Cardinality(Users(V, g, n, tm[n][p].raw)) \in Nat
        BY UsersFact, Zenon
    <2> QED BY <2>1, <2>2
<1> QED BY <1>1, Zenon DEF Balanced

\* A step that moves no holder keeps the leases.
LEMMA BalancedSame ==
    ASSUME NEW tm, NEW T, NEW f, NEW V, NEW g, NEW lost, NEW h, NEW k,
           Balanced(tm, T, f, V, g, lost), Same(T, f, h), Same(V, g, k)
    PROVE  Balanced(tm, T, h, V, k, lost)
<1>1. \A n, w : Users(T, h, n, w) = Users(T, f, n, w) /\ Users(V, k, n, w) = Users(V, g, n, w)
    BY Zenon DEF Users, Same
<1>2. Placed(tm, T, h, lost) /\ Placed(tm, V, k, lost)
    BY Zenon DEF Placed, Same, Balanced
<1> QED BY <1>1, <1>2 DEF Balanced

\* x takes a lease of the session w with p at n: it is in the table, or nobody has it.
Takes(tm, T, f, V, g, lost, h, x, n, p, w, tn) ==
    /\ tm \in Tables /\ IsFiniteSet(T) /\ IsFiniteSet(V) /\ Balanced(tm, T, f, V, g, lost)
    /\ x \notin T /\ Same(T, f, h) /\ n \in Nodes /\ p \in Nodes /\ w \in Raws
    /\ h[x].node = n /\ h[x].peer = p /\ h[x].raw = w
    /\ \/ w = tm[n][p].raw
       \/ /\ tm[n][p].raw = 0 /\ w \notin lost /\ \A m, q \in Nodes : tm[m][q].raw # w
          /\ \A y \in T : f[y].raw # w
          /\ \A y \in V : g[y].raw # w
    /\ tn = [tm EXCEPT ![n][p] = [raw |-> w, users |-> @.users + 1]]

\* What the drop of a guard of the session w makes of an entry.
Less(e, w) ==
    IF e.raw # w THEN e ELSE IF e.users = 1 THEN NoTemporary ELSE [raw |-> w, users |-> e.users - 1]

\* x drops its guard of the session w with p at n.
Drops(tm, T, f, V, g, lost, h, x, n, p, w, tn) ==
    /\ tm \in Tables /\ IsFiniteSet(T) /\ IsFiniteSet(V) /\ Balanced(tm, T, f, V, g, lost)
    /\ lost \subseteq Raws /\ x \in T /\ Same(T \ {x}, f, h)
    /\ f[x].node = n /\ f[x].peer = p /\ f[x].raw = w
    /\ tn = [tm EXCEPT ![n][p] = Less(@, w)]

\* lease_temporary_session keeps the leases exact.
LEMMA LeaseTaken ==
    ASSUME NEW tm, NEW T, NEW f, NEW V, NEW g, NEW lost, NEW h, NEW x, NEW n, NEW p, NEW w, NEW tn,
           Takes(tm, T, f, V, g, lost, h, x, n, p, w, tn)
    PROVE  tn \in Tables /\ Balanced(tn, T \cup {x}, h, V, g, lost)
<1> USE DEF Takes
<1>1. /\ \A m, q \in Nodes : tm[m][q].raw \in Raws \cup {0} /\ tm[m][q].users \in Nat
      /\ w # 0
    BY NumberFact, Zenon DEF Tables
<1>2. tn \in Tables
    <2>1. tm[n][p].users + 1 \in Nat
        BY <1>1
    <2> QED BY <1>1, <2>1, Zenon DEF Tables
<1>3. /\ tn[n][p].raw = w /\ tn[n][p].users = tm[n][p].users + 1
      /\ \A m, q \in Nodes : m # n \/ q # p => tn[m][q] = tm[m][q]
    BY Zenon DEF Tables
<1>4. /\ \A m, q \in Nodes : m # n \/ q # p => tm[m][q].raw # w
      /\ w \notin lost
    BY <1>1 DEF Balanced
<1>5. \A m, q, k, l \in Nodes : tn[m][q].raw # 0 /\ tn[k][l].raw = tn[m][q].raw => k = m /\ l = q
    <2> TAKE m, q, k, l \in Nodes
    <2> HAVE tn[m][q].raw # 0 /\ tn[k][l].raw = tn[m][q].raw
    <2>1. CASE m = n /\ q = p
        BY <2>1, <1>3, <1>4
    <2>2. CASE (m # n \/ q # p) /\ k = n /\ l = p
        BY <2>2, <1>3, <1>4
    <2>3. CASE (m # n \/ q # p) /\ (k # n \/ l # p)
        BY <2>3, <1>3 DEF Balanced
    <2> QED BY <2>1, <2>2, <2>3, Zenon
<1>6. Placed(tn, T \cup {x}, h, lost) /\ Placed(tn, V, g, lost)
    <2>1. ASSUME NEW k \in Nodes, NEW l \in Nodes, NEW r \in Raws, r \in {tm[k][l].raw} \cup lost
          PROVE  r \in {tn[k][l].raw} \cup lost
        <3>1. tm[k][l].raw = r /\ k = n /\ l = p => w = r
            BY <1>1, <2>1, NumberFact, Zenon
        <3> QED BY <2>1, <3>1, <1>3, ZenonT(40)
    <2>2. ASSUME NEW y \in T
          PROVE  /\ h[y].node \in Nodes /\ h[y].peer \in Nodes /\ h[y].raw \in Raws
                 /\ h[y].raw \in {tn[h[y].node][h[y].peer].raw} \cup lost
        <3>1. /\ h[y].node \in Nodes /\ h[y].peer \in Nodes /\ h[y].raw \in Raws
              /\ h[y].raw \in {tm[h[y].node][h[y].peer].raw} \cup lost
            BY Zenon DEF Balanced, Placed, Same
        <3> QED BY <3>1, <2>1, Zenon
    <2>3. Placed(tn, T \cup {x}, h, lost)
        BY <2>2, <1>3, Zenon DEF Placed
    <2>4. Placed(tn, V, g, lost)
        BY <2>1, Zenon DEF Balanced, Placed
    <2> QED BY <2>3, <2>4, Zenon
<1>7. ASSUME NEW m \in Nodes, NEW q \in Nodes
      PROVE  /\ tn[m][q].raw \notin lost
             /\ tn[m][q].raw = 0 <=> tn[m][q].users = 0
             /\ tn[m][q].users = Cardinality(Users(T \cup {x}, h, m, tn[m][q].raw))
                                   + Cardinality(Users(V, g, m, tn[m][q].raw))
    <2>1. CASE m # n \/ q # p
        <3>1. tn[m][q] = tm[m][q] /\ tm[m][q].raw # w
            BY <2>1, <1>3, <1>4, ZenonT(40)
        <3>2. Users(T \cup {x}, h, m, tm[m][q].raw) = Users(T, f, m, tm[m][q].raw)
            BY <3>1, Zenon DEF Users, Same
        <3> QED BY <3>1, <3>2 DEF Balanced
    <2>2. CASE m = n /\ q = p
        <3> DEFINE j == Cardinality(Users(T, f, n, w))
                   k == Cardinality(Users(V, g, n, w))
        <3>1. Cardinality(Users(T \cup {x}, h, n, w)) = j + 1
            BY UsersAdd
        <3>2. j \in Nat /\ k \in Nat
            BY UsersFact, Zenon
        <3>3. tm[n][p].users = j + k
            <4>1. CASE w = tm[n][p].raw
                BY <4>1 DEF Balanced
            <4>2. CASE w # tm[n][p].raw
                <5>1. Users(T, f, n, w) = {} /\ Users(V, g, n, w) = {} /\ tm[n][p].raw = 0
                    BY <4>2, Zenon DEF Users
                <5>2. j = 0 /\ k = 0 /\ tm[n][p].users = 0
                    BY <5>1, FS_EmptySet, ZenonT(40) DEF Balanced
                <5> QED BY <5>2
            <4> QED BY <4>1, <4>2, Zenon
        <3> HIDE DEF j, k
        <3>4. tm[n][p].users + 1 = (j + 1) + k /\ tm[n][p].users + 1 # 0
            BY <3>2, <3>3
        <3> QED BY <2>2, <3>1, <3>4, <1>1, <1>3, <1>4 DEF j, k
    <2> QED BY <2>1, <2>2, Zenon
<1> QED BY <1>2, <1>5, <1>6, <1>7, Zenon DEF Balanced

\* The drop of a guard: the last one that was made for the session in the table removes it.
LEMMA LeaseDropped ==
    ASSUME NEW tm, NEW T, NEW f, NEW V, NEW g, NEW lost, NEW h, NEW x, NEW n, NEW p, NEW w, NEW tn,
           Drops(tm, T, f, V, g, lost, h, x, n, p, w, tn)
    PROVE  tn \in Tables /\ Balanced(tn, T \ {x}, h, V, g, lost)
<1> USE DEF Drops
<1>1. /\ n \in Nodes /\ p \in Nodes /\ w \in Raws /\ w # 0
      /\ w \in {tm[n][p].raw} \cup lost
    BY NumberFact, ZenonT(40) DEF Balanced, Placed
<1>2. /\ tm[n][p] \in [raw : Raws \cup {0}, users : Nat]
      /\ \A m, q \in Nodes : tm[m][q].raw \in Raws \cup {0} /\ tm[m][q].users \in Nat
    BY <1>1, Zenon DEF Tables
<1>3. /\ \A m, q \in Nodes : m # n \/ q # p => tn[m][q] = tm[m][q]
      /\ tn[n][p] = Less(tm[n][p], w)
    BY <1>1, Zenon DEF Tables
<1>4. \A m, q \in Nodes : m # n \/ q # p => tm[m][q].raw # w
    BY <1>1 DEF Balanced
<1> DEFINE j == Cardinality(Users(T, f, n, w))
           k == Cardinality(Users(V, g, n, w))
<1>5. j \in Nat /\ k \in Nat /\ x \in Users(T, f, n, w) /\ IsFiniteSet(Users(T, f, n, w))
    <2>1. j \in Nat /\ k \in Nat /\ IsFiniteSet(Users(T, f, n, w))
        BY UsersFact, Zenon
    <2>2. x \in Users(T, f, n, w)
        BY Zenon DEF Users
    <2> QED BY <2>1, <2>2, Zenon
<1>6. j # 0
    BY <1>5, FS_EmptySet, Zenon
<1>7. tm[n][p].raw = w => tm[n][p].users = j + k
    BY <1>1 DEF Balanced
<1>8. \A r : r \notin Raws => Users(T \ {x}, h, n, r) = {} /\ Users(V, g, n, r) = {}
    BY DEF Users, Balanced, Placed, Same
<1>9. ASSUME NEW m \in Nodes, NEW q \in Nodes, m # n \/ q # p \/ tm[n][p].raw # w
      PROVE  /\ tn[m][q] = tm[m][q]
             /\ tn[m][q].raw \notin lost
             /\ tn[m][q].raw = 0 <=> tn[m][q].users = 0
             /\ tn[m][q].users = Cardinality(Users(T \ {x}, h, m, tn[m][q].raw))
                                   + Cardinality(Users(V, g, m, tn[m][q].raw))
    <2>1. tn[m][q] = tm[m][q]
        BY <1>9, <1>3, Zenon DEF Less
    <2>2. tm[m][q].raw # w
        BY <1>9, <1>1, <1>4, Zenon DEF Balanced
    <2>3. Users(T \ {x}, h, m, tm[m][q].raw) = Users(T, f, m, tm[m][q].raw)
        BY <2>2, Zenon DEF Users, Same
    <2>4. /\ tm[m][q].raw \notin lost
          /\ tm[m][q].raw = 0 <=> tm[m][q].users = 0
          /\ tm[m][q].users = Cardinality(Users(T, f, m, tm[m][q].raw))
                                + Cardinality(Users(V, g, m, tm[m][q].raw))
        BY Zenon DEF Balanced
    <2> QED BY <2>1, <2>3, <2>4, Zenon
<1>10. Cardinality(Users(T \ {x}, h, n, w)) = j - 1
    BY UsersDrop
<1>11. ASSUME tm[n][p].raw = w
       PROVE  /\ tn[n][p] \in [raw : Raws \cup {0}, users : Nat]
              /\ tn[n][p].raw \in {0, w}
              /\ tn[n][p].raw \notin lost
              /\ tn[n][p].raw = 0 <=> tn[n][p].users = 0
              /\ tn[n][p].users = Cardinality(Users(T \ {x}, h, n, tn[n][p].raw))
                                    + Cardinality(Users(V, g, n, tn[n][p].raw))
              /\ tn[n][p].raw # w => \A y \in T \ {x} : ~(f[y].node = n /\ f[y].raw = w)
              /\ tn[n][p].raw # w => \A y \in V : ~(g[y].node = n /\ g[y].raw = w)
    <2>1. CASE tm[n][p].users = 1
        <3>1. tn[n][p] = NoTemporary /\ NoTemporary.raw = 0 /\ NoTemporary.users = 0
            BY <2>1, <1>3, <1>11, Zenon DEF NoTemporary, Less
        <3>2. Cardinality(Users(T \ {x}, h, n, 0)) = 0 /\ Cardinality(Users(V, g, n, 0)) = 0
            BY <1>8, NumberFact, FS_EmptySet, Zenon
        <3>3. j = 1 /\ k = 0
            BY <2>1, <1>5, <1>6, <1>7, <1>11
        <3>4. Users(V, g, n, w) = {}
            BY <3>3, FS_EmptySet, UsersFact, Zenon
        <3>5. Users(T, f, n, w) = {x}
            BY <3>3, <1>5, FS_Singleton
        <3>6. NoTemporary \in [raw : Raws \cup {0}, users : Nat]
            BY DEF NoTemporary
        <3>7. 0 \notin lost
            BY NumberFact, Zenon
        <3>8. /\ \A y \in T \ {x} : ~(f[y].node = n /\ f[y].raw = w)
              /\ \A y \in V : ~(g[y].node = n /\ g[y].raw = w)
            BY <3>4, <3>5, Zenon DEF Users
        <3>9. 0 = 0 + 0
            OBVIOUS
        <3> QED BY <3>1, <3>2, <3>6, <3>7, <3>8, <3>9, Zenon
    <2>2. CASE tm[n][p].users # 1
        <3>1. tn[n][p] = [raw |-> w, users |-> tm[n][p].users - 1]
            BY <2>2, <1>3, <1>11, Zenon DEF Less
        <3>2. /\ tm[n][p].users - 1 \in Nat /\ tm[n][p].users - 1 # 0
              /\ tm[n][p].users - 1 = (j - 1) + k
            BY <2>2, <1>5, <1>6, <1>7, <1>11
        <3> HIDE DEF j, k
        <3>3. /\ tn[n][p].raw = w /\ tn[n][p].users = tm[n][p].users - 1
              /\ tn[n][p] \in [raw : Raws \cup {0}, users : Nat]
            BY <3>1, <3>2, <1>1
        <3>4. w \notin lost
            BY <1>1, <1>11, ZenonT(40) DEF Balanced
        <3> QED BY <3>2, <3>3, <3>4, <1>1, <1>10, Zenon DEF k
    <2> QED BY <2>1, <2>2, Zenon
<1> HIDE DEF j, k
<1>12. tn \in Tables
    <2>1. tm[n][p].raw = w => Less(tm[n][p], w) \in [raw : Raws \cup {0}, users : Nat]
        BY <1>3, <1>11, Zenon
    <2>2. tm[n][p].raw # w => Less(tm[n][p], w) \in [raw : Raws \cup {0}, users : Nat]
        BY <1>2, Zenon DEF Less
    <2>3. Less(tm[n][p], w) \in [raw : Raws \cup {0}, users : Nat]
        BY <2>1, <2>2, Zenon
    <2> QED BY <2>3, <1>1, Zenon DEF Tables
<1>13. \A m, q \in Nodes : tn[m][q].raw # 0 => tn[m][q].raw = tm[m][q].raw
    <2> TAKE m, q \in Nodes
    <2>1. CASE m # n \/ q # p \/ tm[n][p].raw # w
        BY <2>1, <1>9, Zenon
    <2>2. CASE m = n /\ q = p /\ tm[n][p].raw = w
        BY <2>2, <1>11, Zenon
    <2> QED BY <2>1, <2>2, Zenon
<1>14. \A m, q, a, b \in Nodes : tn[m][q].raw # 0 /\ tn[a][b].raw = tn[m][q].raw => a = m /\ b = q
    BY <1>13 DEF Balanced
<1>15. ASSUME NEW a \in Nodes, NEW b \in Nodes, NEW r \in Raws, r \in {tm[a][b].raw} \cup lost,
              a = n /\ r = w /\ tm[n][p].raw = w => tn[n][p].raw = w
       PROVE  r \in {tn[a][b].raw} \cup lost
    <2>1. CASE a # n \/ b # p \/ tm[n][p].raw # w
        BY <2>1, <1>9, <1>15, Zenon
    <2>2. CASE a = n /\ b = p /\ tm[n][p].raw = w
        BY <2>2, <1>15, Zenon
    <2> QED BY <2>1, <2>2, Zenon
<1>16. Placed(tn, T \ {x}, h, lost)
    <2>1. ASSUME NEW y \in T \ {x}
          PROVE  /\ h[y].node \in Nodes /\ h[y].peer \in Nodes /\ h[y].raw \in Raws
                 /\ h[y].raw \in {tn[h[y].node][h[y].peer].raw} \cup lost
        <3>1. /\ f[y].node \in Nodes /\ f[y].peer \in Nodes /\ f[y].raw \in Raws
              /\ f[y].raw \in {tm[f[y].node][f[y].peer].raw} \cup lost
              /\ h[y].node = f[y].node /\ h[y].peer = f[y].peer /\ h[y].raw = f[y].raw
            BY Zenon DEF Balanced, Placed, Same
        <3>2. f[y].node = n /\ f[y].raw = w /\ tm[n][p].raw = w => tn[n][p].raw = w
            BY <1>11, Zenon
        <3> QED BY <3>1, <3>2, <1>15, Zenon
    <2> QED BY <2>1, Zenon DEF Placed
<1>17. Placed(tn, V, g, lost)
    <2>1. ASSUME NEW y \in V
          PROVE  /\ g[y].node \in Nodes /\ g[y].peer \in Nodes /\ g[y].raw \in Raws
                 /\ g[y].raw \in {tn[g[y].node][g[y].peer].raw} \cup lost
        <3>1. /\ g[y].node \in Nodes /\ g[y].peer \in Nodes /\ g[y].raw \in Raws
              /\ g[y].raw \in {tm[g[y].node][g[y].peer].raw} \cup lost
            BY Zenon DEF Balanced, Placed
        <3>2. g[y].node = n /\ g[y].raw = w /\ tm[n][p].raw = w => tn[n][p].raw = w
            BY <1>11, Zenon
        <3> QED BY <3>1, <3>2, <1>15, Zenon
    <2> QED BY <2>1, Zenon DEF Placed
<1>18. \A m, q \in Nodes :
          /\ tn[m][q].raw \notin lost
          /\ tn[m][q].raw = 0 <=> tn[m][q].users = 0
          /\ tn[m][q].users = Cardinality(Users(T \ {x}, h, m, tn[m][q].raw))
                                + Cardinality(Users(V, g, m, tn[m][q].raw))
    BY <1>9, <1>11, ZenonT(40)
<1> QED BY <1>12, <1>14, <1>16, <1>17, <1>18, Zenon DEF Balanced

\* Sizes: a set that shrinks keeps to a bound that grows.
LEMMA CountKept ==
    ASSUME NEW U, NEW B, NEW P, NEW U2, NEW B2, NEW P2,
           IsFiniteSet(U), IsFiniteSet(B2), IsFiniteSet(P2),
           Cardinality(U) <= Cardinality(B) + Cardinality(P),
           U2 \subseteq U, B \subseteq B2, P \subseteq P2
    PROVE  Cardinality(U2) <= Cardinality(B2) + Cardinality(P2)
<1>1. Cardinality(U2) <= Cardinality(U) /\ Cardinality(U2) \in Nat /\ Cardinality(U) \in Nat
    BY PartFact, Zenon
<1>2. Cardinality(B) <= Cardinality(B2) /\ Cardinality(B) \in Nat /\ Cardinality(B2) \in Nat
    BY PartFact, Zenon
<1>3. Cardinality(P) <= Cardinality(P2) /\ Cardinality(P) \in Nat /\ Cardinality(P2) \in Nat
    BY PartFact, Zenon
<1> QED BY <1>1, <1>2, <1>3

\* The temporary sessions that are known, the attempts and the tasks are finitely many.
LEMMA CountFact ==
    ASSUME Typed
    PROVE  /\ UsedRaws \ {0} \subseteq Raws /\ IsFiniteSet(UsedRaws \ {0})
           /\ Begun \subseteq Attempts /\ Past \subseteq Sids
           /\ IsFiniteSet(Begun) /\ IsFiniteSet(Past)
<1>1. \A a \in Trying : att[a].raw \in Raws
    BY HolderFact, Zenon DEF Running
<1>2. \A s \in Guarded : task[s].raw \in Raws
    BY HolderFact, Zenon DEF Late
<1>3. \A n, p \in Nodes : tmp[n][p].raw \in Raws \cup {0}
    BY DEF Typed, Tables
<1>4. orphans \subseteq Raws
    BY Zenon DEF Typed
<1>5. UsedRaws \ {0} \subseteq Raws
    BY <1>1, <1>2, <1>3, <1>4 DEF UsedRaws
<1>6. Begun \subseteq Attempts /\ Past \subseteq Sids
    BY Zenon DEF Begun, Past
<1> QED BY <1>5, <1>6, NumberFact, PartFact, Zenon

\* A step after which one more session is known, and one more attempt or task has begun.
LEMMA FitsGrows ==
    ASSUME Typed, Fits, NEW w, NEW x, UsedRaws' \ {0} \subseteq (UsedRaws \ {0}) \cup {w},
           Begun \subseteq Begun', Past \subseteq Past', x \in (Begun' \ Begun) \cup (Past' \ Past)
    PROVE  Fits'
<1>1. PICK U, B, P, U2, B2, P2 :
         U = UsedRaws \ {0} /\ B = Begun /\ P = Past /\ U2 = UsedRaws' \ {0} /\ B2 = Begun' /\ P2 = Past'
    BY Zenon
<1>2. /\ IsFiniteSet(U) /\ IsFiniteSet(B2) /\ IsFiniteSet(P2)
      /\ Cardinality(U) <= Cardinality(B) + Cardinality(P)
      /\ U2 \subseteq U \cup {w} /\ B \subseteq B2 /\ P \subseteq P2
      /\ x \in B2 \ B \/ x \in P2 \ P
    <2>1. Begun' \subseteq Attempts /\ Past' \subseteq Sids
        BY Zenon DEF Begun, Past
    <2>2. IsFiniteSet(Begun') /\ IsFiniteSet(Past')
        BY <2>1, NumberFact, PartFact, Zenon
    <2>3. IsFiniteSet(UsedRaws \ {0}) /\ Cardinality(UsedRaws \ {0}) <= Cardinality(Begun) + Cardinality(Past)
        BY CountFact, Zenon DEF Fits
    <2> QED BY <1>1, <2>2, <2>3, Zenon
<1>3. /\ IsFiniteSet(U \cup {w})
      /\ Cardinality(U \cup {w}) = IF w \in U THEN Cardinality(U) ELSE Cardinality(U) + 1
    BY <1>2, FS_AddElement, Zenon
<1>4. Cardinality(U) \in Nat /\ Cardinality(U2) \in Nat /\ Cardinality(U2) <= Cardinality(U \cup {w})
    BY <1>2, <1>3, PartFact, Zenon
<1>5. Cardinality(U2) <= Cardinality(U) + 1
    BY <1>3, <1>4
<1>6. ASSUME NEW S, NEW T, IsFiniteSet(T), S \subseteq T
      PROVE  /\ Cardinality(S) \in Nat /\ Cardinality(T) \in Nat /\ Cardinality(S) <= Cardinality(T)
             /\ x \in T \ S => Cardinality(S) + 1 <= Cardinality(T)
    <2>1. IsFiniteSet(S) /\ Cardinality(S) \in Nat /\ Cardinality(T) \in Nat /\ Cardinality(S) <= Cardinality(T)
        BY <1>6, PartFact, Zenon
    <2>2. ASSUME x \in T \ S
          PROVE  Cardinality(S) + 1 <= Cardinality(T)
        <3>1. Cardinality(S \cup {x}) = Cardinality(S) + 1
            BY <2>1, <2>2, FS_AddElement, Zenon
        <3>2. Cardinality(S \cup {x}) <= Cardinality(T)
            BY <2>2, <1>6, PartFact, Zenon
        <3> QED BY <3>1, <3>2, Zenon
    <2> QED BY <2>1, <2>2, Zenon
<1>7. /\ Cardinality(B) \in Nat /\ Cardinality(B2) \in Nat /\ Cardinality(B) <= Cardinality(B2)
      /\ x \in B2 \ B => Cardinality(B) + 1 <= Cardinality(B2)
    BY <1>2, <1>6, Zenon
<1>8. /\ Cardinality(P) \in Nat /\ Cardinality(P2) \in Nat /\ Cardinality(P) <= Cardinality(P2)
      /\ x \in P2 \ P => Cardinality(P) + 1 <= Cardinality(P2)
    BY <1>2, <1>6, Zenon
<1>9. PICK u, b, q, u2, b2, q2 :
         /\ u = Cardinality(U) /\ b = Cardinality(B) /\ q = Cardinality(P)
         /\ u2 = Cardinality(U2) /\ b2 = Cardinality(B2) /\ q2 = Cardinality(P2)
    BY Zenon
<1>10. /\ u \in Nat /\ b \in Nat /\ q \in Nat /\ u2 \in Nat /\ b2 \in Nat /\ q2 \in Nat
       /\ u <= b + q /\ u2 <= u + 1 /\ b <= b2 /\ q <= q2 /\ (b + 1 <= b2 \/ q + 1 <= q2)
    BY <1>2, <1>4, <1>5, <1>7, <1>8, <1>9, Zenon
<1>11. u2 <= b2 + q2
    BY <1>10
<1> QED BY <1>1, <1>9, <1>11, Zenon DEF Fits

\* lease_temporary_session: there is a number left for a session that is new.
LEMMA LeasedFact ==
    ASSUME Typed, Fits, NEW n \in Nodes, NEW p \in Nodes,
           (\E a \in Attempts : att[a] = NotStarted) \/ (\E s \in Sids : task[s].pc = "admitted")
    PROVE  /\ LeasedRaw(n, p) \in Raws
           /\ \/ LeasedRaw(n, p) = tmp[n][p].raw
              \/ tmp[n][p].raw = 0 /\ LeasedRaw(n, p) \notin UsedRaws
<1>1. /\ Cardinality(Begun) \in Nat /\ Cardinality(Begun) <= Cardinality(Attempts)
      /\ Cardinality(Past) \in Nat /\ Cardinality(Past) <= MaxSids
    BY CountFact, NumberFact, PartFact, Zenon
<1>2. Cardinality(Begun) < Cardinality(Attempts) \/ Cardinality(Past) < MaxSids
    <2>1. ASSUME NEW a \in Attempts, att[a] = NotStarted
          PROVE  Cardinality(Begun) < Cardinality(Attempts)
        <3>1. Begun # Attempts
            BY <2>1, Zenon DEF Begun
        <3>2. Cardinality(Attempts) # Cardinality(Begun)
            BY <3>1, CountFact, NumberFact, FS_Subset, Zenon
        <3> QED BY <3>2, <1>1, NumberFact
    <2>2. ASSUME NEW s \in Sids, task[s].pc = "admitted"
          PROVE  Cardinality(Past) < MaxSids
        <3>1. Past # Sids
            BY <2>2, Zenon DEF Past
        <3>2. Cardinality(Sids) # Cardinality(Past)
            BY <3>1, CountFact, NumberFact, FS_Subset, Zenon
        <3> QED BY <3>2, <1>1, NumberFact
    <2> QED BY <2>1, <2>2, Zenon
<1>3. Cardinality(UsedRaws \ {0}) < Cardinality(Raws)
    <2>1. Cardinality(UsedRaws \ {0}) \in Nat
        BY CountFact, FS_CardinalityType, Zenon
    <2> QED BY <2>1, <1>1, <1>2, NumberFact DEF Fits
<1>4. Raws \ UsedRaws # {}
    <2>1. ASSUME Raws \subseteq UsedRaws
          PROVE  FALSE
        <3>1. Raws \subseteq UsedRaws \ {0}
            BY <2>1, NumberFact, Zenon
        <3>2. Cardinality(Raws) <= Cardinality(UsedRaws \ {0}) /\ Cardinality(Raws) \in Nat
              /\ Cardinality(UsedRaws \ {0}) \in Nat
            BY <3>1, CountFact, PartFact, Zenon
        <3> QED BY <3>2, <1>3
    <2> QED BY <2>1, Zenon
<1>5. Min(Raws \ UsedRaws) \in Raws \ UsedRaws
    BY <1>4, NumberFact, MinFact, Zenon
<1>6. tmp[n][p].raw \in Raws \cup {0}
    BY DEF Typed, Tables
<1> QED BY <1>5, <1>6, Zenon DEF LeasedRaw

-----------------------------------------------------------------------------
(* Steps of an initiator *)

\* An attempt stays as it is, or is cancelled by a request with the same id.
Alike(b) ==
    att'[b] = att[b] \/ (att[b] \in Running /\ att'[b] = [att[b] EXCEPT !.cancelled = TRUE])

\* Such an attempt stays at its place, with its lease and its request.
LEMMA AlikeFact ==
    ASSUME Typed, NEW b \in Attempts, Alike(b)
    PROVE  /\ att'[b] \in AttStates /\ att'[b].pc = att[b].pc
           /\ att'[b] \in Running <=> att[b] \in Running
           /\ att[b] \notin Running => att'[b] = att[b]
           /\ att[b] \in Running =>
                /\ att'[b].node = att[b].node /\ att'[b].peer = att[b].peer
                /\ att'[b].raw = att[b].raw /\ att'[b].rid = att[b].rid
                /\ att'[b].sid = att[b].sid /\ att'[b].got = att[b].got
                /\ ~att'[b].cancelled => ~att[b].cancelled
<1>1. CASE att'[b] = att[b]
    BY <1>1, Zenon DEF Typed
<1>2. CASE att[b] \in Running /\ att'[b] = [att[b] EXCEPT !.cancelled = TRUE]
    <2>1. PICK x \in Running : x = att[b]
        BY <1>2, Zenon
    <2>2. PICK y : y = [x EXCEPT !.cancelled = TRUE]
        BY Zenon
    <2>3. /\ y \in Running /\ y.pc = x.pc /\ y.node = x.node /\ y.peer = x.peer /\ y.raw = x.raw
          /\ y.rid = x.rid /\ y.sid = x.sid /\ y.got = x.got /\ y.cancelled = TRUE
        BY <2>1, <2>2, Zenon DEF Running
    <2> QED BY <1>2, <2>1, <2>2, <2>3, Zenon DEF AttStates
<1> QED BY <1>1, <1>2, Zenon DEF Alike

\* What an initiator has registered stays registered.
DoneStays == \A b \in Attempts : att[b].pc = "done" => att'[b] = att[b]

\* A session that an initiator knows stays known.
LEMMA KnownStays ==
    ASSUME DoneStays, NEW s, Known(s)
    PROVE  Known(s)'
BY Zenon DEF DoneStays, Known

\* Responders that wait, or are done, when a step leaves the tasks alone.
LEMMA ResumesKept ==
    ASSUME Resumes, DoneStays, UNCHANGED <<task, paused, ready>>
    PROVE  Resumes'
<1>1. \A s \in Sids : task'[s].pc = "resume" => s \in paused' \/ Known(s)'
    BY KnownStays, Zenon DEF Resumes
<1>2. \A s \in ready' : Known(s)'
    BY KnownStays, Zenon DEF Resumes, ResponderAgrees, Known
<1> QED BY <1>1, <1>2, Zenon DEF Resumes, ResponderAgrees, Known

\* What the packets tell stays true, if a step adds only packets that tell the truth.
LEMMA ToldKept ==
    ASSUME Told, DoneStays, registered \subseteq registered',
           net \subseteq net', \A m \in net' \ net : Honest(m)',
           \A a \in Trying' : att'[a].got # Nothing =>
             att'[a].got \in net' /\ att'[a].got.to = att'[a].node /\ att'[a].got.from = att'[a].peer,
           \A a \in Attempts : att'[a].pc = "done" /\ att[a].pc # "done" =>
             [sid |-> att'[a].sid, node |-> att'[a].peer, peer |-> att'[a].node, ch |-> a] \in registered'
    PROVE  Told'
<1>1. \A m \in net : Honest(m)'
    BY KnownStays, Zenon DEF Told, Honest
<1>2. \A a \in Attempts : att'[a].pc = "done" =>
        [sid |-> att'[a].sid, node |-> att'[a].peer, peer |-> att'[a].node, ch |-> a] \in registered'
    BY Zenon DEF Told, InitiatorAgrees, DoneStays
<1> QED BY <1>1, <1>2, Zenon DEF Told, InitiatorAgrees

\* A step that leaves the tasks and the tables of admissions alone.
LEMMA AdmissionsKept ==
    ASSUME Numbered, Admissions, UNCHANGED <<task, admitted, nextAdmission, incoming>>
    PROVE  Numbered' /\ Admissions'
BY DEF Numbered, Admissions, Serving, Guarded

\* A request that is sent takes the place of the one with the same id, which is cancelled.
LEMMA AskFact ==
    ASSUME Typed, PendingIsAwaited, NEW a \in Attempts, NEW w \in Raws, NEW rid \in Rids,
           NEW new \in Running, new.raw = w, new.rid = rid, new.got = Nothing,
           \A v \in Raws, r \in Rids : pending[v][r] # a,
           att' = [Cancelled(pending, w, rid) EXCEPT ![a] = new],
           pending' = Awaits(pending, w, rid, a)
    PROVE  /\ att' \in [Attempts -> AttStates] /\ att'[a] = new
           /\ \A b \in Attempts \ {a} : Alike(b)
           /\ pending' \in [Raws -> [Rids -> Attempts \cup {0}]]
           /\ PendingIsAwaited'
<1>1. /\ att'[a] = new
      /\ \A b \in Attempts \ {a} :
           att'[b] = IF b = pending[w][rid] THEN [att[b] EXCEPT !.cancelled = TRUE] ELSE att[b]
    BY Zenon DEF Cancelled
<1>2. \A b \in Attempts : b = pending[w][rid] => att[b] \in Running
    <2> TAKE b \in Attempts
    <2> HAVE b = pending[w][rid]
    <2>1. Waiting(b)
        BY HandshakeAssumption, Zenon DEF PendingIsAwaited
    <2> QED BY <2>1, AttFact, Zenon DEF Waiting, Typed
<1>3. \A b \in Attempts \ {a} : Alike(b)
    BY <1>1, <1>2, Zenon DEF Alike
<1>4. att' \in [Attempts -> AttStates]
    <2>1. \A b \in Attempts : att'[b] \in AttStates
        BY <1>1, <1>3, AlikeFact, Zenon DEF AttStates
    <2>2. att' = [b \in Attempts |-> att'[b]]
        BY Zenon DEF Cancelled
    <2> QED BY <2>1, <2>2, Zenon
<1>5. /\ pending' \in [Raws -> [Rids -> Attempts \cup {0}]]
      /\ pending'[w][rid] = a
      /\ \A v \in Raws, r \in Rids : v # w \/ r # rid => pending'[v][r] = pending[v][r]
    BY Zenon DEF Awaits, Typed
<1>6. new.pc \in {"hello", "answer"}
    BY Zenon DEF Running
<1>7. ASSUME NEW b \in Attempts, Waiting(b)', ~att'[b].cancelled
      PROVE  pending'[att'[b].raw][att'[b].rid] = b
    <2>1. CASE b = a
        BY <2>1, <1>1, <1>5, Zenon
    <2>2. CASE b # a
        <3>1. att'[b].pc \in {"hello", "answer"} /\ att'[b].got = Nothing
            BY <1>7, Zenon DEF Waiting
        <3>2. att[b] \in Running /\ att[b].pc \in {"hello", "answer"}
            BY <2>2, <3>1, <1>3, AlikeFact, AttFact, Zenon DEF Typed
        <3>3. /\ att'[b].raw = att[b].raw /\ att'[b].rid = att[b].rid
              /\ att'[b].got = att[b].got /\ ~att[b].cancelled
            BY <2>2, <3>2, <1>3, <1>7, AlikeFact, Zenon
        <3>4. pending[att[b].raw][att[b].rid] = b
            BY <3>1, <3>2, <3>3, Zenon DEF PendingIsAwaited, Waiting
        <3>5. b = pending[w][rid] => att'[b].cancelled
            <4>1. PICK x \in Running : x = att[b]
                BY <3>2, Zenon
            <4>2. [x EXCEPT !.cancelled = TRUE].cancelled
                BY <4>1, Zenon DEF Running
            <4> QED BY <4>1, <4>2, <2>2, <1>1, Zenon
        <3>6. att[b].raw \in Raws /\ att[b].rid \in Rids
            BY <3>2, Zenon DEF Running
        <3> QED BY <3>3, <3>4, <3>5, <3>6, <1>5, <1>7
    <2> QED BY <2>1, <2>2, Zenon
<1>8. ASSUME NEW v \in Raws, NEW r \in Rids, pending'[v][r] # 0
      PROVE  Waiting(pending[v][r])' /\ att'[pending'[v][r]].raw = v /\ att'[pending'[v][r]].rid = r
    <2>1. CASE v = w /\ r = rid
        BY <2>1, <1>1, <1>5, <1>6, Zenon DEF Waiting
    <2>2. CASE v # w \/ r # rid
        <3>1. PICK c : c = pending[v][r]
            BY Zenon
        <3>2. pending'[v][r] = c /\ c # 0 /\ c # a /\ c \in Attempts
            BY <3>1, <2>2, <1>5, <1>8 DEF Typed
        <3>3. Waiting(c) /\ att[c].raw = v /\ att[c].rid = r
            BY <3>1, <3>2 DEF PendingIsAwaited
        <3>4. Alike(c) /\ att[c] \in Running
            BY <3>2, <3>3, <1>3, AttFact, Zenon DEF Waiting, Typed
        <3>5. /\ att'[c].pc = att[c].pc /\ att'[c].raw = att[c].raw
              /\ att'[c].rid = att[c].rid /\ att'[c].got = att[c].got
            BY <3>2, <3>4, AlikeFact, Zenon
        <3> QED BY <3>2, <3>3, <3>5, Zenon DEF Waiting
    <2> QED BY <2>1, <2>2, Zenon
<1>9. PendingIsAwaited'
    BY <1>7, <1>8, Zenon DEF PendingIsAwaited
<1> QED BY <1>1, <1>3, <1>4, <1>5, <1>9, Zenon

\* init_session starts: a lease and the first request.
LEMMA StartAttemptKeeps ==
    ASSUME Inv, NEW a \in Attempts, NEW n \in Nodes, NEW p \in Nodes, NEW rid \in Rids,
           StartAttempt(a, n, p, rid)
    PROVE  Inv'
<1>0. Typed /\ Numbered /\ Admissions /\ Leases /\ Fits /\ PendingIsAwaited /\ Told /\ Resumes
    BY Zenon DEF Inv
<1>1. att[a] = NotStarted /\ a \notin Trying
    BY <1>0, AttFact DEF StartAttempt, NotStarted, Trying
<1>2. PICK w : w = LeasedRaw(n, p)
    BY Zenon
<1>3. w \in Raws /\ (w = tmp[n][p].raw \/ (tmp[n][p].raw = 0 /\ w \notin UsedRaws))
    BY <1>0, <1>1, <1>2, LeasedFact, Zenon
<1>4. PICK new : new = [pc |-> "hello", node |-> n, peer |-> p, raw |-> w, rid |-> rid, sid |-> 0,
                        got |-> Nothing, cancelled |-> FALSE]
    BY Zenon
<1>5. /\ new \in Running /\ new.pc = "hello" /\ new.node = n /\ new.peer = p /\ new.raw = w
      /\ new.rid = rid /\ new.got = Nothing
    BY <1>3, <1>4, Zenon DEF Running
<1>6. /\ tmp' = [tmp EXCEPT ![n][p] = [raw |-> w, users |-> @.users + 1]]
      /\ pending' = Awaits(pending, w, rid, a)
      /\ att' = [Cancelled(pending, w, rid) EXCEPT ![a] = new]
      /\ net' = net \cup {Packet("hello", n, p, rid, 0, a)}
      /\ UNCHANGED <<calls, up, task, admitted, nextAdmission, incoming, processed, p2p, paused,
                     registered, orphans, ready>>
    BY <1>2, <1>4, Zenon DEF StartAttempt, Leased, tables, history
<1>7. \A v \in Raws, r \in Rids : pending[v][r] # a
    <2>1. ~Waiting(a)
        BY <1>0, <1>1, AttFact DEF Waiting, NotStarted
    <2> QED BY <2>1, <1>0, HandshakeAssumption DEF PendingIsAwaited
<1>8. /\ att' \in [Attempts -> AttStates] /\ att'[a] = new
      /\ \A b \in Attempts \ {a} : Alike(b)
      /\ pending' \in [Raws -> [Rids -> Attempts \cup {0}]]
      /\ PendingIsAwaited'
    BY <1>0, <1>3, <1>5, <1>6, <1>7, AskFact, Zenon
<1>9. Trying' = Trying \cup {a}
    <2>1. \A b \in Attempts \ {a} : att'[b].pc = att[b].pc
        BY <1>0, <1>8, AlikeFact, Zenon
    <2> QED BY <2>1, <1>5, <1>8, Zenon DEF Trying
<1>10. Same(Trying, att, att')
    BY <1>0, <1>1, <1>8, AlikeFact, HolderFact, Zenon DEF Same
<1>11. tmp' \in Tables /\ Leases'
    <2>1. /\ tmp \in Tables /\ IsFiniteSet(Trying) /\ IsFiniteSet(Guarded)
          /\ Balanced(tmp, Trying, att, Guarded, task, orphans)
        BY <1>0, HolderFact, Zenon DEF Typed, Leases
    <2>2. \/ w = tmp[n][p].raw
          \/ /\ tmp[n][p].raw = 0 /\ w \notin orphans /\ \A m, q \in Nodes : tmp[m][q].raw # w
             /\ \A y \in Trying : att[y].raw # w
             /\ \A y \in Guarded : task[y].raw # w
        BY <1>3 DEF UsedRaws
    <2>3. att'[a].node = n /\ att'[a].peer = p /\ att'[a].raw = w
        BY <1>5, <1>8, Zenon
    <2>4. tmp' \in Tables /\ Balanced(tmp', Trying \cup {a}, att', Guarded, task, orphans)
        <3>1. Takes(tmp, Trying, att, Guarded, task, orphans, att', a, n, p, w, tmp')
            BY <2>1, <2>2, <2>3, <1>1, <1>3, <1>6, <1>10, Zenon DEF Takes
        <3> QED BY <3>1, LeaseTaken, Zenon
    <2>5. Guarded' = Guarded
        BY <1>6, Zenon DEF Guarded, Serving
    <2> QED BY <2>4, <2>5, <1>6, <1>9, Zenon DEF Leases
<1>12. Typed'
    <2>1. 0 \in Sids \cup {0} /\ Packet("hello", n, p, rid, 0, a) \in Packets
        BY Zenon DEF Packet, Packets
    <2> QED BY <1>0, <1>6, <1>8, <1>11, <2>1, Zenon DEF Typed
<1>13. Fits'
    <2>1. UsedRaws' \ {0} \subseteq (UsedRaws \ {0}) \cup {w}
        <3>1. \A b \in Trying' : att'[b].raw \in UsedRaws \cup {w}
            BY <1>5, <1>8, <1>9, <1>10 DEF UsedRaws, Same
        <3>2. \A s \in Guarded' : task'[s].raw \in UsedRaws
            BY <1>6 DEF UsedRaws, Guarded, Serving
        <3>3. \A m, q \in Nodes : tmp'[m][q].raw \in UsedRaws \cup {w}
            <4>1. \A m, q \in Nodes : tmp'[m][q].raw = IF m = n /\ q = p THEN w ELSE tmp[m][q].raw
                BY <1>0, <1>6, Zenon DEF Typed, Tables
            <4> QED BY <4>1 DEF UsedRaws
        <3>4. orphans' \subseteq UsedRaws
            BY <1>6 DEF UsedRaws
        <3>5. ASSUME NEW r \in UsedRaws'
              PROVE  r \in UsedRaws \cup {w}
            <4>1. \/ r \in {att[b].raw : b \in Trying}' \/ r \in {task[u].raw : u \in Guarded}'
                  \/ (\E m, q \in Nodes : r = tmp'[m][q].raw) \/ r \in orphans'
                BY DEF UsedRaws
            <4>2. CASE r \in {att[b].raw : b \in Trying}'
                BY <4>2, <3>1, Zenon
            <4>3. CASE r \in {task[u].raw : u \in Guarded}'
                BY <4>3, <3>2, Zenon
            <4>4. CASE \E m, q \in Nodes : r = tmp'[m][q].raw
                BY <4>4, <3>3, Zenon
            <4> QED BY <4>1, <4>2, <4>3, <4>4, <3>4, Zenon
        <3> QED BY <3>5, Zenon
    <2>2. Begun \subseteq Begun' /\ a \in Begun' \ Begun
        <3>1. \A b \in Attempts \ {a} : att[b] # NotStarted => att'[b] # NotStarted
            BY <1>0, <1>8, AlikeFact, AttFact, Zenon DEF Typed
        <3>2. new # NotStarted
            BY <1>5 DEF NotStarted
        <3> QED BY <3>1, <3>2, <1>1, <1>8, Zenon DEF Begun
    <2>3. Past' = Past
        BY <1>6, Zenon DEF Past
    <2> QED BY <2>1, <2>2, <2>3, <1>0, FitsGrows, Zenon
<1>14. DoneStays
    <2>1. \A b \in Attempts : att[b].pc = "done" => b # a /\ att[b] \notin Running
        BY <1>0, <1>1, AttFact, Zenon DEF Typed, NotStarted
    <2> QED BY <2>1, <1>0, <1>8, AlikeFact, Zenon DEF DoneStays
<1>15. Told'
    <2>1. Honest(Packet("hello", n, p, rid, 0, a))'
        BY Zenon DEF Honest, Packet
    <2>2. ASSUME NEW b \in Trying', att'[b].got # Nothing
          PROVE  att'[b].got \in net' /\ att'[b].got.to = att'[b].node /\ att'[b].got.from = att'[b].peer
        <3>1. b \in Trying /\ b \in Attempts /\ b # a
            BY <2>2, <1>5, <1>8, <1>9, Zenon DEF Trying
        <3>2. att'[b].got = att[b].got /\ att'[b].node = att[b].node /\ att'[b].peer = att[b].peer
            BY <3>1, <1>0, <1>8, AlikeFact, HolderFact, Zenon
        <3> QED BY <3>1, <3>2, <2>2, <1>0, <1>6 DEF Told
    <2>3. ASSUME NEW b \in Attempts, att'[b].pc = "done", att[b].pc # "done"
          PROVE  FALSE
        BY <2>3, <1>0, <1>5, <1>8, AlikeFact, Zenon
    <2>4. net \subseteq net' /\ registered \subseteq registered' /\ \A m \in net' \ net : Honest(m)'
        BY <2>1, <1>6, Zenon
    <2>5. \A b \in Attempts : att'[b].pc = "done" /\ att[b].pc # "done" =>
             [sid |-> att'[b].sid, node |-> att'[b].peer, peer |-> att'[b].node, ch |-> b] \in registered'
        BY <2>3, Zenon
    <2> QED BY <2>2, <2>4, <2>5, <1>0, <1>14, ToldKept, Zenon
<1> QED BY <1>0, <1>6, <1>8, <1>11, <1>12, <1>13, <1>14, <1>15, AdmissionsKept, ResumesKept, Zenon DEF Inv

\* A step after which nobody knows a session that nobody knew before.
LEMMA FitsKept ==
    ASSUME Typed, Fits, UsedRaws' \ {0} \subseteq UsedRaws \ {0},
           Begun \subseteq Begun', Past \subseteq Past'
    PROVE  Fits'
<1>1. Begun' \subseteq Attempts /\ Past' \subseteq Sids
    BY Zenon DEF Begun, Past
<1>2. IsFiniteSet(Begun') /\ IsFiniteSet(Past')
    BY <1>1, NumberFact, PartFact, Zenon
<1>3. IsFiniteSet(UsedRaws \ {0}) /\ Cardinality(UsedRaws \ {0}) <= Cardinality(Begun) + Cardinality(Past)
    BY CountFact, Zenon DEF Fits
<1>4. Cardinality(UsedRaws' \ {0}) <= Cardinality(Begun') + Cardinality(Past')
    BY <1>2, <1>3, CountKept
<1> QED BY <1>4, Zenon DEF Fits

\* A step that moves no lease.
LEMMA HoldersKept ==
    ASSUME Typed, Leases, Fits, Trying' = Trying, Guarded' = Guarded,
           Same(Trying, att, att'), Same(Guarded, task, task'), tmp' = tmp, orphans' = orphans,
           Begun \subseteq Begun', Past \subseteq Past'
    PROVE  Leases' /\ Fits'
<1>1. Leases'
    <2>1. Balanced(tmp, Trying, att, Guarded, task, orphans)
        BY Zenon DEF Leases
    <2>2. Balanced(tmp, Trying, att', Guarded, task', orphans)
        BY <2>1, BalancedSame, Zenon
    <2> QED BY <2>2, Zenon DEF Leases
<1>2. UsedRaws' = UsedRaws
    BY DEF UsedRaws, Same
<1> QED BY <1>1, <1>2, FitsKept, Zenon

\* A guard that is dropped leaves the session in the table, or none.
LEMMA ReleasedRaw ==
    ASSUME tmp \in Tables, NEW n \in Nodes, NEW p \in Nodes, NEW w, tmp' = Released(n, p, w)
    PROVE  \A m, q \in Nodes : tmp'[m][q].raw \in {0, tmp[m][q].raw}
<1>1. tmp[n][p] \in [raw : Raws \cup {0}, users : Nat]
    BY Zenon DEF Tables
<1>2. \A x \in [raw : Raws \cup {0}, users : Nat] : Less(x, w).raw \in {0, x.raw}
    <2> TAKE x \in [raw : Raws \cup {0}, users : Nat]
    <2>1. NoTemporary.raw = 0 /\ [raw |-> w, users |-> x.users - 1].raw = w
        BY Zenon DEF NoTemporary
    <2> QED BY <2>1, Zenon DEF Less
<1>3. tmp' = [tmp EXCEPT ![n][p] = Less(@, w)]
    BY Zenon DEF Released, Less
<1>4. /\ \A m, q \in Nodes : m # n \/ q # p => tmp'[m][q] = tmp[m][q]
      /\ tmp'[n][p] = Less(tmp[n][p], w)
    BY <1>3, ZenonT(40) DEF Tables
<1> QED BY <1>1, <1>2, <1>4, Zenon

\* An attempt ends: its request leaves the table, its lease is given back.
LEMMA AttemptEnds ==
    ASSUME Inv, NEW a \in Trying, NEW end \in Done \cup {Failed}, att' = [att EXCEPT ![a] = end],
           pending' = Dropped(a), tmp' = Released(att[a].node, att[a].peer, att[a].raw),
           UNCHANGED <<task, orphans>>
    PROVE  /\ att' \in [Attempts -> AttStates] /\ att'[a] = end
           /\ \A b \in Attempts \ {a} : att'[b] = att[b]
           /\ pending' \in [Raws -> [Rids -> Attempts \cup {0}]]
           /\ Trying' = Trying \ {a} /\ DoneStays
           /\ tmp' \in Tables /\ PendingIsAwaited' /\ Leases' /\ Fits'
<1>0. Typed /\ Leases /\ Fits /\ PendingIsAwaited
    BY Zenon DEF Inv
<1>1. a \in Attempts /\ att[a] \in Running
    BY <1>0, HolderFact, Zenon
<1>2. PICK n \in Nodes, p \in Nodes, w \in Raws, r \in Rids :
         att[a].node = n /\ att[a].peer = p /\ att[a].raw = w /\ att[a].rid = r
    BY <1>1, Zenon DEF Running
<1>3. end.pc \in {"done", "failed"} /\ end \in AttStates /\ end # NotStarted
    BY DEF Done, Failed, AttStates, NotStarted
<1>4. /\ att'[a] = end /\ att' \in [Attempts -> AttStates]
      /\ \A b \in Attempts \ {a} : att'[b] = att[b]
    BY <1>0, <1>1, <1>3, Zenon DEF Typed
<1>5. /\ pending' \in [Raws -> [Rids -> Attempts \cup {0}]]
      /\ pending'[w][r] = IF pending[w][r] = a THEN 0 ELSE pending[w][r]
      /\ \A v \in Raws, i \in Rids : v # w \/ i # r => pending'[v][i] = pending[v][i]
    BY <1>0, <1>2, Zenon DEF Dropped, Typed
<1>6. Trying' = Trying \ {a}
    BY <1>3, <1>4, Zenon DEF Trying
<1>7. \A v \in Raws, i \in Rids : pending'[v][i] # a /\ (pending'[v][i] # 0 => pending'[v][i] = pending[v][i])
    <2>1. \A v \in Raws, i \in Rids : pending[v][i] = a => v = w /\ i = r
        BY <1>0, <1>1, <1>2, HandshakeAssumption DEF PendingIsAwaited
    <2> QED BY <2>1, <1>1, <1>5, HandshakeAssumption
<1>8. PendingIsAwaited'
    <2>1. ASSUME NEW b \in Attempts, Waiting(b)', ~att'[b].cancelled
          PROVE  pending'[att'[b].raw][att'[b].rid] = b
        <3>1. b # a /\ att'[b] = att[b] /\ Waiting(b)
            BY <2>1, <1>3, <1>4, Zenon DEF Waiting
        <3>2. att[b] \in Running
            BY <3>1, <1>0, AttFact, Zenon DEF Waiting, Typed
        <3>3. att[b].raw \in Raws /\ att[b].rid \in Rids
            BY <3>2, Zenon DEF Running
        <3>4. pending[att[b].raw][att[b].rid] = b
            BY <3>1, <2>1, <1>0, Zenon DEF PendingIsAwaited
        <3> QED BY <3>1, <3>3, <3>4, <1>5, ZenonT(40)
    <2>2. ASSUME NEW v \in Raws, NEW i \in Rids, pending'[v][i] # 0
          PROVE  Waiting(pending[v][i])' /\ att'[pending'[v][i]].raw = v /\ att'[pending'[v][i]].rid = i
        <3>1. pending'[v][i] = pending[v][i] /\ pending[v][i] \in Attempts \ {a}
            BY <2>2, <1>0, <1>7 DEF Typed
        <3> QED BY <3>1, <2>2, <1>0, <1>4 DEF PendingIsAwaited, Waiting
    <2> QED BY <2>1, <2>2, Zenon DEF PendingIsAwaited
<1>9. tmp' \in Tables /\ Leases'
    <2>1. /\ tmp \in Tables /\ IsFiniteSet(Trying) /\ IsFiniteSet(Guarded) /\ orphans \subseteq Raws
          /\ Balanced(tmp, Trying, att, Guarded, task, orphans)
        BY <1>0, HolderFact, Zenon DEF Typed, Leases
    <2>2. Same(Trying \ {a}, att, att')
        BY <1>4, Zenon DEF Same, Trying
    <2>3. tmp' = [tmp EXCEPT ![n][p] = Less(@, w)]
        BY <1>2, Zenon DEF Released, Less
    <2>4. tmp' \in Tables /\ Balanced(tmp', Trying \ {a}, att', Guarded, task, orphans)
        <3>1. Drops(tmp, Trying, att, Guarded, task, orphans, att', a, n, p, w, tmp')
            BY <2>1, <2>2, <2>3, <1>2, Zenon DEF Drops
        <3> QED BY <3>1, LeaseDropped, Zenon
    <2>5. Guarded' = Guarded
        BY Zenon DEF Guarded, Serving
    <2> QED BY <2>4, <2>5, <1>6, Zenon DEF Leases
<1>10. Fits'
    <2>1. UsedRaws' \ {0} \subseteq UsedRaws \ {0}
        <3>1. \A m, q \in Nodes : tmp'[m][q].raw \in {0, tmp[m][q].raw}
            BY <1>0, <1>2, ReleasedRaw, Zenon DEF Typed
        <3>2. \A b \in Trying' : b \in Trying /\ att'[b].raw = att[b].raw
            BY <1>4, <1>6, Zenon DEF Trying
        <3>3. Guarded' = Guarded
            BY Zenon DEF Guarded, Serving
        <3> QED BY <3>1, <3>2, <3>3 DEF UsedRaws
    <2>2. Begun \subseteq Begun' /\ Past' = Past
        BY <1>3, <1>4, Zenon DEF Begun, Past
    <2> QED BY <2>1, <2>2, <1>0, FitsKept, ZenonT(40)
<1>11. DoneStays
    <2>1. att[a].pc # "done"
        BY <1>1, Zenon DEF Running
    <2> QED BY <2>1, <1>4, Zenon DEF DoneStays
<1> QED BY <1>4, <1>5, <1>6, <1>8, <1>9, <1>10, <1>11, Zenon

\* The challenge is answered: the second request.
LEMMA AnswerKeeps ==
    ASSUME Inv, NEW a \in Attempts, NEW rid \in Rids, Answer(a, rid)
    PROVE  Inv'
<1>0. Typed /\ Numbered /\ Admissions /\ Leases /\ Fits /\ PendingIsAwaited /\ Told /\ Resumes
    BY Zenon DEF Inv
<1>1. att[a].pc = "hello" /\ att[a].got # Nothing /\ att[a] \in Running /\ a \in Trying
    BY <1>0, AttFact, HolderFact, Zenon DEF Answer, Typed
<1>2. PICK t \in Running : t = att[a]
    BY <1>1, Zenon
<1>3. PICK w \in Raws, sid \in Sids \cup {0} : w = t.raw /\ sid = t.got.sid
    <2>1. t.got \in Packets
        BY <1>0, <1>1, <1>2, Zenon DEF Told, Typed
    <2>2. t.got.sid \in Sids \cup {0}
        BY <2>1, Zenon DEF Packets
    <2> QED BY <2>2, Zenon DEF Running
<1>4. PICK new : new = [t EXCEPT !.pc = "answer", !.rid = rid, !.sid = sid, !.got = Nothing]
    BY Zenon
<1>5. /\ new \in Running /\ new.pc = "answer" /\ new.node = t.node /\ new.peer = t.peer
      /\ new.raw = w /\ new.rid = rid /\ new.got = Nothing
    BY <1>2, <1>3, <1>4, Zenon DEF Running
<1>6. \A v \in Raws, r \in Rids : pending[v][r] # a
    <2>1. ~Waiting(a)
        BY <1>1, Zenon DEF Waiting
    <2> QED BY <2>1, <1>0, HandshakeAssumption DEF PendingIsAwaited
<1>7. Dropped(a) = pending
    <2>1. pending \in [Raws -> [Rids -> Attempts \cup {0}]]
        BY <1>0, Zenon DEF Typed
    <2>2. t.rid \in Rids
        BY <1>2, Zenon DEF Running
    <2>3. pending[w][t.rid] # a
        BY <2>2, <1>6, Zenon
    <2>4. [pending EXCEPT ![w][t.rid] = IF @ = a THEN 0 ELSE @] = pending
        BY <2>1, <2>2, <2>3
    <2> QED BY <2>4, <1>2, <1>3, Zenon DEF Dropped
<1>8. /\ pending' = Awaits(pending, w, rid, a)
      /\ att' = [Cancelled(pending, w, rid) EXCEPT ![a] = new]
      /\ net' = net \cup {Packet("answer", t.node, t.peer, rid, sid, 0)}
      /\ UNCHANGED <<calls, up, task, admitted, nextAdmission, incoming, processed, tmp, p2p, paused,
                     registered, orphans, ready>>
    BY <1>2, <1>3, <1>4, <1>7, Zenon DEF Answer, tables, history
<1>9. /\ att' \in [Attempts -> AttStates] /\ att'[a] = new
      /\ \A b \in Attempts \ {a} : Alike(b)
      /\ pending' \in [Raws -> [Rids -> Attempts \cup {0}]]
      /\ PendingIsAwaited'
    BY <1>0, <1>5, <1>6, <1>8, AskFact, Zenon
<1>10. Trying' = Trying /\ Same(Trying, att, att')
    <2>1. \A b \in Attempts \ {a} : att'[b].pc = att[b].pc
        BY <1>0, <1>9, AlikeFact, Zenon
    <2>2. Trying' = Trying
        BY <2>1, <1>1, <1>5, <1>9, Zenon DEF Trying
    <2>3. \A b \in Trying : b # a => att'[b].node = att[b].node /\ att'[b].peer = att[b].peer /\ att'[b].raw = att[b].raw
        BY <1>0, <1>9, AlikeFact, HolderFact, Zenon
    <2> QED BY <2>2, <2>3, <1>2, <1>3, <1>5, <1>9, Zenon DEF Same
<1>11. Leases' /\ Fits'
    <2>1. Guarded' = Guarded /\ Past' = Past /\ Same(Guarded, task, task')
        BY <1>8, Zenon DEF Guarded, Serving, Past, Same
    <2>2. Begun \subseteq Begun'
        <3>1. \A b \in Attempts \ {a} : att[b] # NotStarted => att'[b] # NotStarted
            BY <1>0, <1>9, AlikeFact, AttFact, Zenon DEF Typed
        <3>2. new # NotStarted
            BY <1>5 DEF NotStarted
        <3> QED BY <3>1, <3>2, <1>9, Zenon DEF Begun
    <2> QED BY <2>1, <2>2, <1>0, <1>8, <1>10, HoldersKept, Zenon
<1>12. Typed'
    <2>1. Packet("answer", t.node, t.peer, rid, sid, 0) \in Packets
        BY <1>2, <1>3, Zenon DEF Packet, Packets, Running
    <2> QED BY <1>0, <1>8, <1>9, <2>1, Zenon DEF Typed
<1>13. DoneStays
    <2>1. \A b \in Attempts : att[b].pc = "done" => b # a /\ att[b] \notin Running
        BY <1>0, <1>1, AttFact, Zenon DEF Typed
    <2> QED BY <2>1, <1>0, <1>9, AlikeFact, Zenon DEF DoneStays
<1>14. Told'
    <2>1. Honest(Packet("answer", t.node, t.peer, rid, sid, 0))'
        BY Zenon DEF Honest, Packet
    <2>2. ASSUME NEW b \in Trying', att'[b].got # Nothing
          PROVE  att'[b].got \in net' /\ att'[b].got.to = att'[b].node /\ att'[b].got.from = att'[b].peer
        <3>1. b \in Trying /\ b \in Attempts /\ b # a
            BY <2>2, <1>5, <1>9, <1>10, Zenon DEF Trying
        <3>2. att'[b].got = att[b].got /\ att'[b].node = att[b].node /\ att'[b].peer = att[b].peer
            BY <3>1, <1>0, <1>9, AlikeFact, HolderFact, Zenon
        <3> QED BY <3>1, <3>2, <2>2, <1>0, <1>8 DEF Told
    <2>3. ASSUME NEW b \in Attempts, att'[b].pc = "done", att[b].pc # "done"
          PROVE  FALSE
        BY <2>3, <1>0, <1>5, <1>9, AlikeFact, Zenon
    <2>4. net \subseteq net' /\ registered \subseteq registered' /\ \A m \in net' \ net : Honest(m)'
        BY <2>1, <1>8, Zenon
    <2>5. \A b \in Attempts : att'[b].pc = "done" /\ att[b].pc # "done" =>
             [sid |-> att'[b].sid, node |-> att'[b].peer, peer |-> att'[b].node, ch |-> b] \in registered'
        BY <2>3, Zenon
    <2> QED BY <2>2, <2>4, <2>5, <1>0, <1>13, ToldKept, Zenon
<1> QED BY <1>0, <1>8, <1>9, <1>11, <1>12, <1>13, <1>14, AdmissionsKept, ResumesKept, Zenon DEF Inv

\* The last response is there: the initiator registers the session.
LEMMA FinishKeeps ==
    ASSUME Inv, NEW a \in Attempts, Finish(a)
    PROVE  Inv'
<1>0. Typed /\ Numbered /\ Admissions /\ Told /\ Resumes
    BY Zenon DEF Inv
<1>1. att[a].pc = "answer" /\ att[a].got # Nothing /\ att[a] \in Running /\ a \in Trying
    BY <1>0, AttFact, HolderFact, Zenon DEF Finish, Typed
<1>2. PICK n \in Nodes, p \in Nodes, sid \in Sids \cup {0}, got \in net :
         att[a].node = n /\ att[a].peer = p /\ att[a].sid = sid /\ att[a].got = got
    BY <1>0, <1>1, Zenon DEF Running, Told
<1>3. PICK end : end = [pc |-> "done", node |-> n, peer |-> p, sid |-> sid]
    BY Zenon
<1>4. end \in Done /\ end.pc = "done" /\ end.node = n /\ end.peer = p /\ end.sid = sid
    BY <1>3, Zenon DEF Done
<1>5. /\ pending' = Dropped(a) /\ tmp' = Released(att[a].node, att[a].peer, att[a].raw)
      /\ p2p' = [p2p EXCEPT ![n][p] = sid] /\ att' = [att EXCEPT ![a] = end]
      /\ net' = net \cup {Packet("resume", n, p, 0, sid, 0)}
      /\ UNCHANGED <<calls, up, task, admitted, nextAdmission, incoming, processed, paused,
                     registered, orphans, ready>>
    BY <1>2, <1>3, Zenon DEF Finish, tables, history
<1>6. /\ att' \in [Attempts -> AttStates] /\ att'[a] = end
      /\ \A b \in Attempts \ {a} : att'[b] = att[b]
      /\ pending' \in [Raws -> [Rids -> Attempts \cup {0}]]
      /\ Trying' = Trying \ {a} /\ DoneStays
      /\ tmp' \in Tables /\ PendingIsAwaited' /\ Leases' /\ Fits'
    BY <1>1, <1>4, <1>5, AttemptEnds, Zenon
<1>7. Typed'
    <2>1. Packet("resume", n, p, 0, sid, 0) \in Packets
        BY <1>2, Zenon DEF Packet, Packets
    <2>2. p2p' \in [Nodes -> [Nodes -> Sids \cup {0}]]
        BY <1>0, <1>2, <1>5, Zenon DEF Typed
    <2> QED BY <1>0, <1>5, <1>6, <2>1, <2>2, Zenon DEF Typed
<1>8. Told'
    <2>1. Honest(Packet("resume", n, p, 0, sid, 0))'
        BY <1>4, <1>6, Zenon DEF Honest, Packet, Known
    <2>2. ASSUME NEW b \in Trying', att'[b].got # Nothing
          PROVE  att'[b].got \in net' /\ att'[b].got.to = att'[b].node /\ att'[b].got.from = att'[b].peer
        <3>1. b \in Trying /\ att'[b] = att[b]
            BY <1>6, Zenon DEF Trying
        <3> QED BY <3>1, <2>2, <1>0, <1>5 DEF Told
    <2>3. ASSUME NEW b \in Attempts, att'[b].pc = "done", att[b].pc # "done"
          PROVE  [sid |-> att'[b].sid, node |-> att'[b].peer, peer |-> att'[b].node, ch |-> b] \in registered'
        <3>1. b = a
            BY <2>3, <1>6, Zenon
        <3>2. got.sid = sid /\ got.kind = "final" /\ got.ch = a /\ got.to = n /\ got.from = p
            BY <1>0, <1>1, <1>2, Zenon DEF Finish, Verified, Solves, Told
        <3>3. [sid |-> got.sid, node |-> got.from, peer |-> got.to, ch |-> got.ch] \in registered
            BY <3>2, <1>0, <1>2, Zenon DEF Told, Honest
        <3> QED BY <3>1, <3>2, <3>3, <1>4, <1>5, <1>6, Zenon
    <2>4. net \subseteq net' /\ registered \subseteq registered' /\ \A m \in net' \ net : Honest(m)'
        BY <2>1, <1>5, Zenon
    <2>5. \A b \in Attempts : att'[b].pc = "done" /\ att[b].pc # "done" =>
             [sid |-> att'[b].sid, node |-> att'[b].peer, peer |-> att'[b].node, ch |-> b] \in registered'
        BY <2>3, Zenon
    <2> QED BY <2>2, <2>4, <2>5, <1>0, <1>6, ToldKept, Zenon
<1> QED BY <1>0, <1>5, <1>6, <1>7, <1>8, AdmissionsKept, ResumesKept, Zenon DEF Inv

\* An attempt that fails, at any place.
LEMMA AttemptFailsKeeps ==
    ASSUME Inv, NEW a \in Attempts, AttemptFails(a)
    PROVE  Inv'
<1>0. Typed /\ Numbered /\ Admissions /\ Told /\ Resumes
    BY Zenon DEF Inv
<1>1. /\ a \in Trying /\ pending' = Dropped(a) /\ tmp' = Released(att[a].node, att[a].peer, att[a].raw)
      /\ att' = [att EXCEPT ![a] = Failed]
      /\ UNCHANGED <<calls, up, net, task, admitted, nextAdmission, incoming, processed, p2p, paused,
                     registered, orphans, ready>>
    BY Zenon DEF AttemptFails, tables, history, Failed
<1>2. /\ att' \in [Attempts -> AttStates] /\ att'[a] = Failed
      /\ \A b \in Attempts \ {a} : att'[b] = att[b]
      /\ pending' \in [Raws -> [Rids -> Attempts \cup {0}]]
      /\ Trying' = Trying \ {a} /\ DoneStays
      /\ tmp' \in Tables /\ PendingIsAwaited' /\ Leases' /\ Fits'
    BY <1>1, AttemptEnds, Zenon
<1>3. Typed'
    BY <1>0, <1>1, <1>2, Zenon DEF Typed
<1>4. Told'
    <2>1. ASSUME NEW b \in Trying', att'[b].got # Nothing
          PROVE  att'[b].got \in net' /\ att'[b].got.to = att'[b].node /\ att'[b].got.from = att'[b].peer
        <3>1. b \in Trying /\ att'[b] = att[b]
            BY <1>2, Zenon DEF Trying
        <3> QED BY <3>1, <2>1, <1>0, <1>1 DEF Told
    <2>2. ASSUME NEW b \in Attempts, att'[b].pc = "done", att[b].pc # "done"
          PROVE  FALSE
        BY <2>2, <1>2 DEF Failed
    <2>3. net \subseteq net' /\ registered \subseteq registered' /\ \A m \in net' \ net : Honest(m)'
        BY <1>1, Zenon
    <2>4. \A b \in Attempts : att'[b].pc = "done" /\ att[b].pc # "done" =>
             [sid |-> att'[b].sid, node |-> att'[b].peer, peer |-> att'[b].node, ch |-> b] \in registered'
        BY <2>2, Zenon
    <2> QED BY <2>1, <2>3, <2>4, <1>0, <1>2, ToldKept, Zenon
<1> QED BY <1>0, <1>1, <1>2, <1>3, <1>4, AdmissionsKept, ResumesKept, Zenon DEF Inv

\* A response reaches the request that waits for it, which was sent to the same node.
LEMMA OnResponseKeeps ==
    ASSUME Inv, NEW m \in net, OnResponse(m)
    PROVE  Inv'
<1>0. Typed /\ Numbered /\ Admissions /\ Leases /\ Fits /\ PendingIsAwaited /\ Told /\ Resumes
    BY Zenon DEF Inv
<1>1. m \in Packets /\ m.to \in Nodes /\ m.from \in Nodes /\ m.rid \in Rids
    <2>1. m \in Packets
        BY <1>0, Zenon DEF Typed
    <2> QED BY <2>1, <1>0, Zenon DEF OnResponse, Told, Honest, Packets
<1>2. PICK w : w = TemporaryOf(m.to, m.from)
    BY Zenon
<1>3. PICK c : c = pending[w][m.rid]
    BY Zenon
<1>4. /\ w # 0 /\ c # 0
      /\ att' = [att EXCEPT ![c].got = m] /\ pending' = [pending EXCEPT ![w][m.rid] = 0]
      /\ UNCHANGED <<calls, up, net, task, admitted, nextAdmission, incoming, processed, tmp, p2p,
                     paused, registered, orphans, ready>>
    BY <1>2, <1>3, Zenon DEF OnResponse, tables, history
<1>5. w = tmp[m.to][m.from].raw /\ w \in Raws
    <2>1. w = tmp[m.to][m.from].raw
        BY <1>2, <1>4, Zenon DEF TemporaryOf
    <2>2. tmp \in Tables
        BY <1>0, Zenon DEF Typed
    <2>3. \A n, p \in Nodes : tmp[n][p].raw \in Raws \cup {0}
        BY <2>2, Zenon DEF Tables
    <2>4. tmp[m.to][m.from].raw \in Raws \cup {0}
        BY <2>3, <1>1, Zenon
    <2> QED BY <2>1, <2>4, <1>4, Zenon
<1>6. c \in Attempts /\ Waiting(c) /\ att[c].raw = w /\ att[c].rid = m.rid
    <2>1. PICK v \in Raws, r \in Rids : v = w /\ r = m.rid
        BY <1>1, <1>5, Zenon
    <2>2. pending \in [Raws -> [Rids -> Attempts \cup {0}]] /\ PendingIsAwaited
        BY <1>0, Zenon DEF Typed
    <2>3. pending[v][r] \in Attempts \cup {0}
        BY <2>2, Zenon
    <2>4. pending[v][r] # 0 =>
            Waiting(pending[v][r]) /\ att[pending[v][r]].raw = v /\ att[pending[v][r]].rid = r
        BY <2>2, Zenon DEF PendingIsAwaited
    <2> QED BY <2>1, <2>3, <2>4, <1>3, <1>4, Zenon
<1>7. att[c] \in Running /\ c \in Trying
    BY <1>0, <1>6, AttFact, HolderFact, Zenon DEF Waiting, Typed
<1>8. att[c].node = m.to /\ att[c].peer = m.from
    <2>1. w \notin orphans
        BY <1>0, <1>1, <1>5, Zenon DEF Leases, Balanced
    <2>2. /\ att[c].node \in Nodes /\ att[c].peer \in Nodes
          /\ w = tmp[att[c].node][att[c].peer].raw
        BY <2>1, <1>0, <1>6, <1>7, Zenon DEF Leases, Balanced, Placed
    <2>3. PICK i \in Nodes, j \in Nodes : i = att[c].node /\ j = att[c].peer
        BY <2>2, Zenon
    <2>4. tmp[m.to][m.from].raw # 0 /\ tmp[i][j].raw = tmp[m.to][m.from].raw => i = m.to /\ j = m.from
        BY <1>0, <1>1 DEF Leases, Balanced
    <2> QED BY <2>2, <2>3, <2>4, <1>4, <1>5, Zenon
<1>9. PICK t \in Running : t = att[c]
    BY <1>7, Zenon
<1>10. PICK new : new = [t EXCEPT !.got = m]
    BY Zenon
<1>11. /\ new \in Running /\ new.pc = t.pc /\ new.node = t.node /\ new.peer = t.peer
       /\ new.raw = t.raw /\ new.rid = t.rid /\ new.got = m
    BY <1>1, <1>9, <1>10, Zenon DEF Running
<1>12. /\ att'[c] = new /\ att' \in [Attempts -> AttStates]
       /\ \A b \in Attempts \ {c} : att'[b] = att[b]
    BY <1>0, <1>4, <1>6, <1>9, <1>10, <1>11, Zenon DEF Typed, AttStates
<1>13. m # Nothing
    <2>1. m.kind # "none"
        BY <1>1, Zenon DEF Packets
    <2> QED BY <2>1 DEF Nothing
<1>14. /\ pending' \in [Raws -> [Rids -> Attempts \cup {0}]] /\ pending'[w][m.rid] = 0
       /\ \A v \in Raws, r \in Rids : v # w \/ r # m.rid => pending'[v][r] = pending[v][r]
    BY <1>0, <1>1, <1>4, <1>5, Zenon DEF Typed
<1>15. PendingIsAwaited'
    <2>1. ASSUME NEW b \in Attempts, Waiting(b)', ~att'[b].cancelled
          PROVE  pending'[att'[b].raw][att'[b].rid] = b
        <3>1. b # c /\ att'[b] = att[b] /\ Waiting(b)
            BY <2>1, <1>11, <1>12, <1>13, Zenon DEF Waiting
        <3>2. att[b] \in Running
            BY <3>1, <1>0, AttFact, Zenon DEF Waiting, Typed
        <3>3. att[b].raw \in Raws /\ att[b].rid \in Rids
            BY <3>2, Zenon DEF Running
        <3>4. pending[att[b].raw][att[b].rid] = b
            BY <3>1, <2>1, <1>0, Zenon DEF PendingIsAwaited
        <3> QED BY <3>1, <3>3, <3>4, <1>3, <1>14, ZenonT(40)
    <2>2. ASSUME NEW v \in Raws, NEW r \in Rids, pending'[v][r] # 0
          PROVE  Waiting(pending[v][r])' /\ att'[pending'[v][r]].raw = v /\ att'[pending'[v][r]].rid = r
        <3>1. PICK b : b = pending[v][r]
            BY Zenon
        <3>2. pending'[v][r] = b /\ b \in Attempts /\ Waiting(b) /\ att[b].raw = v /\ att[b].rid = r
            BY <3>1, <2>2, <1>0, <1>14 DEF Typed, PendingIsAwaited
        <3>3. b # c
            BY <3>2, <2>2, <1>6, <1>14, Zenon
        <3> QED BY <3>2, <3>3, <1>12, Zenon DEF Waiting
    <2> QED BY <2>1, <2>2, Zenon DEF PendingIsAwaited
<1>16. Trying' = Trying /\ Same(Trying, att, att')
    <2>1. Trying' = Trying
        BY <1>9, <1>11, <1>12, Zenon DEF Trying
    <2>2. Same(Trying, att, att')
        BY <1>9, <1>11, <1>12, Zenon DEF Trying, Same
    <2> QED BY <2>1, <2>2, Zenon
<1>17. Leases' /\ Fits'
    <2>1. Guarded' = Guarded /\ Past' = Past /\ Same(Guarded, task, task')
        BY <1>4, Zenon DEF Guarded, Serving, Past, Same
    <2>2. new # NotStarted
        BY <1>11 DEF NotStarted, Running
    <2>3. Begun \subseteq Begun'
        BY <2>2, <1>12, Zenon DEF Begun
    <2> QED BY <2>1, <2>3, <1>0, <1>4, <1>16, HoldersKept, Zenon
<1>18. Typed'
    BY <1>0, <1>4, <1>12, <1>14, Zenon DEF Typed
<1>19. t.pc # "done"
    BY <1>9, Zenon DEF Running
<1>20. DoneStays
    BY <1>9, <1>12, <1>19, Zenon DEF DoneStays
<1>21. Told'
    <2>1. ASSUME NEW b \in Trying', att'[b].got # Nothing
          PROVE  att'[b].got \in net' /\ att'[b].got.to = att'[b].node /\ att'[b].got.from = att'[b].peer
        <3>1. CASE b = c
            BY <3>1, <1>4, <1>8, <1>9, <1>11, <1>12, SMTT(30)
        <3>2. CASE b # c
            BY <3>2, <2>1, <1>0, <1>4, <1>12, <1>16, ZenonT(40) DEF Told, Trying
        <3> QED BY <3>1, <3>2, Zenon
    <2>2. ASSUME NEW b \in Attempts, att'[b].pc = "done", att[b].pc # "done"
          PROVE  FALSE
        BY <2>2, <1>11, <1>12, <1>19, Zenon
    <2>3. net \subseteq net' /\ registered \subseteq registered' /\ \A y \in net' \ net : Honest(y)'
        BY <1>4, Zenon
    <2>4. \A b \in Attempts : att'[b].pc = "done" /\ att[b].pc # "done" =>
             [sid |-> att'[b].sid, node |-> att'[b].peer, peer |-> att'[b].node, ch |-> b] \in registered'
        BY <2>2, Zenon
    <2> QED BY <2>1, <2>3, <2>4, <1>0, <1>20, ToldKept, Zenon
<1> QED BY <1>0, <1>4, <1>15, <1>17, <1>18, <1>20, <1>21, AdmissionsKept, ResumesKept, Zenon DEF Inv

-----------------------------------------------------------------------------
(* Steps that leave the attempts alone *)

\* A step that changes neither attempts nor requests.
LEMMA AttemptsKept ==
    ASSUME PendingIsAwaited, UNCHANGED <<att, pending>>
    PROVE  /\ PendingIsAwaited' /\ DoneStays /\ Trying' = Trying /\ Begun' = Begun
           /\ Same(Trying, att, att')
BY ZenonT(40) DEF PendingIsAwaited, Waiting, DoneStays, Trying, Begun, Same

\* What the packets tell, when only packets and registrations are added.
LEMMA TellsMore ==
    ASSUME Told, UNCHANGED att, registered \subseteq registered',
           net \subseteq net', \A m \in net' \ net : Honest(m)'
    PROVE  Told'
<1>1. DoneStays
    BY Zenon DEF DoneStays
<1>2. \A a \in Trying' : att'[a].got # Nothing =>
        att'[a].got \in net' /\ att'[a].got.to = att'[a].node /\ att'[a].got.from = att'[a].peer
    BY Zenon DEF Told, Trying
<1>3. \A a \in Attempts : ~(att'[a].pc = "done" /\ att[a].pc # "done")
    BY Zenon
<1> QED BY <1>1, <1>2, <1>3, ToldKept, Zenon

\* A step that sends and registers nothing.
LEMMA TellsTheSame ==
    ASSUME Told, UNCHANGED <<att, registered, net>>
    PROVE  Told'
<1>1. net \subseteq net' /\ registered \subseteq registered' /\ \A m \in net' \ net : Honest(m)'
    BY Zenon
<1> QED BY <1>1, TellsMore, Zenon

\* A step of the session table and the network only.
LEMMA SessionStep ==
    ASSUME Inv, net \subseteq net', net' \subseteq Packets, \A m \in net' \ net : m.kind = "disconnected",
           p2p' \in [Nodes -> [Nodes -> Sids \cup {0}]],
           UNCHANGED <<calls, up, att, task, admitted, nextAdmission, incoming, processed, tmp, pending,
                       paused, registered, orphans, ready>>
    PROVE  Inv'
<1>0. Typed /\ Numbered /\ Admissions /\ Leases /\ Fits /\ PendingIsAwaited /\ Told /\ Resumes
    BY Zenon DEF Inv
<1>1. Typed'
    BY <1>0, Zenon DEF Typed
<1>2. PendingIsAwaited' /\ DoneStays
    BY <1>0, AttemptsKept, Zenon
<1>3. Leases' /\ Fits'
    BY <1>0 DEF Leases, Fits, UsedRaws, Trying, Guarded, Serving, Begun, Past
<1>4. \A m \in net' \ net : Honest(m)'
    BY Zenon DEF Honest
<1>5. Told'
    BY <1>0, <1>4, TellsMore, Zenon
<1> QED BY <1>0, <1>1, <1>2, <1>3, <1>5, AdmissionsKept, ResumesKept, Zenon DEF Inv

\* Disconnected, and the packet that answers it.
LEMMA OnDisconnectedKeeps ==
    ASSUME Inv, NEW m \in net, OnDisconnected(m)
    PROVE  Inv'
<1>1. m \in Packets /\ p2p \in [Nodes -> [Nodes -> Sids \cup {0}]]
    BY Zenon DEF Inv, Typed
<1>2. m.to \in Nodes /\ m.from \in Nodes /\ m.sid \in Sids \cup {0}
    BY <1>1, Zenon DEF Packets
<1>3. PICK x : x = Packet("disconnected", m.to, m.from, 0, m.sid, 0)
    BY Zenon
<1>4. x \in Packets /\ x.kind = "disconnected"
    BY <1>2, <1>3, Zenon DEF Packet, Packets
<1>5. /\ net' = net \cup {x} /\ p2p' = [p2p EXCEPT ![m.to][m.from] = 0]
      /\ UNCHANGED <<calls, up, att, task, admitted, nextAdmission, incoming, processed, tmp, pending,
                     paused, registered, orphans, ready>>
    BY <1>3, Zenon DEF OnDisconnected, tables, history
<1>6. p2p' \in [Nodes -> [Nodes -> Sids \cup {0}]]
    BY <1>1, <1>2, <1>5, Zenon
<1>7. net \subseteq net' /\ net' \subseteq Packets /\ \A y \in net' \ net : y.kind = "disconnected"
    BY <1>4, <1>5, Zenon DEF Inv, Typed
<1> QED BY <1>5, <1>6, <1>7, SessionStep, Zenon

\* close_session
LEMMA CloseSessionKeeps ==
    ASSUME Inv, NEW n \in Nodes, NEW p \in Nodes, CloseSession(n, p)
    PROVE  Inv'
<1>1. p2p \in [Nodes -> [Nodes -> Sids \cup {0}]]
    BY Zenon DEF Inv, Typed
<1>2. PICK x : x = Packet("disconnected", n, p, 0, p2p[n][p], 0)
    BY Zenon
<1>3. x \in Packets /\ x.kind = "disconnected"
    BY <1>1, <1>2, Zenon DEF Packet, Packets
<1>4. /\ net' = net \cup {x} /\ p2p' = [p2p EXCEPT ![n][p] = 0]
      /\ UNCHANGED <<calls, up, att, task, admitted, nextAdmission, incoming, processed, tmp, pending,
                     paused, registered, orphans, ready>>
    BY <1>2, Zenon DEF CloseSession, tables, history
<1>5. p2p' \in [Nodes -> [Nodes -> Sids \cup {0}]]
    BY <1>1, <1>4, Zenon
<1>6. net \subseteq net' /\ net' \subseteq Packets /\ \A y \in net' \ net : y.kind = "disconnected"
    BY <1>3, <1>4, Zenon DEF Inv, Typed
<1> QED BY <1>4, <1>5, <1>6, SessionStep, Zenon

\* ResumeForwarding releases the session that its sender has registered, and no other.
LEMMA OnResumeKeeps ==
    ASSUME Inv, NEW m \in net, OnResume(m)
    PROVE  Inv'
<1>0. Typed /\ Numbered /\ Admissions /\ Leases /\ Fits /\ PendingIsAwaited /\ Told /\ Resumes
    BY Zenon DEF Inv
<1>1. /\ paused' = paused \ {p2p[m.to][m.from]}
      /\ UNCHANGED <<calls, up, net, att, task, admitted, nextAdmission, incoming, processed, tmp,
                     pending, p2p, registered, orphans, ready>>
    BY Zenon DEF OnResume, Resumed, tables, history
<1>2. Typed'
    BY <1>0, <1>1, Zenon DEF Typed
<1>3. PendingIsAwaited' /\ DoneStays
    BY <1>0, <1>1, AttemptsKept, ZenonT(40)
<1>4. Leases' /\ Fits'
    BY <1>0, <1>1 DEF Leases, Fits, UsedRaws, Trying, Guarded, Serving, Begun, Past
<1>5. Told'
    BY <1>0, <1>1, TellsTheSame, Zenon
<1>6. \A s \in Sids : s = p2p[m.to][m.from] => Known(s)
    <2>1. p2p[m.to][m.from] \in {0, m.sid} /\ m.kind = "resume"
        BY Zenon DEF OnResume, Accepts
    <2>2. Known(m.sid)
        BY <2>1, <1>0, Zenon DEF Told, Honest
    <2> QED BY <2>1, <2>2, NumberFact, Zenon
<1>7. Resumes'
    <2>1. \A s \in Sids : task'[s].pc = "resume" => s \in paused' \/ Known(s)'
        BY <1>0, <1>1, <1>3, <1>6, KnownStays, Zenon DEF Resumes
    <2>2. \A s \in ready' : Known(s)'
        BY <1>0, <1>1, <1>3, KnownStays, Zenon DEF Resumes, ResponderAgrees, Known
    <2> QED BY <2>1, <2>2, Zenon DEF Resumes, ResponderAgrees, Known
<1> QED BY <1>0, <1>1, <1>2, <1>3, <1>4, <1>5, <1>7, AdmissionsKept, ZenonT(40) DEF Inv

\* SessionLayer::shutdown drops the temporary sessions of a node while tasks hold their guards.
LEMMA ShutdownKeeps ==
    ASSUME Inv, NEW n \in Nodes, Shutdown(n)
    PROVE  Inv'
<1>0. Typed /\ Numbered /\ Admissions /\ Leases /\ Fits /\ PendingIsAwaited /\ Told /\ Resumes
    BY Zenon DEF Inv
<1>1. PICK new, gone : /\ new = {Packet("disconnected", n, p, 0, p2p[n][p], 0) :
                                  p \in {q \in Nodes : p2p[n][q] # 0}}
                       /\ gone = {tmp[n][p].raw : p \in Nodes} \ {0}
    BY Zenon
<1>2. /\ up' = up \ {n} /\ incoming' = ClearedIncoming(n)
      /\ tmp' = [tmp EXCEPT ![n] = [p \in Nodes |-> NoTemporary]]
      /\ p2p' = [p2p EXCEPT ![n] = [p \in Nodes |-> 0]]
      /\ net' = net \cup new /\ orphans' = orphans \cup gone
      /\ UNCHANGED <<calls, att, task, admitted, nextAdmission, pending, processed, paused, registered,
                     ready>>
    BY <1>1, Zenon DEF Shutdown
<1>3. /\ tmp \in Tables /\ p2p \in [Nodes -> [Nodes -> Sids \cup {0}]] /\ orphans \subseteq Raws
      /\ Balanced(tmp, Trying, att, Guarded, task, orphans)
    BY <1>0, Zenon DEF Typed, Leases
<1>4. NoTemporary \in [raw : Raws \cup {0}, users : Nat] /\ NoTemporary.raw = 0 /\ NoTemporary.users = 0
    BY DEF NoTemporary
<1>5. gone \subseteq Raws /\ \A r : r \in gone <=> r # 0 /\ \E p \in Nodes : tmp[n][p].raw = r
    BY <1>1, <1>3 DEF Tables
<1>6. Typed'
    <2>1. new \subseteq Packets
        BY <1>1, <1>3 DEF Packet, Packets
    <2>2. tmp' \in Tables
        BY <1>2, <1>3, <1>4, Zenon DEF Tables
    <2>3. p2p' \in [Nodes -> [Nodes -> Sids \cup {0}]]
        BY <1>2, <1>3, Zenon
    <2> QED BY <1>0, <1>2, <1>5, <2>1, <2>2, <2>3, ZenonT(40) DEF Typed, ClearedIncoming
<1>7. Numbered' /\ Admissions'
    <2>1. incoming' \subseteq incoming
        BY <1>2, Zenon DEF ClearedIncoming
    <2> QED BY <2>1, <1>0, <1>2 DEF Numbered, Admissions, Serving, Guarded
<1>8. PendingIsAwaited' /\ DoneStays
    BY <1>0, <1>2, AttemptsKept, Zenon
<1>9. \A m, q \in Nodes : tmp'[m][q] = IF m = n THEN NoTemporary ELSE tmp[m][q]
    BY <1>2, <1>3, Zenon DEF Tables
<1>10. Leases'
    <2>1. Trying' = Trying /\ Guarded' = Guarded
        BY <1>2, Zenon DEF Trying, Guarded, Serving
    <2>2. \A m, p, k, q \in Nodes : tmp'[m][p].raw # 0 /\ tmp'[k][q].raw = tmp'[m][p].raw => k = m /\ q = p
        <3> TAKE m, p, k, q \in Nodes
        <3> HAVE tmp'[m][p].raw # 0 /\ tmp'[k][q].raw = tmp'[m][p].raw
        <3>1. m # n /\ k # n
            BY <1>4, <1>9, Zenon
        <3>2. tmp'[m][p] = tmp[m][p] /\ tmp'[k][q] = tmp[k][q]
            BY <3>1, <1>9, ZenonT(40)
        <3>3. tmp[m][p].raw # 0 /\ tmp[k][q].raw = tmp[m][p].raw => k = m /\ q = p
            BY <1>3 DEF Balanced
        <3> QED BY <3>2, <3>3, Zenon
    <2>3. ASSUME NEW m \in Nodes, NEW p \in Nodes
          PROVE  /\ tmp'[m][p].raw \notin orphans'
                 /\ tmp'[m][p].raw = 0 <=> tmp'[m][p].users = 0
                 /\ tmp'[m][p].users = Cardinality(Users(Trying, att, m, tmp'[m][p].raw))
                                        + Cardinality(Users(Guarded, task, m, tmp'[m][p].raw))
        <3>1. CASE m = n
            <4>1. tmp'[m][p].raw = 0 /\ tmp'[m][p].users = 0
                BY <3>1, <1>4, <1>9, ZenonT(40)
            <4>2. Users(Trying, att, m, 0) = {} /\ Users(Guarded, task, m, 0) = {}
                BY <1>3, NumberFact DEF Users, Balanced, Placed
            <4>3. Cardinality({}) + Cardinality({}) = 0
                BY FS_EmptySet
            <4>4. 0 \notin orphans'
                BY <1>2, <1>3, <1>5, NumberFact, ZenonT(40)
            <4> QED BY <4>1, <4>2, <4>3, <4>4, Zenon
        <3>2. CASE m # n
            <4>1. tmp'[m][p] = tmp[m][p]
                BY <3>2, <1>9, ZenonT(40)
            <4>2. tmp[m][p].raw \notin gone
                BY <3>2, <1>3, <1>5, SMTT(30) DEF Balanced
            <4> QED BY <4>1, <4>2, <1>2, <1>3 DEF Balanced
        <3> QED BY <3>1, <3>2, Zenon
    <2>4. ASSUME NEW m \in Nodes, NEW p \in Nodes, NEW r \in Raws, r \in {tmp[m][p].raw} \cup orphans
          PROVE  r \in {tmp'[m][p].raw} \cup orphans'
        BY <2>4, <1>2, <1>5, <1>9, NumberFact
    <2>5. Placed(tmp', Trying, att, orphans') /\ Placed(tmp', Guarded, task, orphans')
        BY <2>4, <1>3, Zenon DEF Balanced, Placed
    <2> QED BY <2>1, <2>2, <2>3, <2>5, <1>2 DEF Leases, Balanced
<1>11. Fits'
    <2>1. UsedRaws' \ {0} \subseteq UsedRaws \ {0}
        BY <1>2, <1>4, <1>5, <1>9 DEF UsedRaws, Trying, Guarded, Serving
    <2>2. Begun' = Begun /\ Past' = Past
        BY <1>2, Zenon DEF Begun, Past
    <2> QED BY <2>1, <2>2, <1>0, FitsKept, Zenon
<1>12. Told'
    <2>1. \A m \in new : Honest(m)'
        BY <1>1 DEF Honest, Packet
    <2>2. net \subseteq net' /\ registered \subseteq registered' /\ \A m \in net' \ net : Honest(m)'
        BY <2>1, <1>2, Zenon
    <2> QED BY <2>2, <1>0, <1>2, TellsMore, Zenon
<1> QED BY <1>0, <1>2, <1>6, <1>7, <1>8, <1>10, <1>11, <1>12, ResumesKept, ZenonT(40) DEF Inv

-----------------------------------------------------------------------------
(* Steps of a responder *)

\* The buffer of requests that were processed keeps its size.
LEMMA RecordedFact ==
    ASSUME Typed, NEW m \in Packets, processed' = Recorded(m)
    PROVE  processed' \in [Nodes -> Seq(Requests)] /\ \A n \in Nodes : Len(processed'[n]) <= DedupSize
<1>1. m.to \in Nodes /\ Request(m) \in Requests
    BY Zenon DEF Packets, Request, Requests
<1>2. PICK old, x : old = processed[m.to] /\ x = Request(m)
    BY Zenon
<1>3. old \in Seq(Requests) /\ Len(old) <= DedupSize /\ DedupSize \in Nat /\ x \in Requests
    BY <1>1, <1>2, HandshakeAssumption, Zenon DEF Typed
<1>4. PICK new : new = IF Len(Append(old, x)) > DedupSize THEN Tail(Append(old, x)) ELSE Append(old, x)
    BY Zenon
<1>5. new \in Seq(Requests) /\ Len(new) <= DedupSize
    <2>1. Append(old, x) \in Seq(Requests) /\ Len(Append(old, x)) = Len(old) + 1 /\ Len(old) \in Nat
        BY <1>3
    <2>2. Append(old, x) # << >>
        BY <2>1
    <2>3. Tail(Append(old, x)) \in Seq(Requests) /\ Len(Tail(Append(old, x))) = Len(old)
        BY <2>1, <2>2
    <2> QED BY <2>1, <2>3, <1>3, <1>4
<1>6. processed' = [processed EXCEPT ![m.to] = new]
    BY <1>2, <1>4, Zenon DEF Recorded
<1> QED BY <1>1, <1>5, <1>6, Zenon DEF Typed

\* An answer is put into the queue of its handshake.
LEMMA OnAnswerKeeps ==
    ASSUME Inv, NEW m \in net, OnAnswer(m)
    PROVE  Inv'
<1>0. Typed /\ Numbered /\ Admissions /\ Leases /\ Fits /\ PendingIsAwaited /\ Told /\ Resumes
    BY Zenon DEF Inv
<1>1. m \in Packets /\ m.rid \in Rids \cup {0}
    BY <1>0, Zenon DEF Typed, Packets
<1>2. PICK mine : /\ mine \subseteq incoming
                  /\ incoming' = (incoming \ mine) \cup {[e EXCEPT !.queue = m.rid] : e \in mine}
    BY Zenon DEF OnAnswer
<1>3. /\ processed' = Recorded(m)
      /\ UNCHANGED <<calls, up, net, att, task, admitted, nextAdmission, tmp, pending, p2p, paused,
                     registered, orphans, ready>>
    BY Zenon DEF OnAnswer, history
<1>4. \A e \in incoming' : e \in Entries /\ \E d \in incoming : e.sid = d.sid /\ e.node = d.node /\ e.remote = d.remote
    <2>1. \A d \in Entries : [d EXCEPT !.queue = m.rid] \in Entries /\ [d EXCEPT !.queue = m.rid].sid = d.sid
            /\ [d EXCEPT !.queue = m.rid].node = d.node /\ [d EXCEPT !.queue = m.rid].remote = d.remote
        BY <1>1, Zenon DEF Entries
    <2>2. incoming \subseteq Entries
        BY <1>0, Zenon DEF Typed
    <2> TAKE e \in incoming'
    <2>3. e \in incoming \/ \E d \in mine : e = [d EXCEPT !.queue = m.rid]
        BY <1>2, Zenon
    <2>4. CASE e \in incoming
        BY <2>2, <2>4, Zenon
    <2>5. CASE \E d \in mine : e = [d EXCEPT !.queue = m.rid]
        <3>1. PICK d \in mine : e = [d EXCEPT !.queue = m.rid]
            BY <2>5, Zenon
        <3>2. d \in incoming /\ d \in Entries
            BY <2>2, <1>2, Zenon
        <3> QED BY <2>1, <3>1, <3>2, Zenon
    <2> QED BY <2>3, <2>4, <2>5, Zenon
<1>5. processed' \in [Nodes -> Seq(Requests)] /\ \A n \in Nodes : Len(processed'[n]) <= DedupSize
    BY <1>0, <1>1, <1>3, RecordedFact, Zenon
<1>6. Typed'
    BY <1>0, <1>3, <1>4, <1>5, Zenon DEF Typed
<1>7. Serving' = Serving /\ Guarded' = Guarded
    BY <1>3, Zenon DEF Guarded, Serving
<1>8. Numbered' /\ Admissions'
    <2>1. \A e \in incoming' : e.sid \in Guarded /\ task[e.sid].node = e.node /\ task[e.sid].peer = e.remote
        BY <1>0, <1>4 DEF Admissions
    <2> QED BY <2>1, <1>0, <1>3, <1>7, ZenonT(40) DEF Numbered, Admissions
<1>9. PendingIsAwaited' /\ DoneStays
    BY <1>0, <1>3, AttemptsKept, Zenon
<1>10. Leases' /\ Fits'
    BY <1>0, <1>3, <1>7 DEF Leases, Fits, UsedRaws, Trying, Begun, Past
<1>11. Told'
    BY <1>0, <1>3, TellsTheSame, Zenon
<1> QED BY <1>0, <1>3, <1>6, <1>8, <1>9, <1>10, <1>11, ResumesKept, Zenon DEF Inv

\* on_request without session id: a task is admitted, or the request is only recorded.
LEMMA OnHelloKeeps ==
    ASSUME Inv, NEW m \in net, OnHello(m)
    PROVE  Inv'
<1>0. Typed /\ Numbered /\ Admissions /\ Leases /\ Fits /\ PendingIsAwaited /\ Told /\ Resumes
    BY Zenon DEF Inv
<1>1. PICK n \in Nodes, p \in Nodes, rid \in Rids, ch \in Attempts \cup {0} :
         m \in Packets /\ m.to = n /\ m.from = p /\ m.rid = rid /\ m.ch = ch
    <2>1. m \in Packets /\ m.rid \in Rids
        BY <1>0, Zenon DEF OnHello, Typed, Told, Honest
    <2> QED BY <2>1, Zenon DEF Packets
<1>2. /\ processed' = Recorded(m)
      /\ UNCHANGED <<calls, up, net, att, incoming, tmp, pending, p2p, paused, registered, orphans,
                     ready>>
    BY Zenon DEF OnHello, history
<1>3. processed' \in [Nodes -> Seq(Requests)] /\ \A k \in Nodes : Len(processed'[k]) <= DedupSize
    BY <1>0, <1>1, <1>2, RecordedFact, Zenon
<1>4. PendingIsAwaited' /\ DoneStays /\ Trying' = Trying /\ Begun' = Begun /\ Same(Trying, att, att')
    BY <1>0, <1>2, AttemptsKept, Zenon
<1>5. Told'
    BY <1>0, <1>2, TellsTheSame, Zenon
<1>6. CASE ~Admissible(n, p)
    <2>1. UNCHANGED <<task, admitted, nextAdmission>>
        BY <1>1, <1>6, Zenon DEF OnHello
    <2>2. Typed'
        BY <2>1, <1>0, <1>2, <1>3, ZenonT(40) DEF Typed
    <2>3. Leases' /\ Fits'
        BY <2>1, <1>0, <1>2 DEF Leases, Fits, UsedRaws, Trying, Guarded, Serving, Begun, Past
    <2> QED BY <2>1, <2>2, <2>3, <1>0, <1>2, <1>4, <1>5, AdmissionsKept, ResumesKept, Zenon DEF Inv
<1>7. CASE Admissible(n, p)
    <2>1. PICK k \in 0..MaxSids : /\ \A s \in Sids : task[s] # NoTask <=> s <= k
                                  /\ \A q \in Nodes : nextAdmission[q] <= k
        BY <1>0, Zenon DEF Numbered
    <2>2. PICK free : free = {s \in Sids : task[s] = NoTask}
        BY Zenon
    <2>3. PICK s : s = Min(free)
        BY Zenon
    <2>4. PICK token : token = nextAdmission[n] + 1
        BY Zenon
    <2>5. PICK new : new = [pc |-> "admitted", node |-> n, peer |-> p, token |-> token, rid |-> rid,
                            ch |-> ch, raw |-> 0]
        BY Zenon
    <2>6. /\ free # {} /\ admitted' = [admitted EXCEPT ![n][p] = token]
          /\ nextAdmission' = [nextAdmission EXCEPT ![n] = token]
          /\ task' = [task EXCEPT ![s] = new]
        BY <1>1, <1>7, <2>2, <2>3, <2>4, <2>5, ZenonT(40) DEF OnHello
    <2>7. s \in Sids /\ task[s] = NoTask /\ s = k + 1
        <3>1. free \subseteq Nat
            BY <2>2, NumberFact, Zenon
        <3>2. s \in free /\ \A y \in free : s <= y
            BY <2>3, <2>6, <3>1, MinFact, Zenon
        <3>3. s \in Sids /\ task[s] = NoTask /\ ~(s <= k)
            BY <3>2, <2>1, <2>2, Zenon
        <3>4. k + 1 \in Sids /\ ~(k + 1 <= k) /\ k + 1 <= s
            BY <3>3, <2>1, NumberFact DEF Sids
        <3>5. k + 1 \in free
            BY <3>4, <2>1, <2>2, Zenon
        <3>6. s <= k + 1
            BY <3>2, <3>5, Zenon
        <3> QED BY <3>3, <3>4, <3>6, NumberFact
    <2>8. token \in 0..MaxSids /\ token \in Nat /\ token # 0 /\ token <= k + 1 /\ k + 1 \in 0..MaxSids
        <3>1. nextAdmission[n] \in 0..MaxSids /\ nextAdmission[n] <= k
            BY <1>0, <2>1, Zenon DEF Typed
        <3>2. k + 1 <= MaxSids
            BY <2>7, NumberFact DEF Sids
        <3> QED BY <3>1, <3>2, <2>1, <2>4, NumberFact
    <2>9. /\ new \in Early /\ new.pc = "admitted" /\ new.node = n /\ new.peer = p /\ new.token = token
          /\ new # NoTask
        <3>1. new \in Early /\ new.pc = "admitted" /\ new.node = n /\ new.peer = p /\ new.token = token
            BY <2>5, <2>8, Zenon DEF Early
        <3> QED BY <3>1 DEF NoTask
    <2>10. /\ task' \in [Sids -> TaskStates] /\ task'[s] = new
           /\ \A t \in Sids \ {s} : task'[t] = task[t]
        BY <1>0, <2>6, <2>7, <2>9, Zenon DEF Typed, TaskStates
    <2>11. /\ admitted' \in [Nodes -> [Nodes -> 0..MaxSids]] /\ admitted'[n][p] = token
           /\ \A i, j \in Nodes : i # n \/ j # p => admitted'[i][j] = admitted[i][j]
        BY <1>0, <2>6, <2>8, Zenon DEF Typed
    <2>12. /\ nextAdmission' \in [Nodes -> 0..MaxSids] /\ nextAdmission'[n] = token
           /\ \A i \in Nodes : i # n => nextAdmission'[i] = nextAdmission[i]
        BY <1>0, <2>6, <2>8, Zenon DEF Typed
    <2>13. Typed'
        BY <1>0, <1>2, <1>3, <2>10, <2>11, <2>12, Zenon DEF Typed
    <2>14. Numbered'
        <3>1. \A t \in Sids : task'[t] # NoTask <=> t <= k + 1
            <4> TAKE t \in Sids
            <4>1. CASE t = s
                <5>1. t <= k + 1
                    BY <4>1, <2>7, NumberFact
                <5> QED BY <4>1, <5>1, <2>9, <2>10, Zenon
            <4>2. CASE t # s
                <5>1. t <= k <=> t <= k + 1
                    BY <4>2, <2>1, <2>7, NumberFact
                <5> QED BY <4>2, <5>1, <2>1, <2>10, Zenon
            <4> QED BY <4>1, <4>2, Zenon
        <3>2. \A i \in Nodes : nextAdmission'[i] <= k + 1
            <4> TAKE i \in Nodes
            <4>1. nextAdmission[i] \in 0..MaxSids /\ nextAdmission[i] <= k
                BY <1>0, <2>1, Zenon DEF Typed
            <4>2. nextAdmission[i] <= k + 1
                BY <4>1, <2>1, NumberFact
            <4> QED BY <4>2, <2>8, <2>12, Zenon
        <3> QED BY <3>1, <3>2, <2>8, Zenon DEF Numbered
    <2>15. Serving' = Serving \cup {s} /\ Guarded' = Guarded /\ s \notin Serving
        <3>1. NoTask.pc = "none"
            BY Zenon DEF NoTask
        <3>2. Serving' = Serving \cup {s} /\ s \notin Serving
            BY <3>1, <2>7, <2>9, <2>10, Zenon DEF Serving
        <3> QED BY <3>2, <2>7, <2>9, <2>10, ZenonT(40) DEF Guarded, Serving
    <2>16. admitted[n][p] = 0 /\ \A t \in Serving : t \in Sids /\ ~(task[t].node = n /\ task[t].peer = p)
        BY <1>0, <1>7 DEF Admissible, Admissions, Serving
    <2>17. \A t \in Serving : task[t].node \in Nodes /\ task[t].peer \in Nodes
        BY <1>0, HolderFact, Zenon DEF Early, Late
    <2>18. Admissions'
        <3>1. \A t \in Serving' : /\ task'[t].token # 0
                                  /\ admitted'[task'[t].node][task'[t].peer] = task'[t].token
            <4> TAKE t \in Serving'
            <4>1. CASE t = s
                BY <4>1, <2>8, <2>9, <2>10, <2>11, ZenonT(40)
            <4>2. CASE t # s
                BY <4>2, <1>0, <2>10, <2>11, <2>15, <2>16, <2>17, SMTT(30) DEF Admissions
            <4> QED BY <4>1, <4>2, Zenon
        <3>2. \A t, u \in Serving' : task'[t].node = task'[u].node /\ task'[t].peer = task'[u].peer => t = u
            BY <1>0, <2>9, <2>10, <2>15, <2>16 DEF Admissions
        <3>3. \A i, j \in Nodes : admitted'[i][j] # 0 =>
                \E t \in Serving' : task'[t].node = i /\ task'[t].peer = j
            <4> TAKE i, j \in Nodes
            <4> HAVE admitted'[i][j] # 0
            <4>1. CASE i = n /\ j = p
                BY <4>1, <2>9, <2>10, <2>15, Zenon
            <4>2. CASE i # n \/ j # p
                <5>1. PICK t \in Serving : task[t].node = i /\ task[t].peer = j
                    BY <4>2, <1>0, <2>11 DEF Admissions
                <5> QED BY <5>1, <2>10, <2>15, <2>16, ZenonT(40)
            <4> QED BY <4>1, <4>2, Zenon
        <3>4. \A e \in incoming' :
                e.sid \in Guarded' /\ task'[e.sid].node = e.node /\ task'[e.sid].peer = e.remote
            BY <1>0, <1>2, <2>10, <2>15, <2>16, ZenonT(40) DEF Admissions, Guarded
        <3>5. \A i \in Nodes : Cardinality({q \in Nodes : admitted'[i][q] # 0}) <= MaxIncoming
            <4> TAKE i \in Nodes
            <4>1. CASE i # n
                <5>1. {q \in Nodes : admitted'[i][q] # 0} = {q \in Nodes : admitted[i][q] # 0}
                    BY <4>1, <2>11, Zenon
                <5> QED BY <5>1, <1>0, Zenon DEF Admissions
            <4>2. CASE i = n
                <5>1. PICK S : S = {q \in Nodes : admitted[n][q] # 0}
                    BY Zenon
                <5>2. {q \in Nodes : admitted'[i][q] # 0} = S \cup {p} /\ p \notin S /\ S \subseteq Nodes
                    BY <4>2, <5>1, <2>8, <2>11, <2>16, SMTT(30)
                <5>3. IsFiniteSet(S) /\ Cardinality(S) \in Nat
                    BY <5>2, HandshakeAssumption, PartFact, Zenon
                <5>4. Cardinality(S \cup {p}) = Cardinality(S) + 1
                    BY <5>2, <5>3, FS_AddElement, Zenon
                <5>5. Cardinality(S) < MaxIncoming
                    BY <5>1, <1>7, Zenon DEF Admissible
                <5>6. Cardinality(S) + 1 <= MaxIncoming
                    BY <5>3, <5>5, HandshakeAssumption
                <5> QED BY <5>2, <5>4, <5>6, Zenon
            <4> QED BY <4>1, <4>2, Zenon
        <3> QED BY <3>1, <3>2, <3>3, <3>4, <3>5, Zenon DEF Admissions
    <2>19. Leases' /\ Fits'
        <3>1. Same(Guarded, task, task')
            BY <2>10, <2>15, <2>16, Zenon DEF Same, Guarded
        <3>2. Past \subseteq Past'
            <4>1. s \notin Past
                BY <2>7 DEF Past, NoTask
            <4> QED BY <4>1, <2>10, Zenon DEF Past
        <3> QED BY <3>1, <3>2, <1>0, <1>2, <1>4, <2>15, HoldersKept, Zenon
    <2>20. Resumes'
        <3>1. \A t \in Sids : task'[t].pc = "resume" => t \in paused' \/ Known(t)'
            BY <1>0, <1>2, <1>4, <2>9, <2>10, KnownStays, Zenon DEF Resumes
        <3>2. \A t \in ready' : Known(t)'
            BY <1>0, <1>2, <1>4, KnownStays, Zenon DEF Resumes, ResponderAgrees, Known
        <3> QED BY <3>1, <3>2, Zenon DEF Resumes, ResponderAgrees, Known
    <2> QED BY <1>4, <1>5, <2>13, <2>14, <2>18, <2>19, <2>20, Zenon DEF Inv
<1> QED BY <1>6, <1>7, Zenon

\* A task goes on: it keeps its admission, and its entry in the table of incoming sessions.
LEMMA TaskMoves ==
    ASSUME Typed, Numbered, Admissions, NEW s \in Serving, NEW new \in Late,
           task' = [task EXCEPT ![s] = new], new.node = task[s].node, new.peer = task[s].peer,
           new.token = task[s].token, UNCHANGED <<admitted, nextAdmission>>,
           \A e \in incoming' :
              \/ e.sid = s /\ e.node = new.node /\ e.remote = new.peer
              \/ \E d \in incoming : e.sid = d.sid /\ e.node = d.node /\ e.remote = d.remote
    PROVE  /\ task' \in [Sids -> TaskStates] /\ task'[s] = new
           /\ \A t \in Sids \ {s} : task'[t] = task[t]
           /\ Serving' = Serving /\ Guarded' = Guarded \cup {s}
           /\ Numbered' /\ Admissions'
<1>1. s \in Sids /\ task[s] # NoTask
    BY DEF Serving, NoTask
<1>2. /\ task' \in [Sids -> TaskStates] /\ task'[s] = new
      /\ \A t \in Sids \ {s} : task'[t] = task[t]
    BY <1>1, Zenon DEF Typed, TaskStates
<1>3. new.pc \in {"init", "wait", "resume"} /\ new # NoTask
    BY DEF Late, NoTask
<1>4. Serving' = Serving
    BY <1>2, <1>3, Zenon DEF Serving
<1>5. Guarded' = Guarded \cup {s}
    BY <1>1, <1>2, <1>3, <1>4, ZenonT(40) DEF Guarded, Serving
<1>6. Numbered'
    <2>1. \A t \in Sids : task'[t] # NoTask <=> task[t] # NoTask
        BY <1>1, <1>2, <1>3, Zenon
    <2> QED BY <2>1, Zenon DEF Numbered
<1>7. \A t \in Serving : task'[t].node = task[t].node /\ task'[t].peer = task[t].peer /\ task'[t].token = task[t].token
    BY <1>2, ZenonT(40) DEF Serving
<1>8. Admissions'
    <2>1. \A e \in incoming' :
            e.sid \in Guarded' /\ task'[e.sid].node = e.node /\ task'[e.sid].peer = e.remote
        BY <1>2, <1>5, <1>7 DEF Admissions, Guarded
    <2> QED BY <2>1, <1>4, <1>7, SMTT(30) DEF Admissions
<1> QED BY <1>2, <1>4, <1>5, <1>6, <1>8, ZenonT(40)

\* new_session: the entry for the answer, and a lease.
LEMMA NewSessionKeeps ==
    ASSUME Inv, NEW s \in Sids, NewSession(s)
    PROVE  Inv'
<1>0. Typed /\ Numbered /\ Admissions /\ Leases /\ Fits /\ PendingIsAwaited /\ Told /\ Resumes
    BY Zenon DEF Inv
<1>1. task[s].pc = "admitted" /\ task[s] \in Early /\ s \in Serving /\ s \notin Guarded /\ s \notin Past
    BY <1>0, TaskFact, Zenon DEF NewSession, Typed, Serving, Guarded, Past
<1>2. PICK t \in Early : t = task[s]
    BY <1>1, Zenon
<1>3. PICK n \in Nodes, p \in Nodes : n = t.node /\ p = t.peer
    BY <1>2, Zenon DEF Early
<1>4. PICK w : w = LeasedRaw(n, p)
    BY Zenon
<1>5. w \in Raws /\ (w = tmp[n][p].raw \/ (tmp[n][p].raw = 0 /\ w \notin UsedRaws))
    BY <1>0, <1>1, <1>4, LeasedFact, Zenon
<1>6. PICK new : new = [t EXCEPT !.pc = "init", !.raw = w]
    BY Zenon
<1>7. /\ new \in Late /\ new.pc = "init" /\ new.node = n /\ new.peer = p /\ new.raw = w
      /\ new.token = t.token
    BY <1>2, <1>3, <1>5, <1>6, Zenon DEF Early, Late
<1>8. /\ incoming' = incoming \cup {[sid |-> s, node |-> n, remote |-> p, queue |-> 0]}
      /\ tmp' = [tmp EXCEPT ![n][p] = [raw |-> w, users |-> @.users + 1]]
      /\ UNCHANGED <<calls, up, net, att, admitted, nextAdmission, pending, processed, p2p, paused,
                     registered, orphans, ready>>
    BY <1>2, <1>3, <1>4, Zenon DEF NewSession, Leased, history
<1>9. task' = [task EXCEPT ![s] = new]
    BY <1>0, <1>2, <1>3, <1>4, <1>6, Zenon DEF NewSession, Typed
<1>10. /\ task' \in [Sids -> TaskStates] /\ task'[s] = new
       /\ \A u \in Sids \ {s} : task'[u] = task[u]
       /\ Serving' = Serving /\ Guarded' = Guarded \cup {s}
       /\ Numbered' /\ Admissions'
    <2>1. \A e \in incoming' :
              \/ e.sid = s /\ e.node = new.node /\ e.remote = new.peer
              \/ \E d \in incoming : e.sid = d.sid /\ e.node = d.node /\ e.remote = d.remote
        BY <1>7, <1>8
    <2>2. new.node = task[s].node /\ new.peer = task[s].peer /\ new.token = task[s].token
        BY <1>2, <1>3, <1>7, Zenon
    <2> QED BY <2>1, <2>2, <1>0, <1>1, <1>7, <1>8, <1>9, TaskMoves, ZenonT(40)
<1>11. Same(Guarded, task, task')
    BY <1>1, <1>10, Zenon DEF Same, Guarded, Serving
<1>12. PendingIsAwaited' /\ DoneStays /\ Trying' = Trying /\ Begun' = Begun /\ Same(Trying, att, att')
    BY <1>0, <1>8, AttemptsKept, Zenon
<1>13. tmp' \in Tables /\ Leases'
    <2>1. /\ tmp \in Tables /\ IsFiniteSet(Trying) /\ IsFiniteSet(Guarded)
          /\ Balanced(tmp, Guarded, task, Trying, att, orphans)
        BY <1>0, HolderFact, BalancedSwap, ZenonT(40) DEF Typed, Leases
    <2>2. \/ w = tmp[n][p].raw
          \/ /\ tmp[n][p].raw = 0 /\ w \notin orphans /\ \A m, q \in Nodes : tmp[m][q].raw # w
             /\ \A y \in Guarded : task[y].raw # w
             /\ \A y \in Trying : att[y].raw # w
        BY <1>5 DEF UsedRaws
    <2>3. task'[s].node = n /\ task'[s].peer = p /\ task'[s].raw = w
        BY <1>7, <1>10, Zenon
    <2>4. tmp' \in Tables /\ Balanced(tmp', Guarded \cup {s}, task', Trying, att, orphans)
        <3>1. Takes(tmp, Guarded, task, Trying, att, orphans, task', s, n, p, w, tmp')
            BY <2>1, <2>2, <2>3, <1>1, <1>5, <1>8, <1>11, ZenonT(40) DEF Takes
        <3> QED BY <3>1, LeaseTaken, Zenon
    <2>5. IsFiniteSet(Guarded \cup {s})
        BY <2>1, FS_AddElement, Zenon
    <2>6. Balanced(tmp', Trying, att, Guarded \cup {s}, task', orphans)
        BY <2>1, <2>4, <2>5, BalancedSwap, Zenon
    <2> QED BY <2>4, <2>6, <1>8, <1>10, <1>12, Zenon DEF Leases
<1>14. Typed'
    <2>1. [sid |-> s, node |-> n, remote |-> p, queue |-> 0] \in Entries
        BY Zenon DEF Entries
    <2> QED BY <2>1, <1>0, <1>8, <1>10, <1>13, Zenon DEF Typed
<1>15. Fits'
    <2>1. UsedRaws' \ {0} \subseteq (UsedRaws \ {0}) \cup {w}
        <3>1. \A b \in Trying' : att'[b].raw \in UsedRaws
            BY <1>8, <1>12, SMTT(30) DEF UsedRaws
        <3>2. \A u \in Guarded' : task'[u].raw \in UsedRaws \cup {w}
            BY <1>7, <1>10, <1>11, SMTT(30) DEF UsedRaws, Same
        <3>3. \A m, q \in Nodes : tmp'[m][q].raw \in UsedRaws \cup {w}
            <4>1. \A m, q \in Nodes : tmp'[m][q].raw = IF m = n /\ q = p THEN w ELSE tmp[m][q].raw
                BY <1>0, <1>8, ZenonT(40) DEF Typed, Tables
            <4> QED BY <4>1 DEF UsedRaws
        <3>4. orphans' \subseteq UsedRaws
            BY <1>8 DEF UsedRaws
        <3>5. ASSUME NEW r \in UsedRaws'
              PROVE  r \in UsedRaws \cup {w}
            <4>1. \/ r \in {att[b].raw : b \in Trying}' \/ r \in {task[u].raw : u \in Guarded}'
                  \/ (\E m, q \in Nodes : r = tmp'[m][q].raw) \/ r \in orphans'
                BY DEF UsedRaws
            <4>2. CASE r \in {att[b].raw : b \in Trying}'
                BY <4>2, <3>1, Zenon
            <4>3. CASE r \in {task[u].raw : u \in Guarded}'
                BY <4>3, <3>2, Zenon
            <4>4. CASE \E m, q \in Nodes : r = tmp'[m][q].raw
                BY <4>4, <3>3, Zenon
            <4> QED BY <4>1, <4>2, <4>3, <4>4, <3>4, ZenonT(40)
        <3> QED BY <3>5, ZenonT(40)
    <2>2. Past \subseteq Past' /\ s \in Past' \ Past
        BY <1>1, <1>7, <1>10, Zenon DEF Past
    <2> QED BY <2>1, <2>2, <1>0, <1>12, FitsGrows, Zenon
<1>16. Told'
    BY <1>0, <1>8, TellsTheSame, Zenon
<1>17. Resumes'
    <2>1. \A u \in Sids : task'[u].pc = "resume" => u \in paused' \/ Known(u)'
        BY <1>0, <1>7, <1>8, <1>10, <1>12, KnownStays, ZenonT(40) DEF Resumes
    <2>2. \A u \in ready' : Known(u)'
        BY <1>0, <1>8, <1>12, KnownStays, Zenon DEF Resumes, ResponderAgrees, Known
    <2> QED BY <2>1, <2>2, Zenon DEF Resumes, ResponderAgrees, Known
<1> QED BY <1>10, <1>12, <1>13, <1>14, <1>15, <1>16, <1>17, ZenonT(40) DEF Inv

\* The challenge is sent.
LEMMA SendChallengeKeeps ==
    ASSUME Inv, NEW s \in Sids, SendChallenge(s)
    PROVE  Inv'
<1>0. Typed /\ Numbered /\ Admissions /\ Leases /\ Fits /\ PendingIsAwaited /\ Told /\ Resumes
    BY Zenon DEF Inv
<1>1. task[s].pc = "init" /\ task[s] \in Late /\ s \in Serving /\ s \in Guarded /\ s \in Past
    BY <1>0, TaskFact, Zenon DEF SendChallenge, Typed, Serving, Guarded, Past
<1>2. PICK t \in Late : t = task[s]
    BY <1>1, Zenon
<1>3. PICK new : new = [t EXCEPT !.pc = "wait"]
    BY Zenon
<1>4. /\ new \in Late /\ new.pc = "wait" /\ new.node = t.node /\ new.peer = t.peer /\ new.raw = t.raw
      /\ new.token = t.token
    BY <1>2, <1>3, Zenon DEF Late
<1>5. PICK x : x = Packet("challenge", t.node, t.peer, t.rid, s, 0)
    BY Zenon
<1>6. x \in Packets /\ x.kind = "challenge" /\ x.rid \in Rids
    BY <1>2, <1>5, Zenon DEF Packet, Packets, Late
<1>7. /\ net' = net \cup {x} /\ task' = [task EXCEPT ![s] = new]
      /\ UNCHANGED <<calls, up, att, admitted, nextAdmission, incoming, processed, tmp, pending, p2p,
                     paused, registered, orphans, ready>>
    BY <1>2, <1>3, <1>5, Zenon DEF SendChallenge, tables, history
<1>8. /\ task' \in [Sids -> TaskStates] /\ task'[s] = new
      /\ \A u \in Sids \ {s} : task'[u] = task[u]
      /\ Serving' = Serving /\ Guarded' = Guarded \cup {s}
      /\ Numbered' /\ Admissions'
    BY <1>0, <1>1, <1>2, <1>4, <1>7, TaskMoves, Zenon
<1>9. PendingIsAwaited' /\ DoneStays /\ Trying' = Trying /\ Begun' = Begun /\ Same(Trying, att, att')
    BY <1>0, <1>7, AttemptsKept, Zenon
<1>10. Leases' /\ Fits'
    <2>1. Guarded' = Guarded
        BY <1>1, <1>8, Zenon
    <2>2. Same(Guarded, task, task')
        BY <1>2, <1>4, <1>8, Zenon DEF Same, Guarded, Serving
    <2>3. Past \subseteq Past'
        BY <1>4, <1>8, Zenon DEF Past
    <2> QED BY <2>1, <2>2, <2>3, <1>0, <1>7, <1>9, HoldersKept, ZenonT(40)
<1>11. Typed'
    BY <1>0, <1>6, <1>7, <1>8, Zenon DEF Typed
<1>12. Told'
    <2>1. Honest(x)'
        BY <1>6, Zenon DEF Honest
    <2>2. net \subseteq net' /\ registered \subseteq registered' /\ \A m \in net' \ net : Honest(m)'
        BY <2>1, <1>7, Zenon
    <2> QED BY <2>2, <1>0, <1>7, TellsMore, Zenon
<1>13. Resumes'
    <2>1. \A u \in Sids : task'[u].pc = "resume" => u \in paused' \/ Known(u)'
        BY <1>0, <1>4, <1>7, <1>8, <1>9, KnownStays, ZenonT(40) DEF Resumes
    <2>2. \A u \in ready' : Known(u)'
        BY <1>0, <1>7, <1>9, KnownStays, Zenon DEF Resumes, ResponderAgrees, Known
    <2> QED BY <2>1, <2>2, Zenon DEF Resumes, ResponderAgrees, Known
<1> QED BY <1>8, <1>9, <1>10, <1>11, <1>12, <1>13, ZenonT(40) DEF Inv

\* The answer is there: the session is registered and paused, then the last response is sent.
LEMMA RegisterKeeps ==
    ASSUME Inv, NEW s \in Sids, Register(s)
    PROVE  Inv'
<1>0. Typed /\ Numbered /\ Admissions /\ Leases /\ Fits /\ PendingIsAwaited /\ Told /\ Resumes
    BY Zenon DEF Inv
<1>1. task[s].pc = "wait" /\ task[s] \in Late /\ s \in Serving /\ s \in Guarded /\ s \in Past
    BY <1>0, TaskFact, Zenon DEF Register, Typed, Serving, Guarded, Past
<1>2. PICK t \in Late : t = task[s]
    BY <1>1, Zenon
<1>3. PICK new : new = [t EXCEPT !.pc = "resume"]
    BY Zenon
<1>4. /\ new \in Late /\ new.pc = "resume" /\ new.node = t.node /\ new.peer = t.peer /\ new.raw = t.raw
      /\ new.token = t.token
    BY <1>2, <1>3, Zenon DEF Late
<1>5. PICK e \in incoming :
         /\ e.sid = s /\ e.queue # 0
         /\ incoming' = (incoming \ {e}) \cup {[e EXCEPT !.queue = 0]}
         /\ net' = net \cup {Packet("final", t.node, t.peer, e.queue, s, t.ch)}
    BY <1>2, Zenon DEF Register
<1>6. PICK x : x = Packet("final", t.node, t.peer, e.queue, s, t.ch)
    BY Zenon
<1>7. e \in Entries /\ e.queue \in Rids
    <2>1. e \in Entries
        BY <1>0, Zenon DEF Typed
    <2> QED BY <2>1, <1>5, Zenon DEF Entries
<1>8. /\ x \in Packets /\ x.kind = "final" /\ x.rid \in Rids /\ x.sid = s /\ x.from = t.node
      /\ x.to = t.peer /\ x.ch = t.ch
    BY <1>2, <1>6, <1>7, Zenon DEF Packet, Packets, Late
<1>9. PICK d : d = [e EXCEPT !.queue = 0]
    BY Zenon
<1>10. d \in Entries /\ d.sid = e.sid /\ d.node = e.node /\ d.remote = e.remote
    BY <1>7, <1>9, Zenon DEF Entries
<1>11. /\ net' = net \cup {x} /\ incoming' = (incoming \ {e}) \cup {d}
       /\ p2p' = [p2p EXCEPT ![t.node][t.peer] = s] /\ paused' = paused \cup {s}
       /\ registered' = registered \cup {[sid |-> s, node |-> t.node, peer |-> t.peer, ch |-> t.ch]}
       /\ task' = [task EXCEPT ![s] = new]
       /\ UNCHANGED <<calls, up, att, admitted, nextAdmission, tmp, pending, processed, orphans, ready>>
    BY <1>2, <1>3, <1>5, <1>6, <1>9, Zenon DEF Register, Paused
<1>12. /\ task' \in [Sids -> TaskStates] /\ task'[s] = new
       /\ \A u \in Sids \ {s} : task'[u] = task[u]
       /\ Serving' = Serving /\ Guarded' = Guarded \cup {s}
       /\ Numbered' /\ Admissions'
    <2>1. \A i \in incoming' : \E j \in incoming : i.sid = j.sid /\ i.node = j.node /\ i.remote = j.remote
        BY <1>10, <1>11, Zenon
    <2> QED BY <2>1, <1>0, <1>1, <1>2, <1>4, <1>11, TaskMoves, ZenonT(40)
<1>13. PendingIsAwaited' /\ DoneStays /\ Trying' = Trying /\ Begun' = Begun /\ Same(Trying, att, att')
    BY <1>0, <1>11, AttemptsKept, Zenon
<1>14. Leases' /\ Fits'
    <2>1. Guarded' = Guarded
        BY <1>1, <1>12, Zenon
    <2>2. Same(Guarded, task, task')
        BY <1>2, <1>4, <1>12, Zenon DEF Same, Guarded, Serving
    <2>3. Past \subseteq Past'
        BY <1>4, <1>12, Zenon DEF Past
    <2> QED BY <2>1, <2>2, <2>3, <1>0, <1>11, <1>13, HoldersKept, ZenonT(40)
<1>15. Typed'
    <2>1. p2p' \in [Nodes -> [Nodes -> Sids \cup {0}]]
        <3>1. t.node \in Nodes /\ t.peer \in Nodes /\ p2p \in [Nodes -> [Nodes -> Sids \cup {0}]]
            BY <1>0, <1>2, Zenon DEF Typed, Late
        <3> QED BY <3>1, <1>11, Zenon
    <2>2. incoming' \subseteq Entries /\ paused' \subseteq Sids /\ net' \subseteq Packets
        BY <1>0, <1>8, <1>10, <1>11, Zenon DEF Typed
    <2> QED BY <2>1, <2>2, <1>0, <1>11, <1>12, Zenon DEF Typed
<1>16. Told'
    <2>1. Honest(x)'
        BY <1>8, <1>11, Zenon DEF Honest
    <2>2. net \subseteq net' /\ registered \subseteq registered' /\ \A m \in net' \ net : Honest(m)'
        BY <2>1, <1>11, Zenon
    <2> QED BY <2>2, <1>0, <1>11, TellsMore, Zenon
<1>17. Resumes'
    <2>1. \A u \in Sids : task'[u].pc = "resume" => u \in paused' \/ Known(u)'
        BY <1>0, <1>11, <1>12, <1>13, KnownStays, Zenon DEF Resumes
    <2>2. \A u \in ready' : Known(u)'
        BY <1>0, <1>11, <1>13, KnownStays, Zenon DEF Resumes, ResponderAgrees, Known
    <2> QED BY <2>1, <2>2, Zenon DEF Resumes, ResponderAgrees, Known
<1> QED BY <1>12, <1>13, <1>14, <1>15, <1>16, <1>17, Zenon DEF Inv

\* A task ends, wherever it is: its admission, its entry and its lease are given back.
LEMMA TaskEnds ==
    ASSUME Inv, NEW s \in Serving, Ends(s), UNCHANGED <<att, nextAdmission, orphans, pending>>
    PROVE  /\ task' \in [Sids -> TaskStates] /\ task'[s] = Ended
           /\ \A t \in Sids \ {s} : task'[t] = task[t]
           /\ admitted' \in [Nodes -> [Nodes -> 0..MaxSids]] /\ incoming' \subseteq incoming
           /\ tmp' \in Tables /\ Numbered' /\ Admissions' /\ Leases' /\ Fits'
<1>0. Typed /\ Numbered /\ Admissions /\ Leases /\ Fits /\ PendingIsAwaited
    BY Zenon DEF Inv
<1>1. s \in Sids /\ task[s] \in Early \cup Late
    BY <1>0, HolderFact, Zenon
<1>2. PICK n \in Nodes, p \in Nodes : n = task[s].node /\ p = task[s].peer
    BY <1>1, Zenon DEF Early, Late
<1>3. /\ task' = [task EXCEPT ![s] = Ended]
      /\ admitted' = [admitted EXCEPT ![n][p] = IF @ = task[s].token THEN 0 ELSE @]
      /\ incoming' = NotIncoming(s)
      /\ tmp' = IF task[s].pc = "admitted" THEN tmp ELSE Released(n, p, task[s].raw)
    BY <1>2, Zenon DEF Ends, Unadmitted
<1>4. Ended.pc = "ended" /\ Ended # NoTask
    BY Zenon DEF Ended, NoTask
<1>5. /\ task' \in [Sids -> TaskStates] /\ task'[s] = Ended
      /\ \A t \in Sids \ {s} : task'[t] = task[t]
    BY <1>0, <1>1, <1>3, Zenon DEF Typed, TaskStates
<1>6. Serving' = Serving \ {s} /\ Guarded' = Guarded \ {s}
    <2>1. Serving' = Serving \ {s}
        BY <1>4, <1>5, Zenon DEF Serving
    <2> QED BY <2>1, <1>5, Zenon DEF Guarded, Serving
<1>7. admitted[n][p] = task[s].token
    BY <1>0, <1>2, Zenon DEF Admissions
<1>8. /\ admitted' \in [Nodes -> [Nodes -> 0..MaxSids]] /\ admitted'[n][p] = 0
      /\ \A i, j \in Nodes : i # n \/ j # p => admitted'[i][j] = admitted[i][j]
    <2>1. admitted \in [Nodes -> [Nodes -> 0..MaxSids]] /\ 0 \in 0..MaxSids
        BY <1>0, NumberFact DEF Typed
    <2>2. admitted' = [admitted EXCEPT ![n][p] = 0]
        BY <1>3, <1>7, Zenon
    <2> QED BY <2>1, <2>2, Zenon
<1>9. incoming' \subseteq incoming /\ \A e \in incoming' : e.sid # s
    BY <1>3, Zenon DEF NotIncoming
<1>10. Numbered'
    <2>1. \A t \in Sids : task'[t] # NoTask <=> task[t] # NoTask
        BY <1>1, <1>4, <1>5 DEF Serving, NoTask
    <2> QED BY <2>1, <1>0, Zenon DEF Numbered
<1>11. \A t \in Serving' : t \in Serving /\ t # s /\ task'[t] = task[t] /\ task[t].node \in Nodes /\ task[t].peer \in Nodes
                             /\ ~(task[t].node = n /\ task[t].peer = p)
    <2>1. \A t \in Serving : t \in Sids /\ task[t].node \in Nodes /\ task[t].peer \in Nodes
        BY <1>0, HolderFact, Zenon DEF Early, Late
    <2> QED BY <2>1, <1>0, <1>2, <1>5, <1>6, Zenon DEF Admissions
<1>12. Admissions'
    <2>1. \A t \in Serving' : /\ task'[t].token # 0
                              /\ admitted'[task'[t].node][task'[t].peer] = task'[t].token
        BY <1>0, <1>8, <1>11, SMTT(30) DEF Admissions
    <2>2. \A t, u \in Serving' : task'[t].node = task'[u].node /\ task'[t].peer = task'[u].peer => t = u
        BY <1>0, <1>11 DEF Admissions
    <2>3. \A i, j \in Nodes : admitted'[i][j] # 0 =>
            \E t \in Serving' : task'[t].node = i /\ task'[t].peer = j
        <3> TAKE i, j \in Nodes
        <3> HAVE admitted'[i][j] # 0
        <3>1. i # n \/ j # p
            BY <1>8, ZenonT(40)
        <3>2. PICK t \in Serving : task[t].node = i /\ task[t].peer = j
            BY <3>1, <1>0, <1>8 DEF Admissions
        <3>3. t \in Serving'
            BY <3>1, <3>2, <1>2, <1>6, Zenon
        <3> QED BY <3>2, <3>3, <1>11, Zenon
    <2>4. \A e \in incoming' :
            e.sid \in Guarded' /\ task'[e.sid].node = e.node /\ task'[e.sid].peer = e.remote
        <3> TAKE e \in incoming'
        <3>1. e.sid \in Guarded /\ task[e.sid].node = e.node /\ task[e.sid].peer = e.remote /\ e.sid # s
            BY <1>0, <1>9, Zenon DEF Admissions
        <3>2. e.sid \in Sids
            BY <3>1, Zenon DEF Guarded, Serving
        <3> QED BY <3>1, <3>2, <1>5, <1>6, Zenon
    <2>5. \A i \in Nodes : Cardinality({q \in Nodes : admitted'[i][q] # 0}) <= MaxIncoming
        <3> TAKE i \in Nodes
        <3>1. PICK S, T : S = {q \in Nodes : admitted'[i][q] # 0} /\ T = {q \in Nodes : admitted[i][q] # 0}
            BY Zenon
        <3>2. S \subseteq T /\ T \subseteq Nodes
            BY <3>1, <1>8, Zenon
        <3>3. IsFiniteSet(T)
            BY <3>2, HandshakeAssumption, PartFact, Zenon
        <3>4. Cardinality(S) <= Cardinality(T) /\ Cardinality(S) \in Nat /\ Cardinality(T) \in Nat
            BY <3>2, <3>3, PartFact, Zenon
        <3>5. Cardinality(T) <= MaxIncoming
            BY <3>1, <1>0, Zenon DEF Admissions
        <3>6. Cardinality(S) <= MaxIncoming
            BY <3>4, <3>5, HandshakeAssumption
        <3> QED BY <3>1, <3>6, Zenon
    <2> QED BY <2>1, <2>2, <2>3, <2>4, <2>5, ZenonT(40) DEF Admissions
<1>13. Trying' = Trying /\ Begun' = Begun /\ Same(Trying, att, att')
    BY <1>0, AttemptsKept, Zenon
<1>14. Past \subseteq Past'
    BY <1>4, <1>5, Zenon DEF Past
<1>15. Same(Guarded \ {s}, task, task')
    BY <1>5, Zenon DEF Same, Guarded, Serving
<1>16. tmp' \in Tables /\ Leases' /\ Fits'
    <2>1. CASE task[s].pc = "admitted"
        <3>1. Guarded' = Guarded /\ Same(Guarded, task, task') /\ tmp' = tmp
            <4>1. s \notin Guarded
                BY <2>1, Zenon DEF Guarded
            <4>2. Guarded \ {s} = Guarded
                BY <4>1, Zenon
            <4> QED BY <4>2, <2>1, <1>3, <1>6, <1>15, Zenon
        <3> QED BY <3>1, <1>0, <1>13, <1>14, HoldersKept, Zenon DEF Typed
    <2>2. CASE task[s].pc # "admitted"
        <3>1. PICK w : w = task[s].raw
            BY Zenon
        <3>2. s \in Guarded
            BY <2>2, Zenon DEF Guarded
        <3>3. /\ tmp \in Tables /\ IsFiniteSet(Trying) /\ IsFiniteSet(Guarded) /\ orphans \subseteq Raws
              /\ Balanced(tmp, Guarded, task, Trying, att, orphans)
            BY <1>0, HolderFact, BalancedSwap, Zenon DEF Typed, Leases
        <3>4. tmp' = [tmp EXCEPT ![n][p] = Less(@, w)]
            BY <2>2, <3>1, <1>3, Zenon DEF Released, Less
        <3>5. task[s].node = n /\ task[s].peer = p /\ task[s].raw = w
            BY <3>1, <1>2, Zenon
        <3>6. tmp' \in Tables /\ Balanced(tmp', Guarded \ {s}, task', Trying, att, orphans)
            <4>1. Drops(tmp, Guarded, task, Trying, att, orphans, task', s, n, p, w, tmp')
                BY <3>2, <3>3, <3>4, <3>5, <1>15, Zenon DEF Drops
            <4> QED BY <4>1, LeaseDropped, Zenon
        <3>7. IsFiniteSet(Guarded \ {s})
            BY <3>3, PartFact, Zenon
        <3>8. Balanced(tmp', Trying, att, Guarded \ {s}, task', orphans)
            BY <3>3, <3>6, <3>7, BalancedSwap, Zenon
        <3>9. Leases'
            BY <3>8, <1>6, <1>13, ZenonT(40) DEF Leases
        <3>10. UsedRaws' \ {0} \subseteq UsedRaws \ {0}
            <4>1. tmp' = Released(n, p, w)
                BY <2>2, <3>1, <1>3, Zenon
            <4>2. \A m, q \in Nodes : tmp'[m][q].raw \in {0, tmp[m][q].raw}
                BY <4>1, <3>3, ReleasedRaw, Zenon
            <4>3. \A u \in Guarded' : u \in Guarded /\ task'[u].raw = task[u].raw
                BY <1>6, <1>15, Zenon DEF Same
            <4> QED BY <4>2, <4>3, <1>13 DEF UsedRaws
        <3> QED BY <3>6, <3>9, <3>10, <1>0, <1>13, <1>14, FitsKept, ZenonT(40)
    <2> QED BY <2>1, <2>2, Zenon
<1> QED BY <1>5, <1>8, <1>9, <1>10, <1>12, <1>16, Zenon

\* A step that ends a task keeps the invariant, if the session is known when it is Ready.
LEMMA TaskEndsKeeps ==
    ASSUME Inv, NEW s \in Serving, Ends(s), ready' \in {ready, ready \cup {s}},
           ready' = ready \cup {s} => Known(s),
           p2p' \in [Nodes -> [Nodes -> Sids \cup {0}]],
           UNCHANGED <<calls, up, net, att, nextAdmission, pending, processed, paused, registered,
                       orphans>>
    PROVE  Inv'
<1>0. Typed /\ Numbered /\ Admissions /\ Leases /\ Fits /\ PendingIsAwaited /\ Told /\ Resumes
    BY Zenon DEF Inv
<1>1. /\ task' \in [Sids -> TaskStates] /\ task'[s] = Ended
      /\ \A t \in Sids \ {s} : task'[t] = task[t]
      /\ admitted' \in [Nodes -> [Nodes -> 0..MaxSids]] /\ incoming' \subseteq incoming
      /\ tmp' \in Tables /\ Numbered' /\ Admissions' /\ Leases' /\ Fits'
    BY TaskEnds, Zenon
<1>2. Typed'
    BY <1>0, <1>1, Zenon DEF Typed, Serving
<1>3. PendingIsAwaited' /\ DoneStays
    BY <1>0, AttemptsKept, Zenon
<1>4. Told'
    BY <1>0, TellsTheSame, Zenon
<1>5. Resumes'
    <2>1. \A u \in Sids : task'[u].pc = "resume" => u \in paused' \/ Known(u)'
        <3>1. task'[s].pc # "resume"
            BY <1>1 DEF Ended
        <3> QED BY <3>1, <1>0, <1>1, <1>3, KnownStays, ZenonT(40) DEF Resumes
    <2>2. \A u \in ready : Known(u)
        BY <1>0, Zenon DEF Resumes, ResponderAgrees, Known
    <2>3. \A u \in ready' : Known(u)
        BY <2>2, Zenon
    <2>4. \A u \in ready' : Known(u)'
        BY <2>3, <1>3, KnownStays, Zenon
    <2> QED BY <2>1, <2>4, Zenon DEF Resumes, ResponderAgrees, Known
<1> QED BY <1>1, <1>2, <1>3, <1>4, <1>5, Zenon DEF Inv

\* wait_for_resume returns.
LEMMA ReadyKeeps ==
    ASSUME Inv, NEW s \in Sids, Ready(s)
    PROVE  Inv'
<1>1. s \in Serving /\ Known(s)
    BY Zenon DEF Ready, MayForward, Serving, Inv, Resumes
<1>2. p2p' \in [Nodes -> [Nodes -> Sids \cup {0}]]
    BY Zenon DEF Ready, Inv, Typed
<1>3. /\ Ends(s) /\ ready' = ready \cup {s}
      /\ UNCHANGED <<calls, up, net, att, nextAdmission, pending, processed, paused, registered,
                     orphans>>
    BY Zenon DEF Ready
<1> QED BY <1>1, <1>2, <1>3, TaskEndsKeeps, Zenon

\* A task that fails, at any place.
LEMMA TaskFailsKeeps ==
    ASSUME Inv, NEW s \in Sids, TaskFails(s)
    PROVE  Inv'
<1>1. /\ s \in Serving /\ Ends(s) /\ ready' = ready
      /\ UNCHANGED <<calls, up, net, att, nextAdmission, pending, processed, paused, registered,
                     orphans>>
    BY Zenon DEF TaskFails, history
<1>2. p2p' \in [Nodes -> [Nodes -> Sids \cup {0}]]
    <2>1. p2p \in [Nodes -> [Nodes -> Sids \cup {0}]] /\ Typed
        BY Zenon DEF Inv, Typed
    <2>2. PICK n \in Nodes, p \in Nodes : n = task[s].node /\ p = task[s].peer
        BY <2>1, <1>1, HolderFact, Zenon DEF Early, Late
    <2>3. p2p' = [p2p EXCEPT ![n][p] = IF @ = s THEN 0 ELSE @]
        BY <2>2, Zenon DEF TaskFails
    <2> QED BY <2>1, <2>2, <2>3, ZenonT(40)
<1>3. ready' = ready \cup {s} => s \in ready
    BY <1>1, Zenon
<1>4. s \in ready => Known(s)
    BY Zenon DEF Inv, Resumes, ResponderAgrees, Known
<1> QED BY <1>1, <1>2, <1>3, <1>4, TaskEndsKeeps, Zenon

-----------------------------------------------------------------------------
(* The theorems *)

\* The invariant holds at first.
LEMMA InitInv ==
    ASSUME Init
    PROVE  Inv
<1>0. 0 \in 0..MaxSids /\ 0 \in Nat /\ 0 <= MaxIncoming /\ 0 <= DedupSize
    BY HandshakeAssumption
<1>1. /\ \A a \in Attempts : att[a] = NotStarted /\ att[a].pc = "idle"
      /\ \A s \in Sids : task[s] = NoTask /\ task[s].pc = "none"
    BY Zenon DEF Init, NotStarted, NoTask
<1>2. Trying = {} /\ Serving = {} /\ Guarded = {} /\ Begun = {} /\ Past = {}
    BY <1>1, Zenon DEF Trying, Serving, Guarded, Begun, Past
<1>3. NoTemporary \in [raw : Raws \cup {0}, users : Nat] /\ NoTemporary.raw = 0 /\ NoTemporary.users = 0
    BY DEF NoTemporary
<1>4. Typed
    <2>1. \A n \in Nodes : processed[n] = << >>
        BY Zenon DEF Init
    <2>2. << >> \in Seq(Requests) /\ Len(<< >>) = 0
        OBVIOUS
    <2>3. processed \in [Nodes -> Seq(Requests)] /\ \A n \in Nodes : Len(processed[n]) <= DedupSize
        BY <2>1, <2>2, <1>0, Zenon DEF Init
    <2>4. att \in [Attempts -> AttStates] /\ task \in [Sids -> TaskStates] /\ tmp \in Tables
        BY <1>3, Zenon DEF Init, AttStates, TaskStates, Tables
    <2> QED BY <2>3, <2>4, <1>0, Zenon DEF Init, Typed
<1>5. Numbered
    <2>1. \A s \in Sids : ~(s <= 0)
        BY NumberFact
    <2>2. \A n \in Nodes : nextAdmission[n] <= 0
        <3>1. \A n \in Nodes : nextAdmission[n] = 0
            BY Zenon DEF Init
        <3> QED BY <3>1
    <2> QED BY <2>1, <2>2, <1>0, <1>1, Zenon DEF Numbered
<1>6. Cardinality({}) = 0
    BY FS_EmptySet, Zenon
<1>7. Admissions
    <2>1. \A n, p \in Nodes : admitted[n][p] = 0
        BY Zenon DEF Init
    <2>2. \A n \in Nodes : {q \in Nodes : admitted[n][q] # 0} = {}
        BY <2>1, Zenon
    <2> QED BY <2>1, <2>2, <1>0, <1>2, <1>6, Zenon DEF Init, Admissions
<1>8. \A n, p \in Nodes : tmp[n][p].raw = 0 /\ tmp[n][p].users = 0
    BY <1>3, Zenon DEF Init
<1>9. Leases
    <2>1. \A n, w : Users({}, att, n, w) = {} /\ Users({}, task, n, w) = {}
        BY Zenon DEF Users
    <2>2. Cardinality({}) + Cardinality({}) = 0
        BY <1>6
    <2>3. Balanced(tmp, {}, att, {}, task, {})
        BY <2>1, <2>2, <1>8, Zenon DEF Balanced, Placed
    <2> QED BY <2>3, <1>2, Zenon DEF Leases, Init
<1>10. Fits
    <2>1. UsedRaws \ {0} = {}
        BY <1>2, <1>8 DEF UsedRaws, Init
    <2>2. Cardinality({}) <= Cardinality({}) + Cardinality({})
        BY <1>6
    <2> QED BY <2>1, <2>2, <1>2, ZenonT(40) DEF Fits
<1>11. PendingIsAwaited
    BY <1>1, Zenon DEF PendingIsAwaited, Waiting, Init
<1>12. Told /\ Resumes
    BY <1>1, <1>2, Zenon DEF Told, InitiatorAgrees, Resumes, ResponderAgrees, Init
<1> QED BY <1>4, <1>5, <1>7, <1>9, <1>10, <1>11, <1>12, ZenonT(40) DEF Inv

\* Every step of Handshake keeps the invariant.
LEMMA NextKeeps ==
    ASSUME Inv, [Next]_vars
    PROVE  Inv'
<1>1. CASE UNCHANGED vars
    <2>1. UNCHANGED <<calls, up, net, att, task, admitted, nextAdmission, incoming, processed, tmp,
                      pending, p2p, paused, registered, orphans, ready>>
        BY <1>1, Zenon DEF vars, tables, history
    <2>2. net \subseteq net' /\ net' \subseteq Packets /\ \A m \in net' \ net : m.kind = "disconnected"
        BY <2>1, Zenon DEF Inv, Typed
    <2>3. p2p' \in [Nodes -> [Nodes -> Sids \cup {0}]]
        BY <2>1, Zenon DEF Inv, Typed
    <2> QED BY <2>1, <2>2, <2>3, SessionStep, Zenon
<1>2. ASSUME NEW a \in Attempts, NEW rid \in Rids, StartAttempt(a, calls[a][1], calls[a][2], rid)
      PROVE  Inv'
    <2>1. calls \in [Attempts -> {c \in Nodes \X Nodes : c[1] # c[2]}]
        BY HandshakeAssumption, Zenon DEF Inv, Typed
    <2>2. calls[a] \in Nodes \X Nodes
        BY <2>1, Zenon
    <2>3. calls[a][1] \in Nodes /\ calls[a][2] \in Nodes
        BY <2>2
    <2> QED BY <2>3, <1>2, StartAttemptKeeps, Zenon
<1>3. ASSUME NEW a \in Attempts, NEW rid \in Rids, Answer(a, rid)
      PROVE  Inv'
    BY <1>3, AnswerKeeps, Zenon
<1>4. ASSUME NEW a \in Attempts, Finish(a) \/ AttemptFails(a)
      PROVE  Inv'
    BY <1>4, FinishKeeps, AttemptFailsKeeps, Zenon
<1>5. ASSUME NEW m \in net, OnHello(m) \/ OnAnswer(m) \/ OnResponse(m) \/ OnResume(m) \/ OnDisconnected(m)
      PROVE  Inv'
    BY <1>5, OnHelloKeeps, OnAnswerKeeps, OnResponseKeeps, OnResumeKeeps, OnDisconnectedKeeps, Zenon
<1>6. ASSUME NEW s \in Sids, NewSession(s) \/ SendChallenge(s) \/ Register(s) \/ Ready(s) \/ TaskFails(s)
      PROVE  Inv'
    BY <1>6, NewSessionKeeps, SendChallengeKeeps, RegisterKeeps, ReadyKeeps, TaskFailsKeeps, Zenon
<1>7. ASSUME NEW n \in Nodes, NEW p \in Nodes, CloseSession(n, p)
      PROVE  Inv'
    BY <1>7, CloseSessionKeeps, Zenon
<1>8. ASSUME NEW n \in Stops, Shutdown(n)
      PROVE  Inv'
    BY <1>8, HandshakeAssumption, ShutdownKeeps, Zenon
<1> QED BY <1>1, <1>2, <1>3, <1>4, <1>5, <1>6, <1>7, <1>8, ZenonT(40) DEF Next

\* The invariant holds in every state.
LEMMA Invariance == Spec => []Inv
<1>1. Init => Inv
    BY InitInv
<1>2. Inv /\ [Next]_vars => Inv'
    BY NextKeeps
<1> QED BY <1>1, <1>2, PTL DEF Spec

\* What the invariant says of types, admissions and leases.
LEMMA HeldFact ==
    ASSUME Inv
    PROVE  HeldIsReleased
<1>0. Typed /\ Admissions /\ Leases
    BY Zenon DEF Inv
<1>1. ASSUME NEW n \in Nodes, NEW p \in Nodes
      PROVE  tmp[n][p].users \in 0..Cardinality(Raws)
    <2>1. PICK S, T : S = Users(Trying, att, n, tmp[n][p].raw) /\ T = Users(Guarded, task, n, tmp[n][p].raw)
        BY Zenon
    <2>2. S \subseteq Attempts /\ T \subseteq Sids
        BY <2>1, Zenon DEF Users, Trying, Guarded, Serving
    <2>3. /\ Cardinality(S) \in Nat /\ Cardinality(S) <= Cardinality(Attempts)
          /\ Cardinality(T) \in Nat /\ Cardinality(T) <= MaxSids
        BY <2>2, NumberFact, PartFact, Zenon
    <2>4. tmp[n][p].users = Cardinality(S) + Cardinality(T)
        BY <2>1, <1>0, Zenon DEF Leases, Balanced
    <2> QED BY <2>3, <2>4, NumberFact
<1>2. TypeOK
    <2>1. tmp \in [Nodes -> [Nodes -> [raw : Raws \cup {0}, users : 0..Cardinality(Raws)]]]
        <3>1. \A n, p \in Nodes : tmp[n][p] \in [raw : Raws \cup {0}, users : 0..Cardinality(Raws)]
            <4> TAKE n, p \in Nodes
            <4>1. tmp[n][p] \in [raw : Raws \cup {0}, users : Nat] /\ tmp[n][p].users \in 0..Cardinality(Raws)
                BY <1>0, <1>1, Zenon DEF Typed, Tables
            <4> QED BY <4>1, Zenon
        <3>2. tmp \in [Nodes -> [Nodes -> [raw : Raws \cup {0}, users : Nat]]]
            BY <1>0, Zenon DEF Typed, Tables
        <3> QED BY <3>1, <3>2, Zenon
    <2>2. \A a \in Attempts : att[a].pc \in {"idle", "hello", "answer", "done", "failed"}
        BY <1>0, AttFact, Zenon DEF Typed
    <2>3. \A s \in Sids : task[s].pc \in {"none", "admitted", "init", "wait", "resume", "ended"}
        BY <1>0, TaskFact, Zenon DEF Typed
    <2> QED BY <2>1, <2>2, <2>3, <1>0, Zenon DEF TypeOK, Typed, Entries
<1>3. AdmissionsAreHeld
    <2> SUFFICES ASSUME NEW n \in Nodes, NEW served, served = {s \in Serving : task[s].node = n}
                 PROVE  /\ \A p \in Nodes : admitted[n][p] # 0 =>
                             \E s \in served : task[s].peer = p /\ task[s].token = admitted[n][p]
                        /\ \A s \in served : admitted[n][task[s].peer] = task[s].token
                        /\ Cardinality(served) <= MaxIncoming
                        /\ \A e \in incoming : e.node = n => e.sid \in served /\ task[e.sid].peer = e.remote
        BY ZenonT(40) DEF AdmissionsAreHeld
    <2>1. \A s \in served : task[s].token # 0 /\ admitted[n][task[s].peer] = task[s].token
        BY <1>0, Zenon DEF Admissions
    <2>2. \A p \in Nodes : admitted[n][p] # 0 =>
             \E s \in served : task[s].peer = p /\ task[s].token = admitted[n][p]
        BY <1>0 DEF Admissions
    <2>3. \A e \in incoming : e.node = n => e.sid \in served /\ task[e.sid].peer = e.remote
        BY <1>0, Zenon DEF Admissions, Guarded
    <2>4. Cardinality(served) <= MaxIncoming
        <3>1. PICK T : T = {q \in Nodes : admitted[n][q] # 0}
            BY Zenon
        <3>2. PICK f : f = [s \in served |-> task[s].peer]
            BY Zenon
        <3>3. \A s \in served : task[s].peer \in Nodes
            BY <1>0, HolderFact, Zenon DEF Early, Late
        <3>4. f \in [served -> T]
            BY <3>1, <3>2, <3>3, <2>1, ZenonT(40)
        <3>5. \A s, t \in served : f[s] = f[t] => s = t
            BY <3>2, <1>0 DEF Admissions
        <3>6. f \in Injection(served, T)
            BY <3>4, <3>5, Zenon DEF Injection, IsInjective
        <3>7. IsFiniteSet(T) /\ T \subseteq Nodes
            BY <3>1, HandshakeAssumption, PartFact, Zenon
        <3>8. IsFiniteSet(served) /\ Cardinality(served) <= Cardinality(T)
            BY <3>6, <3>7, FS_Injection, Zenon
        <3>9. Cardinality(T) \in Nat /\ Cardinality(served) \in Nat
            BY <3>7, <3>8, FS_CardinalityType, Zenon
        <3>10. Cardinality(T) <= MaxIncoming
            BY <3>1, <1>0, Zenon DEF Admissions
        <3> QED BY <3>8, <3>9, <3>10, HandshakeAssumption
    <2> QED BY <2>1, <2>2, <2>3, <2>4, Zenon
<1>4. LeasesAreCounted
    BY <1>0, Zenon DEF LeasesAreCounted, Leases, Balanced, Placed, Users
<1> QED BY <1>2, <1>3, <1>4, Zenon DEF HeldIsReleased

(***************************************************************************)
(* A handshake gives back what it takes: the admission of its remote and   *)
(* its lease of the temporary session are held exactly while it runs, for  *)
(* any number of nodes and calls, at every place where it can fail, also   *)
(* when SessionLayer::shutdown clears the tables under it.                 *)
(***************************************************************************)
THEOREM HeldIsReleasedCorrect == Spec => []HeldIsReleased
<1>1. Inv => HeldIsReleased
    BY HeldFact
<1> QED BY <1>1, Invariance, PTL

(***************************************************************************)
(* Dispatcher: a request that waits for its response has its sender in the *)
(* table, unless it was cancelled, and the table has no other senders,     *)
(* although the ids of requests can coincide.                              *)
(***************************************************************************)
THEOREM PendingIsAwaitedCorrect == Spec => []PendingIsAwaited
<1>1. Inv => PendingIsAwaited
    BY DEF Inv
<1> QED BY <1>1, Invariance, PTL

(***************************************************************************)
(* init_session registers only what the responder has registered before,   *)
(* under the same id and with the challenge of this attempt, over a        *)
(* network that loses, repeats and reorders packets.                       *)
(***************************************************************************)
THEOREM InitiatorAgreesCorrect == Spec => []InitiatorAgrees
<1>1. Inv => InitiatorAgrees
    BY DEF Inv, Told
<1> QED BY <1>1, Invariance, PTL

(***************************************************************************)
(* init_session_handler makes a session Ready only when the initiator has  *)
(* registered it: no ResumeForwarding of another session releases it.      *)
(***************************************************************************)
THEOREM ResponderAgreesCorrect == Spec => []ResponderAgrees
<1>1. Inv => ResponderAgrees
    BY DEF Inv, Resumes
<1> QED BY <1>1, Invariance, PTL
=============================================================================
