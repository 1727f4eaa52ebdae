-------------------------- MODULE RelayServerProofs --------------------------
(***************************************************************************)
(* Proofs about RelayServer, for any number of workers, clients, sessions  *)
(* and restarts: the index finds the sessions that are registered, each    *)
(* once, and the node events tell what is in it.                           *)
(***************************************************************************)
EXTENDS RelayServer, SequenceTheorems, FiniteSetTheorems, TLAPS

\* The types of what refers to the sessions, when k of them are allocated, and of the rest.
Requests(k) == [obj : 1..k, link : BOOLEAN]
WorkerStates(k) == [at : Places, obj : 0..k, found : 0..k, todo : SUBSET NodeIds]

Referring(k) ==
    /\ sessions \in [SessionIds -> 0..k]
    /\ index \in [NodeIds -> SUBSET [obj : 1..k, rank : Nat]]
    /\ queue \in [Workers -> Seq(Requests(k))]
    /\ checks \in [Workers -> SUBSET Requests(k)]
    /\ worker \in [Workers -> WorkerStates(k)]

Plain ==
    /\ indexed \in SUBSET NodeIds
    /\ announced \in [NodeIds -> {"none", "new", "lost"}]
    /\ cache \in [Peers -> {"none", "valid", "invalid"}]
    /\ cleaner \in [at : {"asleep", "purging", "cleaning"},
                    shards : SUBSET SessionIds, nodes : SUBSET NodeIds]
    /\ saver \in [at : {"serving", "saving", "ended"},
                  shards : SUBSET SessionIds, out : SUBSET Records]
    /\ disk \in SUBSET Records
    /\ arrivals \in [Kinds -> Nat]

Typed == objects \in Seq(Sessions) /\ Len(objects) <= MaxObjects /\ Referring(Len(objects)) /\ Plain

\* The table of sessions has a session under its own id.
Sids == \A s \in SessionIds : sessions[s] # 0 => objects[sessions[s]].sid = s

\* A handler has the session it looked up; one that links it has linked the other identities.
Holding ==
    \A w \in Workers :
        /\ worker[w].at \notin {"idle", "return"} => worker[w].obj # 0
        /\ worker[w].at = "link" =>
            /\ worker[w].todo \subseteq Keys[objects[worker[w].obj].node]
            /\ \A n \in Keys[objects[worker[w].obj].node] \ worker[w].todo :
                 \E r \in index[n] : r.obj = worker[w].obj

\* What is saved are sessions of this process, one for each id; so the next one can have them.
Saved ==
    /\ \A x, y \in saver.out : x.sid = y.sid => x = y
    /\ \A x \in saver.out :
        x.sid \notin saver.shards /\ \E o \in 1..Len(objects) : objects[o].sid = x.sid
    /\ IsFiniteSet(disk) /\ Cardinality(disk) <= MaxObjects

\* The inductive invariant.
Inv ==
    /\ Typed /\ Sids /\ Holding /\ Saved
    /\ RegisteredIsFound /\ IndexedByIdentity /\ EventsMatchIndex

\* The types that the runs check.
LEMMA TypedFact == Typed <=> TypeOK
BY Zenon DEF Typed, Referring, Plain, TypeOK, Requests, WorkerStates

-----------------------------------------------------------------------------
\* What a handler becomes: it has a session unless it is over, and links all identities.
Proper(x) ==
    /\ x.obj \in 0..Len(objects)
    /\ x.at \notin {"idle", "return"} => x.obj # 0
    /\ x.at = "link" => x.todo = Keys[objects[x.obj].node]

(***************************************************************************)
(* Most steps are gentle: sessions stay what they are and are only removed *)
(* from the table, and only dead references are removed from the index.    *)
(***************************************************************************)
Gentle ==
    /\ Len(objects') = Len(objects)
    /\ \A o \in 1..Len(objects) :
        /\ objects'[o].sid = objects[o].sid /\ objects'[o].node = objects[o].node
        /\ objects'[o].listed = objects[o].listed
    /\ \A s \in SessionIds : sessions'[s] \in {0, sessions[s]}
    /\ \A n \in NodeIds :
        index'[n] \subseteq index[n] /\ \A r \in index[n] : Alive(r.obj) => r \in index'[n]
    /\ \A w \in Workers : worker'[w] = worker[w] \/ Proper(worker'[w])

\* What the types say of one session, worker or reference.
LEMMA Fact ==
    ASSUME Typed
    PROVE  /\ Len(objects) \in Nat
           /\ \A s \in SessionIds : sessions[s] \in 0..Len(objects)
           /\ \A o \in 1..Len(objects) :
                /\ objects[o] \in Sessions /\ objects[o].node \in DOMAIN Keys
                /\ Keys[objects[o].node] \subseteq NodeIds
           /\ \A w \in Workers : /\ worker[w] \in WorkerStates(Len(objects))
                                 /\ worker[w].obj \in 0..Len(objects)
           /\ \A n \in NodeIds : \A r \in index[n] : r.obj \in 1..Len(objects) /\ r.rank \in Nat
<1>1. objects \in Seq(Sessions) /\ Len(objects) \in Nat
    BY DEF Typed
<1>2. ASSUME NEW o \in 1..Len(objects)
      PROVE  objects[o] \in Sessions /\ objects[o].node \in DOMAIN Keys
    <2>1. objects[o] \in Sessions
        BY <1>1
    <2> QED BY <2>1, Zenon DEF Sessions
<1>3. ASSUME NEW w \in Workers
      PROVE  worker[w] \in WorkerStates(Len(objects)) /\ worker[w].obj \in 0..Len(objects)
    <2>1. worker[w] \in WorkerStates(Len(objects))
        BY Zenon DEF Typed, Referring
    <2> QED BY <2>1, Zenon DEF WorkerStates
<1>4. ASSUME NEW n \in NodeIds, NEW r \in index[n]
      PROVE  r.obj \in 1..Len(objects) /\ r.rank \in Nat
    <2>1. r \in [obj : 1..Len(objects), rank : Nat]
        BY Zenon DEF Typed, Referring
    <2> QED BY <2>1, Zenon
<1>5. \A s \in SessionIds : sessions[s] \in 0..Len(objects)
    BY Zenon DEF Typed, Referring
<1> QED BY <1>1, <1>2, <1>3, <1>4, <1>5, ServerAssumption, Zenon

\* A session in the table, or that a handler has, is alive.
LEMMA AliveFact ==
    /\ \A s \in SessionIds : Alive(sessions[s])
    /\ \A w \in Workers : Alive(worker[w].obj)
BY Zenon DEF Alive, Held

\* Gentle steps keep the table and the index as they should be.
LEMMA GentleStep ==
    ASSUME Inv, Gentle
    PROVE  Sids' /\ Holding' /\ RegisteredIsFound' /\ IndexedByIdentity'
<1>1. Typed /\ Sids /\ Holding /\ RegisteredIsFound /\ IndexedByIdentity
    BY DEF Inv
<1>2. \A s \in SessionIds : sessions[s] # 0 => sessions[s] \in 1..Len(objects)
    BY <1>1, Fact
<1>3. \A w \in Workers : worker[w].obj # 0 => worker[w].obj \in 1..Len(objects)
    BY <1>1, Fact
<1>4. Sids'
    BY <1>1, <1>2, Zenon DEF Sids, Gentle
<1>5. RegisteredIsFound'
    <2> SUFFICES ASSUME NEW s \in SessionIds, sessions'[s] # 0, objects'[sessions'[s]].listed,
                        NEW n \in Keys[objects'[sessions'[s]].node]
                 PROVE  \E r \in index'[n] : r.obj = sessions'[s]
        BY Zenon DEF RegisteredIsFound
    <2>1. sessions'[s] = sessions[s] /\ sessions[s] \in 1..Len(objects)
        BY <1>2, Zenon DEF Gentle
    <2>2. objects[sessions[s]].listed /\ n \in Keys[objects[sessions[s]].node] /\ n \in NodeIds
        BY <1>1, <2>1, Fact, Zenon DEF Gentle
    <2>3. PICK r \in index[n] : r.obj = sessions[s]
        BY <1>1, <2>1, <2>2, Zenon DEF RegisteredIsFound
    <2>4. r \in index'[n]
        BY <2>2, <2>3, AliveFact, Zenon DEF Gentle
    <2> QED BY <2>1, <2>3, <2>4, Zenon
<1>6. IndexedByIdentity'
    <2> SUFFICES ASSUME NEW n \in NodeIds, NEW r \in index'[n], NEW q \in index'[n]
                 PROVE  /\ n \in Keys[objects'[r.obj].node]
                        /\ r.rank = q.rank \/ r.obj = q.obj => r = q
        BY Zenon DEF IndexedByIdentity
    <2>1. r \in index[n] /\ q \in index[n]
        BY Zenon DEF Gentle
    <2>2. objects'[r.obj].node = objects[r.obj].node
        BY <1>1, <2>1, Fact, Zenon DEF Gentle
    <2> QED BY <1>1, <2>1, <2>2, Zenon DEF IndexedByIdentity
<1>7. Holding'
    <2> SUFFICES ASSUME NEW w \in Workers
                 PROVE  /\ worker'[w].at \notin {"idle", "return"} => worker'[w].obj # 0
                        /\ worker'[w].at = "link" =>
                            /\ worker'[w].todo \subseteq Keys[objects'[worker'[w].obj].node]
                            /\ \A n \in Keys[objects'[worker'[w].obj].node] \ worker'[w].todo :
                                 \E r \in index'[n] : r.obj = worker'[w].obj
        BY Zenon DEF Holding
    <2>1. CASE worker'[w] = worker[w]
        <3>1. worker[w].at \notin {"idle", "return"} => worker[w].obj # 0
            BY <1>1, Zenon DEF Holding
        <3>2. CASE worker[w].at = "link"
            <4>1. worker[w].obj \in 1..Len(objects)
                BY <1>3, <3>1, <3>2
            <4>2. objects'[worker[w].obj].node = objects[worker[w].obj].node
                BY <4>1, Zenon DEF Gentle
            <4>3. ASSUME NEW n \in Keys[objects[worker[w].obj].node] \ worker[w].todo
                  PROVE  \E r \in index'[n] : r.obj = worker[w].obj
                <5>1. PICK r \in index[n] : r.obj = worker[w].obj
                    BY <1>1, <3>2, Zenon DEF Holding
                <5>2. n \in NodeIds
                    BY <1>1, <4>1, Fact, Zenon
                <5> QED BY <5>1, <5>2, AliveFact, Zenon DEF Gentle
            <4> QED BY <1>1, <2>1, <3>1, <3>2, <4>2, <4>3, Zenon DEF Holding
        <3> QED BY <2>1, <3>1, <3>2, Zenon
    <2>2. CASE Proper(worker'[w])
        <3>1. ASSUME worker'[w].at = "link"
              PROVE  worker'[w].todo = Keys[objects'[worker'[w].obj].node]
            <4>1. worker'[w].obj # 0 /\ worker'[w].todo = Keys[objects[worker'[w].obj].node]
                BY <2>2, <3>1 DEF Proper
            <4>2. worker'[w].obj \in 1..Len(objects)
                BY <1>1, <2>2, <4>1, Fact DEF Proper
            <4> QED BY <4>1, <4>2, Zenon DEF Gentle
        <3> QED BY <2>2, <3>1 DEF Proper
    <2> QED BY <2>1, <2>2, Zenon DEF Gentle
<1> QED BY <1>4, <1>5, <1>6, <1>7

-----------------------------------------------------------------------------
\* A gentle step that saves nothing keeps the invariant if it keeps types and events.
LEMMA KeptByStep ==
    ASSUME Inv, Gentle, objects' \in Seq(Sessions), Referring(Len(objects))', Plain',
           EventsMatchIndex', saver' = saver, disk' = disk
    PROVE  Inv'
<1>1. Sids' /\ Holding' /\ RegisteredIsFound' /\ IndexedByIdentity'
    BY GentleStep, Zenon
<1>2. Len(objects') = Len(objects) /\ Len(objects) <= MaxObjects
    BY Zenon DEF Gentle, Inv, Typed
<1>3. Typed'
    BY <1>2 DEF Typed
<1>4. Saved'
    <2>1. ASSUME NEW x \in saver.out
          PROVE  x.sid \notin saver.shards /\ \E o \in 1..Len(objects') : objects'[o].sid = x.sid
        <3>1. PICK o \in 1..Len(objects) : objects[o].sid = x.sid
            BY Zenon DEF Inv, Saved
        <3>2. objects'[o].sid = x.sid /\ o \in 1..Len(objects')
            BY <1>2, <3>1, Zenon DEF Gentle
        <3> QED BY <3>2, Zenon DEF Inv, Saved
    <2> QED BY <2>1, Zenon DEF Inv, Saved
<1> QED BY <1>1, <1>3, <1>4, Zenon DEF Inv

\* A step that leaves the sessions and the index as they are.
Quiet == UNCHANGED <<objects, indexVars, saver, disk>>

\* Such a step keeps the invariant if it keeps the types and only removes sessions.
LEMMA QuietStep ==
    ASSUME Inv, Quiet, Referring(Len(objects))', Plain',
           \A s \in SessionIds : sessions'[s] \in {0, sessions[s]},
           \A w \in Workers : worker'[w] = worker[w] \/ Proper(worker'[w])
    PROVE  Inv'
<1>1. objects' = objects /\ index' = index /\ indexed' = indexed /\ announced' = announced
    BY DEF Quiet, indexVars
<1>2. Gentle
    BY <1>1, Zenon DEF Gentle
<1>3. EventsMatchIndex' /\ objects' \in Seq(Sessions)
    BY <1>1, Zenon DEF EventsMatchIndex, Inv, Typed
<1> QED BY <1>2, <1>3, KeptByStep, Zenon DEF Quiet

\* A session with another age, status or registration is a session.
LEMMA ObjectStep ==
    ASSUME Typed, NEW o \in 1..Len(objects), NEW x \in Sessions,
           objects' = [objects EXCEPT ![o] = x],
           x.sid = objects[o].sid, x.node = objects[o].node
    PROVE  /\ objects' \in Seq(Sessions) /\ Len(objects') = Len(objects)
           /\ \A i \in 1..Len(objects) :
                /\ objects'[i].sid = objects[i].sid /\ objects'[i].node = objects[i].node
                /\ i # o => objects'[i] = objects[i]
           /\ objects'[o] = x
<1>1. objects \in Seq(Sessions)
    BY DEF Typed
<1>2. DOMAIN objects = 1..Len(objects)
    BY <1>1
<1>3. objects' \in Seq(Sessions) /\ Len(objects') = Len(objects)
    <2>1. [objects EXCEPT ![o] = x] \in Seq(Sessions) /\ Len([objects EXCEPT ![o] = x]) = Len(objects)
        BY <1>1, ExceptSeq
    <2> QED BY <2>1, Zenon
<1> QED BY <1>2, <1>3, Zenon

\* Setting one worker.
LEMMA WorkerStep ==
    ASSUME NEW k, worker \in [Workers -> WorkerStates(k)], NEW w \in Workers, NEW x \in WorkerStates(k),
           worker' = [worker EXCEPT ![w] = x]
    PROVE  /\ worker' \in [Workers -> WorkerStates(k)] /\ worker'[w] = x
           /\ \A v \in Workers : worker'[v] = worker[v] \/ worker'[v] = x
BY Zenon

\* One arrival less.
LEMMA ArriveTyped ==
    ASSUME Typed, NEW kind \in Kinds, Arrive(kind)
    PROVE  arrivals' \in [Kinds -> Nat]
BY DEF Typed, Plain, Arrive

\* A worker without a handler.
LEMMA IdleTyped ==
    ASSUME NEW k \in Nat
    PROVE  Idle \in WorkerStates(k) /\ Idle.at = "idle" /\ Idle.obj = 0
<1>1. 0 \in 0..k /\ "idle" \in Places /\ {} \in SUBSET NodeIds
    BY DEF Places
<1> QED BY <1>1, Zenon DEF WorkerStates, Idle

\* A session whose age or status changes is the same session.
LEMMA RevisedTyped ==
    ASSUME NEW x \in Sessions, NEW b \in BOOLEAN, NEW status \in {"unknown", "valid", "invalid"}
    PROVE  /\ [x EXCEPT !.stale = b] \in Sessions
           /\ [x EXCEPT !.stale = b].sid = x.sid /\ [x EXCEPT !.stale = b].node = x.node
           /\ [x EXCEPT !.stale = b].listed = x.listed
           /\ [x EXCEPT !.status = status] \in Sessions
           /\ [x EXCEPT !.status = status].sid = x.sid /\ [x EXCEPT !.status = status].node = x.node
           /\ [x EXCEPT !.status = status].listed = x.listed
           /\ [x EXCEPT !.listed = TRUE] \in Sessions
           /\ [x EXCEPT !.listed = TRUE].sid = x.sid /\ [x EXCEPT !.listed = TRUE].node = x.node
           /\ [x EXCEPT !.listed = TRUE].listed = TRUE
BY Zenon DEF Sessions

\* A place that ends a handler, or one that has looked its session up.
LEMMA PlaceProper ==
    ASSUME Typed, NEW x \in WorkerStates(Len(objects)), x.at # "link",
           x.at \in {"idle", "return"} \/ x.obj # 0
    PROVE  Proper(x)
BY Zenon DEF Proper, WorkerStates

\* A request looks a session up.
LEMMA LookupKeeps ==
    ASSUME Inv, NEW w \in Workers, NEW s \in SessionIds, NEW kind \in Kinds,
           NEW place \in Places, place # "link", Lookup(w, s, kind, place)
    PROVE  Inv'
<1>1. Typed /\ Len(objects) \in Nat /\ sessions[s] \in 0..Len(objects)
    BY Fact, Zenon DEF Inv
<1> PICK x : x = [Idle EXCEPT !.at = place, !.obj = sessions[s]]
    BY Zenon
<1>2. x \in WorkerStates(Len(objects)) /\ x.at = place /\ x.obj = sessions[s]
    <2>1. Idle \in WorkerStates(Len(objects))
        BY <1>1, IdleTyped, Zenon
    <2> QED BY <1>1, <2>1, Zenon DEF WorkerStates
<1>3. worker' = [worker EXCEPT ![w] = x] /\ sessions[s] # 0
    BY Zenon DEF Lookup
<1>4. Proper(x)
    BY <1>1, <1>2, <1>3, PlaceProper, Zenon
<1>5. /\ worker' \in [Workers -> WorkerStates(Len(objects))]
      /\ \A v \in Workers : worker'[v] = worker[v] \/ worker'[v] = x
    <2>1. worker \in [Workers -> WorkerStates(Len(objects))]
        BY <1>1, Zenon DEF Typed, Referring
    <2> QED BY <2>1, <1>2, <1>3, WorkerStep, Zenon
<1>6. arrivals' \in [Kinds -> Nat]
    BY <1>1, ArriveTyped, Zenon DEF Lookup
<1>7. /\ objects' = objects /\ sessions' = sessions /\ index' = index /\ indexed' = indexed
      /\ announced' = announced /\ cache' = cache /\ queue' = queue /\ checks' = checks
      /\ cleaner' = cleaner /\ saver' = saver /\ disk' = disk
    BY DEF Lookup, indexVars, checkVars, processVars
<1>8. Referring(Len(objects))'
    BY <1>1, <1>5, <1>7, Zenon DEF Typed, Referring
<1>9. Plain'
    BY <1>1, <1>6, <1>7, Zenon DEF Typed, Plain
<1>10. Quiet
    BY <1>7, Zenon DEF Quiet, indexVars
<1> QED BY <1>4, <1>5, <1>7, <1>8, <1>9, <1>10, QuietStep, Zenon

\* A session is removed by request.
LEMMA RemoveKeeps ==
    ASSUME Inv, NEW w \in Workers, NEW s \in SessionIds, RemoveSession(w, s)
    PROVE  Inv'
<1>1. Typed /\ Len(objects) \in Nat
    BY Fact, Zenon DEF Inv
<1>2. 0 \in 0..Len(objects)
    BY <1>1
<1>3. sessions' = [sessions EXCEPT ![s] = 0]
    BY Zenon DEF RemoveSession
<1>4. "remove" \in Kinds
    BY Zenon DEF Kinds
<1>5. arrivals' \in [Kinds -> Nat]
    BY <1>1, <1>4, ArriveTyped, Zenon DEF RemoveSession
<1>6. /\ objects' = objects /\ index' = index /\ indexed' = indexed /\ announced' = announced
      /\ cache' = cache /\ queue' = queue /\ checks' = checks /\ worker' = worker
      /\ cleaner' = cleaner /\ saver' = saver /\ disk' = disk
    BY DEF RemoveSession, indexVars, checkVars, processVars
<1>7. sessions \in [SessionIds -> 0..Len(objects)]
    BY <1>1, Zenon DEF Typed, Referring
<1>8. /\ sessions' \in [SessionIds -> 0..Len(objects)]
      /\ \A t \in SessionIds : sessions'[t] \in {0, sessions[t]}
    BY <1>2, <1>3, <1>7, Zenon
<1>9. Referring(Len(objects))' /\ Plain'
    BY <1>1, <1>5, <1>6, <1>8, Zenon DEF Typed, Referring, Plain
<1> QED BY <1>6, <1>8, <1>9, QuietStep, Zenon DEF Quiet, indexVars

\* A session whose client cannot be reached is removed.
LEMMA UnreachableKeeps ==
    ASSUME Inv, NEW w \in Workers, RemoveUnreachable(w)
    PROVE  Inv'
<1>1. Typed /\ Len(objects) \in Nat
    BY Fact, Zenon DEF Inv
<1>2. 0 \in 0..Len(objects)
    BY <1>1
<1>3. sessions \in [SessionIds -> 0..Len(objects)] /\ worker \in [Workers -> WorkerStates(Len(objects))]
    BY <1>1, Zenon DEF Typed, Referring
<1>4. PICK t : t = objects[worker[w].obj].sid
    BY Zenon
<1>5. sessions' = [sessions EXCEPT ![t] = 0]
    BY <1>4, Zenon DEF RemoveUnreachable
<1>6. /\ sessions' \in [SessionIds -> 0..Len(objects)]
      /\ \A s \in SessionIds : sessions'[s] \in {0, sessions[s]}
    BY <1>2, <1>3, <1>5, Zenon
<1>7. PICK x : x = [worker[w] EXCEPT !.at = "return"]
    BY Zenon
<1>8. x \in WorkerStates(Len(objects)) /\ x.at = "return"
    BY <1>3, <1>7, Zenon DEF WorkerStates, Places
<1>9. worker' = [worker EXCEPT ![w] = x]
    BY <1>7, Zenon DEF RemoveUnreachable
<1>10. Proper(x)
    BY <1>1, <1>8, PlaceProper, Zenon
<1>11. /\ worker' \in [Workers -> WorkerStates(Len(objects))]
       /\ \A v \in Workers : worker'[v] = worker[v] \/ worker'[v] = x
    BY <1>3, <1>8, <1>9, WorkerStep, Zenon
<1>12. /\ objects' = objects /\ index' = index /\ indexed' = indexed /\ announced' = announced
       /\ cache' = cache /\ queue' = queue /\ checks' = checks
       /\ cleaner' = cleaner /\ saver' = saver /\ disk' = disk /\ arrivals' = arrivals
    BY DEF RemoveUnreachable, indexVars, checkVars, processVars
<1>13. Referring(Len(objects))' /\ Plain'
    BY <1>1, <1>6, <1>11, <1>12, Zenon DEF Typed, Referring, Plain
<1> QED BY <1>6, <1>10, <1>11, <1>12, <1>13, QuietStep, Zenon DEF Quiet, indexVars

\* A handler returns.
LEMMA ReturnKeeps ==
    ASSUME Inv, NEW w \in Workers, Return(w)
    PROVE  Inv'
<1>1. Typed /\ Len(objects) \in Nat
    BY Fact, Zenon DEF Inv
<1>2. Idle \in WorkerStates(Len(objects)) /\ Proper(Idle)
    BY <1>1, IdleTyped, PlaceProper, Zenon
<1>3. worker \in [Workers -> WorkerStates(Len(objects))]
    BY <1>1, Zenon DEF Typed, Referring
<1>4. worker' = [worker EXCEPT ![w] = Idle]
    BY Zenon DEF Return
<1>5. /\ worker' \in [Workers -> WorkerStates(Len(objects))]
      /\ \A v \in Workers : worker'[v] = worker[v] \/ worker'[v] = Idle
    BY <1>2, <1>3, <1>4, WorkerStep, Zenon
<1>6. /\ objects' = objects /\ sessions' = sessions /\ index' = index /\ indexed' = indexed
      /\ announced' = announced /\ cache' = cache /\ queue' = queue /\ checks' = checks
      /\ cleaner' = cleaner /\ saver' = saver /\ disk' = disk /\ arrivals' = arrivals
    BY DEF Return, indexVars, checkVars, processVars
<1>7. Referring(Len(objects))' /\ Plain'
    BY <1>1, <1>5, <1>6, Zenon DEF Typed, Referring, Plain
<1> QED BY <1>2, <1>5, <1>6, <1>7, QuietStep, Zenon DEF Quiet, indexVars

\* Appending a request to the queue of a worker.
LEMMA QueueTyped ==
    ASSUME NEW k \in Nat, queue \in [Workers -> Seq(Requests(k))], NEW w \in Workers,
           NEW o \in 1..k, NEW link \in BOOLEAN,
           queue' = [queue EXCEPT ![w] = Append(@, Request(o, link))]
    PROVE  queue' \in [Workers -> Seq(Requests(k))]
<1>1. Request(o, link) \in Requests(k)
    BY Zenon DEF Request, Requests
<1>2. PICK q : q = Append(queue[w], Request(o, link))
    BY Zenon
<1>3. q \in Seq(Requests(k))
    BY <1>1, <1>2, AppendProperties, Zenon
<1>4. queue' = [queue EXCEPT ![w] = q]
    BY <1>2, Zenon
<1> QED BY <1>3, <1>4, Zenon

\* The operator asks for an address check.
LEMMA CheckIpKeeps ==
    ASSUME Inv, NEW w \in Workers, NEW s \in SessionIds, CheckIp(w, s)
    PROVE  Inv'
<1>1. Typed /\ Len(objects) \in Nat /\ sessions[s] \in 0..Len(objects)
    BY Fact, Zenon DEF Inv
<1>2. sessions[s] \in 1..Len(objects)
    BY <1>1 DEF CheckIp
<1>3. queue \in [Workers -> Seq(Requests(Len(objects)))]
    BY <1>1, Zenon DEF Typed, Referring
<1>4. queue' = [queue EXCEPT ![w] = Append(@, Request(sessions[s], FALSE))]
    BY Zenon DEF CheckIp
<1>5. queue' \in [Workers -> Seq(Requests(Len(objects)))]
    BY <1>1, <1>2, <1>3, <1>4, QueueTyped, Zenon
<1>6. "check" \in Kinds
    BY Zenon DEF Kinds
<1>7. arrivals' \in [Kinds -> Nat]
    BY <1>1, <1>6, ArriveTyped, Zenon DEF CheckIp
<1>8. /\ objects' = objects /\ sessions' = sessions /\ index' = index /\ indexed' = indexed
      /\ announced' = announced /\ cache' = cache /\ checks' = checks /\ worker' = worker
      /\ cleaner' = cleaner /\ saver' = saver /\ disk' = disk
    BY DEF CheckIp, indexVars, checkVars, processVars
<1>9. Referring(Len(objects))' /\ Plain'
    BY <1>1, <1>5, <1>7, <1>8, Zenon DEF Typed, Referring, Plain
<1> QED BY <1>8, <1>9, QuietStep, Zenon DEF Quiet, indexVars

\* The ping job takes a request.
LEMMA PingJobKeeps ==
    ASSUME Inv, NEW w \in Workers, PingJob(w)
    PROVE  Inv'
<1>1. Typed
    BY Zenon DEF Inv
<1>2. PICK R : R = Requests(Len(objects))
    BY Zenon
<1>3. queue \in [Workers -> Seq(R)] /\ checks \in [Workers -> SUBSET R]
    BY <1>1, <1>2, Zenon DEF Typed, Referring
<1>4. Head(queue[w]) \in R /\ Tail(queue[w]) \in Seq(R)
    <2>1. queue[w] \in Seq(R) /\ queue[w] # <<>>
        BY <1>3, Zenon DEF PingJob
    <2> QED BY <2>1, HeadTailProperties, Zenon
<1>5. queue' \in [Workers -> Seq(R)]
    BY <1>3, <1>4, Zenon DEF PingJob
<1>6. checks' \in [Workers -> SUBSET R]
    <2>1. \/ checks' = checks
          \/ checks' = [checks EXCEPT ![w] = @ \cup {Head(queue[w])}]
        BY Zenon DEF PingJob
    <2>2. checks[w] \cup {Head(queue[w])} \in SUBSET R
        BY <1>3, <1>4, Zenon
    <2> QED BY <1>3, <2>1, <2>2, Zenon
<1>7. /\ objects' = objects /\ sessions' = sessions /\ index' = index /\ indexed' = indexed
      /\ announced' = announced /\ cache' = cache /\ worker' = worker
      /\ cleaner' = cleaner /\ saver' = saver /\ disk' = disk /\ arrivals' = arrivals
    BY DEF PingJob, indexVars, processVars
<1>8. Referring(Len(objects))' /\ Plain'
    BY <1>1, <1>2, <1>5, <1>6, <1>7, Zenon DEF Typed, Referring, Plain
<1> QED BY <1>7, <1>8, QuietStep, Zenon DEF Quiet, indexVars

\* A check whose session is gone ends.
LEMMA AbandonedKeeps ==
    ASSUME Inv, NEW w \in Workers, NEW c, CheckAbandoned(w, c)
    PROVE  Inv'
<1>1. Typed
    BY Zenon DEF Inv
<1>2. checks' \in [Workers -> SUBSET Requests(Len(objects))]
    <2>1. checks \in [Workers -> SUBSET Requests(Len(objects))]
        BY <1>1, Zenon DEF Typed, Referring
    <2>2. checks' = [checks EXCEPT ![w] = @ \ {c}]
        BY Zenon DEF CheckAbandoned
    <2> QED BY <2>1, <2>2, Zenon
<1>3. /\ objects' = objects /\ sessions' = sessions /\ index' = index /\ indexed' = indexed
      /\ announced' = announced /\ cache' = cache /\ queue' = queue /\ worker' = worker
      /\ cleaner' = cleaner /\ saver' = saver /\ disk' = disk /\ arrivals' = arrivals
    BY DEF CheckAbandoned, indexVars, processVars
<1>4. Referring(Len(objects))' /\ Plain'
    BY <1>1, <1>2, <1>3, Zenon DEF Typed, Referring, Plain
<1> QED BY <1>3, <1>4, QuietStep, Zenon DEF Quiet, indexVars

\* The outcome of a check is forgotten.
LEMMA ExpiresKeeps ==
    ASSUME Inv, NEW p \in Peers, CacheExpires(p)
    PROVE  Inv'
<1>1. Typed
    BY Zenon DEF Inv
<1>2. cache' \in [Peers -> {"none", "valid", "invalid"}]
    BY <1>1, Zenon DEF Typed, Plain, CacheExpires
<1>3. /\ objects' = objects /\ sessions' = sessions /\ index' = index /\ indexed' = indexed
      /\ announced' = announced /\ checks' = checks /\ queue' = queue /\ worker' = worker
      /\ cleaner' = cleaner /\ saver' = saver /\ disk' = disk /\ arrivals' = arrivals
    BY DEF CacheExpires, indexVars, processVars
<1>4. Referring(Len(objects))' /\ Plain'
    BY <1>1, <1>2, <1>3, Zenon DEF Typed, Referring, Plain
<1> QED BY <1>3, <1>4, QuietStep, Zenon DEF Quiet, indexVars

\* The cleaner starts, goes on and purges a stale session; it ends.
LEMMA CleanerKeeps ==
    ASSUME Inv, \/ CleanerWakes \/ PurgeEnds \/ CleanEnds
                \/ \E s \in SessionIds : PurgeShard(s)
    PROVE  Inv'
<1>1. Typed /\ Len(objects) \in Nat
    BY Fact, Zenon DEF Inv
<1>2. 0 \in 0..Len(objects)
    BY <1>1
<1>3. /\ objects' = objects /\ index' = index /\ indexed' = indexed /\ announced' = announced
      /\ cache' = cache /\ queue' = queue /\ checks' = checks /\ worker' = worker
      /\ saver' = saver /\ disk' = disk /\ arrivals' = arrivals
    BY DEF CleanerWakes, PurgeEnds, CleanEnds, PurgeShard, indexVars, checkVars
<1>4. PICK C : C = [at : {"asleep", "purging", "cleaning"},
                    shards : SUBSET SessionIds, nodes : SUBSET NodeIds]
    BY Zenon
<1>5. cleaner \in C /\ sessions \in [SessionIds -> 0..Len(objects)]
    BY <1>1, <1>4, Zenon DEF Typed, Plain, Referring
<1>6. /\ cleaner' \in C
      /\ sessions' \in [SessionIds -> 0..Len(objects)]
      /\ \A s \in SessionIds : sessions'[s] \in {0, sessions[s]}
    <2>1. CASE CleanerWakes \/ PurgeEnds \/ CleanEnds
        <3>1. cleaner' \in C
            <4>1. CASE CleanerWakes
                BY <1>4, <4>1, Zenon DEF CleanerWakes
            <4>2. CASE PurgeEnds
                BY <1>4, <4>2, Zenon DEF PurgeEnds
            <4>3. CASE CleanEnds
                BY <1>4, <4>3, Zenon DEF CleanEnds, Asleep
            <4> QED BY <2>1, <4>1, <4>2, <4>3, Zenon
        <3>2. sessions' = sessions
            BY <2>1, Zenon DEF CleanerWakes, PurgeEnds, CleanEnds
        <3> QED BY <1>5, <3>1, <3>2, Zenon
    <2>2. ASSUME NEW s \in SessionIds, PurgeShard(s)
          PROVE  /\ cleaner' \in C
                 /\ sessions' \in [SessionIds -> 0..Len(objects)]
                 /\ \A t \in SessionIds : sessions'[t] \in {0, sessions[t]}
        <3>1. cleaner' = [cleaner EXCEPT !.shards = @ \ {s}]
            BY <2>2, Zenon DEF PurgeShard
        <3>2. cleaner' \in C
            BY <1>4, <1>5, <3>1, Zenon
        <3>3. sessions' = sessions \/ sessions' = [sessions EXCEPT ![s] = 0]
            BY <2>2, Zenon DEF PurgeShard
        <3> QED BY <1>2, <1>5, <3>2, <3>3, Zenon
    <2> QED BY <2>1, <2>2, Zenon
<1>7. Referring(Len(objects))' /\ Plain'
    BY <1>1, <1>3, <1>4, <1>6, Zenon DEF Typed, Referring, Plain
<1> QED BY <1>3, <1>6, <1>7, QuietStep, Zenon DEF Quiet, indexVars

-----------------------------------------------------------------------------
\* A step that changes the age or the status of a session, and what it has to show.
LEMMA RevisedStep ==
    ASSUME Inv, NEW o \in 1..Len(objects), NEW x \in Sessions, objects' = [objects EXCEPT ![o] = x],
           x.sid = objects[o].sid, x.node = objects[o].node, x.listed = objects[o].listed,
           UNCHANGED <<sessions, indexVars, cleaner, saver, disk>>,
           cache' \in [Peers -> {"none", "valid", "invalid"}],
           queue' \in [Workers -> Seq(Requests(Len(objects)))],
           checks' \in [Workers -> SUBSET Requests(Len(objects))],
           worker' \in [Workers -> WorkerStates(Len(objects))],
           \A w \in Workers : worker'[w] = worker[w] \/ Proper(worker'[w]),
           arrivals' \in [Kinds -> Nat]
    PROVE  Inv'
<1>1. Typed
    BY Zenon DEF Inv
<1>2. /\ sessions' = sessions /\ index' = index /\ indexed' = indexed /\ announced' = announced
      /\ cleaner' = cleaner /\ saver' = saver /\ disk' = disk
    BY DEF indexVars
<1>3. /\ objects' \in Seq(Sessions) /\ Len(objects') = Len(objects)
      /\ \A i \in 1..Len(objects) :
           /\ objects'[i].sid = objects[i].sid /\ objects'[i].node = objects[i].node
           /\ i # o => objects'[i] = objects[i]
      /\ objects'[o] = x
    BY <1>1, ObjectStep, Zenon
<1>4. Gentle
    BY <1>2, <1>3, Zenon DEF Gentle
<1>5. Referring(Len(objects))'
    BY <1>1, <1>2, <1>3, Zenon DEF Typed, Referring
<1>6. Plain'
    BY <1>1, <1>2, Zenon DEF Typed, Plain
<1>7. EventsMatchIndex'
    BY <1>2, Zenon DEF Inv, EventsMatchIndex
<1> QED BY <1>2, <1>3, <1>4, <1>5, <1>6, <1>7, KeptByStep, Zenon

\* A request touches its session.
LEMMA TouchKeeps ==
    ASSUME Inv, NEW w \in Workers, Touch(w)
    PROVE  Inv'
<1>1. Typed /\ Len(objects) \in Nat /\ worker[w] \in WorkerStates(Len(objects))
        /\ worker[w].obj \in 0..Len(objects)
    BY Fact, Zenon DEF Inv
<1>2. worker[w].obj # 0
    BY Zenon DEF Inv, Holding, Touch, At
<1>3. PICK o \in 1..Len(objects) : o = worker[w].obj
    BY <1>1, <1>2
<1>4. PICK x : x = [objects[o] EXCEPT !.stale = FALSE]
    BY Zenon
<1>5. /\ x \in Sessions /\ x.sid = objects[o].sid /\ x.node = objects[o].node
      /\ x.listed = objects[o].listed
    BY <1>1, <1>4, Fact, RevisedTyped, Zenon
<1>6. objects' = [objects EXCEPT ![o] = x]
    BY <1>3, <1>4, Zenon DEF Touch
<1>7. PICK place \in {"find", "return"} : worker' = [worker EXCEPT ![w].at = place]
    BY Zenon DEF Touch
<1>8. PICK y : y = [worker[w] EXCEPT !.at = place]
    BY Zenon
<1>9. y \in WorkerStates(Len(objects)) /\ y.at = place /\ y.obj = worker[w].obj
    <2>1. place \in Places
        BY Zenon DEF Places
    <2> QED BY <1>1, <1>8, <2>1, Zenon DEF WorkerStates
<1>10. Proper(y)
    <2>1. y.at # "link"
        BY <1>9, Zenon
    <2> QED BY <1>1, <1>2, <1>9, <2>1, PlaceProper, Zenon
<1>11. /\ worker' \in [Workers -> WorkerStates(Len(objects))]
       /\ \A v \in Workers : worker'[v] = worker[v] \/ worker'[v] = y
    <2>1. worker \in [Workers -> WorkerStates(Len(objects))] /\ worker' = [worker EXCEPT ![w] = y]
        BY <1>1, <1>7, <1>8, Zenon DEF Typed, Referring
    <2> QED BY <1>9, <2>1, WorkerStep, Zenon
<1>12. UNCHANGED <<sessions, indexVars, cleaner, saver, disk, cache, queue, checks, arrivals>>
    BY Zenon DEF Touch, checkVars, processVars
<1>13. /\ cache' \in [Peers -> {"none", "valid", "invalid"}]
       /\ queue' \in [Workers -> Seq(Requests(Len(objects)))]
       /\ checks' \in [Workers -> SUBSET Requests(Len(objects))]
       /\ arrivals' \in [Kinds -> Nat]
    BY <1>1, <1>12, Zenon DEF Typed, Referring, Plain
<1> QED BY <1>5, <1>6, <1>10, <1>11, <1>12, <1>13, RevisedStep, Zenon

\* A session falls silent.
LEMMA StaleKeeps ==
    ASSUME Inv, NEW o \in 1..Len(objects), BecomesStale(o)
    PROVE  Inv'
<1>1. Typed
    BY Zenon DEF Inv
<1>2. PICK x : x = [objects[o] EXCEPT !.stale = TRUE]
    BY Zenon
<1>3. /\ x \in Sessions /\ x.sid = objects[o].sid /\ x.node = objects[o].node
      /\ x.listed = objects[o].listed
    BY <1>1, <1>2, Fact, RevisedTyped, Zenon
<1>4. objects' = [objects EXCEPT ![o] = x]
    BY <1>2, Zenon DEF BecomesStale
<1>5. "silence" \in Kinds
    BY Zenon DEF Kinds
<1>6. arrivals' \in [Kinds -> Nat]
    BY <1>1, <1>5, ArriveTyped, Zenon DEF BecomesStale
<1>7. UNCHANGED <<sessions, indexVars, cleaner, saver, disk, cache, queue, checks, worker>>
    BY Zenon DEF BecomesStale, checkVars, processVars
<1>8. /\ cache' \in [Peers -> {"none", "valid", "invalid"}]
      /\ queue' \in [Workers -> Seq(Requests(Len(objects)))]
      /\ checks' \in [Workers -> SUBSET Requests(Len(objects))]
      /\ worker' \in [Workers -> WorkerStates(Len(objects))]
    BY <1>1, <1>7, Zenon DEF Typed, Referring, Plain
<1> QED BY <1>3, <1>4, <1>6, <1>7, <1>8, RevisedStep, Zenon

\* A session that is replaced by one of the same id, client and registration.
Revised(o) ==
    \E x \in Sessions :
        /\ objects' = [objects EXCEPT ![o] = x] /\ x.sid = objects[o].sid
        /\ x.node = objects[o].node /\ x.listed = objects[o].listed

\* What a worker that begins to link a session changes.
LEMMA StartLinkingFact ==
    ASSUME Inv, NEW w \in Workers, NEW o \in 1..Len(objects), NEW status \in {"valid", "invalid"},
           StartLinking(w, o, status)
    PROVE  /\ Revised(o)
           /\ worker' \in [Workers -> WorkerStates(Len(objects))]
           /\ \A v \in Workers : worker'[v] = worker[v] \/ Proper(worker'[v])
<1>1. Typed /\ Len(objects) \in Nat /\ objects[o] \in Sessions /\ Keys[objects[o].node] \in SUBSET NodeIds
    BY Fact, Zenon DEF Inv
<1>2. PICK b \in BOOLEAN : b = IF At(w, "register") THEN FALSE ELSE objects[o].stale
    BY <1>1, Zenon DEF Sessions
<1>3. PICK x : x = [objects[o] EXCEPT !.stale = b, !.status = status]
    BY Zenon
<1>4. /\ x \in Sessions /\ x.sid = objects[o].sid /\ x.node = objects[o].node
      /\ x.listed = objects[o].listed
    BY <1>1, <1>3, Zenon DEF Sessions
<1>5. objects' = [objects EXCEPT ![o] = x]
    BY <1>1, <1>2, <1>3, ZenonT(40) DEF StartLinking, Typed
<1>6. PICK y : y = [Idle EXCEPT !.at = "link", !.obj = o, !.todo = Keys[objects[o].node]]
    BY Zenon
<1>7. /\ y \in WorkerStates(Len(objects)) /\ y.at = "link" /\ y.obj = o
      /\ y.todo = Keys[objects[o].node]
    <2>1. Idle \in WorkerStates(Len(objects)) /\ "link" \in Places
        BY <1>1, IdleTyped, Zenon DEF Places
    <2>2. o \in 0..Len(objects)
        BY <1>1
    <2> QED BY <1>1, <1>6, <2>1, <2>2, Zenon DEF WorkerStates
<1>8. Proper(y)
    <2>1. o \in 0..Len(objects) /\ o # 0
        BY <1>1
    <2> QED BY <1>7, <2>1, Zenon DEF Proper
<1>9. /\ worker' \in [Workers -> WorkerStates(Len(objects))]
      /\ \A v \in Workers : worker'[v] = worker[v] \/ worker'[v] = y
    <2>1. worker \in [Workers -> WorkerStates(Len(objects))] /\ worker' = [worker EXCEPT ![w] = y]
        BY <1>1, <1>6, Zenon DEF Typed, Referring, StartLinking
    <2> QED BY <1>7, <2>1, WorkerStep, Zenon
<1> QED BY <1>4, <1>5, <1>8, <1>9, Zenon DEF Revised

\* A client registers whose address was checked a moment ago.
LEMMA CachedKeeps ==
    ASSUME Inv, NEW w \in Workers, NEW p \in Peers, RegisterCached(w, p)
    PROVE  Inv'
<1>1. Typed /\ Len(objects) \in Nat /\ worker[w].obj \in 0..Len(objects)
    BY Fact, Zenon DEF Inv
<1>2. worker[w].obj # 0
    BY Zenon DEF Inv, Holding, RegisterCached, At
<1>3. PICK o \in 1..Len(objects) : o = worker[w].obj
    BY <1>1, <1>2
<1>4. cache[p] \in {"valid", "invalid"}
    BY <1>1, Zenon DEF Typed, Plain, RegisterCached
<1>5. StartLinking(w, o, cache[p])
    BY <1>3, Zenon DEF RegisterCached
<1>6. PICK x \in Sessions :
        /\ objects' = [objects EXCEPT ![o] = x] /\ x.sid = objects[o].sid
        /\ x.node = objects[o].node /\ x.listed = objects[o].listed
    <2>1. Revised(o)
        BY <1>4, <1>5, StartLinkingFact, Zenon
    <2> QED BY <2>1, Zenon DEF Revised
<1>7. /\ worker' \in [Workers -> WorkerStates(Len(objects))]
      /\ \A v \in Workers : worker'[v] = worker[v] \/ Proper(worker'[v])
    BY <1>4, <1>5, StartLinkingFact, Zenon
<1>8. UNCHANGED <<sessions, indexVars, cleaner, saver, disk, cache, queue, checks, arrivals>>
    BY Zenon DEF RegisterCached, checkVars, processVars
<1>9. /\ cache' \in [Peers -> {"none", "valid", "invalid"}]
      /\ queue' \in [Workers -> Seq(Requests(Len(objects)))]
      /\ checks' \in [Workers -> SUBSET Requests(Len(objects))]
      /\ arrivals' \in [Kinds -> Nat]
    BY <1>1, <1>8, Zenon DEF Typed, Referring, Plain
<1> QED BY <1>6, <1>7, <1>8, <1>9, RevisedStep, Zenon

\* A client registers whose address has to be checked first.
LEMMA CheckedKeeps ==
    ASSUME Inv, NEW w \in Workers, NEW p \in Peers, RegisterChecked(w, p)
    PROVE  Inv'
<1>1. Typed /\ Len(objects) \in Nat /\ worker[w] \in WorkerStates(Len(objects))
        /\ worker[w].obj \in 0..Len(objects)
    BY Fact, Zenon DEF Inv
<1>2. worker[w].obj # 0
    BY Zenon DEF Inv, Holding, RegisterChecked, At
<1>3. PICK o \in 1..Len(objects) : o = worker[w].obj
    BY <1>1, <1>2
<1>4. PICK x : x = [objects[o] EXCEPT !.stale = FALSE]
    BY Zenon
<1>5. /\ x \in Sessions /\ x.sid = objects[o].sid /\ x.node = objects[o].node
      /\ x.listed = objects[o].listed
    BY <1>1, <1>4, Fact, RevisedTyped, Zenon
<1>6. objects' = [objects EXCEPT ![o] = x]
    BY <1>3, <1>4, Zenon DEF RegisterChecked
<1>7. queue' \in [Workers -> Seq(Requests(Len(objects)))]
    <2>1. queue \in [Workers -> Seq(Requests(Len(objects)))]
        BY <1>1, Zenon DEF Typed, Referring
    <2>2. queue' = [queue EXCEPT ![w] = Append(@, Request(o, TRUE))]
        BY <1>3, Zenon DEF RegisterChecked
    <2> QED BY <1>1, <2>1, <2>2, QueueTyped, Zenon
<1>8. PICK y : y = [worker[w] EXCEPT !.at = "return"]
    BY Zenon
<1>9. y \in WorkerStates(Len(objects)) /\ y.at = "return"
    BY <1>1, <1>8, Zenon DEF WorkerStates, Places
<1>10. Proper(y)
    BY <1>1, <1>9, PlaceProper, Zenon
<1>11. /\ worker' \in [Workers -> WorkerStates(Len(objects))]
       /\ \A v \in Workers : worker'[v] = worker[v] \/ worker'[v] = y
    <2>1. worker \in [Workers -> WorkerStates(Len(objects))] /\ worker' = [worker EXCEPT ![w] = y]
        BY <1>1, <1>8, Zenon DEF Typed, Referring, RegisterChecked
    <2> QED BY <1>9, <2>1, WorkerStep, Zenon
<1>12. UNCHANGED <<sessions, indexVars, cleaner, saver, disk, cache, checks, arrivals>>
    BY Zenon DEF RegisterChecked, processVars
<1>13. /\ cache' \in [Peers -> {"none", "valid", "invalid"}]
       /\ checks' \in [Workers -> SUBSET Requests(Len(objects))]
       /\ arrivals' \in [Kinds -> Nat]
    BY <1>1, <1>12, Zenon DEF Typed, Referring, Plain
<1> QED BY <1>5, <1>6, <1>7, <1>10, <1>11, <1>12, <1>13, RevisedStep, Zenon

\* An address check ends: the session gets the outcome, and is linked if it registers.
LEMMA ResolvedKeeps ==
    ASSUME Inv, NEW w \in Workers, NEW c, NEW outcome \in {"valid", "invalid"},
           CheckResolved(w, c, outcome)
    PROVE  Inv'
<1>1. Typed
    BY Zenon DEF Inv
<1>2. checks \in [Workers -> SUBSET Requests(Len(objects))] /\ c \in checks[w]
    BY <1>1, Zenon DEF Typed, Referring, CheckResolved
<1>3. c \in Requests(Len(objects))
    BY <1>2, Zenon
<1>4. PICK o \in 1..Len(objects) : o = c.obj
    BY <1>3, Zenon DEF Requests
<1>5. checks' \in [Workers -> SUBSET Requests(Len(objects))]
    <2>1. checks' = [checks EXCEPT ![w] = @ \ {c}]
        BY Zenon DEF CheckResolved
    <2> QED BY <1>2, <2>1, Zenon
<1>6. UNCHANGED <<sessions, indexVars, cleaner, saver, disk, queue, arrivals>>
    BY Zenon DEF CheckResolved, processVars
<1>7. queue' \in [Workers -> Seq(Requests(Len(objects)))] /\ arrivals' \in [Kinds -> Nat]
    BY <1>1, <1>6, Zenon DEF Typed, Referring, Plain
<1>8. cache \in [Peers -> {"none", "valid", "invalid"}] /\ worker \in [Workers -> WorkerStates(Len(objects))]
    BY <1>1, Zenon DEF Typed, Referring, Plain
<1>9. CASE c.link
    <2>1. StartLinking(w, o, outcome)
        BY <1>4, <1>9, Zenon DEF CheckResolved
    <2>2. PICK x \in Sessions :
            /\ objects' = [objects EXCEPT ![o] = x] /\ x.sid = objects[o].sid
            /\ x.node = objects[o].node /\ x.listed = objects[o].listed
        <3>1. Revised(o)
            BY <2>1, StartLinkingFact, Zenon
        <3> QED BY <3>1, Zenon DEF Revised
    <2>3. /\ worker' \in [Workers -> WorkerStates(Len(objects))]
          /\ \A v \in Workers : worker'[v] = worker[v] \/ Proper(worker'[v])
        BY <2>1, StartLinkingFact, Zenon
    <2>4. cache' \in [Peers -> {"none", "valid", "invalid"}]
        <3>1. PICK p : cache' = [cache EXCEPT ![p] = outcome]
            BY <1>9, Zenon DEF CheckResolved
        <3> QED BY <1>8, <3>1, Zenon
    <2> QED BY <1>5, <1>6, <1>7, <2>2, <2>3, <2>4, RevisedStep, Zenon
<1>10. CASE ~c.link
    <2>1. PICK x : x = [objects[o] EXCEPT !.status = outcome]
        BY Zenon
    <2>2. /\ x \in Sessions /\ x.sid = objects[o].sid /\ x.node = objects[o].node
          /\ x.listed = objects[o].listed
        <3>1. objects[o] \in Sessions
            BY <1>1, Fact, Zenon
        <3> QED BY <2>1, <3>1, Zenon DEF Sessions
    <2>3. objects' = [objects EXCEPT ![o] = x] /\ cache' = cache /\ worker' = worker
        BY <1>4, <1>10, <2>1, Zenon DEF CheckResolved
    <2> QED BY <1>5, <1>6, <1>7, <1>8, <2>2, <2>3, RevisedStep, Zenon
<1> QED BY <1>9, <1>10, Zenon

-----------------------------------------------------------------------------
\* A lookup of a node pops dead references behind the one that answers.
LEMMA NodeSessionKeeps ==
    ASSUME Inv, NEW w \in Workers, NEW n \in NodeIds, NodeSession(w, n)
    PROVE  Inv'
<1> DEFINE live == {r \in index[n] : Alive(r.obj)}
           kept == {r \in index[n] : \E l \in live : r.rank <= l.rank}
<1>1. /\ Typed /\ Len(objects) \in Nat /\ worker[w] \in WorkerStates(Len(objects))
      /\ \A r \in index[n] : r.obj \in 1..Len(objects) /\ r.rank \in Nat
    BY Fact, Zenon DEF Inv
<1>2. live \subseteq kept /\ kept \subseteq index[n]
    BY <1>1
<1>3. /\ index' = [index EXCEPT ![n] = kept]
      /\ \/ worker' = [worker EXCEPT ![w].at = "return"]
         \/ \E l \in live : worker' = [worker EXCEPT ![w].at = "return", ![w].found = l.obj]
    BY Zenon DEF NodeSession
<1> HIDE DEF kept
<1>4. PICK y \in WorkerStates(Len(objects)) : y.at = "return" /\ worker' = [worker EXCEPT ![w] = y]
    <2>1. "return" \in Places
        BY Zenon DEF Places
    <2>2. CASE worker' = [worker EXCEPT ![w].at = "return"]
        <3>1. PICK y : y = [worker[w] EXCEPT !.at = "return"]
            BY Zenon
        <3>2. y \in WorkerStates(Len(objects)) /\ y.at = "return"
            BY <1>1, <2>1, <3>1, Zenon DEF WorkerStates
        <3>3. worker' = [worker EXCEPT ![w] = y]
            BY <2>2, <3>1, Zenon
        <3> QED BY <3>2, <3>3, Zenon
    <2>3. ASSUME NEW l \in live, worker' = [worker EXCEPT ![w].at = "return", ![w].found = l.obj]
          PROVE  \E y \in WorkerStates(Len(objects)) : y.at = "return" /\ worker' = [worker EXCEPT ![w] = y]
        <3>1. PICK y : y = [worker[w] EXCEPT !.at = "return", !.found = l.obj]
            BY Zenon
        <3>2. l.obj \in 0..Len(objects)
            BY <1>1
        <3>3. y \in WorkerStates(Len(objects)) /\ y.at = "return"
            BY <1>1, <2>1, <3>1, <3>2, Zenon DEF WorkerStates
        <3>4. worker' = [worker EXCEPT ![w] = y]
            BY <1>1, <2>3, <3>1, ZenonT(40) DEF Typed, Referring
        <3> QED BY <3>3, <3>4, Zenon
    <2> QED BY <1>3, <2>2, <2>3, Zenon
<1>5. Proper(y)
    BY <1>1, <1>4, PlaceProper, Zenon
<1>6. /\ worker' \in [Workers -> WorkerStates(Len(objects))]
      /\ \A v \in Workers : worker'[v] = worker[v] \/ worker'[v] = y
    <2>1. worker \in [Workers -> WorkerStates(Len(objects))]
        BY <1>1, Zenon DEF Typed, Referring
    <2> QED BY <1>4, <2>1, WorkerStep, Zenon
<1>7. /\ objects' = objects /\ sessions' = sessions /\ indexed' = indexed
      /\ announced' = announced /\ cache' = cache /\ queue' = queue /\ checks' = checks
      /\ cleaner' = cleaner /\ saver' = saver /\ disk' = disk /\ arrivals' = arrivals
    BY DEF NodeSession, checkVars, processVars
<1>8. index \in [NodeIds -> SUBSET [obj : 1..Len(objects), rank : Nat]]
    BY <1>1, Zenon DEF Typed, Referring
<1>9. /\ index' \in [NodeIds -> SUBSET [obj : 1..Len(objects), rank : Nat]]
      /\ \A m \in NodeIds : index'[m] \subseteq index[m]
      /\ \A m \in NodeIds : \A r \in index[m] : Alive(r.obj) => r \in index'[m]
    BY <1>2, <1>3, <1>8, Zenon
<1>10. Referring(Len(objects))' /\ Plain'
    BY <1>1, <1>6, <1>7, <1>9, Zenon DEF Typed, Referring, Plain
<1>11. Gentle
    BY <1>5, <1>6, <1>7, <1>9, Zenon DEF Gentle
<1>12. EventsMatchIndex'
    BY <1>7, <1>9, Zenon DEF Inv, EventsMatchIndex
<1>13. objects' \in Seq(Sessions)
    BY <1>1, <1>7, Zenon DEF Typed
<1> QED BY <1>7, <1>10, <1>11, <1>12, <1>13, KeptByStep, Zenon

\* The cleaner drops the dead references of a node, and its entry with the last of them.
LEMMA CleanNodeKeeps ==
    ASSUME Inv, NEW n \in NodeIds, CleanNode(n)
    PROVE  Inv'
<1> DEFINE live == {r \in index[n] : Alive(r.obj)}
<1>1. Typed
    BY Zenon DEF Inv
<1>2. live \subseteq index[n]
    BY Zenon
<1>3. /\ index' = [index EXCEPT ![n] = live]
      /\ indexed' = IF live = {} THEN indexed \ {n} ELSE indexed
      /\ announced' = IF n \in indexed /\ live = {} THEN [announced EXCEPT ![n] = "lost"]
                      ELSE announced
      /\ cleaner' = [cleaner EXCEPT !.nodes = @ \ {n}]
    BY Zenon DEF CleanNode
<1>4. \A r \in index[n] : Alive(r.obj) => r \in live
    BY Zenon
<1> HIDE DEF live
<1>5. /\ objects' = objects /\ sessions' = sessions /\ cache' = cache /\ queue' = queue
      /\ checks' = checks /\ worker' = worker
      /\ saver' = saver /\ disk' = disk /\ arrivals' = arrivals
    BY DEF CleanNode, checkVars
<1>6. /\ index \in [NodeIds -> SUBSET [obj : 1..Len(objects), rank : Nat]]
      /\ announced \in [NodeIds -> {"none", "new", "lost"}] /\ indexed \in SUBSET NodeIds
      /\ cleaner \in [at : {"asleep", "purging", "cleaning"},
                      shards : SUBSET SessionIds, nodes : SUBSET NodeIds]
    BY <1>1, Zenon DEF Typed, Referring, Plain
<1>7. /\ index' \in [NodeIds -> SUBSET [obj : 1..Len(objects), rank : Nat]]
      /\ \A m \in NodeIds : index'[m] \subseteq index[m]
      /\ \A m \in NodeIds : \A r \in index[m] : Alive(r.obj) => r \in index'[m]
    BY <1>2, <1>3, <1>4, <1>6, Zenon
<1>8. announced' \in [NodeIds -> {"none", "new", "lost"}] /\ indexed' \in SUBSET NodeIds
    BY <1>3, <1>6, Zenon
<1>9. cleaner' \in [at : {"asleep", "purging", "cleaning"},
                    shards : SUBSET SessionIds, nodes : SUBSET NodeIds]
    BY <1>3, <1>6, Zenon
<1>10. Referring(Len(objects))' /\ Plain'
    BY <1>1, <1>5, <1>7, <1>8, <1>9, Zenon DEF Typed, Referring, Plain
<1>11. Gentle
    BY <1>5, <1>7, Zenon DEF Gentle
<1>12. EventsMatchIndex'
    <2> SUFFICES ASSUME NEW m \in NodeIds
                 PROVE  /\ announced'[m] = "new" <=> m \in indexed'
                        /\ index'[m] # {} => m \in indexed'
        BY Zenon DEF EventsMatchIndex
    <2>1. (announced[m] = "new" <=> m \in indexed) /\ (index[m] # {} => m \in indexed)
        BY Zenon DEF Inv, EventsMatchIndex
    <2>2. CASE m # n
        <3>1. announced'[m] = announced[m] /\ index'[m] = index[m] /\ (m \in indexed' <=> m \in indexed)
            BY <1>3, <1>6, <2>2, Zenon
        <3> QED BY <2>1, <3>1, Zenon
    <2>3. CASE m = n /\ live = {}
        <3>1. m \notin indexed' /\ index'[m] = {}
            BY <1>3, <1>6, <2>3, Zenon
        <3>2. announced'[m] # "new"
            BY <1>3, <1>6, <2>1, <2>3, Zenon
        <3> QED BY <3>1, <3>2, Zenon
    <2>4. CASE m = n /\ live # {}
        <3>1. announced' = announced /\ indexed' = indexed
            BY <1>3, <2>4, Zenon
        <3>2. index'[m] # {} => index[m] # {}
            BY <1>7, Zenon
        <3> QED BY <2>1, <3>1, <3>2, Zenon
    <2> QED BY <2>2, <2>3, <2>4, Zenon
<1>13. objects' \in Seq(Sessions)
    BY <1>1, <1>5, Zenon DEF Typed
<1> QED BY <1>5, <1>10, <1>11, <1>12, <1>13, KeptByStep, Zenon

\* The worker has linked its session: now the session is registered.
LEMMA LinkedKeeps ==
    ASSUME Inv, NEW w \in Workers, Linked(w)
    PROVE  Inv'
<1>1. Typed /\ Len(objects) \in Nat /\ worker[w] \in WorkerStates(Len(objects))
        /\ worker[w].obj \in 0..Len(objects)
    BY Fact, Zenon DEF Inv
<1>2. /\ worker[w].obj # 0
      /\ \A n \in Keys[objects[worker[w].obj].node] : \E r \in index[n] : r.obj = worker[w].obj
    BY Zenon DEF Inv, Holding, Linked, At
<1>3. PICK o \in 1..Len(objects) : o = worker[w].obj
    BY <1>1, <1>2
<1>4. PICK x : x = [objects[o] EXCEPT !.listed = TRUE]
    BY Zenon
<1>5. x \in Sessions /\ x.sid = objects[o].sid /\ x.node = objects[o].node
    <2>1. objects[o] \in Sessions
        BY <1>1, Fact, Zenon
    <2> QED BY <1>4, <2>1, Zenon DEF Sessions
<1>6. objects' = [objects EXCEPT ![o] = x]
    BY <1>3, <1>4, Zenon DEF Linked
<1>7. /\ objects' \in Seq(Sessions) /\ Len(objects') = Len(objects)
      /\ \A i \in 1..Len(objects) :
           /\ objects'[i].sid = objects[i].sid /\ objects'[i].node = objects[i].node
           /\ i # o => objects'[i] = objects[i]
    BY <1>1, <1>5, <1>6, ObjectStep, Zenon
<1>8. PICK y : y = [worker[w] EXCEPT !.at = "return"]
    BY Zenon
<1>9. y \in WorkerStates(Len(objects)) /\ y.at = "return"
    BY <1>1, <1>8, Zenon DEF WorkerStates, Places
<1>10. /\ worker' \in [Workers -> WorkerStates(Len(objects))]
       /\ \A v \in Workers : worker'[v] = worker[v] \/ worker'[v] = y
    <2>1. worker \in [Workers -> WorkerStates(Len(objects))] /\ worker' = [worker EXCEPT ![w] = y]
        BY <1>1, <1>8, Zenon DEF Typed, Referring, Linked
    <2> QED BY <1>9, <2>1, WorkerStep, Zenon
<1>11. /\ sessions' = sessions /\ index' = index /\ indexed' = indexed
       /\ announced' = announced /\ cache' = cache /\ queue' = queue /\ checks' = checks
       /\ cleaner' = cleaner /\ saver' = saver /\ disk' = disk /\ arrivals' = arrivals
    BY DEF Linked, indexVars, checkVars, processVars
<1>12. Referring(Len(objects))' /\ Plain'
    BY <1>1, <1>7, <1>10, <1>11, Zenon DEF Typed, Referring, Plain
<1>13. Typed'
    <2>1. Len(objects') <= MaxObjects
        BY <1>1, <1>7, Zenon DEF Typed
    <2> QED BY <1>7, <1>12, <2>1, Zenon DEF Typed
<1>14. \A s \in SessionIds : sessions[s] # 0 => sessions[s] \in 1..Len(objects)
    BY <1>1, Fact
<1>15. Sids'
    BY <1>7, <1>11, <1>14, Zenon DEF Inv, Sids
<1>16. RegisteredIsFound'
    <2> SUFFICES ASSUME NEW s \in SessionIds, sessions[s] # 0, objects'[sessions[s]].listed,
                        NEW n \in Keys[objects'[sessions[s]].node]
                 PROVE  \E r \in index[n] : r.obj = sessions[s]
        BY <1>11, Zenon DEF RegisteredIsFound
    <2>1. n \in Keys[objects[sessions[s]].node]
        BY <1>7, <1>14, Zenon
    <2>2. CASE sessions[s] = o
        BY <1>2, <1>3, <2>1, <2>2, Zenon
    <2>3. CASE sessions[s] # o
        <3>1. objects[sessions[s]].listed
            BY <1>7, <1>14, <2>3, Zenon
        <3> QED BY <2>1, <3>1, Zenon DEF Inv, RegisteredIsFound
    <2> QED BY <2>2, <2>3, Zenon
<1>17. IndexedByIdentity'
    BY <1>1, <1>7, <1>11, Fact, Zenon DEF Inv, IndexedByIdentity
<1>18. Holding'
    <2> SUFFICES ASSUME NEW v \in Workers
                 PROVE  /\ worker'[v].at \notin {"idle", "return"} => worker'[v].obj # 0
                        /\ worker'[v].at = "link" =>
                            /\ worker'[v].todo \subseteq Keys[objects'[worker'[v].obj].node]
                            /\ \A n \in Keys[objects'[worker'[v].obj].node] \ worker'[v].todo :
                                 \E r \in index[n] : r.obj = worker'[v].obj
        BY <1>11, Zenon DEF Holding
    <2>1. CASE worker'[v] = y
        BY <1>9, <2>1, Zenon
    <2>2. CASE worker'[v] = worker[v]
        <3>1. worker[v].at = "link" => worker[v].obj \in 1..Len(objects)
            <4>1. worker[v].at = "link" => worker[v].obj # 0
                BY Zenon DEF Inv, Holding
            <4> QED BY <1>1, <4>1, Fact
        <3>2. worker[v].at = "link" => objects'[worker[v].obj].node = objects[worker[v].obj].node
            BY <1>7, <3>1, Zenon
        <3> QED BY <2>2, <3>2, Zenon DEF Inv, Holding
    <2> QED BY <1>10, <2>1, <2>2, Zenon
<1>19. EventsMatchIndex'
    BY <1>11, Zenon DEF Inv, EventsMatchIndex
<1>20. Saved'
    <2>1. ASSUME NEW z \in saver.out
          PROVE  z.sid \notin saver.shards /\ \E i \in 1..Len(objects') : objects'[i].sid = z.sid
        <3>1. PICK i \in 1..Len(objects) : objects[i].sid = z.sid
            BY Zenon DEF Inv, Saved
        <3>2. i \in 1..Len(objects') /\ objects'[i].sid = z.sid
            BY <1>7, <3>1, Zenon
        <3> QED BY <3>2, Zenon DEF Inv, Saved
    <2> QED BY <1>11, <2>1, Zenon DEF Inv, Saved
<1> QED BY <1>13, <1>15, <1>16, <1>17, <1>18, <1>19, <1>20, Zenon DEF Inv

\* One identity of a session is linked: live references stay, and the session has one.
LEMMA LinkKeeps ==
    ASSUME Inv, NEW w \in Workers, NEW n \in NodeIds, Link(w, n)
    PROVE  Inv'
<1> DEFINE live == {r \in index[n] : Alive(r.obj)}
<1>1. Typed /\ Len(objects) \in Nat /\ worker[w] \in WorkerStates(Len(objects))
        /\ worker[w].obj \in 0..Len(objects)
    BY Fact, Zenon DEF Inv
<1>2. /\ worker[w].at = "link" /\ n \in worker[w].todo /\ worker[w].obj # 0
      /\ worker[w].todo \subseteq Keys[objects[worker[w].obj].node]
    BY Zenon DEF Inv, Holding, Link, At
<1>3. PICK o \in 1..Len(objects) : o = worker[w].obj
    BY <1>1, <1>2
<1>4. PICK rank \in 1..(MaxObjects + 1) :
        /\ \A r \in live : r.rank < rank
        /\ index' = [index EXCEPT ![n] = IF \E r \in live : r.obj = o
                                         THEN live ELSE live \cup {[obj |-> o, rank |-> rank]}]
    BY <1>3, Zenon DEF Link
<1>5. /\ live \subseteq index[n]
      /\ \A r \in index[n] : Alive(r.obj) => r \in live
    BY Zenon
<1>6. /\ indexed' = indexed \cup {n}
      /\ announced' = IF live = {} THEN [announced EXCEPT ![n] = "new"] ELSE announced
      /\ worker' = [worker EXCEPT ![w].todo = @ \ {n}]
    BY Zenon DEF Link
<1> HIDE DEF live
<1>7. /\ objects' = objects /\ sessions' = sessions /\ cache' = cache /\ queue' = queue
      /\ checks' = checks /\ cleaner' = cleaner /\ saver' = saver /\ disk' = disk
      /\ arrivals' = arrivals
    BY DEF Link, checkVars, processVars
<1>8. PICK e : e = [obj |-> o, rank |-> rank]
    BY Zenon
<1>9. e.obj = o /\ e.rank = rank /\ rank \in Nat /\ e \in [obj : 1..Len(objects), rank : Nat]
    <2>1. rank \in Nat
        BY ServerAssumption
    <2> QED BY <1>8, <2>1, Zenon
<1>10. PICK new : /\ index' = [index EXCEPT ![n] = new]
                  /\ \/ new = live /\ \E r \in live : r.obj = o
                     \/ new = live \cup {e} /\ \A r \in live : r.obj # o
    <2>1. CASE \E r \in live : r.obj = o
        BY <1>4, <2>1, Zenon
    <2>2. CASE ~\E r \in live : r.obj = o
        BY <1>4, <1>8, <2>2, Zenon
    <2> QED BY <2>1, <2>2, Zenon
<1>11. live \subseteq new /\ new \subseteq live \cup {e} /\ \E r \in new : r.obj = o
    BY <1>9, <1>10, Zenon
<1>12. index \in [NodeIds -> SUBSET [obj : 1..Len(objects), rank : Nat]]
    BY <1>1, Zenon DEF Typed, Referring
<1>13. index'[n] = new /\ \A m \in NodeIds : m # n => index'[m] = index[m]
    BY <1>10, <1>12, Zenon
<1>14. index' \in [NodeIds -> SUBSET [obj : 1..Len(objects), rank : Nat]]
    <2>1. new \in SUBSET [obj : 1..Len(objects), rank : Nat]
        BY <1>5, <1>9, <1>11, <1>12, Zenon
    <2> QED BY <1>10, <1>12, <2>1, Zenon
<1>15. \A m \in NodeIds : \A r \in index[m] : Alive(r.obj) => r \in index'[m]
    BY <1>5, <1>11, <1>13, Zenon
<1>16. PICK y : y = [worker[w] EXCEPT !.todo = @ \ {n}]
    BY Zenon
<1>17. /\ y \in WorkerStates(Len(objects)) /\ y.at = "link" /\ y.obj = o
       /\ y.todo = worker[w].todo \ {n}
    BY <1>1, <1>2, <1>3, <1>16, Zenon DEF WorkerStates
<1>18. /\ worker' \in [Workers -> WorkerStates(Len(objects))]
       /\ \A v \in Workers : worker'[v] = worker[v] \/ (v = w /\ worker'[v] = y)
    <2>1. worker \in [Workers -> WorkerStates(Len(objects))] /\ worker' = [worker EXCEPT ![w] = y]
        BY <1>1, <1>6, <1>16, Zenon DEF Typed, Referring
    <2> QED BY <1>17, <2>1, Zenon
<1>19. announced' \in [NodeIds -> {"none", "new", "lost"}] /\ indexed' \in SUBSET NodeIds
    BY <1>1, <1>6, Zenon DEF Typed, Plain
<1>20. Typed'
    <2>1. Referring(Len(objects))' /\ Plain'
        BY <1>1, <1>7, <1>14, <1>18, <1>19, Zenon DEF Typed, Referring, Plain
    <2> QED BY <1>1, <1>7, <2>1, Zenon DEF Typed
<1>21. Sids' /\ Saved'
    BY <1>7, Zenon DEF Inv, Sids, Saved
<1>22. RegisteredIsFound'
    <2> SUFFICES ASSUME NEW s \in SessionIds, sessions[s] # 0, objects[sessions[s]].listed,
                        NEW m \in Keys[objects[sessions[s]].node]
                 PROVE  \E r \in index'[m] : r.obj = sessions[s]
        BY <1>7, Zenon DEF RegisteredIsFound
    <2>1. PICK r \in index[m] : r.obj = sessions[s]
        BY Zenon DEF Inv, RegisteredIsFound
    <2>2. m \in NodeIds
        <3>1. sessions[s] \in 1..Len(objects)
            BY <1>1, Fact
        <3> QED BY <1>1, <3>1, Fact, Zenon
    <2> QED BY <1>15, <2>1, <2>2, AliveFact, Zenon
<1>23. IndexedByIdentity'
    <2> SUFFICES ASSUME NEW m \in NodeIds, NEW r \in index'[m], NEW q \in index'[m]
                 PROVE  /\ m \in Keys[objects[r.obj].node]
                        /\ r.rank = q.rank \/ r.obj = q.obj => r = q
        BY <1>7, Zenon DEF IndexedByIdentity
    <2>1. ASSUME r \in index[m], q \in index[m]
          PROVE  /\ m \in Keys[objects[r.obj].node]
                 /\ r.rank = q.rank \/ r.obj = q.obj => r = q
        BY <2>1, Zenon DEF Inv, IndexedByIdentity
    <2>2. CASE m # n \/ new = live
        <3>1. r \in index[m] /\ q \in index[m]
            BY <1>5, <1>13, <2>2, Zenon
        <3> QED BY <2>1, <3>1, Zenon
    <2>3. CASE m = n /\ new = live \cup {e} /\ \A l \in live : l.obj # o
        <3>1. \A l \in live : l.rank # rank
            <4>1. \A l \in live : l.rank \in Nat
                BY <1>1, <1>5, Fact, Zenon
            <4> QED BY <1>4, <1>9, <4>1
        <3>2. r \in live \cup {e} /\ q \in live \cup {e}
            BY <1>13, <2>3, Zenon
        <3>3. n \in Keys[objects[e.obj].node]
            BY <1>2, <1>3, <1>9, Zenon
        <3>4. CASE r = e /\ q = e
            BY <2>3, <3>3, <3>4, Zenon
        <3>5. CASE r = e /\ q \in live
            BY <1>9, <2>3, <3>1, <3>3, <3>5, Zenon
        <3>6. CASE r \in live /\ q = e
            <4>1. m \in Keys[objects[r.obj].node]
                BY <1>5, <2>3, <3>6, Zenon DEF Inv, IndexedByIdentity
            <4> QED BY <1>9, <2>3, <3>1, <3>6, <4>1, Zenon
        <3>7. CASE r \in live /\ q \in live
            BY <1>5, <2>1, <2>3, <3>7, Zenon
        <3> QED BY <3>2, <3>4, <3>5, <3>6, <3>7, Zenon
    <2> QED BY <1>10, <2>2, <2>3, Zenon
<1>24. Holding'
    <2> SUFFICES ASSUME NEW v \in Workers
                 PROVE  /\ worker'[v].at \notin {"idle", "return"} => worker'[v].obj # 0
                        /\ worker'[v].at = "link" =>
                            /\ worker'[v].todo \subseteq Keys[objects[worker'[v].obj].node]
                            /\ \A m \in Keys[objects[worker'[v].obj].node] \ worker'[v].todo :
                                 \E r \in index'[m] : r.obj = worker'[v].obj
        BY <1>7, Zenon DEF Holding
    <2>1. ASSUME worker[v].at = "link"
          PROVE  \A m \in Keys[objects[worker[v].obj].node] \ worker[v].todo :
                     \E r \in index'[m] : r.obj = worker[v].obj
        <3> TAKE m \in Keys[objects[worker[v].obj].node] \ worker[v].todo
        <3>1. PICK r \in index[m] : r.obj = worker[v].obj
            BY <2>1, Zenon DEF Inv, Holding
        <3>2. m \in NodeIds
            <4>1. worker[v].obj # 0
                BY <2>1, Zenon DEF Inv, Holding
            <4>2. worker[v].obj \in 1..Len(objects)
                BY <1>1, <4>1, Fact
            <4> QED BY <1>1, <4>2, Fact, Zenon
        <3> QED BY <1>15, <3>1, <3>2, AliveFact, Zenon
    <2>2. CASE worker'[v] = worker[v]
        BY <2>1, <2>2, Zenon DEF Inv, Holding
    <2>3. CASE v = w /\ worker'[v] = y
        <3>1. o # 0 /\ y.todo \subseteq Keys[objects[o].node]
            BY <1>2, <1>3, <1>17, Zenon
        <3>2. \A m \in Keys[objects[o].node] \ y.todo : \E r \in index'[m] : r.obj = o
            <4> TAKE m \in Keys[objects[o].node] \ y.todo
            <4>1. CASE m = n
                BY <1>11, <1>13, <4>1, Zenon
            <4>2. CASE m # n
                <5>1. m \in Keys[objects[worker[v].obj].node] \ worker[v].todo
                    BY <1>3, <1>17, <2>3, <4>2, Zenon
                <5> QED BY <1>2, <1>3, <2>1, <2>3, <5>1, Zenon
            <4> QED BY <4>1, <4>2, Zenon
        <3> QED BY <1>17, <2>3, <3>1, <3>2, Zenon
    <2> QED BY <1>18, <2>2, <2>3, Zenon
<1>25. EventsMatchIndex'
    <2> SUFFICES ASSUME NEW m \in NodeIds
                 PROVE  /\ announced'[m] = "new" <=> m \in indexed'
                        /\ index'[m] # {} => m \in indexed'
        BY Zenon DEF EventsMatchIndex
    <2>1. (announced[m] = "new" <=> m \in indexed) /\ (index[m] # {} => m \in indexed)
        BY Zenon DEF Inv, EventsMatchIndex
    <2>2. announced \in [NodeIds -> {"none", "new", "lost"}]
        BY <1>1, Zenon DEF Typed, Plain
    <2>3. CASE m # n
        <3>1. announced'[m] = announced[m] /\ index'[m] = index[m] /\ (m \in indexed' <=> m \in indexed)
            BY <1>6, <1>13, <2>2, <2>3, Zenon
        <3> QED BY <2>1, <3>1, Zenon
    <2>4. CASE m = n
        <3>1. m \in indexed'
            BY <1>6, <2>4, Zenon
        <3>2. announced'[m] = "new"
            BY <1>5, <1>6, <2>1, <2>2, <2>4, Zenon
        <3> QED BY <3>1, <3>2, Zenon
    <2> QED BY <2>3, <2>4, Zenon
<1> QED BY <1>20, <1>21, <1>22, <1>23, <1>24, <1>25, Zenon DEF Inv

-----------------------------------------------------------------------------
\* What refers to k sessions refers to k + 1 of them.
LEMMA ReferringGrows ==
    ASSUME NEW k \in Nat, Referring(k)
    PROVE  Referring(k + 1)
<1>1. 0..k \subseteq 0..(k + 1) /\ 1..k \subseteq 1..(k + 1)
    OBVIOUS
<1>2. PICK l : l = k + 1
    BY Zenon
<1>3. Requests(k) \subseteq Requests(l) /\ WorkerStates(k) \subseteq WorkerStates(l)
    BY <1>1, <1>2, Zenon DEF Requests, WorkerStates
<1>4. [obj : 1..k, rank : Nat] \subseteq [obj : 1..l, rank : Nat]
    BY <1>1, <1>2, Zenon
<1>5. queue \in [Workers -> Seq(Requests(l))]
    <2>1. queue \in [Workers -> Seq(Requests(k))]
        BY Zenon DEF Referring
    <2>2. \A w \in Workers : queue[w] \in Seq(Requests(l))
        BY <1>3, <2>1, SeqMonotonic, Zenon
    <2> QED BY <2>1, <2>2, Zenon
<1>6. sessions \in [SessionIds -> 0..l] /\ worker \in [Workers -> WorkerStates(l)]
    BY <1>1, <1>2, <1>3, Zenon DEF Referring
<1>7. /\ index \in [NodeIds -> SUBSET [obj : 1..l, rank : Nat]]
      /\ checks \in [Workers -> SUBSET Requests(l)]
    BY <1>3, <1>4, Zenon DEF Referring
<1> QED BY <1>2, <1>5, <1>6, <1>7, Zenon DEF Referring

\* A new session is in the table and not registered yet.
LEMMA NewSessionKeeps ==
    ASSUME Inv, NEW w \in Workers, NEW s \in SessionIds, NEW n \in DOMAIN Keys, NewSession(w, s, n)
    PROVE  Inv'
<1>1. Typed /\ Len(objects) \in Nat
    BY Fact, Zenon DEF Inv
<1>2. PICK k \in Nat : k = Len(objects)
    BY <1>1, Zenon
<1>3. PICK x : x = Session(s, n, "unknown")
    BY Zenon
<1>4. x \in Sessions /\ x.sid = s /\ ~x.listed
    BY <1>3, Zenon DEF Session, Sessions
<1>5. objects' = Append(objects, x) /\ sessions' = [sessions EXCEPT ![s] = k + 1]
    BY <1>2, <1>3, Zenon DEF NewSession
<1>6. /\ objects' \in Seq(Sessions) /\ Len(objects') = k + 1 /\ objects'[k + 1] = x
      /\ \A i \in 1..k : objects'[i] = objects[i]
    <2>1. objects \in Seq(Sessions)
        BY <1>1, Zenon DEF Typed
    <2> QED BY <1>2, <1>4, <1>5, <2>1
<1>7. k + 1 <= MaxObjects
    BY <1>2, ServerAssumption DEF NewSession
<1>8. /\ index' = index /\ indexed' = indexed /\ announced' = announced
      /\ cache' = cache /\ queue' = queue /\ checks' = checks /\ worker' = worker
      /\ cleaner' = cleaner /\ saver' = saver /\ disk' = disk
    BY DEF NewSession, indexVars, checkVars, processVars
<1>9. Referring(k + 1)
    BY <1>1, <1>2, ReferringGrows, Zenon DEF Typed
<1>10. k + 1 \in 0..(k + 1) /\ k + 1 # 0 /\ k + 1 \notin 1..k /\ k + 1 \notin 0..k
    OBVIOUS
<1>11. sessions' \in [SessionIds -> 0..(k + 1)]
    BY <1>5, <1>9, <1>10, Zenon DEF Referring
<1>12. "session" \in Kinds
    BY Zenon DEF Kinds
<1>13. arrivals' \in [Kinds -> Nat]
    BY <1>1, <1>12, ArriveTyped, Zenon DEF NewSession
<1>14. Typed'
    <2>1. Referring(Len(objects))'
        BY <1>6, <1>8, <1>9, <1>11, Zenon DEF Referring
    <2>2. Plain'
        BY <1>1, <1>8, <1>13, Zenon DEF Typed, Plain
    <2> QED BY <1>6, <1>7, <2>1, <2>2, Zenon DEF Typed
<1>15. /\ sessions'[s] = k + 1
       /\ \A t \in SessionIds : t # s => sessions'[t] = sessions[t]
       /\ \A t \in SessionIds : sessions[t] # 0 => sessions[t] \in 1..k
    <2>1. sessions \in [SessionIds -> 0..k]
        BY <1>1, <1>2, Zenon DEF Typed, Referring
    <2>2. \A t \in SessionIds : sessions[t] # 0 => sessions[t] \in 1..k
        BY <1>1, <1>2, Fact
    <2> QED BY <1>5, <2>1, <2>2, Zenon
<1>16. Sids'
    <2> SUFFICES ASSUME NEW t \in SessionIds, sessions'[t] # 0
                 PROVE  objects'[sessions'[t]].sid = t
        BY Zenon DEF Sids
    <2>1. CASE t = s
        BY <1>4, <1>6, <1>15, <2>1, Zenon
    <2>2. CASE t # s
        BY <1>6, <1>15, <2>2, Zenon DEF Inv, Sids
    <2> QED BY <2>1, <2>2, Zenon
<1>17. RegisteredIsFound'
    <2> SUFFICES ASSUME NEW t \in SessionIds, sessions'[t] # 0, objects'[sessions'[t]].listed
                 PROVE  \A m \in Keys[objects'[sessions'[t]].node] :
                            \E r \in index[m] : r.obj = sessions'[t]
        BY <1>8, Zenon DEF RegisteredIsFound
    <2>1. t # s
        BY <1>4, <1>6, <1>15, Zenon
    <2>2. sessions'[t] = sessions[t] /\ objects'[sessions[t]] = objects[sessions[t]]
        BY <1>6, <1>15, <2>1, Zenon
    <2> QED BY <2>2, Zenon DEF Inv, RegisteredIsFound
<1>18. IndexedByIdentity'
    <2>1. \A m \in NodeIds : \A r \in index[m] : objects'[r.obj] = objects[r.obj]
        BY <1>1, <1>2, <1>6, Fact, Zenon
    <2> SUFFICES ASSUME NEW m \in NodeIds, NEW r \in index[m], NEW q \in index[m]
                 PROVE  /\ m \in Keys[objects'[r.obj].node]
                        /\ r.rank = q.rank \/ r.obj = q.obj => r = q
        BY <1>8, Zenon DEF IndexedByIdentity
    <2> QED BY <2>1, Zenon DEF Inv, IndexedByIdentity
<1>19. Holding'
    <2>1. ASSUME NEW v \in Workers, worker[v].obj # 0
          PROVE  objects'[worker[v].obj] = objects[worker[v].obj]
        <3>1. worker[v].obj \in 1..k
            BY <1>1, <1>2, <2>1, Fact
        <3> QED BY <1>6, <3>1, Zenon
    <2>2. \A v \in Workers : worker[v].at = "link" => worker[v].obj # 0
        BY Zenon DEF Inv, Holding
    <2>3. \A v \in Workers :
            worker[v].at = "link" => objects'[worker[v].obj] = objects[worker[v].obj]
        BY <2>1, <2>2, Zenon
    <2> SUFFICES ASSUME NEW v \in Workers
                 PROVE  /\ worker[v].at \notin {"idle", "return"} => worker[v].obj # 0
                        /\ worker[v].at = "link" =>
                            /\ worker[v].todo \subseteq Keys[objects'[worker[v].obj].node]
                            /\ \A m \in Keys[objects'[worker[v].obj].node] \ worker[v].todo :
                                 \E r \in index[m] : r.obj = worker[v].obj
        BY <1>8, Zenon DEF Holding
    <2> QED BY <2>3, Zenon DEF Inv, Holding
<1>20. EventsMatchIndex'
    BY <1>8, Zenon DEF Inv, EventsMatchIndex
<1>21. Saved'
    <2>1. ASSUME NEW y \in saver.out
          PROVE  y.sid \notin saver.shards /\ \E o \in 1..Len(objects') : objects'[o].sid = y.sid
        <3>1. PICK o \in 1..k : objects[o].sid = y.sid
            BY <1>2, Zenon DEF Inv, Saved
        <3>2. o \in 1..Len(objects')
            BY <1>6
        <3> QED BY <1>6, <3>1, <3>2, Zenon DEF Inv, Saved
    <2> QED BY <1>8, <2>1, Zenon DEF Inv, Saved
<1> QED BY <1>14, <1>16, <1>17, <1>18, <1>19, <1>20, <1>21, Zenon DEF Inv

-----------------------------------------------------------------------------
(***************************************************************************)
(* Records of different ids, each of a session that was allocated, are no  *)
(* more than the sessions are: choosing the session of a record loses      *)
(* nothing.                                                                *)
(***************************************************************************)
LEMMA FewRecords ==
    ASSUME Typed, NEW out, \A x, y \in out : x.sid = y.sid => x = y,
           \A x \in out : \E o \in 1..Len(objects) : objects[o].sid = x.sid
    PROVE  IsFiniteSet(out) /\ Cardinality(out) <= MaxObjects
<1> DEFINE f == [x \in out |-> CHOOSE o \in 1..Len(objects) : objects[o].sid = x.sid]
<1>1. PICK k \in Nat : k = Len(objects) /\ k <= MaxObjects
    BY Fact, Zenon DEF Typed
<1>2. \A x \in out : f[x] \in 1..k /\ objects[f[x]].sid = x.sid
    BY <1>1, Zenon
<1>3. f \in [out -> 1..k]
    BY <1>2, Zenon
<1> HIDE DEF f
<1>4. ASSUME NEW x \in out, NEW y \in out, f[x] = f[y]
      PROVE  x = y
    <2>1. objects[f[x]].sid = x.sid /\ objects[f[x]].sid = y.sid
        BY <1>2, <1>4, Zenon
    <2>2. x.sid = y.sid
        BY <2>1, Zenon
    <2> QED BY <2>2, Zenon
<1>5. f \in Injection(out, 1..k)
    BY <1>3, <1>4, Zenon DEF Injection, IsInjective
<1>6. IsFiniteSet(1..k) /\ Cardinality(1..k) = k
    BY FS_Interval
<1>7. IsFiniteSet(out) /\ Cardinality(out) <= Cardinality(1..k)
    BY <1>5, <1>6, FS_Injection, Zenon
<1>8. Cardinality(out) \in Nat
    BY <1>7, FS_CardinalityType, Zenon
<1> QED BY <1>1, <1>6, <1>7, <1>8, ServerAssumption

\* A step of the main task that leaves the rest of the server alone, and what it has to show.
LEMMA SaverStep ==
    ASSUME Inv, UNCHANGED <<objects, sessions, indexVars, checkVars, worker, cleaner>>,
           arrivals' \in [Kinds -> Nat], disk' \in SUBSET Records, Saved',
           saver' \in [at : {"serving", "saving", "ended"},
                       shards : SUBSET SessionIds, out : SUBSET Records]
    PROVE  Inv'
<1>1. /\ objects' = objects /\ sessions' = sessions /\ index' = index /\ indexed' = indexed
      /\ announced' = announced /\ cache' = cache /\ queue' = queue /\ checks' = checks
      /\ worker' = worker /\ cleaner' = cleaner
    BY DEF indexVars, checkVars
<1>2. Typed'
    <2>1. Referring(Len(objects))' /\ Plain'
        BY <1>1, Zenon DEF Inv, Typed, Referring, Plain
    <2> QED BY <1>1, <2>1, Zenon DEF Inv, Typed
<1>3. Gentle
    BY <1>1, Zenon DEF Gentle
<1>4. Sids' /\ Holding' /\ RegisteredIsFound' /\ IndexedByIdentity'
    BY <1>3, GentleStep, Zenon
<1>5. EventsMatchIndex'
    BY <1>1, Zenon DEF Inv, EventsMatchIndex
<1> QED BY <1>2, <1>4, <1>5, Zenon DEF Inv

\* The process is interrupted, ends or is killed.
LEMMA EndKeeps ==
    ASSUME Inv, Interrupt \/ SaveEnds \/ Crash
    PROVE  Inv'
<1>1. Typed
    BY Zenon DEF Inv
<1>2. PICK S : S = [at : {"serving", "saving", "ended"},
                    shards : SUBSET SessionIds, out : SUBSET Records]
    BY Zenon
<1>3. saver \in S /\ disk \in SUBSET Records /\ arrivals \in [Kinds -> Nat]
    BY <1>1, <1>2, Zenon DEF Typed, Plain
<1>4. UNCHANGED <<objects, sessions, indexVars, checkVars, worker, cleaner>>
    BY Zenon DEF Interrupt, SaveEnds, Crash
<1>5. objects' = objects
    BY <1>4, Zenon
<1>6. Saved
    BY Zenon DEF Inv
<1>7. "end" \in Kinds
    BY Zenon DEF Kinds
<1>8. CASE Interrupt
    <2>1. saver' = [at |-> "saving", shards |-> SessionIds, out |-> {}] /\ disk' = {}
        BY <1>8, Zenon DEF Interrupt
    <2>2. saver' \in S /\ saver'.out = {} /\ disk' \in SUBSET Records
        BY <1>2, <2>1, Zenon
    <2>3. arrivals' \in [Kinds -> Nat]
        BY <1>1, <1>7, <1>8, ArriveTyped, Zenon DEF Interrupt
    <2>4. IsFiniteSet(disk') /\ Cardinality(disk') <= MaxObjects
        BY <2>1, FS_EmptySet, ServerAssumption
    <2>5. Saved'
        BY <2>2, <2>4, Zenon DEF Saved
    <2> QED BY <1>2, <1>4, <2>2, <2>3, <2>5, SaverStep, Zenon
<1>9. CASE SaveEnds
    <2>1. saver' = [saver EXCEPT !.at = "ended"] /\ disk' = saver.out /\ arrivals' = arrivals
        BY <1>9, Zenon DEF SaveEnds
    <2>2. /\ saver' \in S /\ saver'.out = saver.out /\ saver'.shards = saver.shards
          /\ disk' \in SUBSET Records
        BY <1>2, <1>3, <2>1, Zenon
    <2>3. IsFiniteSet(disk') /\ Cardinality(disk') <= MaxObjects
        <3>1. /\ \A x, y \in saver.out : x.sid = y.sid => x = y
              /\ \A x \in saver.out : \E o \in 1..Len(objects) : objects[o].sid = x.sid
            BY <1>6, Zenon DEF Saved
        <3> QED BY <1>1, <2>1, <3>1, FewRecords, Zenon
    <2>4. Saved'
        BY <1>5, <1>6, <2>2, <2>3, Zenon DEF Saved
    <2> QED BY <1>2, <1>3, <1>4, <2>1, <2>2, <2>4, SaverStep, Zenon
<1>10. CASE Crash
    <2>1. saver' = [saver EXCEPT !.at = "ended"] /\ disk' = disk
        BY <1>10, Zenon DEF Crash
    <2>2. saver' \in S /\ saver'.out = saver.out /\ saver'.shards = saver.shards
        BY <1>2, <1>3, <2>1, Zenon
    <2>3. arrivals' \in [Kinds -> Nat]
        BY <1>1, <1>7, <1>10, ArriveTyped, Zenon DEF Crash
    <2>4. Saved'
        BY <1>5, <1>6, <2>1, <2>2, Zenon DEF Saved
    <2> QED BY <1>2, <1>3, <1>4, <2>1, <2>2, <2>3, <2>4, SaverStep, ZenonT(40)
<1> QED BY <1>8, <1>9, <1>10, Zenon

\* A shard is saved: its id is new in the file, and is the id of a session.
LEMMA SaveShardKeeps ==
    ASSUME Inv, NEW s \in SessionIds, SaveShard(s)
    PROVE  Inv'
<1>1. Typed /\ Len(objects) \in Nat /\ sessions[s] \in 0..Len(objects)
    BY Fact, Zenon DEF Inv
<1>2. PICK S : S = [at : {"serving", "saving", "ended"},
                    shards : SUBSET SessionIds, out : SUBSET Records]
    BY Zenon
<1>3. saver \in S /\ arrivals \in [Kinds -> Nat]
    BY <1>1, <1>2, Zenon DEF Typed, Plain
<1>4. /\ \A x, y \in saver.out : x.sid = y.sid => x = y
      /\ \A x \in saver.out :
          x.sid \notin saver.shards /\ \E o \in 1..Len(objects) : objects[o].sid = x.sid
    BY Zenon DEF Inv, Saved
<1>5. PICK e : e = [sid |-> s, node |-> objects[sessions[s]].node,
                    valid |-> objects[sessions[s]].status = "valid"]
    BY Zenon
<1>6. e.sid = s
    BY <1>5, Zenon
<1>7. PICK out : /\ saver' = [saver EXCEPT !.shards = @ \ {s}, !.out = out] /\ disk' \in {{}, out}
                 /\ \/ sessions[s] = 0 /\ out = saver.out
                    \/ sessions[s] # 0 /\ out = saver.out \cup {e}
    BY <1>5, Zenon DEF SaveShard
<1>8. s \in saver.shards /\ arrivals' = arrivals
    BY Zenon DEF SaveShard
<1>9. UNCHANGED <<objects, sessions, indexVars, checkVars, worker, cleaner>>
    BY Zenon DEF SaveShard
<1>10. sessions[s] # 0 =>
         e \in Records /\ \E o \in 1..Len(objects) : objects[o].sid = s
    <2>1. ASSUME sessions[s] # 0
          PROVE  e \in Records /\ objects[sessions[s]].sid = s /\ sessions[s] \in 1..Len(objects)
        <3>1. sessions[s] \in 1..Len(objects)
            BY <1>1, <2>1
        <3>2. objects[sessions[s]].node \in DOMAIN Keys
            BY <1>1, <3>1, Fact, Zenon
        <3>3. e \in Records
            BY <1>5, <3>2, Zenon DEF Records
        <3> QED BY <2>1, <3>1, <3>3, Zenon DEF Inv, Sids
    <2> QED BY <2>1, Zenon
<1>11. saver.out \in SUBSET Records /\ saver.shards \in SUBSET SessionIds
    BY <1>2, <1>3, Zenon
<1>12. out \in SUBSET Records
    BY <1>7, <1>10, <1>11, Zenon
<1>13. saver' \in S /\ saver'.out = out /\ saver'.shards = saver.shards \ {s}
    BY <1>2, <1>3, <1>7, <1>12, Zenon
<1>14. \A x \in out : x \in saver.out \/ (x = e /\ sessions[s] # 0)
    BY <1>7, Zenon
<1>15. ASSUME NEW x \in out, NEW y \in out, x.sid = y.sid
       PROVE  x = y
    <2>1. \A z \in saver.out : z.sid # e.sid
        BY <1>4, <1>6, <1>8, Zenon
    <2>2. CASE x \in saver.out /\ y \in saver.out
        BY <1>4, <1>15, <2>2, Zenon
    <2>3. CASE x = e \/ y = e
        BY <1>14, <1>15, <2>1, <2>3, Zenon
    <2> QED BY <1>14, <2>2, <2>3, Zenon
<1>16. ASSUME NEW x \in out
       PROVE  x.sid \notin saver.shards \ {s} /\ \E o \in 1..Len(objects) : objects[o].sid = x.sid
    <2>1. CASE x \in saver.out
        BY <1>4, <2>1, Zenon
    <2>2. CASE x = e /\ sessions[s] # 0
        BY <1>6, <1>10, <2>2, Zenon
    <2> QED BY <1>14, <2>1, <2>2, Zenon
<1>17. IsFiniteSet(out) /\ Cardinality(out) <= MaxObjects
    BY <1>1, <1>15, <1>16, FewRecords, Zenon
<1>18. IsFiniteSet({}) /\ Cardinality({}) <= MaxObjects
    BY FS_EmptySet, ServerAssumption
<1>19. disk' \in SUBSET Records /\ IsFiniteSet(disk') /\ Cardinality(disk') <= MaxObjects
    BY <1>7, <1>12, <1>17, <1>18, Zenon
<1>20. Saved'
    <2>1. objects' = objects
        BY <1>9, Zenon
    <2> QED BY <1>13, <1>15, <1>16, <1>19, <2>1, Zenon DEF Saved
<1> QED BY <1>2, <1>3, <1>8, <1>9, <1>13, <1>19, <1>20, SaverStep, ZenonT(40)

\* The next process has the sessions of the file, all of them registered and linked.
LEMMA StartKeeps ==
    ASSUME Inv, NEW order \in [1..Cardinality(disk) -> disk], Start(order)
    PROVE  Inv'
<1> DEFINE linked(n) == {i \in 1..Len(order) : n \in Keys[order[i].node]}
<1>1. Typed /\ disk \in SUBSET Records /\ arrivals \in [Kinds -> Nat]
    BY Zenon DEF Inv, Typed, Plain
<1>2. IsFiniteSet(disk) /\ Cardinality(disk) <= MaxObjects
    BY Zenon DEF Inv, Saved
<1>3. PICK k \in Nat : k = Cardinality(disk)
    BY <1>2, FS_CardinalityType, Zenon
<1>4. Len(order) = k
    BY <1>3, Zenon DEF Start
<1>5. \A i \in 1..k : order[i] \in Records
    BY <1>1, <1>3, Zenon
<1>6. \A i \in 1..k : order[i].sid \in SessionIds /\ order[i].node \in DOMAIN Keys
    BY <1>5, Zenon DEF Records
<1>7. objects' = [i \in 1..k |->
                   [Session(order[i].sid, order[i].node, IF order[i].valid THEN "valid" ELSE "invalid")
                        EXCEPT !.listed = TRUE]]
    BY <1>4, Zenon DEF Start
<1>8. ASSUME NEW i \in 1..k
      PROVE  /\ objects'[i] \in Sessions /\ objects'[i].sid = order[i].sid
             /\ objects'[i].node = order[i].node
    <2>1. PICK status \in {"unknown", "valid", "invalid"} :
            objects'[i] = [Session(order[i].sid, order[i].node, status) EXCEPT !.listed = TRUE]
        BY <1>7, Zenon
    <2>2. PICK x : x = Session(order[i].sid, order[i].node, status)
        BY Zenon
    <2>3. x \in Sessions /\ x.sid = order[i].sid /\ x.node = order[i].node
        BY <1>6, <2>2, Zenon DEF Session, Sessions
    <2> QED BY <2>1, <2>2, <2>3, Zenon DEF Sessions
<1>9. objects' \in Seq(Sessions) /\ Len(objects') = k
    <2>1. objects' \in [1..k -> Sessions]
        BY <1>7, <1>8, Zenon
    <2> QED BY <2>1
<1>10. sessions' = [s \in SessionIds |-> IF \E i \in 1..k : order[i].sid = s
                                         THEN CHOOSE i \in 1..k : order[i].sid = s ELSE 0]
    BY <1>4, Zenon DEF Start
<1>11. ASSUME NEW s \in SessionIds
       PROVE  sessions'[s] = 0 \/ (sessions'[s] \in 1..k /\ order[sessions'[s]].sid = s)
    BY <1>10, Zenon
<1>12. sessions' \in [SessionIds -> 0..k]
    <2>1. \A s \in SessionIds : sessions'[s] \in 0..k
        BY <1>11
    <2> QED BY <1>10, <2>1, Zenon
<1>13. /\ index' = [n \in NodeIds |-> {[obj |-> i, rank |-> i] : i \in linked(n)}]
       /\ indexed' = {n \in NodeIds : linked(n) # {}}
       /\ announced' = [n \in NodeIds |-> IF linked(n) # {} THEN "new" ELSE "none"]
    BY Zenon DEF Start
<1>14. \A n \in NodeIds : \A i : i \in linked(n) <=> i \in 1..k /\ n \in Keys[order[i].node]
    BY <1>4, Zenon
<1> HIDE DEF linked
<1>15. ASSUME NEW n \in NodeIds, NEW r \in index'[n]
       PROVE  /\ r \in [obj : 1..k, rank : Nat] /\ r = [obj |-> r.obj, rank |-> r.obj]
              /\ r.rank = r.obj /\ r.obj \in linked(n)
    <2>1. PICK i \in linked(n) : r = [obj |-> i, rank |-> i]
        BY <1>13, Zenon
    <2>2. i \in 1..k /\ i \in Nat
        <3>1. i \in 1..k
            BY <1>14, <2>1, Zenon
        <3> QED BY <3>1
    <2> QED BY <2>1, <2>2, Zenon
<1>16. index' \in [NodeIds -> SUBSET [obj : 1..k, rank : Nat]]
    BY <1>13, <1>15, Zenon
<1>17. /\ queue' = [w \in Workers |-> <<>>] /\ checks' = [w \in Workers |-> {}]
       /\ worker' = [w \in Workers |-> Idle] /\ cache' = [p \in Peers |-> "none"]
       /\ cleaner' = Asleep /\ saver' = Serving /\ disk' = disk /\ arrivals' = arrivals
    BY Zenon DEF Start
<1>18. Idle \in WorkerStates(k) /\ Idle.at = "idle" /\ <<>> \in Seq(Requests(k))
    BY IdleTyped, EmptySeq, Zenon
<1>19. Typed'
    <2>1. Referring(k)'
        BY <1>12, <1>16, <1>17, <1>18, Zenon DEF Referring
    <2>2. Referring(Len(objects))'
        BY <1>9, <2>1, Zenon
    <2>3. cleaner' \in [at : {"asleep", "purging", "cleaning"},
                        shards : SUBSET SessionIds, nodes : SUBSET NodeIds]
        BY <1>17, Zenon DEF Asleep
    <2>4. saver' \in [at : {"serving", "saving", "ended"},
                      shards : SUBSET SessionIds, out : SUBSET Records]
        BY <1>17, Zenon DEF Serving
    <2>5. announced' \in [NodeIds -> {"none", "new", "lost"}] /\ indexed' \in SUBSET NodeIds
        BY <1>13, Zenon
    <2>6. Plain'
        BY <1>1, <1>17, <2>3, <2>4, <2>5, Zenon DEF Plain
    <2> QED BY <1>2, <1>3, <1>9, <2>2, <2>6, Zenon DEF Typed
<1>20. Sids'
    BY <1>8, <1>11, Zenon DEF Sids
<1>21. Holding'
    BY <1>17, <1>18, Zenon DEF Holding
<1>22. Saved'
    <2>1. saver'.out = {}
        BY <1>17, Zenon DEF Serving
    <2> QED BY <1>2, <1>17, <2>1, Zenon DEF Saved
<1>23. RegisteredIsFound'
    <2> SUFFICES ASSUME NEW s \in SessionIds, sessions'[s] # 0,
                        NEW n \in Keys[objects'[sessions'[s]].node]
                 PROVE  \E r \in index'[n] : r.obj = sessions'[s]
        BY Zenon DEF RegisteredIsFound
    <2>1. PICK i \in 1..k : i = sessions'[s]
        BY <1>11, Zenon
    <2>2. n \in Keys[order[i].node] /\ n \in NodeIds
        BY <1>6, <1>8, <2>1, ServerAssumption, Zenon
    <2>3. i \in linked(n)
        BY <1>14, <2>2, Zenon
    <2>4. [obj |-> i, rank |-> i] \in index'[n]
        BY <1>13, <2>2, <2>3, Zenon
    <2> QED BY <2>1, <2>4, Zenon
<1>24. IndexedByIdentity'
    <2> SUFFICES ASSUME NEW n \in NodeIds, NEW r \in index'[n], NEW q \in index'[n]
                 PROVE  /\ n \in Keys[objects'[r.obj].node]
                        /\ r.rank = q.rank \/ r.obj = q.obj => r = q
        BY Zenon DEF IndexedByIdentity
    <2>1. r.obj \in 1..k /\ n \in Keys[order[r.obj].node]
        BY <1>14, <1>15, Zenon
    <2>2. n \in Keys[objects'[r.obj].node]
        BY <1>8, <2>1, Zenon
    <2>3. r.rank = q.rank \/ r.obj = q.obj => r = q
        <3>1. /\ r.rank = r.obj /\ q.rank = q.obj
              /\ r = [obj |-> r.obj, rank |-> r.obj] /\ q = [obj |-> q.obj, rank |-> q.obj]
            BY <1>15, Zenon
        <3> QED BY <3>1, Zenon
    <2> QED BY <2>2, <2>3, Zenon
<1>25. EventsMatchIndex'
    <2> SUFFICES ASSUME NEW n \in NodeIds
                 PROVE  /\ announced'[n] = "new" <=> n \in indexed'
                        /\ index'[n] # {} => n \in indexed'
        BY Zenon DEF EventsMatchIndex
    <2>1. announced'[n] = "new" <=> n \in indexed'
        BY <1>13, Zenon
    <2>2. index'[n] # {} => n \in indexed'
        BY <1>13, <1>15, Zenon
    <2> QED BY <2>1, <2>2, Zenon
<1> QED BY <1>19, <1>20, <1>21, <1>22, <1>23, <1>24, <1>25, Zenon DEF Inv

-----------------------------------------------------------------------------
\* The first process starts without sessions.
LEMMA InitInv ==
    ASSUME Init
    PROVE  Inv
<1>1. Len(objects) = 0 /\ objects \in Seq(Sessions)
    BY EmptySeq, Zenon DEF Init
<1>2. Idle \in WorkerStates(0) /\ Idle.at = "idle" /\ <<>> \in Seq(Requests(0)) /\ 0 \in 0..0
    <2>1. 0 \in Nat /\ 0 \in 0..0
        OBVIOUS
    <2> QED BY <2>1, IdleTyped, EmptySeq, Zenon
<1>3. Referring(0)
    BY <1>2, Zenon DEF Init, Referring
<1>4. arrivals \in [Kinds -> Nat]
    BY ServerAssumption, Zenon DEF Init
<1>5. cleaner \in [at : {"asleep", "purging", "cleaning"},
                   shards : SUBSET SessionIds, nodes : SUBSET NodeIds]
    BY Zenon DEF Init, Asleep
<1>6. saver \in [at : {"serving", "saving", "ended"},
                 shards : SUBSET SessionIds, out : SUBSET Records]
    BY Zenon DEF Init, Serving
<1>7. Plain
    BY <1>4, <1>5, <1>6, Zenon DEF Init, Plain
<1>8. 0 <= MaxObjects
    BY ServerAssumption
<1>9. Typed
    BY <1>1, <1>3, <1>7, <1>8, Zenon DEF Typed
<1>10. Sids /\ RegisteredIsFound /\ IndexedByIdentity /\ EventsMatchIndex
    BY Zenon DEF Init, Sids, RegisteredIsFound, IndexedByIdentity, EventsMatchIndex
<1>11. Holding
    BY <1>2, Zenon DEF Init, Holding
<1>12. Saved
    <2>1. saver.out = {} /\ disk = {}
        BY Zenon DEF Init, Serving
    <2> QED BY <1>8, <2>1, FS_EmptySet, Zenon DEF Saved
<1> QED BY <1>9, <1>10, <1>11, <1>12, Zenon DEF Inv

\* A handler goes on.
LEMMA HandlerKeeps ==
    ASSUME Inv, NEW w \in Workers, HandlerStep(w)
    PROVE  Inv'
BY ReturnKeeps, TouchKeeps, UnreachableKeeps, LinkedKeeps, NodeSessionKeeps, LinkKeeps,
   CachedKeeps, CheckedKeeps, ZenonT(40) DEF HandlerStep

\* A request arrives.
LEMMA ArrivalKeeps ==
    ASSUME Inv, NEW w \in Workers, NEW s \in SessionIds, Arrival(w, s)
    PROVE  Inv'
<1>1. {"unreachable", "ping", "register", "query"} \subseteq (Kinds \cap Places) \ {"link"}
    BY Zenon DEF Kinds, Places
<1>2. CASE Unreachable(w, s) \/ Ping(w, s) \/ Register(w, s)
    BY <1>1, <1>2, LookupKeeps, Zenon DEF Unreachable, Ping, Register
<1>3. CASE Forward(w, s) \/ Node(w, s) \/ Slot(w, s) \/ ReverseConnection(w, s)
    <2>1. Lookup(w, s, "query", "query") \/ Lookup(w, s, "query", "ping")
        BY <1>3, Zenon DEF Forward, Node, Slot, ReverseConnection
    <2> QED BY <1>1, <2>1, LookupKeeps, Zenon
<1> QED BY <1>2, <1>3, NewSessionKeeps, RemoveKeeps, CheckIpKeeps, Zenon DEF Arrival

\* Every step keeps the invariant.
LEMMA NextInv ==
    ASSUME Inv, [Next]_vars
    PROVE  Inv'
<1>1. CASE UNCHANGED vars
    <2>1. /\ objects' = objects /\ sessions' = sessions /\ index' = index /\ indexed' = indexed
          /\ announced' = announced /\ cache' = cache /\ queue' = queue /\ checks' = checks
          /\ worker' = worker /\ cleaner' = cleaner /\ saver' = saver /\ disk' = disk
          /\ arrivals' = arrivals
        BY <1>1, Zenon DEF vars
    <2>2. Saved' /\ Typed
        BY <2>1, Zenon DEF Inv, Saved
    <2>3. UNCHANGED <<objects, sessions, indexVars, checkVars, worker, cleaner>>
        BY <2>1, Zenon DEF indexVars, checkVars
    <2>4. /\ arrivals' \in [Kinds -> Nat] /\ disk' \in SUBSET Records
          /\ saver' \in [at : {"serving", "saving", "ended"},
                         shards : SUBSET SessionIds, out : SUBSET Records]
        BY <2>1, <2>2, Zenon DEF Typed, Plain
    <2> QED BY <2>2, <2>3, <2>4, SaverStep, Zenon
<1>2. ASSUME NEW w \in Workers,
             \/ (Running /\ HandlerStep(w)) \/ PingJob(w)
             \/ \E c \in checks[w] : CheckSettled(w, c)
      PROVE  Inv'
    BY <1>2, HandlerKeeps, PingJobKeeps, AbandonedKeeps, ResolvedKeeps, Zenon DEF CheckSettled
<1>3. CASE \E w \in Workers, s \in SessionIds : Arrival(w, s)
    BY <1>3, ArrivalKeeps, Zenon
<1>4. CASE \/ \E p \in Peers : CacheExpires(p)
           \/ \E o \in 1..Len(objects) : BecomesStale(o)
    BY <1>4, ExpiresKeeps, StaleKeeps, Zenon
<1>5. CASE CleanerStep
    BY <1>5, CleanerKeeps, CleanNodeKeeps, Zenon DEF CleanerStep
<1>6. CASE Process
    BY <1>6, EndKeeps, SaveShardKeeps, StartKeeps, Zenon DEF Process
<1> QED BY <1>1, <1>2, <1>3, <1>4, <1>5, <1>6, Zenon DEF Next

\* The inductive invariant holds of every behaviour.
LEMMA InvCorrect == Spec => []Inv
<1>1. Init => Inv
    BY InitInv, Zenon
<1>2. Inv /\ [Next]_vars => Inv'
    BY NextInv, Zenon
<1> QED BY <1>1, <1>2, PTL DEF Spec

(***************************************************************************)
(* A lookup of a node finds the registered sessions of the node, each      *)
(* once, and no other: link_sessions, node_session and the cleaner may     *)
(* interleave as they like, and the process may end and start again.       *)
(***************************************************************************)
THEOREM IndexIsExactCorrect == Spec => []IndexIsExact
<1>1. Inv => IndexIsExact
    BY TypedFact, Zenon DEF Inv, IndexIsExact
<1> QED BY <1>1, InvCorrect, PTL

(***************************************************************************)
(* The node events tell exactly which nodes have an entry in the index,    *)
(* and every node with a reference has one.                                *)
(***************************************************************************)
THEOREM EventsMatchIndexCorrect == Spec => []EventsMatchIndex
<1>1. Inv => EventsMatchIndex
    BY Zenon DEF Inv
<1> QED BY <1>1, InvCorrect, PTL
=============================================================================
