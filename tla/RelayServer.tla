---------------------------- MODULE RelayServer ----------------------------
(***************************************************************************)
(* The sessions of the relay server and the index that finds a node.       *)
(*                                                                         *)
(* Worker threads, each with its own socket, handle requests one at a time *)
(* and share a SessionManager: the table of sessions, sharded by session   *)
(* id, and the index from node ids to weak references to sessions.  A      *)
(* handler takes one lock after the other and holds none of them between,  *)
(* so the handlers of other workers and the cleaner run in the gaps; a     *)
(* session it looked up stays allocated until it returns.  Every worker    *)
(* also checks the public addresses of the clients that registered with    *)
(* it.  The state is saved when the process is interrupted, while the      *)
(* workers run on, and loaded when the next one starts.                    *)
(*                                                                         *)
(* Slots are left out: SlotManager shows that the slot of a node stands    *)
(* for that node.  Replies are left out, but for what they change.         *)
(***************************************************************************)
EXTENDS Integers, Sequences, FiniteSets

CONSTANTS
    Workers,      \* worker threads
    Peers,        \* socket addresses of clients
    Epochs,       \* epochs whose challenge is still accepted
    NodeIds,      \* identities of nodes, aliases included
    Keys,         \* the identities of a client, by its default one
    MaxObjects,   \* sessions allocated by one process
    Arrivals      \* how often each kind of request arrives, in all the ways considered

\* What happens to the server from outside.
Kinds == {"session", "remove", "check", "unreachable", "ping", "query", "register",
          "silence", "end"}

ASSUME ServerAssumption ==
    /\ MaxObjects \in Nat
    /\ Arrivals \subseteq [Kinds -> Nat]
    /\ DOMAIN Keys \subseteq NodeIds
    /\ \A n \in DOMAIN Keys : n \in Keys[n] /\ Keys[n] \subseteq NodeIds

VARIABLES
    objects,    \* the sessions allocated so far
    sessions,   \* SessionManager::sessions: the object of a session id, 0 if there is none
    index,      \* SessionManager::node_sessions: the weak references of a node, in order
    indexed,    \* the nodes that have an entry in node_sessions
    announced,  \* the last NodeEvent sent for a node
    cache,      \* the outcome of the last address check, shared by the workers
    queue,      \* requests sent to the address checker of a worker
    checks,     \* the requests it waits to resolve
    worker,     \* the handler that a worker runs and what it holds
    cleaner,    \* the pass of the cleanup task
    saver,      \* the main task: serving, saving, ended
    disk,       \* what sessions_v2.state decodes to
    arrivals    \* how often each kind may still arrive

vars == <<objects, sessions, index, indexed, announced, cache, queue, checks,
          worker, cleaner, saver, disk, arrivals>>
indexVars == <<index, indexed, announced>>
checkVars == <<cache, queue, checks>>
processVars == <<cleaner, saver, disk>>

Objects == 1..MaxObjects

\* A session id is derived from the client's address and the epoch of its challenge.
SessionIds == Peers \X Epochs

Idle == [at |-> "idle", obj |-> 0, found |-> 0, todo |-> {}]

At(w, place) == worker[w].at = place

\* The pair of object and link request that the address checker keeps.
Request(o, link) == [obj |-> o, link |-> link]

Held(o) == \E w \in Workers : o \in {worker[w].obj, worker[w].found}

\* Weak::upgrade succeeds.
Alive(o) == (\E s \in SessionIds : sessions[s] = o) \/ Held(o)

Running == saver.at # "ended"

Asleep == [at |-> "asleep", shards |-> {}, nodes |-> {}]

Serving == [at |-> "serving", shards |-> {}, out |-> {}]

Session(s, n, status) ==
    [sid |-> s, node |-> n, stale |-> FALSE, status |-> status, listed |-> FALSE]

Init ==
    /\ objects = <<>>
    /\ sessions = [s \in SessionIds |-> 0]
    /\ index = [n \in NodeIds |-> {}]
    /\ indexed = {}
    /\ announced = [n \in NodeIds |-> "none"]
    /\ cache = [p \in Peers |-> "none"]
    /\ queue = [w \in Workers |-> <<>>]
    /\ checks = [w \in Workers |-> {}]
    /\ worker = [w \in Workers |-> Idle]
    /\ cleaner = Asleep
    /\ saver = Serving
    /\ disk = {}
    /\ arrivals \in Arrivals

\* One arrival of this kind is spent.
Arrive(kind) ==
    /\ Running
    /\ arrivals[kind] > 0
    /\ arrivals' = [arrivals EXCEPT ![kind] = @ - 1]

-----------------------------------------------------------------------------
(***************************************************************************)
(* Handlers that are one critical section.                                 *)
(***************************************************************************)

\* The answer to a challenge: an id that is taken is refused or answered as it is.
NewSession(w, s, n) ==
    /\ Arrive("session") /\ At(w, "idle")
    /\ sessions[s] = 0
    /\ Len(objects) < MaxObjects
    /\ objects' = Append(objects, Session(s, n, "unknown"))
    /\ sessions' = [sessions EXCEPT ![s] = Len(objects) + 1]
    /\ UNCHANGED <<indexVars, checkVars, worker, processVars>>

\* remove_session and remove_session_from: a Disconnected message, or the operator's command.
RemoveSession(w, s) ==
    /\ Arrive("remove") /\ At(w, "idle")
    /\ sessions[s] # 0
    /\ sessions' = [sessions EXCEPT ![s] = 0]
    /\ UNCHANGED <<objects, indexVars, checkVars, worker, processVars>>

\* ServerControl::check_ip: the outcome is kept in the session and goes nowhere else.
CheckIp(w, s) ==
    /\ Arrive("check") /\ At(w, "idle")
    /\ sessions[s] # 0
    /\ queue' = [queue EXCEPT ![w] = Append(@, Request(sessions[s], FALSE))]
    /\ UNCHANGED <<objects, sessions, indexVars, cache, checks, worker, processVars>>

-----------------------------------------------------------------------------
(***************************************************************************)
(* Handlers that look a session up first.  The object is held from there.  *)
(***************************************************************************)
Lookup(w, s, kind, place) ==
    /\ Arrive(kind) /\ At(w, "idle")
    /\ sessions[s] # 0
    /\ worker' = [worker EXCEPT ![w] = [Idle EXCEPT !.at = place, !.obj = sessions[s]]]
    /\ UNCHANGED <<objects, sessions, indexVars, checkVars, processVars>>

Ping(w, s) == Lookup(w, s, "ping", "ping")

Register(w, s) == Lookup(w, s, "register", "register")

Forward(w, s) == Lookup(w, s, "query", "query")

Node(w, s) == Lookup(w, s, "query", "query")

\* Slot: a slot that was never given out has no node to look up.
Slot(w, s) == \E place \in {"query", "ping"} : Lookup(w, s, "query", place)

\* ReverseConnection: refused to a client whose own address is not a valid one.
ReverseConnection(w, s) ==
    /\ sessions[s] # 0
    /\ Lookup(w, s, "query", IF objects[sessions[s]].status = "valid" THEN "query" ELSE "ping")

\* The handler answers and drops the sessions it holds.
Return(w) ==
    /\ At(w, "return")
    /\ worker' = [worker EXCEPT ![w] = Idle]
    /\ UNCHANGED <<objects, sessions, indexVars, checkVars, processVars, arrivals>>

\* Clock::touch.  A ping does nothing else.
Touch(w) ==
    /\ At(w, "ping") \/ At(w, "query")
    /\ objects' = [objects EXCEPT ![worker[w].obj].stale = FALSE]
    /\ worker' = [worker EXCEPT ![w].at = IF @ = "query" THEN "find" ELSE "return"]
    /\ UNCHANGED <<sessions, indexVars, checkVars, processVars, arrivals>>

\* Fault: a lookup that finds no session left removes the entry of the node.
NodeSessionUnlinks(w, n) ==
    LET live == {r \in index[n] : Alive(r.obj)} IN
    /\ At(w, "find")
    /\ index' = [index EXCEPT ![n] = live]
    /\ indexed' = IF live = {} THEN indexed \ {n} ELSE indexed
    /\ worker' = [worker EXCEPT ![w].at = "return"]
    /\ UNCHANGED <<objects, sessions, announced, checkVars, processVars, arrivals>>

(***************************************************************************)
(* node_session(n), for the handlers that look a node up: the last         *)
(* reference that is alive answers, and the dead ones behind it are        *)
(* popped.                                                                 *)
(***************************************************************************)
NodeSession(w, n) ==
    LET live == {r \in index[n] : Alive(r.obj)}
        kept == {r \in index[n] : \E l \in live : r.rank <= l.rank}
        last == {l \in live : \A r \in live : r.rank <= l.rank}
    IN
    /\ At(w, "find")
    /\ index' = [index EXCEPT ![n] = kept]
    /\ \/ /\ live = {}
          /\ worker' = [worker EXCEPT ![w].at = "return"]
       \/ \E l \in last : worker' = [worker EXCEPT ![w].at = "return", ![w].found = l.obj]
    /\ UNCHANGED <<objects, sessions, indexed, announced, checkVars, processVars, arrivals>>

\* A packet the socket reports as unreachable: the session is removed by its id.
RemoveUnreachable(w) ==
    /\ At(w, "unreachable")
    /\ sessions' = [sessions EXCEPT ![objects[worker[w].obj].sid] = 0]
    /\ worker' = [worker EXCEPT ![w].at = "return"]
    /\ UNCHANGED <<objects, indexVars, checkVars, processVars, arrivals>>

\* The check before: the peer is known and its status is not a fresh one.
Unreachable(w, s) ==
    /\ sessions[s] # 0 /\ objects[sessions[s]].status # "unknown"
    /\ Lookup(w, s, "unreachable", "unreachable")

-----------------------------------------------------------------------------
(***************************************************************************)
(* Register: the status of the address p the request came from is cached,  *)
(* or the worker's address checker pings the address of the session.       *)
(***************************************************************************)
StartLinking(w, o, status) ==
    /\ objects' = [objects EXCEPT ![o].stale = IF At(w, "register") THEN FALSE ELSE @,
                                  ![o].status = status]
    /\ worker' = [worker EXCEPT ![w] = [Idle EXCEPT !.at = "link", !.obj = o,
                                                    !.todo = Keys[objects[o].node]]]

RegisterCached(w, p) ==
    /\ At(w, "register") /\ cache[p] # "none"
    /\ StartLinking(w, worker[w].obj, cache[p])
    /\ UNCHANGED <<sessions, indexVars, checkVars, processVars, arrivals>>

RegisterChecked(w, p) ==
    /\ At(w, "register") /\ cache[p] = "none"
    /\ objects' = [objects EXCEPT ![worker[w].obj].stale = FALSE]
    /\ queue' = [queue EXCEPT ![w] = Append(@, Request(worker[w].obj, TRUE))]
    /\ worker' = [worker EXCEPT ![w].at = "return"]
    /\ UNCHANGED <<sessions, indexVars, cache, checks, processVars, arrivals>>

\* Fault: the session that registers replaces the others of its node.
LinkReplaces(w, n) ==
    LET o == worker[w].obj IN
    /\ At(w, "link") /\ n \in worker[w].todo
    /\ index' = [index EXCEPT ![n] = {[obj |-> o, rank |-> 1]}]
    /\ indexed' = indexed \cup {n}
    /\ announced' = [announced EXCEPT ![n] = "new"]
    /\ worker' = [worker EXCEPT ![w].todo = @ \ {n}]
    /\ UNCHANGED <<objects, sessions, checkVars, processVars, arrivals>>

(***************************************************************************)
(* link_sessions, for one identity of the session, under the lock of its   *)
(* entry: dead references go, the session is pushed once.                  *)
(***************************************************************************)
Link(w, n) ==
    LET o == worker[w].obj
        live == {r \in index[n] : Alive(r.obj)}
    IN
    /\ At(w, "link") /\ n \in worker[w].todo
    /\ \E rank \in 1..(MaxObjects + 1) :
        /\ \A r \in live : r.rank < rank
        /\ rank = 1 \/ \E r \in live : r.rank = rank - 1
        /\ index' = [index EXCEPT ![n] = IF \E r \in live : r.obj = o
                                         THEN live ELSE live \cup {[obj |-> o, rank |-> rank]}]
    /\ indexed' = indexed \cup {n}
    /\ announced' = IF live = {} THEN [announced EXCEPT ![n] = "new"] ELSE announced
    /\ worker' = [worker EXCEPT ![w].todo = @ \ {n}]
    /\ UNCHANGED <<objects, sessions, checkVars, processVars, arrivals>>

\* All identities are linked and the client is answered.
Linked(w) ==
    /\ At(w, "link") /\ worker[w].todo = {}
    /\ objects' = [objects EXCEPT ![worker[w].obj].listed = TRUE]
    /\ worker' = [worker EXCEPT ![w].at = "return"]
    /\ UNCHANGED <<sessions, indexVars, checkVars, processVars, arrivals>>

-----------------------------------------------------------------------------
(***************************************************************************)
(* The address checker of a worker, whose tasks run between its handlers.  *)
(***************************************************************************)

\* Fault: an address has one pending check, whatever session it is for.
PingJobPerAddress(w) ==
    LET req == Head(queue[w])
        peer(o) == objects[o].sid[1]
    IN
    /\ Running /\ At(w, "idle") /\ queue[w] # <<>>
    /\ queue' = [queue EXCEPT ![w] = Tail(@)]
    /\ checks' = IF \E c \in checks[w] : peer(c.obj) = peer(req.obj)
                 THEN checks ELSE [checks EXCEPT ![w] = @ \cup {req}]
    /\ UNCHANGED <<objects, sessions, indexVars, cache, worker, processVars, arrivals>>

\* The ping job: a session has one pending check, a second request for it is dropped.
PingJob(w) ==
    LET req == Head(queue[w]) IN
    /\ Running /\ At(w, "idle") /\ queue[w] # <<>>
    /\ queue' = [queue EXCEPT ![w] = Tail(@)]
    /\ checks' = IF \E c \in checks[w] : c.obj = req.obj
                 THEN checks ELSE [checks EXCEPT ![w] = @ \cup {req}]
    /\ UNCHANGED <<objects, sessions, indexVars, cache, worker, processVars, arrivals>>

\* The session of a pending check is gone.
CheckAbandoned(w, c) ==
    /\ Running /\ At(w, "idle") /\ c \in checks[w]
    /\ ~Alive(c.obj)
    /\ checks' = [checks EXCEPT ![w] = @ \ {c}]
    /\ UNCHANGED <<objects, sessions, indexVars, cache, queue, worker, processVars, arrivals>>

(***************************************************************************)
(* A pong came (valid), or the peer is unreachable or the time is over     *)
(* (invalid).  The checks of one peer are resolved one at a time here,     *)
(* which allows every order the code can produce.                          *)
(***************************************************************************)
CheckResolved(w, c, outcome) ==
    /\ Running /\ At(w, "idle") /\ c \in checks[w]
    /\ Alive(c.obj)
    /\ checks' = [checks EXCEPT ![w] = @ \ {c}]
    /\ IF c.link
       THEN /\ cache' = [cache EXCEPT ![objects[c.obj].sid[1]] = outcome]
            /\ StartLinking(w, c.obj, outcome)
       ELSE /\ objects' = [objects EXCEPT ![c.obj].status = outcome]
            /\ UNCHANGED <<cache, worker>>
    /\ UNCHANGED <<sessions, indexVars, queue, processVars, arrivals>>

\* A minute passes, or the cache evicts the address.
CacheExpires(p) ==
    /\ Running /\ cache[p] # "none"
    /\ cache' = [cache EXCEPT ![p] = "none"]
    /\ UNCHANGED <<objects, sessions, indexVars, queue, checks, worker, processVars, arrivals>>

-----------------------------------------------------------------------------
(***************************************************************************)
(* The cleanup task.  It reads the clock once per pass, so what counts is  *)
(* whether a session was untouched for the purge timeout when it started.  *)
(***************************************************************************)

\* The purge timeout passes without a request of the session.  No handler takes that long.
BecomesStale(o) ==
    /\ Arrive("silence") /\ cleaner.at = "asleep"
    /\ ~objects[o].stale /\ ~Held(o)
    /\ objects' = [objects EXCEPT ![o].stale = TRUE]
    /\ UNCHANGED <<sessions, indexVars, checkVars, worker, processVars>>

CleanerWakes ==
    /\ Running /\ cleaner.at = "asleep"
    /\ cleaner' = [at |-> "purging", shards |-> SessionIds, nodes |-> {}]
    /\ UNCHANGED <<objects, sessions, indexVars, checkVars, worker, saver, disk, arrivals>>

\* Fault: the sessions whose age exceeds the timeout are the ones that are kept.
PurgeFresh(s) ==
    /\ Running /\ cleaner.at = "purging" /\ s \in cleaner.shards
    /\ sessions' = IF sessions[s] # 0 /\ ~objects[sessions[s]].stale
                   THEN [sessions EXCEPT ![s] = 0] ELSE sessions
    /\ cleaner' = [cleaner EXCEPT !.shards = @ \ {s}]
    /\ UNCHANGED <<objects, indexVars, checkVars, worker, saver, disk, arrivals>>

\* One shard under its lock.
PurgeShard(s) ==
    /\ Running /\ cleaner.at = "purging" /\ s \in cleaner.shards
    /\ sessions' = IF sessions[s] # 0 /\ objects[sessions[s]].stale
                   THEN [sessions EXCEPT ![s] = 0] ELSE sessions
    /\ cleaner' = [cleaner EXCEPT !.shards = @ \ {s}]
    /\ UNCHANGED <<objects, indexVars, checkVars, worker, saver, disk, arrivals>>

PurgeEnds ==
    /\ Running /\ cleaner.at = "purging" /\ cleaner.shards = {}
    /\ cleaner' = [at |-> "cleaning", shards |-> {}, nodes |-> NodeIds]
    /\ UNCHANGED <<objects, sessions, indexVars, checkVars, worker, saver, disk, arrivals>>

\* Fault: the entry of a node is kept for the next registration, and nothing is announced.
CleanSilently(n) ==
    /\ Running /\ cleaner.at = "cleaning" /\ n \in cleaner.nodes
    /\ index' = [index EXCEPT ![n] = {r \in @ : Alive(r.obj)}]
    /\ cleaner' = [cleaner EXCEPT !.nodes = @ \ {n}]
    /\ UNCHANGED <<objects, sessions, indexed, announced, checkVars, worker, saver, disk, arrivals>>

\* clean_node_sessions, for one entry under its lock.
CleanNode(n) ==
    LET live == {r \in index[n] : Alive(r.obj)} IN
    /\ Running /\ cleaner.at = "cleaning" /\ n \in cleaner.nodes
    /\ index' = [index EXCEPT ![n] = live]
    /\ indexed' = IF live = {} THEN indexed \ {n} ELSE indexed
    /\ announced' = IF n \in indexed /\ live = {} THEN [announced EXCEPT ![n] = "lost"] ELSE announced
    /\ cleaner' = [cleaner EXCEPT !.nodes = @ \ {n}]
    /\ UNCHANGED <<objects, sessions, checkVars, worker, saver, disk, arrivals>>

CleanEnds ==
    /\ Running /\ cleaner.at = "cleaning" /\ cleaner.nodes = {}
    /\ cleaner' = Asleep
    /\ UNCHANGED <<objects, sessions, indexVars, checkVars, worker, saver, disk, arrivals>>

-----------------------------------------------------------------------------
(***************************************************************************)
(* The end of a process and the start of the next.                         *)
(***************************************************************************)

\* Ctrl-C: save() truncates the file.  A file without a whole record loads as no session.
Interrupt ==
    /\ saver.at = "serving" /\ Arrive("end")
    /\ saver' = [at |-> "saving", shards |-> SessionIds, out |-> {}]
    /\ disk' = {}
    /\ UNCHANGED <<objects, sessions, indexVars, checkVars, worker, cleaner>>

(***************************************************************************)
(* One shard under its lock.  Whether a full buffer reaches the file, and  *)
(* ends in a whole record, is a matter of sizes; a torn record fails the   *)
(* load, which then starts without sessions.                               *)
(***************************************************************************)
SaveShard(s) ==
    LET o == sessions[s]
        out == IF o = 0 THEN saver.out
               ELSE saver.out \cup {[sid |-> s, node |-> objects[o].node,
                                     valid |-> objects[o].status = "valid"]}
    IN
    /\ saver.at = "saving" /\ s \in saver.shards
    /\ saver' = [saver EXCEPT !.shards = @ \ {s}, !.out = out]
    /\ disk' \in {{}, out}
    /\ UNCHANGED <<objects, sessions, indexVars, checkVars, worker, cleaner, arrivals>>

\* The flush; main returns and the process ends.
SaveEnds ==
    /\ saver.at = "saving" /\ saver.shards = {}
    /\ saver' = [saver EXCEPT !.at = "ended"]
    /\ disk' = saver.out
    /\ UNCHANGED <<objects, sessions, indexVars, checkVars, worker, cleaner, arrivals>>

Crash ==
    /\ Arrive("end")
    /\ saver' = [saver EXCEPT !.at = "ended"]
    /\ UNCHANGED <<objects, sessions, indexVars, checkVars, worker, cleaner, disk>>

(***************************************************************************)
(* load(): the sessions of the file, seen now, with an address that is     *)
(* valid or not and never unknown, each of them linked to its identities.  *)
(***************************************************************************)
Start(order) ==
    LET loaded(i) == [Session(order[i].sid, order[i].node,
                              IF order[i].valid THEN "valid" ELSE "invalid") EXCEPT !.listed = TRUE]
        linked(n) == {i \in 1..Len(order) : n \in Keys[order[i].node]}
    IN
    /\ ~Running
    /\ {order[i] : i \in 1..Len(order)} = disk /\ Len(order) = Cardinality(disk)
    /\ objects' = [i \in 1..Len(order) |-> loaded(i)]
    /\ sessions' = [s \in SessionIds |->
                       IF \E i \in 1..Len(order) : order[i].sid = s
                       THEN CHOOSE i \in 1..Len(order) : order[i].sid = s ELSE 0]
    /\ index' = [n \in NodeIds |-> {[obj |-> i, rank |-> i] : i \in linked(n)}]
    /\ indexed' = {n \in NodeIds : linked(n) # {}}
    /\ announced' = [n \in NodeIds |-> IF linked(n) # {} THEN "new" ELSE "none"]
    /\ cache' = [p \in Peers |-> "none"]
    /\ queue' = [w \in Workers |-> <<>>]
    /\ checks' = [w \in Workers |-> {}]
    /\ worker' = [w \in Workers |-> Idle]
    /\ cleaner' = Asleep
    /\ saver' = Serving
    /\ UNCHANGED <<disk, arrivals>>

-----------------------------------------------------------------------------
HandlerStep(w) ==
    \/ Return(w) \/ Touch(w) \/ RemoveUnreachable(w) \/ Linked(w)
    \/ \E n \in NodeIds : NodeSession(w, n) \/ Link(w, n)
    \/ \E p \in Peers : RegisterCached(w, p) \/ RegisterChecked(w, p)

CheckSettled(w, c) ==
    \/ CheckAbandoned(w, c)
    \/ \E outcome \in {"valid", "invalid"} : CheckResolved(w, c, outcome)

CleanerStep ==
    \/ CleanerWakes \/ PurgeEnds \/ CleanEnds
    \/ \E s \in SessionIds : PurgeShard(s)
    \/ \E n \in NodeIds : CleanNode(n)

Arrival(w, s) ==
    \/ \E n \in DOMAIN Keys : NewSession(w, s, n)
    \/ RemoveSession(w, s) \/ CheckIp(w, s) \/ Unreachable(w, s)
    \/ Ping(w, s) \/ Register(w, s)
    \/ Forward(w, s) \/ Node(w, s) \/ Slot(w, s) \/ ReverseConnection(w, s)

Process ==
    \/ Interrupt \/ SaveEnds \/ Crash
    \/ \E s \in SessionIds : SaveShard(s)
    \/ \E order \in [1..Cardinality(disk) -> disk] : Start(order)

Next ==
    \/ \E w \in Workers : \/ Running /\ HandlerStep(w)
                        \/ PingJob(w)
                        \/ \E c \in checks[w] : CheckSettled(w, c)
    \/ \E w \in Workers, s \in SessionIds : Arrival(w, s)
    \/ \E p \in Peers : CacheExpires(p)
    \/ \E o \in 1..Len(objects) : BecomesStale(o)
    \/ CleanerStep
    \/ Process

Spec == Init /\ [][Next]_vars

(***************************************************************************)
(* A handler that has begun runs to its end, the tasks of a worker get     *)
(* their turn when no handler runs, a check ends at the latest with its    *)
(* timeout, the cleaner wakes up again and again, and a server that ended  *)
(* is started.  Nothing says that a request arrives.                       *)
(***************************************************************************)
Fairness ==
    /\ \A w \in Workers :
         /\ WF_vars(Running /\ HandlerStep(w))
         /\ WF_vars(PingJob(w))
         /\ \A o \in Objects : WF_vars(\E c \in checks[w] : c.obj = o /\ CheckSettled(w, c))
    /\ WF_vars(CleanerStep)
    /\ WF_vars(\E order \in [1..Cardinality(disk) -> disk] : Start(order))

FairSpec == Spec /\ Fairness

-----------------------------------------------------------------------------
(***************************************************************************)
(* Types.                                                                  *)
(***************************************************************************)
Sessions ==
    [sid : SessionIds, node : DOMAIN Keys, stale : BOOLEAN,
     status : {"unknown", "valid", "invalid"}, listed : BOOLEAN]

Records == [sid : SessionIds, node : DOMAIN Keys, valid : BOOLEAN]

Places == {"idle", "ping", "query", "find", "register", "unreachable", "link", "return"}

TypeOK ==
    /\ objects \in Seq(Sessions) /\ Len(objects) <= MaxObjects
    /\ sessions \in [SessionIds -> 0..Len(objects)]
    /\ index \in [NodeIds -> SUBSET [obj : 1..Len(objects), rank : Nat]]
    /\ indexed \in SUBSET NodeIds
    /\ announced \in [NodeIds -> {"none", "new", "lost"}]
    /\ cache \in [Peers -> {"none", "valid", "invalid"}]
    /\ queue \in [Workers -> Seq([obj : 1..Len(objects), link : BOOLEAN])]
    /\ checks \in [Workers -> SUBSET [obj : 1..Len(objects), link : BOOLEAN]]
    /\ worker \in [Workers -> [at : Places, obj : 0..Len(objects), found : 0..Len(objects),
                               todo : SUBSET NodeIds]]
    /\ cleaner \in [at : {"asleep", "purging", "cleaning"},
                    shards : SUBSET SessionIds, nodes : SUBSET NodeIds]
    /\ saver \in [at : {"serving", "saving", "ended"},
                  shards : SUBSET SessionIds, out : SUBSET Records]
    /\ disk \in SUBSET Records
    /\ arrivals \in [Kinds -> Nat]

(***************************************************************************)
(* A session that is in the table and has registered is in the index of    *)
(* each of its identities, whatever other sessions of the node came and    *)
(* went meanwhile: a lookup of the node never fails while it lives.        *)
(***************************************************************************)
RegisteredIsFound ==
    \A s \in SessionIds : sessions[s] # 0 /\ objects[sessions[s]].listed =>
        \A n \in Keys[objects[sessions[s]].node] : \E r \in index[n] : r.obj = sessions[s]

(***************************************************************************)
(* Who follows the node events knows the keys of the index: a node is      *)
(* announced as new if and only if it has an entry, and it has one         *)
(* whenever it has a session.                                              *)
(***************************************************************************)
EventsMatchIndex ==
    \A n \in NodeIds :
        /\ announced[n] = "new" <=> n \in indexed
        /\ index[n] # {} => n \in indexed

(***************************************************************************)
(* A lookup of a node answers with a session of a client that has this     *)
(* identity, and that a client registered.                                 *)
(***************************************************************************)
IndexedByIdentity ==
    \A n \in NodeIds : \A r \in index[n], q \in index[n] :
        /\ n \in Keys[objects[r.obj].node]
        /\ r.rank = q.rank \/ r.obj = q.obj => r = q

(***************************************************************************)
(* The index of NodeSelector is sound and complete: a lookup finds the     *)
(* registered sessions of a node, each once, and no other.                 *)
(***************************************************************************)
IndexIsExact == TypeOK /\ RegisteredIsFound /\ IndexedByIdentity

(***************************************************************************)
(* A node without a session is announced as lost, unless it comes back:    *)
(* no lookup that drops dead references hides it from the cleaner.         *)
(***************************************************************************)
LostIsReported ==
    \A n \in NodeIds :
        n \in indexed ~> n \notin indexed \/ (\E r \in index[n] : Alive(r.obj))

(***************************************************************************)
(* A client that stopped talking is removed from the table and from the    *)
(* index, also if its session was loaded from the file.                    *)
(***************************************************************************)
StaleIsPurged ==
    \A s \in SessionIds :
        sessions[s] # 0 ~> sessions[s] = 0 \/ ~objects[sessions[s]].stale

(***************************************************************************)
(* A registration comes to an end: when a client that registers is handed  *)
(* to a worker's address checker, its session is linked or gone in the     *)
(* end, even if further requests for it were dropped.  This holds as long  *)
(* as no operator checks the same session: the ping job drops a request    *)
(* for a session that has one pending, of whatever kind.                   *)
(***************************************************************************)
RegistrationSettles ==
    \A w \in Workers, o \in Objects :
        (\E i \in 1..Len(queue[w]) : queue[w][i] = Request(o, TRUE))
            ~> (Len(objects) < o \/ objects[o].listed \/ ~Alive(o))
=============================================================================
