---------------------------- MODULE RelaySession -----------------------------
(***************************************************************************)
(* The sessions of clients with the relay, from both sides: the handshake, *)
(* registration and ping handlers of the relay (server.rs,                 *)
(* server/session.rs), and on a client the calls of server_session, the    *)
(* loop that keeps the session alive (keep_alive.rs) and the one that      *)
(* closes a session whose peer is silent (expire.rs).                      *)
(*                                                                         *)
(* Packets are lost, repeated and delivered in any order; clients restart  *)
(* and change their address, the relay restarts with or without its state  *)
(* and its salt, and time slices pass.  A budget says how often each of    *)
(* these may happen; everything else goes on for ever.                     *)
(*                                                                         *)
(* The steps that NetworkView has in detail (locking of a view, closing of *)
(* a session) and those of the address checker in RelayServer are one step *)
(* here.  Numbers of requests and of session objects are only compared for *)
(* equality: one that nobody holds is taken again.                         *)
(***************************************************************************)
EXTENDS Integers, Sequences, FiniteSets

CONSTANTS
    Clients,    \* the clients, each with one identity
    Addrs,      \* the addresses they may have
    Home,       \* the address each of them begins with
    NoAddr,     \* no address
    Old,        \* the clients whose version is below min_client_version
    Mixes       \* who takes part, and what may happen how often: records of numbers

ASSUME RelaySessionAssumption ==
    /\ IsFiniteSet(Clients) /\ IsFiniteSet(Addrs) /\ NoAddr \notin Addrs /\ Old \subseteq Clients
    /\ Home \in [Clients -> Addrs]
    /\ \A c, d \in Clients : c # d => Home[c] # Home[d]
    /\ \A x \in Mixes : "static" \in DOMAIN x

VARIABLES
    left,       \* what may still happen; `on`: the clients that are started; `static` and `state`:
                \* a salt and a state_dir are configured
    epoch,      \* the time slice of 600 s
    salt,       \* the salt of the relay's process
    sessions,   \* SessionManager::sessions: the node and the address of each session, by id
    index,      \* SessionManager::node_sessions: the ids of each node's sessions, oldest link first
    disk,       \* the sessions saved by the last process that ended in order
    marked,     \* DisconnectCache: sessions for which a Disconnected has been sent
    net,        \* packets on their way
    cl          \* the state of each client

relay == <<epoch, salt, sessions, index, disk, marked>>
vars == <<left, relay, net, cl>>

NoId == [addr |-> NoAddr, salt |-> 0, epoch |-> 0]
NoAttempt == [step |-> "none", rid |-> 0, id |-> NoId]
NoSession == [obj |-> 0, id |-> NoId]
Empty == [i \in {} |-> [node |-> "none", peer |-> NoAddr]]

\* att: the attempt of the permit's owner; sess: p2p_sessions of the relay's address; ka: where
\* keep_alive_server_session is; watch: the view it waits for is still current; exp: the
\* session that track_sessions_expiration pings; seen: a packet has come since.
NewClient(addr) ==
    [addr |-> addr, att |-> NoAttempt, sess |-> NoSession, ka |-> "establish", watch |-> FALSE,
     exp |-> NoSession, seen |-> FALSE]

Init ==
    /\ left \in Mixes
    /\ epoch = 2 /\ salt = 0
    /\ sessions = Empty /\ disk = Empty /\ marked = {}
    /\ index = [c \in Clients |-> <<>>]
    /\ net = {}
    /\ cl = [c \in Clients |-> [NewClient(Home[c]) EXCEPT !.ka = IF c \in left.on THEN @ ELSE "off"]]

\* A packet: `addr` is the client's end, `who` the client whose request it is or answers.
Packet(kind, addr, id, rid, who) == [kind |-> kind, addr |-> addr, id |-> id, rid |-> rid, who |-> who]
ToRelay == {"hello", "answer", "register", "ping", "query", "bye"}
ToClient == {"challenge", "accepted", "registered", "refused", "unauthorized", "found", "pong", "disconnected"}

Happens(what) == left[what] > 0 /\ left' = [left EXCEPT ![what] = @ - 1]

\* Packet m arrives, once or as one of two copies, and R is sent.
Takes(m, R) ==
    \/ net' = (net \ {m}) \cup R /\ UNCHANGED left
    \/ net' = net \cup R /\ Happens("dup")

Least(S) == CHOOSE x \in S : \A y \in S : x <= y
NewRequest(c) == Least((1..(Cardinality(net) + 1)) \ {m.rid : m \in {m \in net : m.who = c}})
NewObject(c) == Least({1, 2} \ {cl[c].exp.obj})

Request(c, kind, id, rid) == Packet(kind, cl[c].addr, id, rid, c)
-----------------------------------------------------------------------------
(* The relay *)

\* gen_new_challenge: the id of a session is a hash of the address, the salt and the time slice.
gen_new_challenge(addr, e) == [addr |-> addr, salt |-> salt, epoch |-> e]

\* A fault: the loop over the time slices ends one too early.
check_session_idTwo(id, addr) == \E e \in (epoch - 1)..epoch : id = gen_new_challenge(addr, e)

\* check_session_id: the id was made for this address, in this time slice or the two before.
check_session_id(id, addr) == \E e \in (epoch - 2)..epoch : id = gen_new_challenge(addr, e)

\* The challenge is a hash of the id and the salt: only an answer to this process's verifies.
Verifies(id) == id.salt = salt

Live(id) == id \in DOMAIN sessions
Without(f, id) == [i \in DOMAIN f \ {id} |-> f[i]]

Linked(links, id) == \E k \in DOMAIN links : links[k] = id

\* The links without that to a session that is gone, which link_sessions has added only once.
Unlinked(links, id) ==
    LET gone == CHOOSE k \in DOMAIN links : links[k] = id
    IN  IF Linked(links, id) THEN [k \in 1..(Len(links) - 1) |-> links[IF k < gone THEN k ELSE k + 1]] ELSE links

RemoveSession(id) ==
    /\ sessions' = Without(sessions, id)
    /\ index' = [n \in Clients |-> Unlinked(index[n], id)]

Reply(m, kind, id) == {Packet(kind, m.addr, id, m.rid, m.who)}

\* SessionHandler::handle without a session id: the version, then a challenge.
Hello(m) ==
    /\ m.kind = "hello"
    /\ Takes(m, IF m.who \in Old THEN Reply(m, "refused", NoId)
                                 ELSE Reply(m, "challenge", gen_new_challenge(m.addr, epoch)))
    /\ UNCHANGED <<relay, cl>>

\* handle with a session id: an answer that does not verify gets a response that the client
\* cannot read (no kind); a late one or one from another address is a bad request.
AnswerRefused(m) ==
    /\ m.kind = "answer" /\ ~check_session_id(m.id, m.addr)
    /\ Takes(m, IF Verifies(m.id) THEN Reply(m, "refused", m.id) ELSE {})
    /\ UNCHANGED <<relay, cl>>

\* A fault: the new session replaces the old one.
AnswerReplaces(m) ==
    /\ m.kind = "answer" /\ check_session_id(m.id, m.addr)
    /\ Takes(m, Reply(m, "accepted", m.id))
    /\ sessions' = [i \in DOMAIN sessions \cup {m.id} |->
                        IF i # m.id THEN sessions[i] ELSE [node |-> m.who, peer |-> m.addr]]
    /\ UNCHANGED <<epoch, salt, index, disk, marked, cl>>

\* handle with a session id: new_session, or what it finds under that id.
AnswerAccepted(m) ==
    /\ m.kind = "answer" /\ check_session_id(m.id, m.addr)
    /\ Takes(m, Reply(m, IF Live(m.id) /\ sessions[m.id].node # m.who THEN "refused" ELSE "accepted", m.id))
    /\ sessions' = [i \in DOMAIN sessions \cup {m.id} |->
                        IF Live(i) THEN sessions[i] ELSE [node |-> m.who, peer |-> m.addr]]
    /\ UNCHANGED <<epoch, salt, index, disk, marked, cl>>

\* RegisterHandler::handle and link_sessions.  The address of the sender is not compared; the
\* answer goes to it if the address is in the cache, and to the session's after a check.
Register(m) ==
    /\ m.kind = "register" /\ Live(m.id)
    /\ \E to \in {m.addr, sessions[m.id].peer} : Takes(m, {Packet("registered", to, m.id, m.rid, m.who)})
    /\ index' = [index EXCEPT ![sessions[m.id].node] = IF Linked(@, m.id) THEN @ ELSE Append(@, m.id)]
    /\ UNCHANGED <<epoch, salt, sessions, disk, marked, cl>>

RegisterUnknown(m) ==
    /\ m.kind = "register" /\ ~Live(m.id)
    /\ Takes(m, Reply(m, "unauthorized", m.id))
    /\ UNCHANGED <<relay, cl>>

\* The handlers of Node, Slot, Neighbours and ReverseConnection.
Query(m) ==
    /\ m.kind = "query"
    /\ Takes(m, Reply(m, IF Live(m.id) /\ sessions[m.id].peer = m.addr THEN "found" ELSE "unauthorized", m.id))
    /\ UNCHANGED <<relay, cl>>

\* A fault: the ping of a client whose address has changed is answered.
PingAnywhere(m) ==
    /\ m.kind = "ping"
    /\ Takes(m, Reply(m, IF Live(m.id) THEN "pong" ELSE "disconnected", m.id))
    /\ UNCHANGED <<relay, cl>>

\* handle_ping, and DisconnectCache::mark_session: a second answer only after a minute.
Ping(m) ==
    /\ m.kind = "ping"
    /\ IF Live(m.id) /\ sessions[m.id].peer = m.addr
       THEN Takes(m, Reply(m, "pong", m.id)) /\ UNCHANGED marked
       ELSE /\ \/ m.id \in marked /\ Takes(m, {})
               \/ Takes(m, Reply(m, "disconnected", m.id))
            /\ marked' = marked \cup {m.id}
    /\ UNCHANGED <<epoch, salt, sessions, index, disk, cl>>

\* Disconnected of a client, and remove_session_from.
Bye(m) ==
    /\ m.kind = "bye"
    /\ Takes(m, {})
    /\ IF Live(m.id) /\ sessions[m.id].peer = m.addr THEN RemoveSession(m.id) ELSE UNCHANGED <<sessions, index>>
    /\ UNCHANGED <<epoch, salt, disk, marked, cl>>

Handle(m) ==
    \/ Hello(m) \/ AnswerRefused(m) \/ AnswerAccepted(m) \/ Register(m) \/ RegisterUnknown(m)
    \/ Query(m) \/ Ping(m) \/ Bye(m)

\* Its client, at the session's address, still uses it, so that its pings come in time.
Held(id) ==
    LET c == sessions[id].node
    IN  cl[c].addr = sessions[id].peer /\ id \in {cl[c].sess.id, cl[c].att.id}

\* A fault: the cleaner spares the sessions that a node is found by.
PurgeUnlinked(id) ==
    /\ Live(id) /\ ~Held(id) /\ index[sessions[id].node] = <<>>
    /\ RemoveSession(id)
    /\ UNCHANGED <<left, epoch, salt, disk, marked, net, cl>>

\* start_cleanup_processor: a session that was not touched for session_purge_timeout goes.  That
\* of a client that only receives can be one of them: its own silence is what is measured.
Purge(id) ==
    /\ Live(id)
    /\ IF Held(id) THEN Happens("purge") ELSE UNCHANGED left
    /\ RemoveSession(id)
    /\ UNCHANGED <<epoch, salt, disk, marked, net, cl>>

\* A time slice has passed.
Tick ==
    /\ Happens("tick")
    /\ epoch' = epoch + 1
    /\ UNCHANGED <<salt, sessions, index, disk, marked, net, cl>>

\* The ids of a node's saved sessions, in every order.
Orders(saved, c) ==
    LET own == {id \in DOMAIN saved : saved[id].node = c}
    IN  {s \in [1..Cardinality(own) -> own] : \A j, k \in DOMAIN s : s[j] = s[k] => j = k}

\* run after the end of the last process.  load links the sessions in the order of the file,
\* which is that of a hash table.  A salt that is not configured is drawn again.
Start(saved) ==
    /\ sessions' = saved
    /\ \E f \in [Clients -> UNION {Orders(saved, c) : c \in Clients}] :
            (\A c \in Clients : f[c] \in Orders(saved, c)) /\ index' = f
    /\ salt' = IF left.static = 1 THEN salt ELSE salt + 1
    /\ marked' = {}
    /\ UNCHANGED <<epoch, net, cl>>

\* The relay is stopped in order (save_state) and started again.
Stop ==
    /\ Happens("stop")
    /\ disk' = IF left.state = 1 THEN sessions ELSE Empty
    /\ Start(disk')

\* The relay's process is killed and started again.
Crash ==
    /\ Happens("crash")
    /\ Start(disk)
    /\ UNCHANGED disk
-----------------------------------------------------------------------------
(* A client *)

\* The view of the relay exists, so that no second attempt may begin.
Viewed(r) == r.att # NoAttempt \/ r.sess # NoSession

\* The view is retired, by a failed attempt, an abort or the end of its session.
Retired(r) == [r EXCEPT !.att = NoAttempt, !.sess = NoSession, !.watch = FALSE]

\* Disconnected for a session that leaves the tables.
Goodbye(c, s) == IF s = NoSession THEN {} ELSE {Request(c, "bye", s.id, 0)}

\* server_session with the permit: init_session asks for a challenge.
Begun(c) == [cl[c] EXCEPT !.att = [step |-> "hello", rid |-> NewRequest(c), id |-> NoId]]

\* establish_server_session: the cached session, the attempt of another task, or one of its own.
\* Its handshake does not overtake packets of an earlier one, but for the budget.
Establish(c) ==
    /\ cl[c].ka = "establish"
    /\ IF Viewed(cl[c])
       THEN /\ cl' = [cl EXCEPT ![c].ka = IF cl[c].sess # NoSession THEN "subscribe" ELSE "connect",
                                ![c].watch = TRUE]
            /\ UNCHANGED net
       ELSE /\ cl' = [cl EXCEPT ![c] = [Begun(c) EXCEPT !.ka = "connect", !.watch = TRUE]]
            /\ net' = net \cup {Request(c, "hello", NoId, NewRequest(c))}
    /\ IF \E m \in net : m.who = c THEN Happens("overtake") ELSE UNCHANGED left
    /\ UNCHANGED relay

\* The result of the attempt: a session, or an error after which retry_notify tries again.
Connected(c) ==
    /\ cl[c].ka = "connect"
    /\ cl[c].watch => cl[c].att = NoAttempt
    /\ cl' = [cl EXCEPT ![c].ka = IF cl[c].watch THEN "subscribe" ELSE "establish"]
    /\ UNCHANGED <<left, relay, net>>

\* get_awaiting_notifier: the view that exists now, which may be another one.
Subscribe(c) ==
    /\ cl[c].ka = "subscribe"
    /\ cl' = [cl EXCEPT ![c].ka = IF Viewed(cl[c]) THEN "wait" ELSE "establish", ![c].watch = Viewed(cl[c])]
    /\ UNCHANGED <<left, relay, net>>

\* await_for_closed_or_failed.
Awake(c) ==
    /\ cl[c].ka = "wait" /\ ~cl[c].watch
    /\ cl' = [cl EXCEPT ![c].ka = "establish"]
    /\ UNCHANGED <<left, relay, net>>

\* Another task calls server_session, to look up a node for example.
Call(c) ==
    /\ c \in left.on /\ ~Viewed(cl[c])
    /\ Happens("call")
    /\ cl' = [cl EXCEPT ![c] = Begun(c)]
    /\ net' = net \cup {Request(c, "hello", NoId, NewRequest(c))}
    /\ UNCHANGED relay

\* A request of another task on the session it got from server_session.
Ask(c) ==
    /\ cl[c].sess # NoSession
    /\ Happens("ask")
    /\ net' = net \cup {Request(c, "query", cl[c].sess.id, 0)}
    /\ UNCHANGED <<relay, cl>>

\* reconnect_server: close_server_session; the call of server_session that follows is Call.
Reconnect(c) ==
    /\ cl[c].sess # NoSession
    /\ Happens("reconnect")
    /\ cl' = [cl EXCEPT ![c] = Retired(@)]
    /\ net' = net \cup Goodbye(c, cl[c].sess)
    /\ UNCHANGED relay

\* The dispatcher finds the session by the address of the sender, and ignores a packet that has
\* another session id.
Known(c, m) ==
    /\ m.kind \in ToClient /\ cl[c].addr = m.addr
    /\ cl[c].sess # NoSession => m.id = cl[c].sess.id

\* A response to the request that the attempt waits for.
Awaited(c, m) == Known(c, m) /\ m.who = c /\ cl[c].att # NoAttempt /\ m.rid = cl[c].att.rid

\* A packet that closes the session, or aborts an attempt that has none: on_disconnected, and
\* error_handler, which server_session installs at its end.
Closes(c, m) ==
    /\ Known(c, m)
    /\ \/ m.kind = "disconnected" /\ Viewed(cl[c])
       \/ m.kind = "unauthorized" /\ cl[c].sess # NoSession /\ cl[c].att = NoAttempt

\* update_seen: what is not ignored is a sign of life of the session that is being pinged.
Seen(c) == [cl[c] EXCEPT !.seen = @ \/ (cl[c].exp # NoSession /\ cl[c].sess = cl[c].exp)]

\* init_session: the challenge is solved and sent back.
OnChallenge(c, m) ==
    /\ m.kind = "challenge" /\ Awaited(c, m)
    /\ LET rid == NewRequest(c)
       IN  /\ cl' = [cl EXCEPT ![c].att = [step |-> "answer", rid |-> rid, id |-> m.id]]
           /\ Takes(m, {Request(c, "answer", m.id, rid)})
    /\ UNCHANGED relay

\* init_session: register_session, a ping in the background; try_server_session: register_endpoints.
OnAccepted(c, m) ==
    /\ m.kind = "accepted" /\ Awaited(c, m)
    /\ LET rid == NewRequest(c)
       IN  /\ cl' = [cl EXCEPT ![c].att = [step |-> "register", rid |-> rid, id |-> m.id],
                               ![c].sess = [obj |-> NewObject(c), id |-> m.id]]
           /\ Takes(m, {Request(c, "register", m.id, rid), Request(c, "ping", m.id, 0)})
    /\ UNCHANGED relay

\* try_server_session ends, and the view is Established.
OnRegistered(c, m) ==
    /\ m.kind = "registered" /\ Awaited(c, m)
    /\ cl' = [cl EXCEPT ![c] = [Seen(c) EXCEPT !.att = NoAttempt]]
    /\ Takes(m, {})
    /\ UNCHANGED relay

\* A response with an error code ends the attempt, and the drop of its permit unregisters the
\* view; close_session and abort_initializations do the same.
OnEnd(c, m) ==
    /\ Closes(c, m) \/ (m.kind \in {"refused", "unauthorized"} /\ Awaited(c, m))
    /\ cl' = [cl EXCEPT ![c] = Retired(Seen(c))]
    /\ Takes(m, Goodbye(c, cl[c].sess))
    /\ UNCHANGED relay

\* Every other packet that comes to the address of a client.
OnOther(c, m) ==
    /\ m.kind \in ToClient /\ cl[c].addr = m.addr
    /\ ~Awaited(c, m) /\ ~Closes(c, m)
    /\ cl' = [cl EXCEPT ![c] = IF Known(c, m) THEN Seen(c) ELSE @]
    /\ Takes(m, {})
    /\ UNCHANGED relay

Deliver(c, m) == OnChallenge(c, m) \/ OnAccepted(c, m) \/ OnRegistered(c, m) \/ OnEnd(c, m) \/ OnOther(c, m)

\* Nobody has the address any more.
Undeliverable(m) ==
    /\ m.kind \in ToClient /\ \A c \in Clients : cl[c].addr # m.addr
    /\ net' = net \ {m}
    /\ UNCHANGED <<left, relay, cl>>

\* Request timed out.  An answer that is still on its way comes in time, but for the budget.
Timeout(c) ==
    /\ cl[c].att # NoAttempt
    /\ IF \E m \in net : m.who = c /\ m.rid = cl[c].att.rid THEN Happens("late") ELSE UNCHANGED left
    /\ cl' = [cl EXCEPT ![c] = Retired(@)]
    /\ net' = net \cup Goodbye(c, cl[c].sess)
    /\ UNCHANGED relay

\* request repeats the packet every quarter of the timeout.
Resend(c) ==
    /\ cl[c].att # NoAttempt
    /\ Happens("resend")
    /\ net' = net \cup {Request(c, cl[c].att.step, cl[c].att.id, cl[c].att.rid)}
    /\ UNCHANGED <<relay, cl>>

\* Everything the client waits for has come; only then does the time of session_expiration
\* pass without a packet, but for the budget.
Settled(c) ==
    /\ \A m \in net : m.who # c
    /\ cl[c].ka = "wait" /\ cl[c].watch /\ cl[c].att = NoAttempt

\* track_sessions_expiration and keep_alive: a session that was silent is pinged.
ExpireCheck(c) ==
    /\ cl[c].sess # NoSession /\ cl[c].exp = NoSession
    /\ IF Settled(c) THEN UNCHANGED left ELSE Happens("early")
    /\ cl' = [cl EXCEPT ![c].exp = cl[c].sess, ![c].seen = FALSE]
    /\ net' = net \cup {Request(c, "ping", cl[c].sess.id, 0)}
    /\ UNCHANGED relay

\* The pings have been answered or have timed out: a session that is still silent is closed.
\* close_session leaves a session alone that has replaced it, and says goodbye if there is none.
ExpireDone(c) ==
    /\ cl[c].exp # NoSession
    /\ IF \E m \in net : m.who = c /\ m.kind \in {"ping", "pong", "disconnected"} THEN Happens("late") ELSE UNCHANGED left
    /\ LET s == cl[c].exp
           r == [cl[c] EXCEPT !.exp = NoSession, !.seen = FALSE]
       IN  IF cl[c].seen \/ (cl[c].sess # NoSession /\ cl[c].sess # s)
           THEN cl' = [cl EXCEPT ![c] = r] /\ UNCHANGED net
           ELSE /\ cl' = [cl EXCEPT ![c] = IF cl[c].sess = s THEN Retired(r) ELSE r]
                /\ net' = net \cup Goodbye(c, s)
    /\ UNCHANGED relay
-----------------------------------------------------------------------------
(* The world *)

Free == Addrs \ {cl[c].addr : c \in Clients}

\* The client's address translation gives it another address.
Rebind(c) ==
    /\ c \in left.on /\ Happens("rebind")
    /\ \E a \in Free : cl' = [cl EXCEPT ![c].addr = a]
    /\ UNCHANGED <<relay, net>>

\* The client's process is killed and started again, with the same address or another one.
Restart(c) ==
    /\ c \in left.on /\ Happens("restart")
    /\ \E a \in Free \cup {cl[c].addr} : cl' = [cl EXCEPT ![c] = NewClient(a)]
    /\ UNCHANGED <<relay, net>>

Lose(m) ==
    /\ Happens("lose")
    /\ net' = net \ {m}
    /\ UNCHANGED <<relay, cl>>

\* What a client and the relay do for it without anything going wrong.
Step(c) ==
    \/ Establish(c) \/ Connected(c) \/ Subscribe(c) \/ Awake(c)
    \/ \E m \in net : m.who = c /\ (Handle(m) \/ Undeliverable(m) \/ \E d \in Clients : Deliver(d, m))
    \/ Timeout(c) \/ ExpireCheck(c) \/ ExpireDone(c)

Next ==
    \/ \E c \in Clients :
        Step(c) \/ Call(c) \/ Ask(c) \/ Reconnect(c) \/ Resend(c) \/ Rebind(c) \/ Restart(c)
    \/ \E id \in DOMAIN sessions : Purge(id)
    \/ \E m \in net : Lose(m)
    \/ Tick \/ Stop \/ Crash

Spec == Init /\ [][Next]_vars

\* The relay and the client go on with what they have to do, and the cleaner with its rounds.
Fairness ==
    /\ \A c \in Clients : WF_vars(Step(c))
    /\ WF_vars(\E id \in DOMAIN sessions : ~Held(id) /\ Purge(id))

FairSpec == Spec /\ Fairness
-----------------------------------------------------------------------------
(* Properties *)

Epochs == 0..epoch
Ids == [addr : Addrs, salt : 0..salt, epoch : Epochs] \cup {NoId}
SessionTable(f) == \A id \in DOMAIN f : id \in Ids \ {NoId} /\ f[id].node \in Clients /\ f[id].peer \in Addrs

\* The tables of the relay, the packets and the clients' records have their types.
TypeOK ==
    /\ SessionTable(sessions) /\ SessionTable(disk) /\ marked \subseteq Ids
    /\ \A m \in net : m.kind \in ToRelay \cup ToClient /\ m.addr \in Addrs /\ m.id \in Ids /\ m.who \in Clients
    /\ \A c \in Clients :
        /\ cl[c].addr \in Addrs
        /\ cl[c].ka \in {"off", "establish", "connect", "subscribe", "wait"}
        /\ cl[c].att.step \in {"none", "hello", "answer", "register"} /\ cl[c].att.id \in Ids
        /\ cl[c].sess.id \in Ids /\ cl[c].exp.id \in Ids
        /\ cl[c].watch \in BOOLEAN /\ cl[c].seen \in BOOLEAN

\* As long as a session of the relay lives, its id belongs to one node at one address: neither
\* a handshake at the address another client has left nor an orderly restart of the relay changes
\* it.  Only a crash may, for it brings back the sessions of the last orderly stop, with ids that
\* other nodes have come to hold since.
SessionKeepsOwner ==
    [][Crash \/ \A id \in DOMAIN sessions \cap DOMAIN sessions' : sessions'[id] = sessions[id]]_vars

\* With a configured salt, a restart of the relay does not break a negotiation that has begun:
\* an answer on its way is refused only if it is late or comes from another address.
AnswersStayValid ==
    left.static = 1 =>
        \A m \in net :
            m.kind = "answer" /\ m.id.addr = m.addr /\ m.id.epoch + 2 >= epoch
                => check_session_id(m.id, m.addr) /\ Verifies(m.id)

\* A session, saved or not, has the address that its id was made for.
MadeForPeer(f) == \A id \in DOMAIN f : f[id].peer = id.addr

\* A node is found by sessions of its own that the relay has, each of them linked once.
LinksAreOwn ==
    \A c \in Clients : \A k \in DOMAIN index[c] :
        /\ Live(index[c][k]) /\ sessions[index[c][k]].node = c
        /\ \A j \in DOMAIN index[c] : index[c][j] = index[c][k] => j = k

\* The relay's tables refer to sessions it has, with the node and the address that they were
\* given out for, and what it has told a client stays true.
RelayKeepsWord ==
    TypeOK /\ LinksAreOwn /\ MadeForPeer(sessions) /\ MadeForPeer(disk) /\ AnswersStayValid

\* The client has a session that the relay knows by its address and finds under its node id.
Up(c) ==
    LET id == cl[c].sess.id
    IN  /\ cl[c].sess # NoSession /\ cl[c].att = NoAttempt
        /\ Live(id) /\ sessions[id].peer = cl[c].addr
        /\ index[c] # <<>> /\ index[c][Len(index[c])] = id

\* Whatever was lost, repeated, restarted or moved: once this has come to an end, every client
\* of a supported version has a session that the relay finds, for good.
Recovers == <>[](\A c \in left.on \ Old : Up(c))

\* The sessions that restarts, moves and late handshakes leave on the relay go again.
OneSessionEach == <>[](DOMAIN sessions = {cl[c].sess.id : c \in left.on \ Old})
=============================================================================
