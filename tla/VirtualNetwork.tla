--------------------------- MODULE VirtualNetwork ---------------------------
(***************************************************************************)
(* The TCP sockets of the virtual network: Network and Stack.              *)
(*                                                                         *)
(* A node listens on its services, connects to other nodes and closes      *)
(* connections.  Every packet that arrives is followed by Network::poll,   *)
(* which is atomic: the protocol moves a socket, then process_ingress      *)
(* receives data, removes the sockets that are closed and binds a new      *)
(* listener in the place of one that was connected.  Handles of removed    *)
(* sockets are given again.  The tasks that wait for a socket know it by   *)
(* its handle only.                                                        *)
(***************************************************************************)
EXTENDS Integers, FiniteSets, FiniteSetsExt

CONSTANTS
    Remotes,        \* addresses of other nodes
    Service,        \* the port that nodes listen on
    PortBits,       \* width of a port number
    RangeStart,     \* first port of Allocator::RANGE, which ends at the largest number
    RemotePorts,    \* ports that other nodes connect from
    Tasks,          \* callers of Network::connect
    MaxSockets,     \* bound on the sockets that exist at a time
    Reuse           \* may a handle be given again before the task that waits for it runs

Ports == 2^PortBits
Range1 == RangeStart..(Ports - 1)
Handles == 1..MaxSockets

ASSUME NetworkAssumption ==
    /\ PortBits \in Nat /\ Ports \in Nat /\ RangeStart \in 1..(Ports - 1)
    /\ Service \in 1..(RangeStart - 1) /\ RemotePorts \subseteq Range1
    /\ MaxSockets \in Nat \ {0} /\ Reuse \in BOOLEAN

VARIABLES
    sock,           \* SocketSet of the interface: the socket of each handle
    bindings,       \* handles of the listening sockets
    connections,    \* the handle of each connection, 0 if there is no such connection
    handles,        \* the connection of each handle, Unspecified if it has none
    taken,          \* Allocator::taken
    task,           \* the calls of connect
    closer,         \* the call of disconnect_all
    lost            \* connections reported as Disconnected by the last step

vars == <<sock, bindings, connections, handles, taken, task, closer, lost>>

Endpoints == [addr : Remotes, port : RemotePorts \cup {Service}]
Nowhere == [addr |-> "none", port |-> 0]
Metas == [local : Range1 \cup {Service}, remote : Endpoints]
Unspecified == [local |-> 0, remote |-> Nowhere]

\* The states of smoltcp's sockets that Network tells apart.
States == {"closed", "listen", "synsent", "synrcvd", "open", "closing"}
Sockets == [st : States, local : {0, Service} \cup Range1, remote : Endpoints \cup {Nowhere}]
Free == [st |-> "free", local |-> 0, remote |-> Nowhere]

\* local_endpoint and remote_endpoint are known from the first packet to the last.
Connected(s) == s.remote # Nowhere
Desc(s) == [local |-> s.local, remote |-> s.remote]
IsOpen(s) == s.st \notin {"free", "closed"}
Listener(port) == [st |-> "listen", local |-> port, remote |-> Nowhere]

\* SocketSet::add takes the first handle that is free.
FreeHandles == {h \in Handles : sock[h] = Free}

\* Handles of sockets that tasks wait for in Connect.
Awaited == {task[c].h : c \in {d \in Tasks : task[d].pc = "connect"}}

MayTake(h) == Reuse \/ h \notin Awaited

Idle == [pc |-> "idle", h |-> 0, meta |-> Unspecified]
Resting == [pc |-> "idle", conns |-> {}]

Init ==
    /\ sock = [h \in Handles |-> IF h = 1 THEN Listener(Service) ELSE Free]
    /\ bindings = {1}
    /\ connections = [m \in Metas |-> 0]
    /\ handles = [h \in Handles |-> Unspecified]
    /\ taken = {}
    /\ task = [c \in Tasks |-> Idle]
    /\ closer = Resting
    /\ lost = {}

(***************************************************************************)
(* Allocator                                                               *)
(***************************************************************************)
\* Fault: the port after the last one is zero.
StepWraps(port) == (port + 1) % Ports

Step(port) == Max({RangeStart, (port + 1) % Ports})

\* Allocator::next: the first free port from start on, 0 when there is none.
NextPort(start, used) ==
    LET tried[i \in 0..Cardinality(Range1)] == IF i = 0 THEN start ELSE Step(tried[i - 1])
        hits == {i \in 0..(Cardinality(Range1) - 1) : tried[i] \notin used}
    IN IF hits = {} THEN 0 ELSE tried[Min(hits)]

(***************************************************************************)
(* Network::poll, after the protocol has moved the sockets to s            *)
(***************************************************************************)
\* Fault: the connection of a closed socket is taken from the socket only.
ClosedMetaOfSocket(s, hs, h) == IF Connected(s[h]) THEN Desc(s[h]) ELSE Unspecified

\* The connection that a closed socket had, as far as it is known.
ClosedMeta(s, hs, h) ==
    IF hs[h] # Unspecified THEN hs[h]
    ELSE IF Connected(s[h]) THEN Desc(s[h]) ELSE Unspecified

\* remove_connection, for the connections of the sockets that are closed.
RemoveConnection(cs, gone) == [m \in Metas |-> IF m \in gone THEN 0 ELSE cs[m]]

\* Stack::remove gives back the local ports of these connections.
RemovePorts(used, gone) == used \ {m.local : m \in gone}

\* Network::bind
Bind(s, h, port) == [s EXCEPT ![h] = Listener(port)]

\* process_ingress: remove_connection for closed sockets, bind for the listener that accepted.
Ingress(s, cs, hs, used) ==
    LET closed == {h \in Handles : s[h].st = "closed"}
        gone == {ClosedMeta(s, hs, h) : h \in closed}
        swept == [h \in Handles |-> IF h \in closed THEN Free ELSE s[h]]
        accepted == {h \in bindings : Connected(s[h])}
        first == Min(accepted)
        room == {h \in Handles : s[h] = Free \/ (h \in closed /\ h < first)}
    IN
    /\ IF accepted = {}
       THEN sock' = swept /\ bindings' = bindings
       ELSE /\ room # {} /\ sock' = Bind(swept, Min(room), s[first].local)
            /\ bindings' = (bindings \ {first}) \cup {Min(room)}
    /\ connections' = RemoveConnection(cs, gone)
    /\ handles' = [h \in Handles |-> IF h \in closed THEN Unspecified ELSE hs[h]]
    /\ taken' = RemovePorts(used, gone)
    /\ lost' = gone \ {Unspecified}

\* When a socket closes, smoltcp forgets its endpoints, at once or later.
ToClosed(s, forgets) ==
    [s EXCEPT !.st = "closed", !.remote = IF forgets THEN Nowhere ELSE @]

IsConnected(meta) == connections[meta] # 0

\* add_connection_to
Added(meta, h) == [connections EXCEPT ![meta] = h]
AddedHandle(meta, h) == [handles EXCEPT ![h] = meta]

\* Room for the socket that a step may add.
HasRoom == FreeHandles # {} /\ MayTake(Min(FreeHandles))

(***************************************************************************)
(* Packets and timers of smoltcp, each followed by poll                    *)
(***************************************************************************)
Moves(h, s) == Ingress([sock EXCEPT ![h] = s], connections, handles, taken)

\* A node connects: the first listener accepts, unless the connection exists.
Syn(e) ==
    LET listeners == {h \in Handles : sock[h] = Listener(Service)} IN
    /\ HasRoom /\ listeners # {}
    /\ \A h \in Handles : Desc(sock[h]) # [local |-> Service, remote |-> e]
    /\ Moves(Min(listeners), [st |-> "synrcvd", local |-> Service, remote |-> e])
    /\ UNCHANGED <<task, closer>>

\* The handshake of TCP is over.
Establish(h) ==
    /\ sock[h].st \in {"synsent", "synrcvd"}
    /\ Moves(h, [sock[h] EXCEPT !.st = "open"])
    /\ UNCHANGED <<task, closer>>

\* Data: a connection that is not known is added and announced.
Data(h) ==
    LET meta == Desc(sock[h])
        s == [sock EXCEPT ![h].st = IF @ = "closing" THEN @ ELSE "open"]
    IN
    /\ sock[h].st \in {"synrcvd", "open", "closing"} /\ Connected(sock[h])
    /\ IF IsConnected(meta)
       THEN Ingress(s, connections, handles, taken)
       ELSE Ingress(s, Added(meta, h), AddedHandle(meta, h), taken)
    /\ UNCHANGED <<task, closer>>

\* A socket is reset, times out, or its end is acknowledged.
Closes(h) ==
    /\ sock[h].st \in {"synsent", "synrcvd", "open", "closing"}
    /\ \E forgets \in BOOLEAN : Moves(h, ToClosed(sock[h], forgets))
    /\ UNCHANGED <<task, closer>>

\* A reset before the handshake is over makes a socket listen again.
ResetHalfOpen(h) ==
    /\ sock[h].st = "synrcvd"
    /\ Moves(h, Listener(Service))
    /\ UNCHANGED <<task, closer>>

(***************************************************************************)
(* Network::connect                                                        *)
(***************************************************************************)
\* Stack::connect adds a socket, gives it a port and connects it; then poll.
Connect(c, remote) ==
    LET h == Min(FreeHandles) IN
    /\ task[c].pc = "idle" /\ HasRoom
    /\ \E start \in Range1 :
        LET port == NextPort(start, taken)
            meta == [local |-> port, remote |-> remote]
        IN
        /\ port # 0
        /\ Ingress([sock EXCEPT ![h] = [st |-> "synsent", local |-> port, remote |-> remote]],
                   connections, handles, taken \cup {port})
        /\ task' = [task EXCEPT ![c] = [pc |-> "connect", h |-> h, meta |-> meta]]
    /\ UNCHANGED closer

\* There is no port: connect returns, and leaves a socket that was never connected.
ConnectNoPort(c) ==
    /\ task[c].pc = "idle" /\ HasRoom
    /\ \A start \in Range1 : NextPort(start, taken) = 0
    /\ sock' = [sock EXCEPT ![Min(FreeHandles)] = [Free EXCEPT !.st = "closed"]]
    /\ lost' = {}
    /\ UNCHANGED <<bindings, connections, handles, taken, task, closer>>

Returns(c) == task' = [task EXCEPT ![c] = Idle]

\* Connect::poll finds that its socket can send.
ConnectReady(c) ==
    LET h == task[c].h IN
    /\ task[c].pc = "connect"
    /\ sock[h].st = "open"
    /\ connections' = Added(task[c].meta, h)
    /\ handles' = AddedHandle(task[c].meta, h)
    /\ Returns(c)
    /\ lost' = {}
    /\ UNCHANGED <<sock, bindings, taken, closer>>

\* The socket is closed or gone, or the time is over; the socket stays as it is.
ConnectError(c) ==
    /\ task[c].pc = "connect"
    /\ Returns(c)
    /\ lost' = {}
    /\ UNCHANGED <<sock, bindings, connections, handles, taken, closer>>

(***************************************************************************)
(* Network::disconnect_all                                                 *)
(***************************************************************************)
\* smoltcp's close
Closing(s, forgets) ==
    IF s.st \in {"listen", "synsent"} THEN ToClosed(s, forgets)
    ELSE IF s.st \in {"synrcvd", "open"} THEN [s EXCEPT !.st = "closing"] ELSE s

\* smoltcp's abort
Aborting(s, forgets) == IF IsOpen(s) THEN ToClosed(s, forgets) ELSE s

\* The sockets hs are aborted, or closed, and the stack is polled.
CloseAll(hs, abort) ==
    \E F \in SUBSET hs :
        Ingress([h \in Handles |->
                   IF h \notin hs THEN sock[h]
                   ELSE IF abort THEN Aborting(sock[h], h \in F) ELSE Closing(sock[h], h \in F)],
                connections, handles, taken)

DisconnectAll(r) ==
    LET metas == {m \in Metas : IsConnected(m) /\ m.remote.addr = r} IN
    /\ closer.pc = "idle" /\ metas # {}
    /\ CloseAll({connections[m] : m \in metas}, FALSE)
    /\ closer' = [pc |-> "wait", conns |-> {[h |-> connections[m], meta |-> m] : m \in metas}]
    /\ UNCHANGED task

\* All Disconnect futures are ready, or the second wait is over.
DisconnectEnds ==
    /\ \/ closer.pc \in {"wait", "grace"} /\ \A c \in closer.conns : ~IsOpen(sock[c.h])
       \/ closer.pc = "grace"
    /\ closer' = Resting
    /\ lost' = {}
    /\ UNCHANGED <<sock, bindings, connections, handles, taken, task>>

\* Fault: the handles that were collected before the wait are aborted.
DisconnectTimeoutByHandle ==
    /\ closer.pc = "wait"
    /\ CloseAll({c.h : c \in closer.conns}, TRUE)
    /\ closer' = [closer EXCEPT !.pc = "grace"]
    /\ UNCHANGED task

\* The wait times out: the connections that are still there are aborted.
DisconnectTimeout ==
    LET metas == {m \in {c.meta : c \in closer.conns} : IsConnected(m)} IN
    /\ closer.pc = "wait"
    /\ CloseAll({connections[m] : m \in metas}, TRUE)
    /\ closer' = [closer EXCEPT !.pc = "grace"]
    /\ UNCHANGED task

-----------------------------------------------------------------------------
Next ==
    \/ \E r \in Remotes, p \in RemotePorts : Syn([addr |-> r, port |-> p])
    \/ \E h \in Handles : Establish(h) \/ Data(h) \/ Closes(h) \/ ResetHalfOpen(h)
    \/ \E c \in Tasks :
        \/ \E r \in Remotes : Connect(c, [addr |-> r, port |-> Service])
        \/ ConnectNoPort(c) \/ ConnectReady(c) \/ ConnectError(c)
    \/ \E r \in Remotes : DisconnectAll(r)
    \/ DisconnectEnds \/ DisconnectTimeout

Spec == Init /\ [][Next]_vars

-----------------------------------------------------------------------------
(***************************************************************************)
(* Types.                                                                  *)
(***************************************************************************)
TypeOK ==
    /\ sock \in [Handles -> Sockets \cup {Free}]
    /\ bindings \subseteq Handles
    /\ connections \in [Metas -> Handles \cup {0}]
    /\ handles \in [Handles -> Metas \cup {Unspecified}]
    /\ taken \subseteq Range1
    /\ task \in [Tasks -> [pc : {"idle", "connect"}, h : Handles \cup {0},
                           meta : Metas \cup {Unspecified}]]
    /\ closer \in [pc : {"idle", "wait", "grace"}, conns : SUBSET [h : Handles, meta : Metas]]
    /\ lost \subseteq Metas

(***************************************************************************)
(* The two tables agree with the sockets: the handle of a connection is    *)
(* that of an open socket between its two endpoints, and a handle that has *)
(* a connection is the one of that connection.  So whoever sends to a      *)
(* connection, or closes it, by its handle reaches its own peer, although  *)
(* handles are given again.                                                *)
(***************************************************************************)
TablesAgree ==
    /\ \A m \in Metas : connections[m] # 0 =>
         LET h == connections[m] IN
         handles[h] = m /\ Desc(sock[h]) = m /\ IsOpen(sock[h])
    /\ \A h \in Handles : handles[h] # Unspecified => connections[handles[h]] = h

(***************************************************************************)
(* The service can be reached: exactly one socket is in bindings, and it   *)
(* listens, however many connections were accepted, closed or reset        *)
(* half-way.                                                               *)
(***************************************************************************)
AlwaysListens == \E h \in Handles : bindings = {h} /\ sock[h] = Listener(Service)

(***************************************************************************)
(* No two sockets have the same two endpoints, and the port of every       *)
(* outgoing connection is taken, so that no other connection gets it.      *)
(***************************************************************************)
PortsExclusive ==
    \A h \in Handles : Connected(sock[h]) =>
        /\ sock[h].local # Service => sock[h].local \in taken
        /\ \A g \in Handles : Desc(sock[g]) = Desc(sock[h]) => g = h

(***************************************************************************)
(* What the stack keeps of its sockets, bindings, connections and ports is *)
(* true of them after every step of Network.                               *)
(***************************************************************************)
StackIsConsistent == TypeOK /\ TablesAgree /\ AlwaysListens /\ PortsExclusive

(***************************************************************************)
(* Allocator::next finds a free port as long as there is one, wherever its *)
(* search starts, and never one outside of its range.                      *)
(***************************************************************************)
FreePortIsFound ==
    \A start \in Range1 :
        IF Range1 \subseteq taken THEN NextPort(start, taken) = 0
        ELSE NextPort(start, taken) \in Range1 \ taken

(***************************************************************************)
(* A connection whose socket goes is reported: process_ingress sends       *)
(* Disconnected for it in the same step, and removes it from the tables.   *)
(***************************************************************************)
LossIsReported ==
    [][\A m \in Metas :
         connections[m] # 0 /\ ~IsOpen(sock'[connections[m]])
           => m \in lost' /\ connections'[m] = 0]_vars

(***************************************************************************)
(* disconnect_all of a node closes and aborts connections with that node   *)
(* only: the comment in Network::disconnect_all says that a socket which   *)
(* was already re-used in a different context must not be aborted.         *)
(***************************************************************************)
ClosesOnlyPeer ==
    [][DisconnectTimeout =>
         \A h \in Handles : Connected(sock[h]) /\ ~IsOpen(sock'[h])
            => \E c \in closer.conns : c.meta.remote.addr = sock[h].remote.addr]_vars

=============================================================================
