------------------------------ MODULE Transport ------------------------------
(***************************************************************************)
(* The transport layer above VirtualTcp: callers of forward_reliable and   *)
(* forward_transfer share cached senders for the identities of one remote  *)
(* node, and send, connect and disconnect through clones of them, while    *)
(* packets arrive and until the client shuts down.                         *)
(*                                                                         *)
(* Every step is one of VirtualTcp, together with what it does here, or    *)
(* leaves VirtualTcp alone.  Senders of the unreliable transport are those *)
(* of Forwarding; identities that packets were authenticated with are      *)
(* data.                                                                   *)
(***************************************************************************)
EXTENDS VirtualTcp

CONSTANTS
    Users,      \* callers that hold senders
    Ids,        \* identities of the remote node
    Default,    \* its default one
    Closer,     \* the remover that is used by shutdown
    Mixes       \* bounds on how often each kind of event happens, one of them for a behaviour

Events ==
    {"forward", "alias", "send", "connect", "query", "fail", "packet", "inbound", "close",
     "remove", "stop"}

ASSUME TransportAssumption ==
    /\ Default \in Ids /\ Closer \in Removers /\ "router" \in Removers \ {Closer}
    /\ Mixes \subseteq [Events -> Nat]

VARIABLES
    left,       \* how often each kind of event may still happen
    cached,     \* forward_reliable and forward_transfer: connections of the cached senders
    user,       \* the callers
    lane,       \* the remote node is in virtual_tcp_fast_lane
    stop,       \* the progress of shutdown
    late        \* history: connections that were gone before a channel kept them

transportVars == <<left, cached, user, lane, stop, late>>
allVars == <<vars, transportVars>>

\* A sender is known by its Weak<TcpConnection>; NoSender is an empty place of the cache.
NoSender == -1

\* Where a caller is, what a call of connect is for, its result, and its sender.
NoCaller ==
    [pc |-> "idle", ch |-> "Messages", id |-> Default, call |-> {}, for |-> "forward",
     got |-> None, sender |-> NoSender]

TransportInit ==
    /\ Init
    /\ left \in Mixes
    /\ cached = [ch \in Channels |-> [i \in Ids |-> NoSender]]
    /\ user = [u \in Users |-> NoCaller]
    /\ lane = FALSE
    /\ stop = [phase |-> "up", senders |-> 0, conns |-> {}]
    /\ late = {}

Happens(e) == left[e] > 0 /\ left' = [left EXCEPT ![e] = @ - 1]

Is(u, pc) == user[u].pc = pc

\* The strong references: of a channel, a permit, a result on its way, a send in progress.
Alive(k, others) ==
    \/ \E o \in DOMAIN channel, ch \in Channels : channel[o][ch].conn = k
    \/ \E c \in Tasks : task[c].conn = k
    \/ \E v \in others : user[v].got = k \/ (Is(v, "sending") /\ user[v].sender = k)

(***************************************************************************)
(* forward_reliable, forward_transfer                                      *)
(***************************************************************************)
\* The cache of the identity that was asked for, or query_node_info.
Forward(u, ch, i) ==
    LET hit == cached[ch][i] IN
    /\ user[u].pc \in {"idle", "has"}
    /\ Happens(IF i = Default THEN "forward" ELSE "alias")
    /\ user' = [user EXCEPT ![u] =
                  [NoCaller EXCEPT !.pc = IF hit = NoSender THEN "query" ELSE "has",
                                   !.ch = ch, !.id = i, !.sender = hit]]
    /\ UNCHANGED <<vars, cached, lane, stop, late>>

QueryFails(u) ==
    /\ Is(u, "query") /\ Happens("query")
    /\ user' = [user EXCEPT ![u] = NoCaller]
    /\ UNCHANGED <<vars, cached, lane, stop, late>>

\* TcpLayer::connect begins, as one of the calls that VirtualTcp has.
Begin(u, for) ==
    LET free == {c \in Tasks : At(c, "idle") /\ task[c].ch = user[u].ch} IN
    /\ free # {}
    /\ LET c == CHOOSE c \in free : TRUE IN
        /\ Resolve(c)
        /\ user' = [user EXCEPT ![u].pc = "call", ![u].call = {c}, ![u].for = for]

\* The node answers with its default identity: the cache of that one, or a connection.
QueryHit(u) ==
    LET hit == cached[user[u].ch][Default] IN
    /\ Is(u, "query") /\ hit # NoSender
    /\ cached' = [cached EXCEPT ![user[u].ch][user[u].id] = hit]
    /\ user' = [user EXCEPT ![u].pc = "has", ![u].sender = hit]
    /\ UNCHANGED <<vars, left, lane, stop, late>>

QueryMiss(u) ==
    /\ Is(u, "query") /\ cached[user[u].ch][Default] = NoSender
    /\ Begin(u, "forward")
    /\ UNCHANGED <<left, cached, lane, stop, late>>

(***************************************************************************)
(* TcpSender                                                               *)
(***************************************************************************)
Send(u) ==
    /\ Is(u, "has") /\ Happens("send")
    /\ \/ /\ Alive(user[u].sender, Users)
          /\ user' = [user EXCEPT ![u].pc = "sending"]
          /\ UNCHANGED vars
       \/ /\ ~ Alive(user[u].sender, Users)
          /\ Begin(u, "send")
    /\ UNCHANGED <<cached, lane, stop, late>>

\* TcpLayer::send accepts the payload, or fails on a connection that is closed.
Sent(u) ==
    /\ Is(u, "sending")
    /\ user' = [user EXCEPT ![u].pc = "has"]
    /\ UNCHANGED <<vars, left, cached, lane, stop, late>>

\* TcpSender::connect leaves the connection of the sender as it is.
Reconnect(u) ==
    /\ Is(u, "has") /\ Happens("connect")
    /\ Begin(u, "connect")
    /\ UNCHANGED <<cached, lane, stop, late>>

(***************************************************************************)
(* The calls of TcpLayer::connect                                          *)
(***************************************************************************)
Caller(c) == {u \in Users : Is(u, "call") /\ user[u].call = {c}}

\* The call of c returns a connection, or None for an error.
Gets(c, k) ==
    user' = [u \in Users |->
               IF u \in Caller(c) THEN [user[u] EXCEPT !.pc = "result", !.call = {}, !.got = k]
               ELSE user[u]]

\* No connection is left of the MaxConns.
Exhausted == \A k \in Conns : socket[k] # "none"

Connects(c) ==
    /\ \/ ConnectOk(c) /\ stop.phase # "down" /\ UNCHANGED left
       \/ ConnectFail(c) /\ (stop.phase = "down" \/ Exhausted) /\ UNCHANGED left
       \/ ConnectFail(c) /\ Happens("fail")
    /\ Gets(c, task'[c].conn)
    /\ UNCHANGED <<cached, lane, stop, late>>

\* The result goes to the calls that wait for it, too.
Drops(c) ==
    LET k == task[c].conn
        first == {d \in Subscribed(task[c].obj, task[c].ch) : task[d].heard = "nothing"}
    IN
    /\ AsyncDrop(c)
    /\ user' = [u \in Users |->
                  IF \E d \in first : u \in Caller(d) THEN [user[u] EXCEPT !.got = k]
                  ELSE user[u]]
    /\ late' = IF k # None /\ socket[k] = "gone" THEN late \cup {k} ELSE late
    /\ UNCHANGED <<left, cached, lane, stop>>

Awaits(c) ==
    LET state == channel[task[c].obj][task[c].ch] IN
    /\ Await(c)
    /\ IF state = Connecting THEN UNCHANGED user ELSE Gets(c, state.conn)
    /\ UNCHANGED <<left, cached, lane, stop, late>>

Receives(c) ==
    /\ Recv(c)
    /\ \/ task[c].heard = "ok" /\ \E u \in Caller(c) : Gets(c, user[u].got)
       \/ task[c].heard # "ok" /\ Gets(c, None)
    /\ UNCHANGED <<left, cached, lane, stop, late>>

Proceeds(c) ==
    /\ AddNode(c) \/ Attempt(c)
    /\ UNCHANGED transportVars

\* What the caller of connect does with its result.
Return(u) ==
    LET k == user[u].got
        rest == [user[u] EXCEPT !.pc = "has", !.got = None]
    IN
    /\ Is(u, "result")
    /\ \/ user[u].for = "forward" /\ k = None
          /\ user' = [user EXCEPT ![u] = NoCaller] /\ UNCHANGED cached
       \/ user[u].for = "forward" /\ k # None
          /\ user' = [user EXCEPT ![u] = [rest EXCEPT !.sender = k]]
          /\ cached' = [cached EXCEPT ![user[u].ch][user[u].id] = k]
       \/ user[u].for = "send" /\ k # None /\ Alive(k, Users \ {u})
          /\ user' = [user EXCEPT ![u] = [rest EXCEPT !.pc = "sending", !.sender = k]]
          /\ UNCHANGED cached
       \/ user[u].for = "send" /\ ~ (k # None /\ Alive(k, Users \ {u}))
          /\ user' = [user EXCEPT ![u] = rest] /\ UNCHANGED cached
       \/ user[u].for = "connect"
          /\ user' = [user EXCEPT ![u] = rest] /\ UNCHANGED cached
    /\ UNCHANGED <<vars, left, lane, stop, late>>

(***************************************************************************)
(* Packets, removals and the end                                           *)
(***************************************************************************)
\* TcpLayer::dispatch: a node that is not in the fast lane is looked up and added first.
Dispatch ==
    /\ receiver = "idle" /\ ~ lane /\ Happens("packet")
    /\ \/ registry = None /\ ReceiveResolve /\ UNCHANGED lane
       \/ registry # None /\ lane' = TRUE /\ UNCHANGED vars
    /\ UNCHANGED <<cached, user, stop, late>>

DispatchAdds ==
    /\ ReceiveAdd
    /\ lane' = TRUE
    /\ UNCHANGED <<left, cached, user, stop, late>>

\* The remote connects, or a connection ends, before the sessions are closed.
NetworkActs ==
    /\ stop.phase # "down"
    /\ \/ Inbound /\ Happens("inbound")
       \/ \E k \in Conns : SocketCloses(k) /\ Happens("close")
    /\ UNCHANGED <<cached, user, lane, stop, late>>

\* TcpLayer::remove_node, called by a router or for a sender that disconnects.
Remove(r) ==
    /\ \/ OnDisconnected(r) /\ UNCHANGED left
       \/ r # Closer /\ OnSendFailed(r) /\ Happens("remove")
       \/ Disconnected(r) /\ UNCHANGED left
       \/ CloseChannel(r, "Messages") /\ UNCHANGED left
    /\ UNCHANGED <<cached, user, lane, stop, late>>

Removed(r) ==
    /\ CloseChannel(r, "Transfer")
    /\ lane' = FALSE
    /\ UNCHANGED <<left, cached, user, stop, late>>

Places == {p \in Channels \X Ids : cached[p[1]][p[2]] # NoSender}

\* TransportLayer::shutdown takes the cached senders and disconnects each of them.
Shutdown ==
    /\ stop.phase = "up" /\ Happens("stop")
    /\ stop' = [stop EXCEPT !.phase = "remove", !.senders = Cardinality(Places)]
    /\ cached' = [ch \in Channels |-> [i \in Ids |-> NoSender]]
    /\ UNCHANGED <<vars, user, lane, late>>

ShutdownRemoves ==
    /\ stop.phase = "remove" /\ stop.senders > 0
    /\ OnSendFailed(Closer)
    /\ stop' = [stop EXCEPT !.senders = @ - 1]
    /\ UNCHANGED <<left, cached, user, lane, late>>

\* TcpLayer::shutdown closes the connections there are and waits for them.
ShutdownCloses ==
    /\ stop.phase = "remove" /\ stop.senders = 0 /\ remover[Closer].pc = "idle"
    /\ CloseAll
    /\ stop' = [stop EXCEPT !.phase = "close",
                            !.conns = {k \in Conns : socket[k] \in {"open", "closing"}}]
    /\ UNCHANGED <<left, cached, user, lane, late>>

\* Fault: the sessions are closed without waiting for the connections.
ShutdownGoesOn ==
    /\ stop.phase = "close"
    /\ stop' = [stop EXCEPT !.phase = "sleep"]
    /\ UNCHANGED <<vars, left, cached, user, lane, late>>

ShutdownWaits ==
    /\ stop.phase = "close"
    /\ AllClosed(stop.conns)
    /\ stop' = [stop EXCEPT !.phase = "sleep"]
    /\ UNCHANGED <<left, cached, user, lane, late>>

\* SessionLayer::shutdown, after the last packets have been sent.
SessionsClose ==
    /\ stop.phase = "sleep"
    /\ stop' = [stop EXCEPT !.phase = "down"]
    /\ UNCHANGED <<vars, left, cached, user, lane, late>>

-----------------------------------------------------------------------------
UserNext(u) ==
    \/ \E ch \in Uses, i \in Ids : Forward(u, ch, i)
    \/ QueryFails(u) \/ QueryHit(u) \/ QueryMiss(u)
    \/ Send(u) \/ Sent(u) \/ Reconnect(u) \/ Return(u)

TransportNext ==
    \/ \E u \in Users : UserNext(u)
    \/ \E c \in Tasks : Proceeds(c) \/ Connects(c) \/ Drops(c) \/ Awaits(c) \/ Receives(c)
    \/ Dispatch \/ DispatchAdds \/ NetworkActs
    \/ \E r \in Removers : Remove(r) \/ Removed(r)
    \/ Shutdown \/ ShutdownRemoves \/ ShutdownCloses \/ ShutdownWaits \/ SessionsClose

TransportSpec == TransportInit /\ [][TransportNext]_allVars

\* Requests to the relay and attempts to connect have time limits; nothing else waits.
TransportFairness ==
    /\ \A u \in Users :
        WF_allVars(QueryFails(u) \/ QueryHit(u) \/ QueryMiss(u) \/ Sent(u) \/ Return(u))
    /\ \A c \in Tasks :
        WF_allVars(Proceeds(c) \/ Connects(c) \/ Drops(c) \/ Awaits(c) \/ Receives(c))

FairTransport == TransportSpec /\ TransportFairness

-----------------------------------------------------------------------------
(***************************************************************************)
(* A channel of the node does not keep a connection that is gone, unless   *)
(* its end is still to be handled: ingress_router has an event left, or a  *)
(* removal is on its way to the channel.  So a sender connects anew after  *)
(* the connection ended, as tcp_registry.rs promises.  The exception is a  *)
(* connection that ended before async_drop stored it.                      *)
(***************************************************************************)
GoneIsCleared ==
    \A ch \in Channels :
        LET k == IF registry = None THEN None ELSE channel[registry][ch].conn IN
        k \notin late \cup {None} /\ socket[k] = "gone" =>
            \/ events > 0
            \/ \E r \in Removers : remover[r].pc \in {"disconnect", "Messages", ch}

(***************************************************************************)
(* When SessionLayer::shutdown begins, every connection that existed when  *)
(* TcpLayer::shutdown began is closed, so no session is closed before the  *)
(* last packet of a connection was sent.                                   *)
(***************************************************************************)
ClosedBeforeSessions ==
    stop.phase = "down" => \A k \in stop.conns : socket[k] = "gone"

(***************************************************************************)
(* Packets take the fast lane, past the registry, only for a node that the *)
(* registry knows; the payload of another would be dropped.                *)
(***************************************************************************)
LaneIsKnown == lane => registry # None

(***************************************************************************)
(* Nothing of the transport layer leads to what is not there any more:     *)
(* neither a channel of VirtNode nor the fast lane of dispatch.            *)
(***************************************************************************)
NothingIsStale == GoneIsCleared /\ LaneIsKnown

(***************************************************************************)
(* Every call returns: a query for a sender, a send that has to connect    *)
(* first, a connect; also those that wait for the permit of another call   *)
(* and whatever is removed or shut down meanwhile.                         *)
(***************************************************************************)
CallsReturn == \A u \in Users : ~ (user[u].pc \in {"idle", "has"}) ~> user[u].pc \in {"idle", "has"}

=============================================================================
