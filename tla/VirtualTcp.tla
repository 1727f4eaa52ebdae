----------------------------- MODULE VirtualTcp -----------------------------
(***************************************************************************)
(* Outgoing TCP connections over the relay to one remote node.             *)
(*                                                                         *)
(* TcpLayer::connect takes the permit of a channel from TcpRegistry, or    *)
(* waits for the result of the task that has it.  Connections end when the *)
(* remote closes them, or when remove_node closes all of them because one  *)
(* was closed, sending failed, or the user disconnects.  Everything runs   *)
(* on one thread; an action is the code between two awaits.                *)
(***************************************************************************)
EXTENDS Integers, Sequences, FiniteSets

CONSTANTS
    Tasks,      \* tasks that call TcpLayer::connect
    Uses,       \* channel types that they connect
    Removers,   \* callers of remove_node: ingress_router, egress_router or a user
    MaxConns    \* bound on the connections that are ever established

Channels == {"Messages", "Transfer"}
Conns == 1..MaxConns
None == 0

ASSUME TcpAssumption == Uses \subseteq Channels /\ MaxConns \in Nat

VARIABLES
    registry,   \* the VirtNode of the remote node in TcpRegistryState, or None
    channel,    \* TcpState of the outgoing channels of each VirtNode, in order of creation
    socket,     \* state in Network of each connection
    events,     \* IngressEvent::Disconnected not yet seen by ingress_router
    task,       \* the calls of connect
    receiver,   \* the call of receive
    remover     \* the calls of remove_node

vars == <<registry, channel, socket, events, task, receiver, remover>>

Closed == [name |-> "Closed", conn |-> None]
Connecting == [name |-> "Connecting", conn |-> None]
Failed == [name |-> "Failed", conn |-> None]
Connected(k) == [name |-> "Connected", conn |-> k]

TcpStates == {Closed, Connecting, Failed} \cup {Connected(k) : k \in Conns}

\* TcpState::transition; Closing is never entered.
Allowed(old, new) ==
    \/ old.name \in {"Closed", "Failed"} /\ new.name = "Connecting"
    \/ old.name = "Connecting" /\ new.name \in {"Failed", "Connected"}
    \/ old.name = "Connected" /\ new.name = "Closed"

\* VirtChannel::transition: an illegal transition leaves the state alone.
Transition(o, ch, new) ==
    IF Allowed(channel[o][ch], new) THEN [channel EXCEPT ![o][ch] = new] ELSE channel

Idle(ch) == [pc |-> "idle", ch |-> ch, obj |-> None, conn |-> None, heard |-> "nothing"]

\* The calls of connect, and those of remove_node, when there are n VirtNodes.
Calls(n) ==
    [pc : {"idle", "add", "attempt", "connect", "drop", "wait", "recv"}, ch : Channels,
     obj : 0..n, conn : Conns \cup {None}, heard : {"nothing", "ok", "err", "lagged"}]

Removals(n) ==
    [pc : {"idle", "disconnect", "Messages", "Transfer"}, conns : SUBSET Conns, obj : 0..n]

Resting == [pc |-> "idle", conns |-> {}, obj |-> None]

Init ==
    /\ registry = None
    /\ channel = <<>>
    /\ socket = [k \in Conns |-> "none"]
    /\ events = 0
    /\ task \in [Tasks -> {Idle(ch) : ch \in Uses}]
    /\ receiver = "idle"
    /\ remover = [r \in Removers |-> Resting]

(***************************************************************************)
(* TcpLayer::connect                                                       *)
(***************************************************************************)
At(c, pc) == task[c].pc = pc

\* connect_attempt: resolve_node, and the subscription when it finds the node.
Resolve(c) ==
    /\ At(c, "idle")
    /\ task' = [task EXCEPT ![c].pc = IF registry = None THEN "add" ELSE "attempt",
                            ![c].obj = registry,
                            ![c].heard = "nothing"]
    /\ UNCHANGED <<registry, channel, socket, events, receiver, remover>>

\* add_virt_node replaces the node another task may have added meanwhile.
AddVirtNode ==
    /\ channel' = Append(channel, [ch \in Channels |-> Closed])
    /\ registry' = Len(channel) + 1

AddNode(c) ==
    /\ At(c, "add")
    /\ AddVirtNode
    /\ task' = [task EXCEPT ![c].pc = "attempt", ![c].obj = Len(channel) + 1]
    /\ UNCHANGED <<socket, events, receiver, remover>>

\* The permit to connect, or a place among those who wait.
Attempt(c) ==
    LET o == task[c].obj
        ch == task[c].ch
        granted == Allowed(channel[o][ch], Connecting)
    IN
    /\ At(c, "attempt")
    /\ channel' = Transition(o, ch, Connecting)
    /\ task' = [task EXCEPT ![c].pc = IF granted THEN "connect" ELSE "wait"]
    /\ UNCHANGED <<registry, socket, events, receiver, remover>>

\* Fault: the endpoint of a connection that is gone is used again while a channel keeps it.
ConnectReuse(c) ==
    /\ At(c, "connect")
    /\ \E k \in Conns :
        /\ socket[k] \in {"none", "gone"}
        /\ socket' = [socket EXCEPT ![k] = "open"]
        /\ task' = [task EXCEPT ![c].pc = "drop", ![c].conn = k]
    /\ UNCHANGED <<registry, channel, events, receiver, remover>>

\* connect_internal succeeds: the network has the connection, the permit its result.
ConnectOk(c) ==
    /\ At(c, "connect")
    /\ \E k \in Conns :
        /\ socket[k] = "none" /\ \A j \in 1..(k - 1) : socket[j] # "none"
        /\ socket' = [socket EXCEPT ![k] = "open"]
        /\ task' = [task EXCEPT ![c].pc = "drop", ![c].conn = k]
    /\ UNCHANGED <<registry, channel, events, receiver, remover>>

\* There is no session, or the connection is refused or times out.
ConnectFail(c) ==
    /\ At(c, "connect")
    /\ task' = [task EXCEPT ![c].pc = "drop", ![c].conn = None]
    /\ UNCHANGED <<registry, channel, socket, events, receiver, remover>>

Subscribed(o, ch) ==
    {c \in Tasks : task[c].pc \in {"attempt", "wait", "recv"}
                     /\ task[c].obj = o /\ task[c].ch = ch}

\* The notifier has room for one result; one that is not read in time is lost.
Heard(old, result) == IF old = "nothing" THEN result ELSE "lagged"

\* Fault: the waiting tasks are told of connections only.
AsyncDropSilent(c) ==
    LET o == task[c].obj
        ch == task[c].ch
        new == IF task[c].conn = None THEN Failed ELSE Connected(task[c].conn)
    IN
    /\ At(c, "drop")
    /\ channel' = Transition(o, ch, new)
    /\ task' = [d \in Tasks |->
                  IF d = c THEN Idle(ch)
                  ELSE IF d \in Subscribed(o, ch) /\ new # Failed
                  THEN [task[d] EXCEPT !.heard = Heard(@, "ok")]
                  ELSE task[d]]
    /\ UNCHANGED <<registry, socket, events, receiver, remover>>

\* async_drop: the permit's result becomes the state and is sent to the tasks that wait.
AsyncDrop(c) ==
    LET o == task[c].obj
        ch == task[c].ch
        new == IF task[c].conn = None THEN Failed ELSE Connected(task[c].conn)
        result == IF new # Failed /\ Allowed(channel[o][ch], new) THEN "ok" ELSE "err"
    IN
    /\ At(c, "drop")
    /\ channel' = Transition(o, ch, new)
    /\ task' = [d \in Tasks |->
                  IF d = c THEN Idle(ch)
                  ELSE IF d \in Subscribed(o, ch)
                  THEN [task[d] EXCEPT !.heard = Heard(@, result)]
                  ELSE task[d]]
    /\ UNCHANGED <<registry, socket, events, receiver, remover>>

\* await_for_finish: an attempt that is over by now has its result in the state.
Await(c) ==
    /\ At(c, "wait")
    /\ task' = [task EXCEPT ![c] = IF channel[task[c].obj][task[c].ch] = Connecting
                                   THEN [@ EXCEPT !.pc = "recv"] ELSE Idle(task[c].ch)]
    /\ UNCHANGED <<registry, channel, socket, events, receiver, remover>>

Recv(c) ==
    /\ At(c, "recv") /\ task[c].heard # "nothing"
    /\ task' = [task EXCEPT ![c] = Idle(task[c].ch)]
    /\ UNCHANGED <<registry, channel, socket, events, receiver, remover>>

(***************************************************************************)
(* TcpLayer::receive and the network                                       *)
(***************************************************************************)
\* A packet of the remote node: the node is added if it is not known.
ReceiveResolve ==
    /\ receiver = "idle" /\ registry = None
    /\ receiver' = "add"
    /\ UNCHANGED <<registry, channel, socket, events, task, remover>>

ReceiveAdd ==
    /\ receiver = "add"
    /\ AddVirtNode
    /\ receiver' = "idle"
    /\ UNCHANGED <<socket, events, task, remover>>

\* The remote node connects to us.
Inbound ==
    /\ registry # None
    /\ \E k \in Conns :
        /\ socket[k] = "none" /\ \A j \in 1..(k - 1) : socket[j] # "none"
        /\ socket' = [socket EXCEPT ![k] = "open"]
    /\ UNCHANGED <<registry, channel, events, task, receiver, remover>>

\* Fault: a connection that is removed is not reported.
GoneSilently(conns) ==
    /\ socket' = [k \in Conns |-> IF k \in conns THEN "gone" ELSE socket[k]]
    /\ events' = events

\* process_ingress finds sockets closed: it removes them and tells ingress_router.
Gone(conns) ==
    /\ socket' = [k \in Conns |-> IF k \in conns THEN "gone" ELSE socket[k]]
    /\ events' = events + Cardinality({k \in conns : socket[k] # "gone"})

SocketCloses(k) ==
    /\ socket[k] \in {"open", "closing"}
    /\ Gone({k})
    /\ UNCHANGED <<registry, channel, task, receiver, remover>>

\* TcpLayer::shutdown: disconnect_all for the address of every connection, and its end.
CloseAll ==
    /\ socket' = [k \in Conns |-> IF socket[k] = "open" THEN "closing" ELSE socket[k]]
    /\ UNCHANGED <<registry, channel, events, task, receiver, remover>>

AllClosed(conns) ==
    /\ \A k \in conns : socket[k] \in {"closing", "gone"}
    /\ Gone(conns)
    /\ UNCHANGED <<registry, channel, task, receiver, remover>>

(***************************************************************************)
(* TcpLayer::remove_node                                                   *)
(***************************************************************************)
\* Network::disconnect_all closes the connections there are.
DisconnectAll(r) ==
    LET open == {k \in Conns : socket[k] \in {"open", "closing"}} IN
    /\ remover[r].pc = "idle" /\ registry # None
    /\ socket' = [k \in Conns |-> IF k \in open THEN "closing" ELSE socket[k]]
    /\ remover' = [remover EXCEPT ![r].pc = "disconnect", ![r].conns = open]
    /\ UNCHANGED <<registry, channel, task, receiver>>

\* ingress_router sees that a connection was closed.
OnDisconnected(r) ==
    /\ r = "router"
    /\ events > 0 /\ events' = events - 1
    /\ DisconnectAll(r)

\* egress_router cannot send to the node, or a user calls TcpSender::disconnect.
OnSendFailed(r) ==
    /\ r # "router"
    /\ DisconnectAll(r)
    /\ UNCHANGED events

RemoveNode(r) == OnDisconnected(r) \/ OnSendFailed(r)

\* They are closed now, or the wait times out and they are aborted; then resolve_node.
Disconnected(r) ==
    /\ remover[r].pc = "disconnect"
    /\ Gone(remover[r].conns)
    /\ remover' = [remover EXCEPT ![r] = [pc |-> "Messages", conns |-> {}, obj |-> registry]]
    /\ UNCHANGED <<registry, channel, task, receiver>>

Closes(r, ch) ==
    /\ remover[r].pc = ch
    /\ remover' = [remover EXCEPT ![r] =
                     IF ch = "Messages" THEN [@ EXCEPT !.pc = "Transfer"] ELSE Resting]

\* Fault: a channel that is connecting is closed as well.
CloseAnyChannel(r, ch) ==
    /\ Closes(r, ch)
    /\ channel' = [channel EXCEPT ![remover[r].obj][ch] = Closed]
    /\ UNCHANGED <<registry, socket, events, task, receiver>>

\* TcpRegistry::remove_node: close_channel, first for Messages and then for Transfer.
CloseChannel(r, ch) ==
    /\ Closes(r, ch)
    /\ channel' = Transition(remover[r].obj, ch, Closed)
    /\ UNCHANGED <<registry, socket, events, task, receiver>>

-----------------------------------------------------------------------------
Connect(c) ==
    \/ Resolve(c) \/ AddNode(c) \/ Attempt(c) \/ ConnectOk(c) \/ ConnectFail(c)
    \/ AsyncDrop(c) \/ Await(c) \/ Recv(c)

Next ==
    \/ \E c \in Tasks : Connect(c)
    \/ ReceiveResolve \/ ReceiveAdd \/ Inbound
    \/ \E k \in Conns : SocketCloses(k)
    \/ CloseAll \/ \E conns \in SUBSET Conns : AllClosed(conns)
    \/ \E r \in Removers :
        \/ RemoveNode(r) \/ Disconnected(r)
        \/ \E ch \in Channels : CloseChannel(r, ch)

Spec == Init /\ [][Next]_vars

-----------------------------------------------------------------------------
(***************************************************************************)
(* Types.                                                                  *)
(***************************************************************************)
TypeOK ==
    /\ channel \in Seq([Channels -> TcpStates])
    /\ registry \in 0..Len(channel)
    /\ socket \in [Conns -> {"none", "open", "closing", "gone"}]
    /\ events \in Nat
    /\ task \in [Tasks -> Calls(Len(channel))]
    /\ receiver \in {"idle", "add"}
    /\ remover \in [Removers -> Removals(Len(channel))]

Permit(c) == task[c].pc \in {"connect", "drop"}

(***************************************************************************)
(* A permit is exclusive: while a task has the permit of a channel of a    *)
(* VirtNode, the channel stays in Connecting and no other task has the     *)
(* permit, whatever remove_node does meanwhile.  So async_drop can always  *)
(* store the connection that connect returned to its caller.               *)
(***************************************************************************)
PermitExclusive ==
    \A c \in Tasks : Permit(c) =>
        /\ channel[task[c].obj][task[c].ch] = Connecting
        /\ \A d \in Tasks :
             Permit(d) /\ task[d].obj = task[c].obj /\ task[d].ch = task[c].ch => c = d

(***************************************************************************)
(* A connection that connect established is kept by at most one channel of *)
(* one VirtNode, and by none while its permit has not been dropped.        *)
(***************************************************************************)
KeptOnce ==
    \A o \in DOMAIN channel, ch \in Channels :
        LET k == channel[o][ch].conn IN
        k # None =>
            /\ socket[k] # "none"
            /\ \A p \in DOMAIN channel, i \in Channels : channel[p][i].conn = k => p = o /\ i = ch
            /\ \A c \in Tasks : task[c].conn # k

=============================================================================
