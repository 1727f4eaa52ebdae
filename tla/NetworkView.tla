---------------------------- MODULE NetworkView -----------------------------
(***************************************************************************)
(* The session core of the client: the registry of node views              *)
(* (session/network_view.rs), the SessionPermit that gives one task the    *)
(* right to initialise a session, the handshakes that a permit drives      *)
(* (session/session_initializer.rs), the fallback from a direct to a       *)
(* reverse to a relayed connection, and the routing tables of SessionLayer *)
(* with everything that removes entries from them (session.rs).            *)
(*                                                                         *)
(* All of it runs in one thread (spawn_local), so code between two awaits  *)
(* is one step.  An action below is the code from one await to the next:   *)
(* it takes the lock it waited for, tests what the code tests under that   *)
(* lock and changes what it changes.  A process is one call: of session(), *)
(* of server_session(), of a packet handler, of disconnect() or of         *)
(* close_session(), together with the task that drops its permit.          *)
(*                                                                         *)
(* A node has one default id and its own endpoints.  A retired view is     *)
(* never used again, so only the live view of a node is kept.  Packets and *)
(* keys are left out; a request may fail or time out whenever it is made.  *)
(***************************************************************************)
EXTENDS Integers, Sequences, FiniteSets, SessionState

CONSTANTS
    Procs,       \* calls that may be in progress at the same time
    Nodes,       \* remote nodes, the relay server among them
    Relay,       \* NodeId::default(), the relay server
    Endpoints,   \* the addresses of every node
    PublicAddr,  \* whether SessionLayerState::public_addr is known
    Budgets      \* how many calls of each operation are made, in all the ways considered

Operations == {"session", "notified", "server", "accept", "disconnect", "close", "abort"}

Addrs == UNION {Endpoints[n] : n \in Nodes}

ASSUME ConstantsAssumption ==
    /\ Nodes # {}
    /\ Endpoints \in [Nodes -> (SUBSET Addrs) \ {{}}]
    /\ \A m, n \in Nodes : m # n => Endpoints[m] \cap Endpoints[n] = {}
    /\ PublicAddr \in BOOLEAN
    /\ Budgets \subseteq [Operations -> Nat]

VARIABLES
    nextGen,     \* NEXT_GENERATION
    view,        \* the live NodeView of a node, 0 if it has none
    epoch,       \* NodeView::epoch of the live view, 0 if there is none
    state,       \* NodeViewState::state of the live view
    held,        \* the session that Established or Finished(Ok) carries
    handles,     \* NodeViewState::abort_handle of the live view
    p2p,         \* SessionLayerState::p2p_sessions, keyed by addr
    nodes,       \* SessionLayerState::nodes, keyed by node
    pc,          \* what a process does next
    call,        \* the local state of a process
    aborted,     \* the AbortHandle of a process was used
    inbox,       \* what the NodeAwaiting of a process has not received yet
    budget       \* how many calls of an operation may still be made

viewVars == <<nextGen, view, epoch, state, held, handles>>
tableVars == <<p2p, nodes>>
vars == <<viewVars, tableVars, pc, call, aborted, inbox, budget>>

(***************************************************************************)
(* A DirectSession, told apart from every other one by the process and the *)
(* generation that registered it and by its address, and a NodeRouting.    *)
(***************************************************************************)
DirectSessions == [owner : Nodes, gen : Nat, by : Procs, addr : Addrs]

Routings == [node : Nodes, gen : Nat, route : DirectSessions]

(***************************************************************************)
(* The local state of a call: the operation and the node it is about, the  *)
(* NodeView that guard() returned, the generation of its NodeSnapshot, the *)
(* last phase of its handshake, the address it uses and those that         *)
(* try_direct_session has not tried, SessionPermit::result, the            *)
(* DirectSession it works on and the (node, generation) pairs that         *)
(* unregister_session still has to retire.                                 *)
(***************************************************************************)
Calls ==
    [op : Operations \cup {"none", "reverse"}, node : Nodes, seen : Nat, gen : Nat,
     phase : InitStates, addr : Addrs, left : SUBSET Addrs, result : {"ok", "err"},
     sess : SUBSET DirectSessions, owners : SUBSET (Nodes \X Nat)]

NoCall ==
    LET n == CHOOSE n \in Nodes : TRUE IN
    [op |-> "none", node |-> n, seen |-> 0, gen |-> 0, phase |-> "ConnectIntent",
     addr |-> CHOOSE a \in Endpoints[n] : TRUE, left |-> {}, result |-> "err",
     sess |-> {}, owners |-> {}]

(***************************************************************************)
(* NodeView::is_current of the snapshot a process holds.                   *)
(***************************************************************************)
IsCurrent(p) == view[call[p].node] # 0 /\ epoch[call[p].node] = call[p].gen

(***************************************************************************)
(* Places inside SessionPermit::run_abortable.                             *)
(***************************************************************************)
Running == {"direct", "init", "register", "restartAddr", "restartDirect",
            "tryReverse", "reverse", "request", "handshake0", "handshake",
            "finish0", "finish", "restartReverse", "relay", "relayServer",
            "routing", "relayReady", "endpoints"}

(***************************************************************************)
(* The future has ended and SessionPermit::async_drop runs.                *)
(***************************************************************************)
Dropping == {"ok", "err", "dropFail", "dropHandles", "dropMove", "abort", "unregister"}

PermitOps == {"session", "notified", "server", "accept", "reverse"}

IncomingOps == {"accept", "reverse"}

(***************************************************************************)
(* The process has a SessionPermit, or async_drop still works for it.      *)
(***************************************************************************)
HoldsPermit(p) ==
    /\ call[p].op \in PermitOps /\ call[p].seen # 0
    /\ pc[p] \in {"permit"} \cup Running \cup Dropping

(***************************************************************************)
(* Places where a NodeAwaiting is subscribed to the view's broadcast.      *)
(***************************************************************************)
Subscribed == {"reverse", "request", "handshake0", "handshake", "finish0", "finish", "wait0", "wait"}

Places == {"idle", "return", "cached", "guard", "lock", "wait0", "wait", "permit", "begin", "closeCheck",
           "closeEntry", "retire"} \cup Running \cup Dropping

Goto(p, l) == pc' = [pc EXCEPT ![p] = l]

(***************************************************************************)
(* NodeView::notify_change: s is sent to the subscribers of n's view.      *)
(***************************************************************************)
Notify(n, s) ==
    inbox' = [q \in Procs |->
                IF pc[q] \in Subscribed /\ call[q].node = n /\ call[q].seen = view[n]
                THEN Append(inbox[q], s) ELSE inbox[q]]

(***************************************************************************)
(* AbortHandle::abort of the handles in n's view.  A handle names a permit *)
(* by its process and generation; one whose future ended has no effect.    *)
(***************************************************************************)
AbortHandles(n) ==
    aborted' = [q \in Procs |-> aborted[q] \/ <<q, call[q].gen>> \in handles[n]]

(***************************************************************************)
(* NodeView::transition and its incoming and outgoing forms.  The process  *)
(* continues at ok when the table allows the move and at err otherwise.    *)
(***************************************************************************)
Transition(p, s, ok, err) ==
    LET n == call[p].node IN
    /\ IF IsCurrent(p) /\ TransitionAllowed(state[n], s)
       THEN /\ state' = [state EXCEPT ![n] = s]
            /\ held' = [held EXCEPT ![n] = IF s \in {Established, Reverse("FinishedOk")}
                                           THEN call[p].sess ELSE {}]
            /\ Notify(n, s)
            /\ Goto(p, ok)
       ELSE Goto(p, err) /\ UNCHANGED <<state, held, inbox>>
    /\ UNCHANGED <<nextGen, view, epoch, handles>>

(***************************************************************************)
(* NetworkView::remove_generation of the live view of n.                   *)
(***************************************************************************)
Retire(n) ==
    /\ view' = [view EXCEPT ![n] = 0]
    /\ epoch' = [epoch EXCEPT ![n] = 0]
    /\ state' = [state EXCEPT ![n] = Closed]
    /\ held' = [held EXCEPT ![n] = {}]
    /\ handles' = [handles EXCEPT ![n] = {}]
    /\ AbortHandles(n)
    /\ Notify(n, Closed)
    /\ UNCHANGED nextGen

-----------------------------------------------------------------------------
Init ==
    /\ nextGen = 1
    /\ view = [n \in Nodes |-> 0]
    /\ epoch = [n \in Nodes |-> 0]
    /\ state = [n \in Nodes |-> Closed]
    /\ held = [n \in Nodes |-> {}]
    /\ handles = [n \in Nodes |-> {}]
    /\ p2p = {}
    /\ nodes = {}
    /\ pc = [p \in Procs |-> "idle"]
    /\ call = [p \in Procs |-> NoCall]
    /\ aborted = [p \in Procs |-> FALSE]
    /\ inbox = [p \in Procs |-> <<>>]
    /\ budget \in Budgets

-----------------------------------------------------------------------------
(***************************************************************************)
(* The calls.  Start makes p begin the operation o at place l.             *)
(***************************************************************************)
Start(p, o, l) ==
    /\ pc[p] = "idle"
    /\ budget[o] > 0
    /\ budget' = [budget EXCEPT ![o] = @ - 1]
    /\ Goto(p, l)
    /\ UNCHANGED <<viewVars, tableVars, aborted, inbox>>

(***************************************************************************)
(* SessionLayer::session of a node without routing, where query_node_info  *)
(* creates the view just as guard does; and of one with routing, which may *)
(* be registered before the session is established.                        *)
(***************************************************************************)
Session(p, n) ==
    /\ n # Relay
    /\ \A r \in nodes : r.node # n
    /\ Start(p, "session", "guard")
    /\ call' = [call EXCEPT ![p] = [NoCall EXCEPT !.op = "session", !.node = n]]

AwaitConnected(p, n) ==
    /\ view[n] # 0
    /\ \E r \in nodes : r.node = n
    /\ Start(p, "session", "wait0")
    /\ call' = [call EXCEPT ![p] = [NoCall EXCEPT !.op = "session", !.node = n, !.seen = view[n],
                                                  !.gen = epoch[n]]]

(***************************************************************************)
(* SessionLayer::on_reverse_connection.                                    *)
(***************************************************************************)
OnReverseConnection(p, n) ==
    /\ n # Relay
    /\ Start(p, "notified", "guard")
    /\ call' = [call EXCEPT ![p] = [NoCall EXCEPT !.op = "notified", !.node = n]]

(***************************************************************************)
(* SessionLayer::dispatch_session of a first handshake message from a.     *)
(***************************************************************************)
DispatchSession(p, n, a) ==
    /\ n # Relay
    /\ Start(p, "accept", "guard")
    /\ call' = [call EXCEPT ![p] = [NoCall EXCEPT !.op = "accept", !.node = n, !.addr = a]]

(***************************************************************************)
(* SessionLayer::server_session: a cached session is returned unless the   *)
(* registry has no live session for the relay; then it is closed first.    *)
(***************************************************************************)
ServerSession(p, a) ==
    LET cached == {s \in p2p : s.addr = a} IN
    /\ a \in Endpoints[Relay]
    /\ Start(p, "server", IF cached = {} THEN "guard" ELSE "cached")
    /\ call' = [call EXCEPT ![p] = [NoCall EXCEPT !.op = "server", !.node = Relay,
                                                  !.addr = a, !.sess = cached]]

ServerStale == view[Relay] = 0 \/ state[Relay] \in {Closed, FailedEstablish}

CheckCached(p) ==
    /\ pc[p] = "cached"
    /\ Goto(p, IF ServerStale THEN "closeCheck" ELSE "return")
    /\ UNCHANGED <<viewVars, tableVars, call, aborted, inbox, budget>>

(***************************************************************************)
(* SessionLayer::disconnect: the snapshot of the registered view.          *)
(***************************************************************************)
Disconnect(p, n) ==
    /\ view[n] # 0
    /\ Start(p, "disconnect", "begin")
    /\ call' = [call EXCEPT ![p] = [NoCall EXCEPT !.op = "disconnect", !.node = n,
                                                  !.gen = epoch[n]]]

(***************************************************************************)
(* SessionLayer::close_session of a session somebody found in the tables.  *)
(***************************************************************************)
CloseSession(p, s) ==
    /\ Start(p, "close", "closeCheck")
    /\ call' = [call EXCEPT ![p] = [NoCall EXCEPT !.op = "close", !.node = s.owner,
                                                  !.sess = {s}]]

(***************************************************************************)
(* SessionLayer::abort_initializations, when the peer disconnects from an  *)
(* address at which no session is registered.                              *)
(***************************************************************************)
AbortInitializations(n) ==
    /\ budget["abort"] > 0
    /\ view[n] # 0
    /\ handles[n] # {}
    /\ \E a \in Endpoints[n] : \A s \in p2p : s.addr # a
    /\ AbortHandles(n)
    /\ handles' = [handles EXCEPT ![n] = {}]
    /\ budget' = [budget EXCEPT !["abort"] = @ - 1]
    /\ UNCHANGED <<nextGen, view, epoch, state, held, tableVars, pc, call, inbox>>

Return(p) ==
    /\ pc[p] = "return"
    /\ Goto(p, "idle")
    /\ call' = [call EXCEPT ![p] = NoCall]
    /\ aborted' = [aborted EXCEPT ![p] = FALSE]
    /\ inbox' = [inbox EXCEPT ![p] = <<>>]
    /\ UNCHANGED <<viewVars, tableVars, budget>>

-----------------------------------------------------------------------------
(***************************************************************************)
(* NetworkView::guard: the live view of the node, created if needed.       *)
(***************************************************************************)
Guard(p) ==
    LET n == call[p].node
        new == view[n] = 0 IN
    /\ pc[p] = "guard"
    /\ view' = [view EXCEPT ![n] = IF new THEN nextGen ELSE @]
    /\ epoch' = [epoch EXCEPT ![n] = IF new THEN nextGen ELSE @]
    /\ nextGen' = IF new THEN nextGen + 1 ELSE nextGen
    /\ call' = [call EXCEPT ![p].seen = view'[n]]
    /\ Goto(p, "lock")
    /\ UNCHANGED <<state, held, handles, tableVars, aborted, inbox, budget>>

(***************************************************************************)
(* NodeView::lock_session.  An attempt gets a fresh generation; a          *)
(* handshake that answers our ReverseConnection joins the one of the       *)
(* attempt that asked for it.  Without a permit session and server_session *)
(* wait with a snapshot of the view; a message is not handled.             *)
(***************************************************************************)
LockTarget(p) ==
    IF call[p].op = "accept"
    THEN IncomingTarget(state[call[p].node], "ConnectIntent")
    ELSE Outgoing("ConnectIntent")

(***************************************************************************)
(* Fault: an attempt keeps the generation that the view has.               *)
(***************************************************************************)
LockSameGeneration(p) ==
    LET n == call[p].node
        target == LockTarget(p)
        reverse == target.kind = "Reverse" IN
    /\ pc[p] = "lock"
    /\ call[p].seen = view[n]
    /\ TransitionAllowed(state[n], target)
    /\ state' = [state EXCEPT ![n] = target]
    /\ call' = [call EXCEPT ![p].gen = epoch[n], ![p].op = IF reverse THEN "reverse" ELSE @]
    /\ Notify(n, target)
    /\ Goto(p, "permit")
    /\ UNCHANGED <<nextGen, view, epoch, held, handles, tableVars, aborted, budget>>

LockSession(p) ==
    LET n == call[p].node
        target == LockTarget(p)
        reverse == target.kind = "Reverse" IN
    /\ pc[p] = "lock"
    /\ call[p].seen = view[n]
    /\ TransitionAllowed(state[n], target)
    /\ state' = [state EXCEPT ![n] = target]
    /\ epoch' = [epoch EXCEPT ![n] = IF reverse THEN @ ELSE nextGen]
    /\ nextGen' = IF reverse THEN nextGen ELSE nextGen + 1
    /\ call' = [call EXCEPT ![p].gen = epoch'[n], ![p].op = IF reverse THEN "reverse" ELSE @]
    /\ Notify(n, target)
    /\ Goto(p, "permit")
    /\ UNCHANGED <<view, held, handles, tableVars, aborted, budget>>

LockRefused(p) ==
    LET n == call[p].node IN
    /\ pc[p] = "lock"
    /\ call[p].seen # view[n] \/ ~TransitionAllowed(state[n], LockTarget(p))
    /\ call' = [call EXCEPT ![p].gen = IF call[p].seen = view[n] THEN epoch[n] ELSE 0]
    /\ Goto(p, IF call[p].op \in {"session", "server"} THEN "wait0" ELSE "return")
    /\ UNCHANGED <<viewVars, tableVars, aborted, inbox, budget>>

(***************************************************************************)
(* SessionPermit::run_abortable: NodeView::register_abortable, then the    *)
(* future starts.                                                          *)
(***************************************************************************)
RunAbortable(p) ==
    LET n == call[p].node
        keep == IsCurrent(p) /\ state[n] \notin {Closing, Closed} IN
    /\ pc[p] = "permit"
    /\ handles' = [handles EXCEPT ![n] = IF keep THEN @ \cup {<<p, call[p].gen>>} ELSE @]
    /\ aborted' = [aborted EXCEPT ![p] = ~keep]
    /\ Goto(p, IF call[p].op \in {"session", "notified"} THEN "direct" ELSE "init")
    /\ UNCHANGED <<nextGen, view, epoch, state, held, tableVars, call, inbox, budget>>

(***************************************************************************)
(* Abortable: a future whose handle was used ends at its next poll.        *)
(***************************************************************************)
Aborted(p) ==
    /\ pc[p] \in Running
    /\ aborted[p]
    /\ Goto(p, "err")
    /\ UNCHANGED <<viewVars, tableVars, call, aborted, inbox, budget>>

Runs(p, l) == pc[p] = l /\ ~aborted[p]

-----------------------------------------------------------------------------
(***************************************************************************)
(* The handshake.  SessionInitializer::init_session and                    *)
(* init_session_handler go through the same phases, in the outgoing and in *)
(* the incoming (or reverse) states.                                       *)
(***************************************************************************)
HandshakeState(p, i) ==
    IF call[p].op \in IncomingOps THEN IncomingTarget(state[call[p].node], i) ELSE Outgoing(i)

(***************************************************************************)
(* Where an error of the handshake leads: try_direct_session restarts,     *)
(* try_server_session and new_session return it.                           *)
(***************************************************************************)
HandshakeError(p) == IF call[p].op \in {"session", "notified"} THEN "restartAddr" ELSE "err"

HandshakeStep(p) ==
    \E i \in InitStates :
        /\ Runs(p, "init")
        /\ <<call[p].phase, i>> \in InitAllowed
        /\ Transition(p, HandshakeState(p, i),
                      CASE i = "ChallengeVerified" -> "register"
                        [] i = "Ready" -> IF call[p].op = "server" THEN "endpoints" ELSE "ok"
                        [] OTHER -> "init",
                      HandshakeError(p))
        /\ call' = [call EXCEPT ![p].phase = i]
        /\ UNCHANGED <<tableVars, aborted, budget>>

(***************************************************************************)
(* A request fails or times out, the response does not verify, the node id *)
(* differs, a packet cannot be sent, or no incoming slot is free.          *)
(***************************************************************************)
HandshakeFails(p) ==
    /\ Runs(p, "init") \/ Runs(p, "register")
    /\ call[p].phase = "ConnectIntent" => call[p].op \in IncomingOps
    /\ Goto(p, HandshakeError(p))
    /\ UNCHANGED <<viewVars, tableVars, call, aborted, inbox, budget>>

(***************************************************************************)
(* NodeView::publication_guard: the view of the call is current and its    *)
(* attempt has not ended.                                                  *)
(***************************************************************************)
PublicationGuard(p) ==
    IsCurrent(p) /\ state[call[p].node] \notin {Closing, Closed, FailedEstablish}

(***************************************************************************)
(* SessionLayer::register_session under NodeView::publication_guard.  The  *)
(* relay has no identities: only its address is entered.                   *)
(***************************************************************************)
RegisterSession(p) ==
    LET n == call[p].node
        s == [owner |-> n, gen |-> call[p].gen, by |-> p, addr |-> call[p].addr]
        publish == PublicationGuard(p) IN
    /\ Runs(p, "register")
    /\ p2p' = IF publish THEN {t \in p2p : t.addr # s.addr} \cup {s} ELSE p2p
    /\ nodes' = IF publish /\ n # Relay
                THEN {r \in nodes : r.node # n} \cup {[node |-> n, gen |-> s.gen, route |-> s]}
                ELSE nodes
    /\ call' = [call EXCEPT ![p].sess = IF publish THEN {s} ELSE @]
    /\ Goto(p, IF publish THEN "init" ELSE HandshakeError(p))
    /\ UNCHANGED <<viewVars, aborted, inbox, budget>>

(***************************************************************************)
(* try_server_session: the register_endpoints request after the handshake. *)
(***************************************************************************)
RegisterEndpoints(p) ==
    /\ Runs(p, "endpoints")
    /\ \E l \in {"ok", "err"} : Goto(p, l)
    /\ UNCHANGED <<viewVars, tableVars, call, aborted, inbox, budget>>

-----------------------------------------------------------------------------
(***************************************************************************)
(* SessionLayer::resolve: try_direct_session, try_reverse_connection and   *)
(* try_relayed_connection in turn.  A failed method leads to               *)
(* RestartConnect; on_reverse_connection allows only the direct one.       *)
(***************************************************************************)
TryDirect(p) ==
    /\ Runs(p, "direct")
    /\ \/ /\ \E a \in Endpoints[call[p].node] :
               call' = [call EXCEPT ![p].addr = a, ![p].left = Endpoints[call[p].node] \ {a}]
          /\ Goto(p, "init")
       \/ Goto(p, "restartDirect") /\ UNCHANGED call
    /\ UNCHANGED <<viewVars, tableVars, aborted, inbox, budget>>

(***************************************************************************)
(* The loop of try_direct_session over the public addresses.               *)
(***************************************************************************)
RestartAddress(p) ==
    /\ Runs(p, "restartAddr")
    /\ \/ /\ call[p].left # {}
          /\ Transition(p, RestartConnect, "init", "restartDirect")
          /\ \E a \in call[p].left :
               call' = [call EXCEPT ![p].addr = a, ![p].left = @ \ {a},
                                    ![p].phase = "ConnectIntent"]
       \/ /\ call[p].left = {}
          /\ Transition(p, RestartConnect, "restartDirect", "restartDirect")
          /\ UNCHANGED call
    /\ UNCHANGED <<tableVars, aborted, budget>>

RestartAfterDirect(p) ==
    /\ Runs(p, "restartDirect")
    /\ Transition(p, RestartConnect, IF call[p].op = "notified" THEN "err" ELSE "tryReverse", "err")
    /\ UNCHANGED <<tableVars, call, aborted, budget>>

(***************************************************************************)
(* try_reverse_connection: without a public address it does not apply.     *)
(* The NodeAwaiting is subscribed before the state changes.                *)
(***************************************************************************)
TryReverse(p) ==
    /\ Runs(p, "tryReverse")
    /\ Goto(p, IF PublicAddr THEN "reverse" ELSE "restartReverse")
    /\ UNCHANGED <<viewVars, tableVars, call, aborted, inbox, budget>>

ReverseAwaiting(p) ==
    /\ Runs(p, "reverse")
    /\ Transition(p, Reverse("Awaiting"), "request", "restartReverse")
    /\ UNCHANGED <<tableVars, call, aborted, budget>>

RequestReverse(p) ==
    /\ Runs(p, "request")
    /\ \E l \in {"handshake0", "restartReverse"} : Goto(p, l)
    /\ UNCHANGED <<viewVars, tableVars, call, aborted, inbox, budget>>

(***************************************************************************)
(* NodeAwaiting::await_handshake and await_reverse_finish: first the state *)
(* (Closed for a snapshot that is not current), then the notifications.    *)
(***************************************************************************)
AwaitedState(p, s) == IF IsCurrent(p) THEN s ELSE Closed

AwaitLoop(p, s, wanted, again) ==
    /\ Goto(p, CASE wanted = "handshake" /\ s.phase = "ChallengeHandshake" -> "finish0"
                 [] wanted = "finish" /\ s = Reverse("FinishedOk") -> "ok"
                 [] wanted = "finish" /\ s = Reverse("FinishedErr") -> "restartReverse"
                 [] s \in {Closed, Closing, FailedEstablish} -> "restartReverse"
                 [] OTHER -> again)
    /\ call' = [call EXCEPT ![p].sess = IF pc'[p] = "ok" THEN held[call[p].node] ELSE @]

AwaitState(p) ==
    /\ \E w \in {"handshake", "finish"} :
         /\ Runs(p, IF w = "handshake" THEN "handshake0" ELSE "finish0")
         /\ AwaitLoop(p, AwaitedState(p, state[call[p].node]), w, w)
    /\ UNCHANGED <<viewVars, tableVars, aborted, inbox, budget>>

(***************************************************************************)
(* A receiver that the broadcast channel has overtaken gets an error.      *)
(***************************************************************************)
NotifierCapacity == 10

AwaitNext(p) ==
    /\ inbox[p] # <<>>
    /\ \E w \in {"handshake", "finish"} :
         /\ Runs(p, w)
         /\ IF Len(inbox[p]) > NotifierCapacity
            THEN Goto(p, "restartReverse") /\ UNCHANGED call
            ELSE AwaitLoop(p, AwaitedState(p, Head(inbox[p])), w, w)
    /\ inbox' = [inbox EXCEPT ![p] = Tail(@)]
    /\ UNCHANGED <<viewVars, tableVars, aborted, budget>>

(***************************************************************************)
(* NodeAwaiting::await_for_finish, which has no timeout.                   *)
(***************************************************************************)
Finished(p, s) ==
    Goto(p, IF s \in {Established, Closed, FailedEstablish} THEN "return" ELSE "wait")

(***************************************************************************)
(* Fault: the state is polled until there is a session.                    *)
(***************************************************************************)
AwaitEstablished(p) ==
    /\ pc[p] = "wait0"
    /\ Goto(p, IF AwaitedState(p, state[call[p].node]) = Established THEN "return" ELSE "wait0")
    /\ UNCHANGED <<viewVars, tableVars, call, aborted, inbox, budget>>

AwaitForFinish(p) ==
    /\ \/ /\ pc[p] = "wait0"
          /\ Finished(p, AwaitedState(p, state[call[p].node]))
          /\ UNCHANGED inbox
       \/ /\ pc[p] = "wait" /\ inbox[p] # <<>>
          /\ IF Len(inbox[p]) > NotifierCapacity THEN Goto(p, "return")
             ELSE Finished(p, AwaitedState(p, Head(inbox[p])))
          /\ inbox' = [inbox EXCEPT ![p] = Tail(@)]
    /\ UNCHANGED <<viewVars, tableVars, call, aborted, budget>>

(***************************************************************************)
(* reverse_connection_tmp_timeout and reverse_connection_real_timeout.     *)
(***************************************************************************)
ReverseTimeout(p) ==
    /\ \E l \in {"handshake0", "handshake", "finish0", "finish"} : Runs(p, l)
    /\ Goto(p, "restartReverse")
    /\ UNCHANGED <<viewVars, tableVars, call, aborted, inbox, budget>>

RestartAfterReverse(p) ==
    /\ Runs(p, "restartReverse")
    /\ Transition(p, RestartConnect, "relay", "err")
    /\ UNCHANGED <<tableVars, call, aborted, budget>>

(***************************************************************************)
(* try_relayed_connection: server_session returns the relay's session or   *)
(* fails; SessionLayer::register_routing needs it to be still registered.  *)
(***************************************************************************)
TryRelayed(p) ==
    /\ Runs(p, "relay")
    /\ Transition(p, Relayed("Initializing"), "relayServer", "err")
    /\ UNCHANGED <<tableVars, call, aborted, budget>>

RelayServer(p) ==
    /\ Runs(p, "relayServer")
    /\ \/ /\ \E s \in p2p :
               s.owner = Relay /\ ~ServerStale /\ call' = [call EXCEPT ![p].sess = {s}]
          /\ Goto(p, "routing")
       \/ Goto(p, "err") /\ UNCHANGED call
    /\ UNCHANGED <<viewVars, tableVars, aborted, inbox, budget>>

RegisterRouting(p) ==
    LET n == call[p].node
        publish == PublicationGuard(p) /\ call[p].sess \subseteq p2p IN
    /\ Runs(p, "routing")
    /\ nodes' = IF publish
                THEN {r \in nodes : r.node # n}
                       \cup {[node |-> n, gen |-> call[p].gen, route |-> s] : s \in call[p].sess}
                ELSE nodes
    /\ Goto(p, IF publish THEN "relayReady" ELSE "err")
    /\ UNCHANGED <<viewVars, p2p, call, aborted, inbox, budget>>

RelayReady(p) ==
    /\ Runs(p, "relayReady")
    /\ Transition(p, Relayed("Ready"), "ok", "err")
    /\ UNCHANGED <<tableVars, call, aborted, budget>>

-----------------------------------------------------------------------------
(***************************************************************************)
(* SessionPermit::async_drop with the final_state of the permit.           *)
(***************************************************************************)
FinalState(p) ==
    IF call[p].op = "reverse"
    THEN IF call[p].result = "ok" THEN Reverse("FinishedOk") ELSE Reverse("FinishedErr")
    ELSE IF call[p].result = "ok" THEN Established ELSE FailedEstablish

DropPermit(p) ==
    /\ pc[p] \in {"ok", "err"}
    /\ call' = [call EXCEPT ![p].result = pc[p]]
    /\ Goto(p, CASE ~IsCurrent(p) \/ state[call[p].node] \in {Closed, Closing} -> "return"
                 [] call[p].op = "reverse" -> "dropMove"
                 [] pc[p] = "ok" -> "dropHandles"
                 [] OTHER -> "dropFail")
    /\ UNCHANGED <<viewVars, tableVars, aborted, inbox, budget>>

(***************************************************************************)
(* Fault: a failed permit is dropped without a change of the state.        *)
(***************************************************************************)
DropSilently(p) ==
    /\ pc[p] = "dropFail"
    /\ Goto(p, "return")
    /\ UNCHANGED <<viewVars, tableVars, call, aborted, inbox, budget>>

DropFailed(p) ==
    /\ pc[p] = "dropFail"
    /\ Transition(p, FailedEstablish, "abort", "abort")
    /\ UNCHANGED <<tableVars, call, aborted, budget>>

(***************************************************************************)
(* NodeView::unregister_abortable.                                         *)
(***************************************************************************)
DropHandles(p) ==
    /\ pc[p] = "dropHandles"
    /\ handles' = [handles EXCEPT ![call[p].node] = IF IsCurrent(p) THEN {} ELSE @]
    /\ Goto(p, "dropMove")
    /\ UNCHANGED <<nextGen, view, epoch, state, held, tableVars, call, aborted, inbox, budget>>

(***************************************************************************)
(* Fault: the final state is set whatever the state of the view is.        *)
(***************************************************************************)
DropMoveForced(p) ==
    LET n == call[p].node IN
    /\ pc[p] = "dropMove"
    /\ IF IsCurrent(p)
       THEN state' = [state EXCEPT ![n] = FinalState(p)] /\ Notify(n, FinalState(p))
       ELSE UNCHANGED <<state, inbox>>
    /\ Goto(p, "return")
    /\ UNCHANGED <<nextGen, view, epoch, held, handles, tableVars, call, aborted, budget>>

(***************************************************************************)
(* A reverse permit that cannot move leaves the rest to its owner; another *)
(* one cleans up.  The transition to FailedEstablish after the clean-up    *)
(* always fails: the view is retired by then or is no longer current.      *)
(***************************************************************************)
DropMove(p) ==
    /\ pc[p] = "dropMove"
    /\ Transition(p, FinalState(p), "return", IF call[p].op = "reverse" THEN "return" ELSE "abort")
    /\ UNCHANGED <<tableVars, call, aborted, budget>>

-----------------------------------------------------------------------------
(***************************************************************************)
(* Closing.  server_session continues after it closed a stale session.     *)
(***************************************************************************)
ClosesCached(p) == call[p].op = "server" /\ call[p].seen = 0

AfterClose(p) == IF ClosesCached(p) THEN "guard" ELSE "return"

(***************************************************************************)
(* SessionLayer::unregister_session starts: the generations whose routes   *)
(* use the session, and the one that registered it.                        *)
(***************************************************************************)
OwnersOf(s) == {<<r.node, r.gen>> : r \in {q \in nodes : q.route = s}} \cup {<<s.owner, s.gen>>}

UnregisterSession(p, s) ==
    /\ call' = [call EXCEPT ![p].sess = {s}, ![p].owners = OwnersOf(s)]
    /\ Goto(p, "retire")

(***************************************************************************)
(* SessionLayer::close_session: not for a session that was replaced.       *)
(***************************************************************************)
CloseCheck(p) ==
    LET replaced == \E s \in call[p].sess : \E t \in p2p : t.addr = s.addr /\ t # s IN
    /\ pc[p] = "closeCheck"
    /\ Goto(p, IF replaced THEN AfterClose(p) ELSE "closeEntry")
    /\ UNCHANGED <<viewVars, tableVars, call, aborted, inbox, budget>>

CloseEntry(p) ==
    /\ pc[p] = "closeEntry"
    /\ \E s \in call[p].sess :
         IF view[s.owner] # 0 /\ epoch[s.owner] = s.gen
         THEN call' = [call EXCEPT ![p].gen = s.gen] /\ Goto(p, "begin")
         ELSE UnregisterSession(p, s)
    /\ UNCHANGED <<viewVars, tableVars, aborted, inbox, budget>>

(***************************************************************************)
(* NodeView::begin_closing.                                                *)
(***************************************************************************)
BeginClosing(p) ==
    LET n == call[p].node IN
    /\ pc[p] = "begin"
    /\ IF IsCurrent(p)
       THEN /\ state' = [state EXCEPT ![n] = Closing]
            /\ held' = [held EXCEPT ![n] = {}]
            /\ Notify(n, Closing)
       ELSE UNCHANGED <<state, held, inbox>>
    /\ Goto(p, "abort")
    /\ UNCHANGED <<nextGen, view, epoch, handles, tableVars, call, aborted, budget>>

(***************************************************************************)
(* NodeView::abort_initialization, in clean_state, disconnect and          *)
(* close_session.                                                          *)
(***************************************************************************)
AbortInitialization(p) ==
    LET n == call[p].node IN
    /\ pc[p] = "abort"
    /\ IF IsCurrent(p)
       THEN AbortHandles(n) /\ handles' = [handles EXCEPT ![n] = {}]
       ELSE UNCHANGED <<aborted, handles>>
    /\ IF call[p].op = "close" \/ ClosesCached(p)
       THEN \E s \in call[p].sess : UnregisterSession(p, s)
       ELSE Goto(p, "unregister") /\ UNCHANGED call
    /\ UNCHANGED <<nextGen, view, epoch, state, held, tableVars, inbox, budget>>

(***************************************************************************)
(* Fault: what belongs to the node is removed, whatever its generation.    *)
(***************************************************************************)
UnregisterNode(p) ==
    LET n == call[p].node IN
    /\ pc[p] = "unregister"
    /\ IF IsCurrent(p) THEN Retire(n) ELSE UNCHANGED <<viewVars, aborted, inbox>>
    /\ nodes' = {r \in nodes : r.node # n}
    /\ p2p' = {s \in p2p : s.owner # n}
    /\ Goto(p, "return")
    /\ UNCHANGED <<call, budget>>

(***************************************************************************)
(* SessionLayer::unregister_generation: the view first, then the tables;   *)
(* one session of the generation is then unregistered.                     *)
(***************************************************************************)
UnregisterGeneration(p) ==
    LET n == call[p].node
        g == call[p].gen
        direct == {s \in p2p : s.gen = g} IN
    /\ pc[p] = "unregister"
    /\ IF IsCurrent(p)
       THEN /\ Retire(n)
            /\ nodes' = {r \in nodes : r.gen # g}
            /\ p2p' = {s \in p2p : s.gen # g}
            /\ IF direct = {}
               THEN Goto(p, "return") /\ UNCHANGED call
               ELSE \E s \in direct :
                      /\ call' = [call EXCEPT ![p].sess = {s},
                                    ![p].owners = {o \in OwnersOf(s) : o[2] # g} \cup {<<n, g>>}]
                      /\ Goto(p, "retire")
       ELSE Goto(p, "return") /\ UNCHANGED <<viewVars, tableVars, call, aborted, inbox>>
    /\ UNCHANGED budget

(***************************************************************************)
(* One turn of the loop of unregister_session, the session's own           *)
(* generation last; then the session leaves the tables.                    *)
(***************************************************************************)
RetireOwner(p) ==
    \E o \in call[p].owners, s \in call[p].sess :
        LET live == view[o[1]] # 0 /\ epoch[o[1]] = o[2]
            last == call[p].owners = {o}
            rest == IF live THEN {r \in nodes : r.gen # o[2]} ELSE nodes IN
        /\ pc[p] = "retire"
        /\ o = <<s.owner, s.gen>> => last
        /\ IF live THEN Retire(o[1]) ELSE UNCHANGED <<viewVars, aborted, inbox>>
        /\ nodes' = IF last THEN {r \in rest : r.route # s} ELSE rest
        /\ p2p' = IF last THEN p2p \ {s} ELSE p2p
        /\ call' = [call EXCEPT ![p].owners = @ \ {o}, ![p].sess = IF last THEN {} ELSE @]
        /\ Goto(p, IF last THEN AfterClose(p) ELSE "retire")
        /\ UNCHANGED budget

(***************************************************************************)
(* Nothing is in progress and the environment makes no further call.       *)
(***************************************************************************)
Quiescent == \A p \in Procs : pc[p] = "idle"

Idle == Quiescent /\ UNCHANGED vars

Step(p) ==
    \/ Return(p) \/ CheckCached(p) \/ Guard(p) \/ LockSession(p) \/ LockRefused(p)
    \/ RunAbortable(p) \/ Aborted(p)
    \/ HandshakeStep(p) \/ HandshakeFails(p) \/ RegisterSession(p) \/ RegisterEndpoints(p)
    \/ TryDirect(p) \/ RestartAddress(p) \/ RestartAfterDirect(p)
    \/ TryReverse(p) \/ ReverseAwaiting(p) \/ RequestReverse(p)
    \/ AwaitForFinish(p) \/ AwaitState(p) \/ AwaitNext(p) \/ ReverseTimeout(p) \/ RestartAfterReverse(p)
    \/ TryRelayed(p) \/ RelayServer(p) \/ RegisterRouting(p) \/ RelayReady(p)
    \/ DropPermit(p) \/ DropFailed(p) \/ DropHandles(p) \/ DropMove(p)
    \/ CloseCheck(p) \/ CloseEntry(p) \/ BeginClosing(p) \/ AbortInitialization(p)
    \/ UnregisterGeneration(p) \/ RetireOwner(p)

Environment(p) ==
    \/ \E n \in Nodes : Session(p, n) \/ AwaitConnected(p, n) \/ OnReverseConnection(p, n) \/ Disconnect(p, n)
    \/ \E n \in Nodes : \E a \in Endpoints[n] : DispatchSession(p, n, a)
    \/ \E a \in Addrs : Relay \in Nodes /\ ServerSession(p, a)
    \/ \E s \in p2p : CloseSession(p, s)

Next ==
    \/ \E p \in Procs : Step(p) \/ Environment(p)
    \/ \E n \in Nodes : AbortInitializations(n)
    \/ Idle

(***************************************************************************)
(* Every task of the executor is polled and every wait has a timeout.      *)
(***************************************************************************)
Fairness == \A p \in Procs : WF_vars(Step(p))

Spec == Init /\ [][Next]_vars /\ Fairness

-----------------------------------------------------------------------------
ViewsTyped ==
    /\ nextGen \in Nat \ {0}
    /\ view \in [Nodes -> Nat]
    /\ epoch \in [Nodes -> Nat]
    /\ state \in [Nodes -> SessionStates]
    /\ held \in [Nodes -> SUBSET DirectSessions]
    /\ handles \in [Nodes -> SUBSET (Procs \X Nat)]

TablesTyped ==
    /\ p2p \subseteq DirectSessions
    /\ nodes \subseteq Routings

TasksTyped ==
    /\ pc \in [Procs -> Places]
    /\ aborted \in [Procs -> BOOLEAN]
    /\ inbox \in [Procs -> Seq(SessionStates)]
    /\ budget \in [Operations -> Nat]

(***************************************************************************)
(* Every variable has a value of its kind.  A call and a table never refer *)
(* to anything but a node, a generation and a registered session.          *)
(***************************************************************************)
TypeOK == ViewsTyped /\ TablesTyped /\ TasksTyped /\ call \in [Procs -> Calls]

(***************************************************************************)
(* NetworkView is "responsible for ensuring that we won't attempt to       *)
(* initialize 2 sessions with the same Node at the same time": whatever    *)
(* fails, is aborted or is closed meanwhile, at most one permit that was   *)
(* not granted for a reverse handshake belongs to the generation of a      *)
(* node's view.                                                            *)
(***************************************************************************)
PermitExclusive ==
    \A p, q \in Procs :
        /\ HoldsPermit(p) /\ HoldsPermit(q)
        /\ IsCurrent(p) /\ IsCurrent(q)
        /\ call[p].node = call[q].node
        /\ call[p].op # "reverse" /\ call[q].op # "reverse"
        => p = q

(***************************************************************************)
(* Why it holds: the counter is ahead of every generation, no two views    *)
(* share one, whoever asks for a permit has seen a view and whoever closes *)
(* a session has not, and every permit but a reverse one has a generation  *)
(* of its own, also when its view was replaced.                            *)
(***************************************************************************)
GenerationsIssued ==
    /\ \A n \in Nodes : epoch[n] < nextGen
    /\ \A p \in Procs : call[p].gen < nextGen

ViewsDistinct ==
    /\ \A n \in Nodes : view[n] = 0 <=> epoch[n] = 0
    /\ \A n \in Nodes : view[n] = 0 => state[n] = Closed
    /\ \A m, n \in Nodes : epoch[m] = epoch[n] /\ epoch[m] # 0 => m = n

SeenViews ==
    \A p \in Procs :
        /\ pc[p] \in {"cached", "closeCheck", "closeEntry", "begin"} /\ call[p].op \in PermitOps
             => call[p].seen = 0
        /\ pc[p] = "lock" => call[p].seen # 0

PermitsDistinct ==
    \A p, q \in Procs :
        /\ HoldsPermit(p) /\ HoldsPermit(q)
        /\ call[p].op # "reverse" /\ call[q].op # "reverse"
        /\ call[p].gen = call[q].gen
        => p = q

(***************************************************************************)
(* A generation that NEXT_GENERATION issued names one view and at most one *)
(* attempt to connect for ever, so that comparing generations is enough to *)
(* tell a current permit from a stale one.                                 *)
(***************************************************************************)
GenerationInvariant == GenerationsIssued /\ ViewsDistinct /\ SeenViews /\ PermitsDistinct

(***************************************************************************)
(* unregister_session has not come to the view of n yet.                   *)
(***************************************************************************)
Retiring(n) == \E p \in Procs : pc[p] = "retire" /\ <<n, epoch[n]>> \in call[p].owners

(***************************************************************************)
(* An Established view is usable: the session its state carries, which is  *)
(* what waiting callers get, is registered, and the routing table, which   *)
(* is what senders use, leads to that very session.  A view that lost its  *)
(* route would make every later call of session() fail.                    *)
(***************************************************************************)
RouteMatchesSession ==
    \A n \in Nodes : state[n] = Established /\ ~Retiring(n) =>
        /\ n # Relay => \E r \in nodes : r.node = n /\ r.gen = epoch[n] /\ r.route \in held[n]
        /\ held[n] \subseteq p2p

(***************************************************************************)
(* No attempt keeps a node locked: whatever fails, a view that is being    *)
(* initialised or closed gets to a state from which a later call can go on.*)
(***************************************************************************)
NodeSettles ==
    \A n \in Nodes : []<>IsFinished(state[n])

(***************************************************************************)
(* No call of session(), server_session(), disconnect() or of a handler    *)
(* waits for ever: whoever does not get a permit is told how the attempt   *)
(* of the other one ended, or that its view is gone.                       *)
(***************************************************************************)
CallsEnd ==
    \A p \in Procs : []<>(pc[p] = "idle")

(***************************************************************************)
(* The lifecycle that the rest of the client relies on.                    *)
(***************************************************************************)
ContractPhase(s) ==
    CASE s = Established -> "up"
      [] s = Closing -> "closing"
      [] Connecting(s) -> "connecting"
      [] OTHER -> "free"

Contract == INSTANCE SessionContract WITH
    gen <- [n \in Nodes |-> IF state[n] \in {Closed, FailedEstablish} THEN 0 ELSE epoch[n]],
    phase <- [n \in Nodes |-> ContractPhase(state[n])],
    last <- nextGen - 1

(***************************************************************************)
(* The registry implements SessionContract: a session becomes usable only  *)
(* through the attempt that owns its generation, a generation never comes  *)
(* back, and a closing session is never revived.                           *)
(***************************************************************************)
ImplementsContract == Contract!Spec

=============================================================================
