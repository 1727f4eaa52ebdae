----------------------------- MODULE Forwarding ------------------------------
(***************************************************************************)
(* Two clients that exchange encrypted packets through the relay, and keep *)
(* the keys of each other fresh: the forwarding of session.rs,             *)
(* routing_session.rs and direct_session.rs, with the encryption sync.     *)
(*                                                                         *)
(* A client that restarts has a new session key.  The other one finds out  *)
(* by a packet it cannot decrypt; it then asks the relay for the key and   *)
(* publishes a new routing object (refresh_node_encryption), and sends a   *)
(* notification that makes the peer do the same.  Both are tasks of        *)
(* several steps, during which routes and sessions come and go.            *)
(*                                                                         *)
(* A client has one peer, reached through the relay only.  The steps that  *)
(* NetworkView has in detail (locking of a view, closing of a session) are *)
(* one step here.  Numbers of generations, routing objects and sessions    *)
(* are only compared for equality: one that nobody holds is taken again.   *)
(***************************************************************************)
EXTENDS AllowedForwards

CONSTANTS
    Clients,    \* two nodes, by their default ids
    IdsOf,      \* the identities of each, its default id included
    FirstSlot,  \* the slot of each
    Mixes,      \* what may happen to whom: records of sets of clients
    Resets,     \* ENCRYPTION_SYNC_SUCCESS_RESET_THRESHOLD
    MaxKey,     \* bound: number of the last key of a client
    MaxNumber   \* bound: generations, objects and sessions a client may hold at a time

Events ==
    {"send", "once", "same", "restart", "disconnect", "forget", "slot", "pause", "query", "queried"}

ASSUME ForwardingAssumption ==
    /\ \E x, y \in NodeIds : x # y /\ Clients = {x, y}
    /\ IdsOf \in [Clients -> SUBSET NodeIds] /\ \A n \in Clients : n \in IdsOf[n]
    /\ FirstSlot \in [Clients -> SlotIds]
    /\ Mixes \subseteq [Events -> SUBSET Clients]
    /\ Resets \in Nat \ {0} /\ MaxKey \in Nat \ {0}
    /\ MaxNumber \in Nat /\ MaxNumber >= 6  \* five may be held when a session is made

VARIABLES
    left,   \* what may still happen, one time to each client of a set; who is in `send` goes on
            \* sending, who is in `same` restarts at once and with the same address, who is in
            \* `queried` has asked for the peer without connecting to it
    relay,  \* the relay's side of each client: the key of its session, 0 if none, and its slot
    c,      \* the state of each client
    task,   \* the refresh tasks of each client: after a failure, and asked by the peer
    out,    \* the packets of each client that wait for resume_forwarding
    net     \* the packets on their way from the relay

vars == <<left, relay, c, task, out, net>>

Numbers == 1..MaxNumber
Keys == 1..MaxKey
Whys == {"failure", "sync"}
Senders == {"app", "notify"}

Peer(n) == CHOOSE p \in Clients : p # n
EntryOf(n) == [default |-> n, identities |-> IdsOf[n]]

NoInfo == [key |-> 0, slot |-> NoSlot]
NoView == [gen |-> 0, key |-> 0, slot |-> NoSlot]
NoRoute == [obj |-> 0, gen |-> 0, sess |-> 0, key |-> 0]
NoConn == [pc |-> "idle", gen |-> 0, sess |-> 0, key |-> 0]
NoTask == [pc |-> "idle", gen |-> 0, obj |-> 0, sess |-> 0, prev |-> 0, key |-> 0, slot |-> NoSlot]
NoPacket == [kind |-> "none", mine |-> 0, theirs |-> 0, slot |-> NoSlot]
NoWait == [packet |-> NoPacket, sess |-> 0, woken |-> FALSE]

\* EncryptionSyncBackoff of decryption failures: `wait` until the next notification, and the
\* successes since; enough of them remove it.
NoBackoff == [wait |-> FALSE, succ |-> Resets]

\* SessionLayerState, the registry's view of the peer, and the task that connects to it.
NewClient(k) ==
    [key |-> k, sess |-> 0, paused |-> FALSE, fwd |-> Empty, view |-> NoView,
     nodes |-> [i \in NodeIds |-> NoRoute], conn |-> NoConn, want |-> FALSE,
     failures |-> NoBackoff, asked |-> FALSE, answer |-> NoInfo]

Init ==
    /\ left \in Mixes
    /\ relay = [n \in Clients |-> [key |-> 0, slot |-> FirstSlot[n]]]
    /\ c = [n \in Clients |-> NewClient(1)]
    /\ task = [n \in Clients |-> [w \in Whys |-> NoTask]]
    /\ out = [n \in Clients |-> [w \in Senders |-> NoWait]]
    /\ net = {}

Happens(what, n) ==
    /\ n \in left[what]
    /\ left' = [left EXCEPT ![what] = @ \ {n}]

\* The route to the peer, as get_node_routing returns it.
Route(n) == c[n].nodes[Peer(n)]
Routed(n) == Route(n) # NoRoute

Least(S) == CHOOSE x \in S : \A y \in S : x <= y
NewGeneration(n) == Least(Numbers \ {task[n][w].gen : w \in Whys})
NewObject(n, ws) == Least(Numbers \ {task[n][w].obj : w \in ws})
NewSession(n) ==
    Least(Numbers \ ({c[n].conn.sess} \cup {task[n][w].sess : w \in Whys} \cup {out[n][w].sess : w \in Senders}))
-----------------------------------------------------------------------------
(* The session with the relay *)

\* new_session of the relay.  The id of a session follows from the address and the time slice
\* of the handshake: a client that comes back to both finds its old session as it was.
Registered(n) == IF n \in left.same /\ relay[n].key # 0 THEN relay[n].key ELSE c[n].key

\* server_session: a handshake, and the registration of the client.
Register(n) ==
    /\ c[n].sess = 0
    /\ c' = [c EXCEPT ![n].sess = NewSession(n), ![n].paused = FALSE, ![n].fwd = Empty]
    /\ relay' = [relay EXCEPT ![n].key = Registered(n)]
    /\ UNCHANGED <<left, task, out, net>>

\* unregister_session of the session with the relay that does not know it any more: with it
\* go the routes through it, their views and backoffs.
CloseRelay(n) ==
    /\ c[n].sess # 0 /\ relay[n].key = 0
    /\ c' = [c EXCEPT ![n].sess = 0, ![n].paused = FALSE, ![n].fwd = Empty,
                      ![n].nodes = [i \in NodeIds |-> NoRoute],
                      ![n].view = IF Routed(n) THEN NoView ELSE @,
                      ![n].failures = IF Routed(n) THEN NoBackoff ELSE @,
                      ![n].asked = IF Routed(n) THEN FALSE ELSE @]
    /\ UNCHANGED <<left, relay, task, out, net>>

\* The process of a client ends, and a new one starts with a new key.
Restart(n) ==
    /\ Happens("restart", n) /\ c[n].key < MaxKey
    /\ c' = [c EXCEPT ![n] = NewClient(c[n].key + 1)]
    /\ task' = [task EXCEPT ![n] = [w \in Whys |-> NoTask]]
    /\ out' = [out EXCEPT ![n] = [w \in Senders |-> NoWait]]
    /\ UNCHANGED <<relay, net>>

\* The relay drops the session of a client; or gives it another slot, as after a restart
\* with an older table of slots.
Forget(n) ==
    /\ Happens("forget", n)
    /\ relay' = [relay EXCEPT ![n].key = 0]
    /\ UNCHANGED <<c, task, out, net>>
GiveSlot(n) ==
    /\ Happens("slot", n)
    /\ \E s \in SlotIds \ {relay[m].slot : m \in Clients} : relay' = [relay EXCEPT ![n].slot = s]
    /\ UNCHANGED <<c, task, out, net>>

-----------------------------------------------------------------------------
(* Connecting to the peer *)

Findable(n) == c[n].sess # 0 /\ relay[Peer(n)].key # 0

\* NodeView::info: what is cached need not be used any more.  It is while there is a session,
\* and is not without information; else it depends on its age.
UpdateRecommended(n) == c[n].view.key = 0 \/ ~Routed(n)

ApplyInfo(v, info) == [v EXCEPT !.key = info.key, !.slot = info.slot]

\* update_entry: the view of the peer, whatever its state, or a new one.  The identities of
\* the peer are always those of one view.
UpdateEntry(n, info) ==
    ApplyInfo(IF c[n].view = NoView THEN [NoView EXCEPT !.gen = NewGeneration(n)] ELSE c[n].view, info)

\* query_node_info for forward_virtual_tcp: the relay answers; the answer is written whatever
\* has become of the view in the meantime.
QueryInfo(n) ==
    /\ n \in left.query
    /\ left' = [left EXCEPT !.query = @ \ {n}, !.queried = @ \cup {n}]
    /\ UpdateRecommended(n) /\ Findable(n)
    /\ c' = [c EXCEPT ![n].answer = relay[Peer(n)]]
    /\ UNCHANGED <<relay, task, out, net>>
OnInfo(n) ==
    /\ c[n].answer # NoInfo
    /\ c' = [c EXCEPT ![n].view = UpdateEntry(n, c[n].answer), ![n].answer = NoInfo]
    /\ UNCHANGED <<left, relay, task, out, net>>

\* session: a cached answer, or a new one; then lock_outgoing, a new generation.
Lock(n) ==
    /\ c[n].want /\ ~Routed(n) /\ c[n].conn = NoConn /\ c[n].sess # 0
    /\ \E v \in {c[n].view, UpdateEntry(n, relay[Peer(n)])} :
         IF v.key = 0 THEN relay[Peer(n)].key = 0 /\ c' = [c EXCEPT ![n].want = FALSE]
         ELSE c' = [c EXCEPT ![n].view = [v EXCEPT !.gen = NewGeneration(n)],
                             ![n].conn = [NoConn EXCEPT !.pc = "relayed", !.gen = NewGeneration(n)]]
    /\ UNCHANGED <<left, relay, task, out, net>>

\* try_relayed_connection, up to register_routing.
AllowForward(n) ==
    /\ c[n].conn.pc = "relayed" /\ c[n].sess # 0
    /\ c' = [c EXCEPT ![n].fwd = Add(@, EntryOf(Peer(n)), c[n].view.slot),
                      ![n].conn = [@ EXCEPT !.pc = "route", !.sess = c[n].sess, !.key = c[n].view.key]]
    /\ UNCHANGED <<left, relay, task, out, net>>

\* A NodeRouting for every identity of the peer.
Routes(n, r) == [i \in NodeIds |-> IF i \in IdsOf[Peer(n)] THEN r ELSE c[n].nodes[i]]

\* register_routing; the permit takes the view away if that fails.
RegisterRouting(n) ==
    LET k == c[n].conn
        r == [obj |-> NewObject(n, Whys), gen |-> k.gen, sess |-> k.sess, key |-> k.key] IN
    /\ k.pc = "route"
    /\ IF k.gen = c[n].view.gen /\ k.sess = c[n].sess
       THEN c' = [c EXCEPT ![n].nodes = Routes(n, r), ![n].conn = NoConn, ![n].want = FALSE]
       ELSE c' = [c EXCEPT ![n].view = NoView, ![n].conn = NoConn, ![n].want = FALSE]
    /\ UNCHANGED <<left, relay, task, out, net>>

\* disconnect: unregister_generation of the view, and the end of a task that connects.
Disconnected(n) ==
    IF c[n].view = NoView THEN c[n]
    ELSE [c[n] EXCEPT !.view = NoView, !.nodes = [i \in NodeIds |-> NoRoute],
                      !.fwd = RemoveAll(@, {i \in NodeIds : c[n].nodes[i] # NoRoute}),
                      !.conn = NoConn, !.want = FALSE, !.failures = NoBackoff, !.asked = FALSE]
Disconnect(n) ==
    /\ Happens("disconnect", n)
    /\ c' = [c EXCEPT ![n] = Disconnected(n)]
    /\ UNCHANGED <<relay, task, out, net>>
-----------------------------------------------------------------------------
(* Sending *)

\* The relay's handler of a forward packet: to the client with the slot, under the slot of
\* the sender; to the sender, if nobody has the slot.
Forwarded(n, m) ==
    LET to == {p \in Clients : relay[p].slot = m.slot /\ relay[p].key # 0} IN
    IF relay[n].key = 0 THEN net
    ELSE net \cup (IF to = {} THEN {[to |-> n, packet |-> [NoPacket EXCEPT !.kind = "bySlot", !.slot = m.slot]]}
                   ELSE {[to |-> p, packet |-> [m EXCEPT !.slot = relay[n].slot]] : p \in to})

\* NodeRouting::send and send_with_flags: encrypted with the key of the route as it is now,
\* addressed by the slot, and then held back while forwarding is paused.
Frame(n, kind) ==
    [kind |-> kind, slot |-> SlotOf(c[n].fwd, Peer(n)),
     mine |-> IF kind = "data" THEN c[n].key ELSE 0,
     theirs |-> IF kind = "data" THEN Route(n).key ELSE 0]
Transmit(n, w, kind) ==
    IF ~Routed(n) \/ SlotOf(c[n].fwd, Peer(n)) = NoSlot THEN UNCHANGED <<out, net>>
    ELSE IF c[n].paused
    THEN /\ out' = [out EXCEPT ![n][w] = [packet |-> Frame(n, kind), sess |-> c[n].sess, woken |-> FALSE]]
         /\ UNCHANGED net
    ELSE net' = Forwarded(n, Frame(n, kind)) /\ UNCHANGED out

\* RoutingSender::send, which asks for a session first if there is no route.
Send(n) ==
    /\ out[n]["app"] = NoWait
    /\ \A m \in net : m.to = Peer(n) => m.packet.kind # "data"
    /\ IF Routed(n)
       THEN /\ (n \in left.send /\ UNCHANGED left) \/ Happens("once", n)
            /\ Transmit(n, "app", "data") /\ UNCHANGED c
       ELSE /\ n \in left.send \cup left.once /\ ~c[n].want
            /\ c' = [c EXCEPT ![n].want = TRUE]
            /\ UNCHANGED <<left, out, net>>
    /\ UNCHANGED <<relay, task>>

\* wait_for_resume returns: the state of the Actuator it waits for has been dropped.
Resumed(n, w) ==
    /\ out[n][w].woken
    /\ net' = Forwarded(n, out[n][w].packet)
    /\ out' = [out EXCEPT ![n][w] = NoWait]
    /\ UNCHANGED <<left, relay, c, task>>

\* on_control with PauseForwarding and ResumeForwarding of the relay
Pause(n) ==
    /\ Happens("pause", n) /\ c[n].sess # 0
    /\ c' = [c EXCEPT ![n].paused = TRUE]
    /\ UNCHANGED <<relay, task, out, net>>

\* A fault: resume_forwarding leaves the state of the Actuator, and with it who waits.
ResumeWakesNone(n) ==
    /\ c[n].paused
    /\ c' = [c EXCEPT ![n].paused = FALSE]
    /\ UNCHANGED <<left, relay, task, out, net>>

Resume(n) ==
    /\ c[n].paused
    /\ c' = [c EXCEPT ![n].paused = FALSE]
    /\ out' = [out EXCEPT ![n] = [w \in Senders |->
                 [out[n][w] EXCEPT !.woken = @ \/ (out[n][w] # NoWait /\ out[n][w].sess = c[n].sess)]]]
    /\ UNCHANGED <<left, relay, task, net>>

-----------------------------------------------------------------------------
(* Refresh of the peer's key *)

After(w) == IF w = "failure" THEN "notify" ELSE "idle"

\* refresh_node_encryption: the generation and the routing object of now, or no refresh.
NewRefresh(n, w) ==
    IF c[n].view = NoView \/ ~Routed(n) \/ Route(n).gen # c[n].view.gen
    THEN [NoTask EXCEPT !.pc = After(w)]
    ELSE [NoTask EXCEPT !.pc = "lookup", !.gen = c[n].view.gen, !.obj = Route(n).obj,
                       !.sess = Route(n).sess, !.prev = c[n].view.key]

\* The answer of the relay to find_node, or a timeout.
Lookup(n, w) ==
    /\ task[n][w].pc = "lookup" /\ Findable(n)
    /\ task' = [task EXCEPT ![n][w] = [@ EXCEPT !.pc = "publish", !.key = relay[Peer(n)].key,
                                                  !.slot = relay[Peer(n)].slot]]
    /\ UNCHANGED <<left, relay, c, out, net>>
LookupFails(n, w) ==
    /\ task[n][w].pc = "lookup"
    /\ task' = [task EXCEPT ![n][w] = [NoTask EXCEPT !.pc = After(w)]]
    /\ UNCHANGED <<left, relay, c, out, net>>

\* Faults: the route is that of the peer, whoever made it; or of the generation, whoever
\* refreshed it.
MayPublishAny(n, t) == Routed(n)
MayPublishGeneration(n, t) == t.gen = c[n].view.gen /\ Routed(n)

\* commit_refresh and the callback of publish_encryption_refresh: the view is still of this
\* generation, the route is the same object, and its session is the one in the table.
MayPublish(n, t) ==
    /\ t.gen = c[n].view.gen
    /\ t.obj = Route(n).obj
    /\ t.sess = c[n].sess

\* The routing object a refresh makes, of its own generation and session.
Refreshed(n, w, t) ==
    Routes(n, [obj |-> NewObject(n, Whys \ {w}), gen |-> t.gen, sess |-> t.sess, key |-> t.key])

\* What it writes: the slot, a new routing object for every identity, and the view.
Published(n, w, t) ==
    [c[n] EXCEPT !.fwd = Add(@, EntryOf(Peer(n)), t.slot), !.nodes = Refreshed(n, w, t),
                 !.view = ApplyInfo(@, t)]

\* After a refresh the peer asked for, handle_encryption_sync allows the next one at once if
\* the key has changed.
Commit(n, w) ==
    LET t == task[n][w] IN
    /\ t.pc = "publish"
    /\ c' = IF MayPublish(n, t)
            THEN [c EXCEPT ![n] = [Published(n, w, t) EXCEPT
                    !.asked = @ /\ ~(w = "sync" /\ t.key # t.prev)]]
            ELSE c
    /\ task' = [task EXCEPT ![n][w] = [NoTask EXCEPT !.pc = After(w)]]
    /\ UNCHANGED <<left, relay, out, net>>

\* A fault: nothing is sent to the peer.
NotifyNone(n) ==
    /\ task[n]["failure"].pc = "notify"
    /\ task' = [task EXCEPT ![n]["failure"] = NoTask]
    /\ UNCHANGED <<left, relay, c, out, net>>

\* handle_encryption_failure, at its end: send_encryption_sync by the route of now.
Notify(n) ==
    /\ task[n]["failure"].pc = "notify"
    /\ Transmit(n, "notify", "sync")
    /\ task' = [task EXCEPT ![n]["failure"] = NoTask]
    /\ UNCHANGED <<left, relay, c>>

\* The interval of a backoff has passed; it is longer than a refresh takes.
Tick(n) ==
    /\ c[n].failures.wait \/ c[n].asked
    /\ \A w \in Whys : task[n][w] = NoTask
    /\ out[n]["notify"] = NoWait
    /\ c' = [c EXCEPT ![n].failures.wait = FALSE, ![n].asked = FALSE]
    /\ UNCHANGED <<left, relay, task, out, net>>
-----------------------------------------------------------------------------
(* Receiving *)

\* The slot of the packet is one of those that are forwarded for.
Allowed(n, m) == BySlot(c[n].fwd, m.packet.slot) # NoEntry

\* on_forward from a slot that is not known: find_slot, and session with the node that has
\* it, by the relay only.  The packet is held until there is a route.
Resolve(m) ==
    LET n == m.to IN
    /\ m.packet.kind \in {"data", "sync"} /\ c[n].sess # 0
    /\ ~Allowed(n, m) /\ ~Routed(n) /\ ~c[n].want
    /\ Findable(n) /\ relay[Peer(n)].slot = m.packet.slot
    /\ c' = [c EXCEPT ![n].want = TRUE]
    /\ UNCHANGED <<left, relay, task, out, net>>

\* The client knows who sent the packet.
Arrives(m) ==
    /\ m \in net /\ c[m.to].sess # 0
    /\ Allowed(m.to, m) \/ (Routed(m.to) /\ relay[Peer(m.to)].slot = m.packet.slot)
    /\ net' = net \ {m}

\* The three handlers: handle_encryption_sync, a packet that can be decrypted, and
\* handle_encryption_failure.  Each may be throttled.
OnSync(m) ==
    LET n == m.to IN
    /\ Arrives(m) /\ m.packet.kind = "sync"
    /\ IF c[n].asked THEN UNCHANGED <<c, task>>
       ELSE /\ c' = [c EXCEPT ![n].asked = TRUE]
            /\ task' = [task EXCEPT ![n]["sync"] = NewRefresh(n, "sync")]
    /\ UNCHANGED <<left, relay, out>>

\* Aes256GcmSivEncryption: both ends have the same secret.
Decrypts(n, m) == m.packet.mine = Route(n).key /\ m.packet.theirs = c[n].key

\* record_successful_decryption
Succeeded(n) ==
    LET succ == c[n].failures.succ IN
    IF succ + 1 < Resets THEN [c[n] EXCEPT !.failures.succ = @ + 1]
    ELSE IF succ < Resets THEN [c[n] EXCEPT !.failures = NoBackoff, !.asked = FALSE]
    ELSE c[n]

OnPacket(m) ==
    LET n == m.to IN
    /\ Arrives(m) /\ m.packet.kind = "data" /\ Routed(n) /\ Decrypts(n, m)
    /\ c' = [c EXCEPT ![n] = Succeeded(n)]
    /\ UNCHANGED <<left, relay, task, out>>

OnUndecryptable(m) ==
    LET n == m.to IN
    /\ Arrives(m) /\ m.packet.kind = "data" /\ Routed(n) /\ ~Decrypts(n, m)
    /\ c' = [c EXCEPT ![n].failures = [wait |-> TRUE, succ |-> 0]]
    /\ task' = IF c[n].failures.wait THEN task
               ELSE [task EXCEPT ![n]["failure"] = NewRefresh(n, "failure")]
    /\ UNCHANGED <<left, relay, out>>

\* on_disconnected by a slot: the entry of the slot goes, and the route if it is by the relay.
OnSlotGone(m) ==
    LET n == m.to
        f == RemoveBySlot(c[n].fwd, m.packet.slot) IN
    /\ m \in net /\ m.packet.kind = "bySlot" /\ c[n].sess # 0
    /\ net' = net \ {m}
    /\ c' = IF Allowed(n, m) /\ Routed(n)
            THEN [c EXCEPT ![n] = [Disconnected(n) EXCEPT !.fwd = RemoveAll(f, IdsOf[Peer(n)])]]
            ELSE [c EXCEPT ![n].fwd = f]
    /\ UNCHANGED <<left, relay, task, out>>

\* on_forward gives up: there is no session, nobody has the slot, or a node whose packets are
\* forwarded has no route.
OnUnknown(m) ==
    LET n == m.to
        resolved == Findable(n) /\ relay[Peer(n)].slot = m.packet.slot IN
    /\ m \in net
    /\ \/ c[n].sess = 0
       \/ m.packet.kind \in {"data", "sync"} /\ ~Allowed(n, m) /\ ~resolved
       \/ m.packet.kind = "data" /\ Allowed(n, m) /\ ~Routed(n)
    /\ net' = net \ {m}
    /\ UNCHANGED <<left, relay, c, task, out>>

\* The network loses a packet.
Lost(m) ==
    /\ m \in net
    /\ net' = net \ {m}
    /\ UNCHANGED <<left, relay, c, task, out>>

-----------------------------------------------------------------------------
Next ==
    \/ \E n \in Clients :
         \/ Register(n) \/ CloseRelay(n) \/ Restart(n) \/ Forget(n) \/ GiveSlot(n)
         \/ QueryInfo(n) \/ OnInfo(n) \/ Lock(n) \/ AllowForward(n) \/ RegisterRouting(n) \/ Disconnect(n)
         \/ Send(n) \/ Pause(n) \/ Resume(n) \/ Notify(n) \/ Tick(n)
         \/ \E w \in Senders : Resumed(n, w)
         \/ \E w \in Whys : Lookup(n, w) \/ LookupFails(n, w) \/ Commit(n, w)
    \/ \E m \in net :
         Resolve(m) \/ OnSync(m) \/ OnPacket(m) \/ OnUndecryptable(m) \/ OnSlotGone(m)
         \/ OnUnknown(m) \/ Lost(m)

Spec == Init /\ [][Next]_vars

\* What a client does by itself.
Step(n) ==
    \/ Register(n) \/ CloseRelay(n) \/ OnInfo(n) \/ Lock(n) \/ AllowForward(n) \/ RegisterRouting(n)
    \/ Notify(n) \/ \E w \in Whys : Commit(n, w)
    \/ Resume(n) \/ \E w \in Senders : Resumed(n, w)

\* Tasks go on, the relay resumes whom it paused, time passes, who wants to send sends again,
\* and neither every lookup nor every packet or every notice of the same client is lost.
FairSpec ==
    /\ Spec
    /\ \A n \in Clients :
         /\ WF_vars(Step(n)) /\ WF_vars(Tick(n))
         /\ WF_vars(n \in left.send /\ Send(n))
         /\ SF_vars(\E w \in Whys : Lookup(n, w))
         /\ SF_vars(\E m \in net : m.to = n /\ m.packet.kind = "data" /\
                      (Resolve(m) \/ OnPacket(m) \/ OnUndecryptable(m) \/ OnUnknown(m)))
         /\ SF_vars(\E m \in net : m.to = n /\ m.packet.kind # "data" /\
                      (Resolve(m) \/ OnSync(m) \/ OnSlotGone(m) \/ OnUnknown(m)))

-----------------------------------------------------------------------------
(* What holds *)

Packets == [kind : {"none", "data", "sync", "bySlot"}, mine : Keys \cup {0}, theirs : Keys \cup {0},
            slot : SlotIds \cup {NoSlot}]
ClientStates ==
    [key : Keys, sess : Numbers \cup {0}, paused : BOOLEAN, fwd : Forwards,
     view : [gen : Numbers \cup {0}, key : Keys \cup {0}, slot : SlotIds \cup {NoSlot}],
     nodes : [NodeIds -> [obj : Numbers \cup {0}, gen : Numbers \cup {0}, sess : Numbers \cup {0},
                          key : Keys \cup {0}]],
     conn : [pc : {"idle", "relayed", "route"}, gen : Numbers \cup {0}, sess : Numbers \cup {0},
             key : Keys \cup {0}],
     want : BOOLEAN, failures : [wait : BOOLEAN, succ : 0..Resets], asked : BOOLEAN,
     answer : [key : Keys \cup {0}, slot : SlotIds \cup {NoSlot}]]

(* The types of the tables, of the tasks and of the packets of session.rs. *)
TypeOK ==
    /\ c \in [Clients -> ClientStates]
    /\ relay \in [Clients -> [key : Keys \cup {0}, slot : SlotIds]]
    /\ task \in [Clients -> [Whys -> [pc : {"idle", "lookup", "publish", "notify"},
                   gen : Numbers \cup {0}, obj : Numbers \cup {0}, sess : Numbers \cup {0},
                   prev : Keys \cup {0}, key : Keys \cup {0}, slot : SlotIds \cup {NoSlot}]]]
    /\ out \in [Clients -> [Senders -> [packet : Packets, sess : Numbers \cup {0}, woken : BOOLEAN]]]
    /\ net \subseteq [to : Clients, packet : Packets]

(* AllowedForwards: the tables of slots and of nodes agree, however connections, refreshes  *)
(* and notices of the relay write to them.                                                  *)
ForwardsAgree == \A n \in Clients : Agree(c[n].fwd)

(* publish_encryption_refresh and unregister: every identity of the peer has the same       *)
(* routing object, of the generation of the view and through the session that is in the     *)
(* table, and no route outlives its view.                                                   *)
RouteIsOwned ==
    \A n \in Clients :
      /\ \A i \in IdsOf[Peer(n)] : c[n].nodes[i] = Route(n)
      /\ Routed(n) => Route(n).gen = c[n].view.gen /\ Route(n).sess = c[n].sess

(* commit_refresh: the registry has the key and the slot that the route was made with, so   *)
(* that a connection made from it encrypts for the same key.  query_node_info may break     *)
(* this: it writes its answer when the view has come to know better.                        *)
MetadataMatchesRoute ==
    \A n \in Clients : Routed(n) /\ n \notin left.queried =>
      /\ c[n].view.key = Route(n).key
      /\ SlotOf(c[n].fwd, Peer(n)) \in {NoSlot, c[n].view.slot}

(* NodeRouting: a route is that of the view and of the session that are there, and the      *)
(* registry knows what it was made with, however connections, refreshes and closes overlap. *)
RoutesAreCurrent == RouteIsOwned /\ MetadataMatchesRoute

(* publish_encryption_refresh: of two refreshes that overlap, the one with the older answer *)
(* never replaces the key that the other has published.                                     *)
KeyNeverGoesBack ==
    [][\A n \in Clients : Routed(n) /\ Routed(n)' => Route(n)'.key >= Route(n).key]_vars

(* handle_encryption_failure and handle_encryption_sync: whatever has restarted, if only    *)
(* one client goes on sending, every route ends up with the current key of the peer.        *)
KeysConverge ==
    left.send # {} => <>[](\A n \in Clients : Routed(n) => Route(n).key = c[Peer(n)].key)

Held(n, w) == out[n][w] # NoWait /\ out[n][w].sess = c[n].sess

(* wait_for_resume: no packet is held back for ever: it is sent once forwarding is resumed, *)
(* as long as its session lasts.                                                            *)
HeldIsSent == []<>(\A n \in Clients : \A w \in Senders : ~Held(n, w))
=============================================================================
