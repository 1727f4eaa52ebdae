----------------------------- MODULE Handshake ------------------------------
(***************************************************************************)
(* The handshake of two clients, over a network that loses, repeats and    *)
(* reorders packets: init_session on one side, admit_incoming, new_session *)
(* and init_session_handler on the other, the requests of RawSession and   *)
(* the table of pending responses of its Dispatcher.                       *)
(*                                                                         *)
(* Every node plays both sides.  The tasks of a node share its tables and  *)
(* run between two awaits without interruption.  Who may start a handshake *)
(* is decided by the registry (module NetworkView); here it refuses, and   *)
(* an attempt fails, at any time.                                          *)
(***************************************************************************)
EXTENDS Integers, Sequences, FiniteSets, FiniteSetsExt

CONSTANTS
    Nodes,          \* nodes, each with one address
    Mixes,          \* who calls whom in each attempt, one function for each mix of calls
    Stops,          \* nodes that may be shut down
    Attempts,       \* calls of init_session
    Rids,           \* request ids: random numbers, which can coincide
    MaxIncoming,    \* MAX_INCOMING_HANDSHAKES
    MaxSids,        \* bound on the handshakes that are admitted
    DedupSize       \* REQ_DEDUPLICATE_BUF_SIZE

ASSUME HandshakeAssumption ==
    /\ IsFiniteSet(Nodes) /\ IsFiniteSet(Attempts) /\ IsFiniteSet(Rids)
    /\ Mixes \subseteq [Attempts -> {c \in Nodes \X Nodes : c[1] # c[2]}]
    /\ Stops \subseteq Nodes
    /\ 0 \notin Attempts \cup Rids
    /\ MaxIncoming \in Nat /\ MaxSids \in Nat /\ DedupSize \in Nat

VARIABLES
    calls,          \* the mix of calls
    up,             \* nodes that have not been shut down
    net,            \* packets on their way; they stay, so they can arrive again or never
    att,            \* tasks of init_session
    task,           \* tasks of on_request for incoming handshakes; their number is the session id
    admitted,       \* the token of each remote that is admitted, 0 for none
    nextAdmission,  \* the last token of each node
    incoming,       \* incoming_sessions of all nodes
    tmp,            \* tmp_sessions
    pending,        \* Dispatcher::responses of the temporary sessions
    processed,      \* processed_requests
    p2p,            \* p2p_sessions: the id of the session with each remote, 0 for none
    paused,         \* sessions whose forwarding is paused by their responder
    registered,     \* history: what responders have registered
    orphans,        \* history: temporary sessions that shutdown has dropped
    ready           \* history: sessions that are Ready at their responder

vars == <<calls, up, net, att, task, admitted, nextAdmission, incoming, tmp, pending, processed,
          p2p, paused, registered, orphans, ready>>
tables == <<admitted, nextAdmission, incoming, processed>>
history == <<registered, orphans, ready>>

Sids == 1..MaxSids
Raws == 1..(Cardinality(Attempts) + MaxSids)

\* Packets.  The challenge of a responder is known by its session id, the one of an
\* initiator by its attempt; ch is the challenge that is asked for, or that is solved.
Packet(kind, from, to, rid, sid, ch) ==
    [kind |-> kind, from |-> from, to |-> to, rid |-> rid, sid |-> sid, ch |-> ch]
Packets ==
    [kind : {"hello", "challenge", "answer", "final", "resume", "disconnected"},
     from : Nodes, to : Nodes, rid : Rids \cup {0}, sid : Sids \cup {0}, ch : Attempts \cup {0}]
Nothing == [kind |-> "none"]

NotStarted == [pc |-> "idle"]
NoTask == [pc |-> "none"]
Ended == [pc |-> "ended"]
NoTemporary == [raw |-> 0, users |-> 0]

Init ==
    /\ calls \in Mixes
    /\ up = Nodes /\ net = {}
    /\ att = [a \in Attempts |-> NotStarted]
    /\ task = [s \in Sids |-> NoTask]
    /\ admitted = [n \in Nodes |-> [p \in Nodes |-> 0]]
    /\ nextAdmission = [n \in Nodes |-> 0]
    /\ incoming = {}
    /\ tmp = [n \in Nodes |-> [p \in Nodes |-> NoTemporary]]
    /\ pending = [w \in Raws |-> [r \in Rids |-> 0]]
    /\ processed = [n \in Nodes |-> << >>]
    /\ p2p = [n \in Nodes |-> [p \in Nodes |-> 0]]
    /\ paused = {} /\ registered = {} /\ orphans = {} /\ ready = {}

\* Attempts and handshakes that are running.
Trying == {a \in Attempts : att[a].pc \notin {"idle", "done", "failed"}}
Serving == {s \in Sids : task[s].pc \notin {"none", "ended"}}

(***************************************************************************)
(* Temporary sessions and their leases                                     *)
(***************************************************************************)
\* Serving tasks that have started new_session, and hold its guards.
Guarded == {s \in Serving : task[s].pc # "admitted"}

\* Temporary sessions that someone knows.
UsedRaws ==
    {att[a].raw : a \in Trying} \cup {task[s].raw : s \in Guarded}
        \cup {tmp[n][p].raw : n \in Nodes, p \in Nodes} \cup orphans

\* lease_temporary_session: the session with p, or a new one.
LeasedRaw(n, p) == IF tmp[n][p].raw # 0 THEN tmp[n][p].raw ELSE Min(Raws \ UsedRaws)
Leased(n, p) == [tmp EXCEPT ![n][p] = [raw |-> LeasedRaw(n, p), users |-> @.users + 1]]

\* TemporarySessionGuard::drop
Released(n, p, w) ==
    [tmp EXCEPT ![n][p] =
        IF @.raw # w THEN @
        ELSE IF @.users = 1 THEN NoTemporary ELSE [raw |-> w, users |-> @.users - 1]]

(***************************************************************************)
(* Requests and the responses that they wait for                           *)
(***************************************************************************)
\* Fault: the table has an entry for the id, so it is removed.
DroppedById(a) == [pending EXCEPT ![att[a].raw][att[a].rid] = 0]

\* PendingResponse::drop removes the sender of its own receiver only.
Dropped(a) == [pending EXCEPT ![att[a].raw][att[a].rid] = IF @ = a THEN 0 ELSE @]

\* Dispatcher::response in the place of the entry for the same id, whose request is cancelled.
Awaits(table, w, rid, a) == [table EXCEPT ![w][rid] = a]
Cancelled(table, w, rid) ==
    [b \in Attempts |-> IF b = table[w][rid] THEN [att[b] EXCEPT !.cancelled = TRUE] ELSE att[b]]

Waiting(a) == att[a].pc \in {"hello", "answer"} /\ att[a].got = Nothing

-----------------------------------------------------------------------------
(***************************************************************************)
(* The initiator: init_session                                             *)
(***************************************************************************)
\* The lease, and the first request: retry_send sends it until the response is there.
StartAttempt(a, n, p, rid) ==
    LET w == LeasedRaw(n, p) IN
    /\ att[a] = NotStarted /\ n \in up /\ p2p[n][p] = 0
    /\ tmp' = Leased(n, p)
    /\ pending' = Awaits(pending, w, rid, a)
    /\ att' = [Cancelled(pending, w, rid) EXCEPT ![a] =
                 [pc |-> "hello", node |-> n, peer |-> p, raw |-> w, rid |-> rid, sid |-> 0,
                  got |-> Nothing, cancelled |-> FALSE]]
    /\ net' = net \cup {Packet("hello", n, p, rid, 0, a)}
    /\ UNCHANGED <<calls, up, task, tables, p2p, paused, history>>

\* The first response holds a challenge: it is solved and sent with the session id.
Answer(a, rid) ==
    LET t == att[a] IN
    /\ t.pc = "hello" /\ t.got # Nothing /\ t.got.kind = "challenge"
    /\ pending' = Awaits(Dropped(a), t.raw, rid, a)
    /\ att' = [Cancelled(Dropped(a), t.raw, rid) EXCEPT ![a] =
                 [t EXCEPT !.pc = "answer", !.rid = rid, !.sid = t.got.sid, !.got = Nothing]]
    /\ net' = net \cup {Packet("answer", t.node, t.peer, rid, t.got.sid, 0)}
    /\ UNCHANGED <<calls, up, task, tables, tmp, p2p, paused, history>>

\* Fault: the solution of the challenge is not verified.
VerifiedById(a) == att[a].got.kind = "final" /\ att[a].got.sid = att[a].sid

\* recover_identities_from_challenge: there is a solution, of the challenge that was sent.
Solves(m, ch) == m.kind = "final" /\ m.ch = ch

\* The last response is of this session, and solves the challenge of this attempt.
Verified(a) == att[a].got.sid = att[a].sid /\ Solves(att[a].got, a)

\* register_session, then ResumeForwarding.
Finish(a) ==
    LET t == att[a] IN
    /\ t.pc = "answer" /\ t.got # Nothing /\ Verified(a)
    /\ pending' = Dropped(a)
    /\ tmp' = Released(t.node, t.peer, t.raw)
    /\ p2p' = [p2p EXCEPT ![t.node][t.peer] = t.sid]
    /\ att' = [att EXCEPT ![a] = [pc |-> "done", node |-> t.node, peer |-> t.peer, sid |-> t.sid]]
    /\ net' = net \cup {Packet("resume", t.node, t.peer, 0, t.sid, 0)}
    /\ UNCHANGED <<calls, up, task, tables, paused, history>>

\* A timeout, a cancelled request, an abort, a refused transition, a response that is not
\* expected.  The Disconnected packet of the last case names a temporary session that the
\* other side does not know.
AttemptFails(a) ==
    LET t == att[a] IN
    /\ a \in Trying
    /\ pending' = Dropped(a)
    /\ tmp' = Released(t.node, t.peer, t.raw)
    /\ att' = [att EXCEPT ![a] = [pc |-> "failed"]]
    /\ UNCHANGED <<calls, up, net, task, tables, p2p, paused, history>>

-----------------------------------------------------------------------------
(***************************************************************************)
(* dispatch: packets that arrive                                           *)
(***************************************************************************)
\* Fault: the session id of a packet is not compared with the session.
AcceptsAny(m) == m \in net /\ m.to \in up

\* A packet from the address of a session has to carry the id of that session.
Accepts(m) ==
    /\ m \in net /\ m.to \in up
    /\ p2p[m.to][m.from] \in {0, m.sid}

\* record_duplicate, after is_request_duplicate
Request(m) == [from |-> m.from, sid |-> m.sid, rid |-> m.rid]
IsDuplicate(m) == \E i \in DOMAIN processed[m.to] : processed[m.to][i] = Request(m)

Recorded(m) ==
    LET seen == Append(processed[m.to], Request(m)) IN
    [processed EXCEPT ![m.to] = IF Len(seen) > DedupSize THEN Tail(seen) ELSE seen]

\* admit_incoming: one handshake per remote, and a bounded number of them.
Admissible(n, p) ==
    /\ admitted[n][p] = 0
    /\ Cardinality({q \in Nodes : admitted[n][q] # 0}) < MaxIncoming

\* on_request for a Session request without session id: a task is spawned, or nothing happens.
OnHello(m) ==
    LET n == m.to
        free == {s \in Sids : task[s] = NoTask}
        token == nextAdmission[n] + 1
    IN
    /\ Accepts(m) /\ m.kind = "hello" /\ ~IsDuplicate(m)
    /\ processed' = Recorded(m)
    /\ IF Admissible(n, m.from)
       THEN /\ free # {}
            /\ admitted' = [admitted EXCEPT ![n][m.from] = token]
            /\ nextAdmission' = [nextAdmission EXCEPT ![n] = token]
            /\ task' = [task EXCEPT ![Min(free)] =
                 [pc |-> "admitted", node |-> n, peer |-> m.from, token |-> token,
                  rid |-> m.rid, ch |-> m.ch, raw |-> 0]]
       ELSE UNCHANGED <<admitted, nextAdmission, task>>
    /\ UNCHANGED <<calls, up, net, att, incoming, tmp, pending, p2p, paused, history>>

\* try_continue_session: the queue of a handshake holds one request.
OnAnswer(m) ==
    LET mine == {e \in incoming : e.node = m.to /\ e.sid = m.sid /\ e.remote = m.from
                                    /\ e.queue = 0}
    IN
    /\ Accepts(m) /\ m.kind = "answer" /\ ~IsDuplicate(m)
    /\ processed' = Recorded(m)
    /\ incoming' = (incoming \ mine) \cup {[e EXCEPT !.queue = m.rid] : e \in mine}
    /\ UNCHANGED <<calls, up, net, att, task, admitted, nextAdmission, tmp, pending, p2p, paused,
                   history>>

\* The temporary session whose dispatcher gets a response, 0 if an established session does:
\* no request of a handshake waits there.
TemporaryOf(n, p) == IF p2p[n][p] # 0 THEN 0 ELSE tmp[n][p].raw

\* dispatch_response
OnResponse(m) ==
    LET w == TemporaryOf(m.to, m.from) IN
    /\ Accepts(m) /\ m.kind \in {"challenge", "final"}
    /\ w # 0 /\ pending[w][m.rid] # 0
    /\ att' = [att EXCEPT ![pending[w][m.rid]].got = m]
    /\ pending' = [pending EXCEPT ![w][m.rid] = 0]
    /\ UNCHANGED <<calls, up, net, task, tables, tmp, p2p, paused, history>>

\* pause_forwarding, resume_forwarding and wait_for_resume of a session: its Actuator.
Paused(s) == paused \cup {s}
Resumed(s) == paused \ {s}
MayForward(s) == s \notin paused

\* on_control with ResumeForwarding
OnResume(m) ==
    /\ Accepts(m) /\ m.kind = "resume"
    /\ paused' = Resumed(p2p[m.to][m.from])
    /\ UNCHANGED <<calls, up, net, att, task, tables, tmp, pending, p2p, history>>

\* on_disconnected for a session; without a session it aborts an initialization, which
\* fails then.  close_session answers with the same packet.
OnDisconnected(m) ==
    /\ Accepts(m) /\ m.kind = "disconnected" /\ p2p[m.to][m.from] # 0
    /\ p2p' = [p2p EXCEPT ![m.to][m.from] = 0]
    /\ net' = net \cup {Packet("disconnected", m.to, m.from, 0, m.sid, 0)}
    /\ UNCHANGED <<calls, up, att, task, tables, tmp, pending, paused, history>>

-----------------------------------------------------------------------------
(***************************************************************************)
(* The responder: dispatch_session, new_session, init_session_handler      *)
(***************************************************************************)
\* The registry gives a permit; new_session enters its tables.
NewSession(s) ==
    LET t == task[s] IN
    /\ t.pc = "admitted"
    /\ Cardinality({e \in incoming : e.node = t.node}) < MaxIncoming
    /\ ~\E e \in incoming : e.node = t.node /\ e.remote = t.peer
    /\ incoming' = incoming \cup {[sid |-> s, node |-> t.node, remote |-> t.peer, queue |-> 0]}
    /\ tmp' = Leased(t.node, t.peer)
    /\ task' = [task EXCEPT ![s].pc = "init", ![s].raw = LeasedRaw(t.node, t.peer)]
    /\ UNCHANGED <<calls, up, net, att, admitted, nextAdmission, pending, processed, p2p, paused,
                   history>>

\* The challenge is sent by the temporary session, if there is still one.
SendChallenge(s) ==
    LET t == task[s] IN
    /\ t.pc = "init" /\ tmp[t.node][t.peer].raw # 0
    /\ net' = net \cup {Packet("challenge", t.node, t.peer, t.rid, s, 0)}
    /\ task' = [task EXCEPT ![s].pc = "wait"]
    /\ UNCHANGED <<calls, up, att, tables, tmp, pending, p2p, paused, history>>

\* The answer is in the queue, and solves the challenge: the session is registered and
\* paused before the last response is sent.
Register(s) ==
    LET t == task[s] IN
    /\ t.pc = "wait"
    /\ \E e \in incoming :
        /\ e.sid = s /\ e.queue # 0
        /\ incoming' = (incoming \ {e}) \cup {[e EXCEPT !.queue = 0]}
        /\ net' = net \cup {Packet("final", t.node, t.peer, e.queue, s, t.ch)}
    /\ p2p' = [p2p EXCEPT ![t.node][t.peer] = s]
    /\ paused' = Paused(s)
    /\ registered' = registered \cup {[sid |-> s, node |-> t.node, peer |-> t.peer, ch |-> t.ch]}
    /\ task' = [task EXCEPT ![s].pc = "resume"]
    /\ UNCHANGED <<calls, up, att, admitted, nextAdmission, tmp, pending, processed, orphans,
                   ready>>

\* The guards of a task are dropped when it ends: IncomingAdmission, IncomingSessionGuard,
\* TemporarySessionGuard.
Unadmitted(s) ==
    [admitted EXCEPT ![task[s].node][task[s].peer] = IF @ = task[s].token THEN 0 ELSE @]
NotIncoming(s) == {e \in incoming : e.sid # s}

\* Fault: the admission is given back only by a handshake that has started.
EndsUnlessRefused(s) ==
    LET t == task[s] IN
    /\ task' = [task EXCEPT ![s] = Ended]
    /\ admitted' = IF t.pc = "admitted" THEN admitted ELSE Unadmitted(s)
    /\ incoming' = NotIncoming(s)
    /\ tmp' = IF t.pc = "admitted" THEN tmp ELSE Released(t.node, t.peer, t.raw)

Ends(s) ==
    LET t == task[s] IN
    /\ task' = [task EXCEPT ![s] = Ended]
    /\ admitted' = Unadmitted(s)
    /\ incoming' = NotIncoming(s)
    /\ tmp' = IF t.pc = "admitted" THEN tmp ELSE Released(t.node, t.peer, t.raw)

\* wait_for_resume returns.
Ready(s) ==
    /\ task[s].pc = "resume" /\ MayForward(s)
    /\ Ends(s)
    /\ ready' = ready \cup {s}
    /\ UNCHANGED <<calls, up, net, att, nextAdmission, pending, processed, p2p, paused, registered,
                   orphans>>

\* No permit, a timeout, an abort, an error; the permit closes a session that was registered.
TaskFails(s) ==
    LET t == task[s] IN
    /\ s \in Serving
    /\ Ends(s)
    /\ p2p' = [p2p EXCEPT ![t.node][t.peer] = IF @ = s THEN 0 ELSE @]
    /\ UNCHANGED <<calls, up, net, att, nextAdmission, pending, processed, paused, history>>

-----------------------------------------------------------------------------
\* close_session, by an application or because the session has expired.
CloseSession(n, p) ==
    /\ p2p[n][p] # 0
    /\ p2p' = [p2p EXCEPT ![n][p] = 0]
    /\ net' = net \cup {Packet("disconnected", n, p, 0, p2p[n][p], 0)}
    /\ UNCHANGED <<calls, up, att, task, tables, tmp, pending, paused, history>>

\* SessionInitializer::shutdown
ClearedIncoming(n) == {e \in incoming : e.node # n}

\* SessionLayer::shutdown: no more packets; the tables of handshakes are cleared while
\* tasks still hold their guards.
Shutdown(n) ==
    /\ n \in up
    /\ up' = up \ {n}
    /\ incoming' = ClearedIncoming(n)
    /\ tmp' = [tmp EXCEPT ![n] = [p \in Nodes |-> NoTemporary]]
    /\ p2p' = [p2p EXCEPT ![n] = [p \in Nodes |-> 0]]
    /\ net' = net \cup {Packet("disconnected", n, p, 0, p2p[n][p], 0) :
                          p \in {q \in Nodes : p2p[n][q] # 0}}
    /\ orphans' = orphans \cup ({tmp[n][p].raw : p \in Nodes} \ {0})
    /\ UNCHANGED <<calls, att, task, admitted, nextAdmission, pending, processed, paused,
                   registered, ready>>

Next ==
    \/ \E a \in Attempts :
        \/ \E rid \in Rids : StartAttempt(a, calls[a][1], calls[a][2], rid)
        \/ \E rid \in Rids : Answer(a, rid)
        \/ Finish(a) \/ AttemptFails(a)
    \/ \E m \in net :
        OnHello(m) \/ OnAnswer(m) \/ OnResponse(m) \/ OnResume(m) \/ OnDisconnected(m)
    \/ \E s \in Sids : NewSession(s) \/ SendChallenge(s) \/ Register(s) \/ Ready(s) \/ TaskFails(s)
    \/ \E n \in Nodes, p \in Nodes : CloseSession(n, p)
    \/ \E n \in Stops : Shutdown(n)

Spec == Init /\ [][Next]_vars

-----------------------------------------------------------------------------
(***************************************************************************)
(* Types.                                                                  *)
(***************************************************************************)
TypeOK ==
    /\ calls \in Mixes /\ up \subseteq Nodes /\ net \subseteq Packets
    /\ admitted \in [Nodes -> [Nodes -> 0..MaxSids]]
    /\ nextAdmission \in [Nodes -> 0..MaxSids]
    /\ incoming \subseteq [sid : Sids, node : Nodes, remote : Nodes, queue : Rids \cup {0}]
    /\ tmp \in [Nodes -> [Nodes -> [raw : Raws \cup {0}, users : 0..Cardinality(Raws)]]]
    /\ pending \in [Raws -> [Rids -> Attempts \cup {0}]]
    /\ \A n \in Nodes : Len(processed[n]) <= DedupSize
    /\ p2p \in [Nodes -> [Nodes -> Sids \cup {0}]]
    /\ paused \subseteq Sids /\ ready \subseteq Sids /\ orphans \subseteq Raws
    /\ \A a \in Attempts :
        att[a].pc \in {"idle", "hello", "answer", "done", "failed"}
    /\ \A s \in Sids :
        task[s].pc \in {"none", "admitted", "init", "wait", "resume", "ended"}

(***************************************************************************)
(* The admissions of a node are those of the handshakes that it serves,    *)
(* one for each remote and never more than the limit: no order of errors,  *)
(* timeouts, aborts and shutdown leaves one behind, which would close the  *)
(* node to that remote, and in the end to everybody.                       *)
(***************************************************************************)
AdmissionsAreHeld ==
    \A n \in Nodes :
        LET served == {s \in Serving : task[s].node = n} IN
        /\ \A p \in Nodes : admitted[n][p] # 0 =>
             \E s \in served : task[s].peer = p /\ task[s].token = admitted[n][p]
        /\ \A s \in served : admitted[n][task[s].peer] = task[s].token
        /\ Cardinality(served) <= MaxIncoming
        /\ \A e \in incoming : e.node = n => e.sid \in served /\ task[e.sid].peer = e.remote

(***************************************************************************)
(* A temporary session lives exactly as long as somebody uses it: its      *)
(* counter is the number of guards that were made for this very session,   *)
(* although shutdown drops sessions and tasks start others with the same   *)
(* address meanwhile; and whoever has a guard finds the session in the     *)
(* table, unless shutdown has dropped it.                                  *)
(***************************************************************************)
LeasesAreCounted ==
    /\ \A n \in Nodes, p \in Nodes :
        LET w == tmp[n][p].raw
            users == {a \in Trying : att[a].node = n /\ att[a].raw = w}
            servers == {s \in Guarded : task[s].node = n /\ task[s].raw = w}
        IN /\ tmp[n][p].users = Cardinality(users) + Cardinality(servers)
           /\ w = 0 <=> tmp[n][p].users = 0
    /\ \A a \in Trying : att[a].raw \in {tmp[att[a].node][att[a].peer].raw} \cup orphans
    /\ \A s \in Guarded : task[s].raw \in {tmp[task[s].node][task[s].peer].raw} \cup orphans

(***************************************************************************)
(* What a handshake takes, the admission of its remote and the lease of a  *)
(* temporary session, it holds until it ends, and gives back then.         *)
(***************************************************************************)
HeldIsReleased == TypeOK /\ AdmissionsAreHeld /\ LeasesAreCounted

(***************************************************************************)
(* A request that waits has its sender in the table, so that a response    *)
(* reaches it, unless a request with the same id has replaced and thereby  *)
(* cancelled it; and the table has no sender that nobody waits for.  The   *)
(* drop of an older request with the same id must not break this.          *)
(***************************************************************************)
PendingIsAwaited ==
    /\ \A a \in Attempts : Waiting(a) /\ ~att[a].cancelled => pending[att[a].raw][att[a].rid] = a
    /\ \A w \in Raws, r \in Rids : pending[w][r] # 0 =>
         LET a == pending[w][r] IN Waiting(a) /\ att[a].raw = w /\ att[a].rid = r

(***************************************************************************)
(* What the initiator registers, the responder has registered before: the  *)
(* session has the same id at both ends, and the responder has solved the  *)
(* challenge of this attempt.  Request ids that coincide, late and         *)
(* repeated responses and sessions that were closed do not change that.    *)
(***************************************************************************)
InitiatorAgrees ==
    \A a \in Attempts : att[a].pc = "done" =>
        [sid |-> att[a].sid, node |-> att[a].peer, peer |-> att[a].node, ch |-> a] \in registered

(***************************************************************************)
(* A session is Ready at the responder only when the initiator has         *)
(* registered it: the responder must not forward packets before, and a     *)
(* late ResumeForwarding of an earlier session with the same address must  *)
(* not release it.                                                         *)
(***************************************************************************)
ResponderAgrees ==
    \A s \in ready : \E a \in Attempts : att[a].pc = "done" /\ att[a].sid = s

=============================================================================
