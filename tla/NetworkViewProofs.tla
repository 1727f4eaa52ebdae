------------------------- MODULE NetworkViewProofs --------------------------
(***************************************************************************)
(* Proofs about NetworkView for any number of tasks, nodes, addresses and  *)
(* calls.                                                                  *)
(***************************************************************************)
EXTENDS NetworkView, TLAPS

USE DEF Goto, Places, Running, Dropping, viewVars, tableVars

\* A task without a call has a well-typed one.
LEMMA NoCallTyped == NoCall \in Calls
  <1> DEFINE n == CHOOSE n \in Nodes : TRUE
             a == CHOOSE a \in Endpoints[n] : TRUE
  <1>1. n \in Nodes
    BY ConstantsAssumption
  <1>2. Endpoints[n] # {} /\ Endpoints[n] \subseteq Addrs
    BY <1>1, ConstantsAssumption, Zenon
  <1>3. a \in Addrs
    BY <1>2
  <1> HIDE DEF n, a
  <1>4. [op |-> "none", node |-> n, seen |-> 0, gen |-> 0, phase |-> "ConnectIntent",
         addr |-> a, left |-> {}, result |-> "err", sess |-> {}, owners |-> {}] \in Calls
    BY <1>1, <1>3 DEF Calls, InitStates
  <1> QED BY <1>4 DEF NoCall, n, a

\* A task goes on to a place of the code.
LEMMA GotoTyped ==
    ASSUME TypeOK, NEW p \in Procs, NEW l \in Places, Goto(p, l)
    PROVE  pc' \in [Procs -> Places]
  <1> HIDE DEF Places
  <1> QED BY DEF TypeOK, TasksTyped

\* Notifications of a state keep the queues of the subscribers well-typed.
LEMMA NotifyTyped ==
    ASSUME TypeOK, NEW n, NEW s \in SessionStates, Notify(n, s)
    PROVE  inbox' \in [Procs -> Seq(SessionStates)]
  <1> HIDE DEF Places
  <1>1. \A q \in Procs : inbox[q] \in Seq(SessionStates) /\ Append(inbox[q], s) \in Seq(SessionStates)
    BY DEF TypeOK, TasksTyped
  <1> QED BY <1>1 DEF Notify

\* NodeView::transition keeps the views, the places and the queues well-typed.
LEMMA TransitionTyped ==
    ASSUME TypeOK, NEW p \in Procs, NEW s \in SessionStates,
           NEW ok \in Places, NEW err \in Places, Transition(p, s, ok, err)
    PROVE  /\ ViewsTyped'
           /\ pc' \in [Procs -> Places]
           /\ inbox' \in [Procs -> Seq(SessionStates)]
  <1>1. call[p].node \in Nodes /\ call[p].sess \in SUBSET DirectSessions
    BY DEF TypeOK, Calls
  <1>2. ViewsTyped'
    BY <1>1 DEF Transition, TypeOK, ViewsTyped
  <1> HIDE DEF Places, Goto
  <1>3. pc' \in [Procs -> Places]
    BY GotoTyped DEF Transition
  <1>4. inbox' \in [Procs -> Seq(SessionStates)]
    BY NotifyTyped DEF Transition, TypeOK, TasksTyped
  <1> QED BY <1>2, <1>3, <1>4

\* remove_generation keeps the views and the queues well-typed.
LEMMA RetireTyped ==
    ASSUME TypeOK, NEW n \in Nodes, Retire(n)
    PROVE  /\ ViewsTyped'
           /\ aborted' \in [Procs -> BOOLEAN]
           /\ inbox' \in [Procs -> Seq(SessionStates)]
  <1>1. Closed \in SessionStates
    BY DEF SessionStates
  <1>2. ViewsTyped'
    BY <1>1 DEF Retire, TypeOK, ViewsTyped
  <1>3. aborted' \in [Procs -> BOOLEAN]
    BY DEF Retire, AbortHandles, TypeOK, TasksTyped
  <1>4. inbox' \in [Procs -> Seq(SessionStates)]
    BY <1>1, NotifyTyped DEF Retire
  <1> QED BY <1>2, <1>3, <1>4

-----------------------------------------------------------------------------
(***************************************************************************)
(* Steps that only move a task on, or change what belongs to it.           *)
(***************************************************************************)
LEMMA LocalStepsTyped ==
    ASSUME TypeOK, NEW p \in Procs,
           \/ Return(p) \/ CheckCached(p) \/ LockRefused(p) \/ RunAbortable(p) \/ Aborted(p)
           \/ HandshakeFails(p) \/ RegisterEndpoints(p) \/ TryReverse(p) \/ RequestReverse(p)
           \/ ReverseTimeout(p) \/ DropHandles(p) \/ CloseCheck(p) \/ AwaitForFinish(p)
    PROVE  TypeOK'
  <1> USE DEF TypeOK, ViewsTyped, TablesTyped, TasksTyped
  <1>1. CASE Return(p)
    BY <1>1, NoCallTyped DEF Return
  <1>2. CASE CheckCached(p)
    BY <1>2 DEF CheckCached
  <1>3. CASE LockRefused(p)
    <2>1. call[p].node \in Nodes /\ call[p] \in Calls
      BY DEF Calls
    <2>2. PICK g \in Nat : call' = [call EXCEPT ![p].gen = g]
      BY <2>1, <1>3, Zenon DEF LockRefused
    <2>3. call' \in [Procs -> Calls]
      BY <2>1, <2>2, Zenon DEF Calls
    <2> QED BY <2>3, <1>3 DEF LockRefused
  <1>4. CASE RunAbortable(p)
    <2>1. call[p].gen \in Nat /\ call[p].node \in Nodes
      BY DEF Calls
    <2>2. handles' \in [Nodes -> SUBSET (Procs \X Nat)]
      <3> DEFINE n == call[p].node
      <3>1. PICK h \in {handles[n], handles[n] \cup {<<p, call[p].gen>>}} :
              handles' = [handles EXCEPT ![n] = h]
        BY <1>4, Zenon DEF RunAbortable
      <3>2. h \in SUBSET (Procs \X Nat)
        BY <2>1
      <3> QED BY <3>1, <3>2, Zenon
    <2>3. aborted' \in [Procs -> BOOLEAN] /\ pc' \in [Procs -> Places]
      BY <1>4 DEF RunAbortable
    <2> QED BY <2>2, <2>3, <1>4 DEF RunAbortable
  <1>5. CASE Aborted(p)
    BY <1>5 DEF Aborted
  <1>6. CASE HandshakeFails(p)
    BY <1>6 DEF HandshakeFails, HandshakeError
  <1>7. CASE RegisterEndpoints(p)
    BY <1>7 DEF RegisterEndpoints
  <1>8. CASE TryReverse(p)
    BY <1>8 DEF TryReverse
  <1>9. CASE RequestReverse(p)
    BY <1>9 DEF RequestReverse
  <1>10. CASE ReverseTimeout(p)
    BY <1>10 DEF ReverseTimeout
  <1>11. CASE DropHandles(p)
    BY <1>11, Zenon DEF DropHandles
  <1>12. CASE CloseCheck(p)
    BY <1>12 DEF CloseCheck, AfterClose
  <1>13. CASE AwaitForFinish(p)
    <2>1. inbox' \in [Procs -> Seq(SessionStates)]
      <3>1. CASE inbox' = inbox
        BY <3>1
      <3>2. CASE inbox[p] # <<>> /\ inbox' = [inbox EXCEPT ![p] = Tail(@)]
        <4>1. Tail(inbox[p]) \in Seq(SessionStates)
          BY <3>2
        <4> QED BY <3>2, <4>1
      <3> QED BY <3>1, <3>2, <1>13 DEF AwaitForFinish
    <2>2. pc' \in [Procs -> Places]
      BY <1>13, ZenonT(40) DEF AwaitForFinish, Finished
    <2> QED BY <2>1, <2>2, <1>13 DEF AwaitForFinish
  <1> QED BY <1>1, <1>2, <1>3, <1>4, <1>5, <1>6, <1>7, <1>8, <1>9, <1>10, <1>11, <1>12, <1>13, ZenonT(40)

(***************************************************************************)
(* Steps that ask for a transition of the state.                           *)
(***************************************************************************)
LEMMA TransitionStepsTyped ==
    ASSUME TypeOK, NEW p \in Procs,
           \/ HandshakeStep(p) \/ RestartAddress(p) \/ RestartAfterDirect(p) \/ ReverseAwaiting(p)
           \/ RestartAfterReverse(p) \/ TryRelayed(p) \/ RelayReady(p) \/ DropFailed(p)
           \/ DropMove(p)
    PROVE  TypeOK'
  <1> DEFINE Rest == UNCHANGED <<tableVars, aborted, budget>> /\ call' \in [Procs -> Calls]
  <1>0. ASSUME NEW s \in SessionStates, NEW ok \in Places, NEW err \in Places,
               Transition(p, s, ok, err), Rest
        PROVE  TypeOK'
    BY <1>0, TransitionTyped, Zenon DEF TypeOK, TablesTyped, TasksTyped
  <1>1. CASE HandshakeStep(p)
    <2>1. PICK i \in InitStates :
            /\ Transition(p, HandshakeState(p, i),
                          CASE i = "ChallengeVerified" -> "register"
                            [] i = "Ready" -> IF call[p].op = "server" THEN "endpoints" ELSE "ok"
                            [] OTHER -> "init",
                          HandshakeError(p))
            /\ call' = [call EXCEPT ![p].phase = i]
            /\ UNCHANGED <<tableVars, aborted, budget>>
      BY <1>1, Zenon DEF HandshakeStep
    <2>2. HandshakeState(p, i) \in SessionStates
      BY DEF HandshakeState, IncomingTarget, SessionStates, ReverseStates, Reverse, Incoming, Outgoing
    <2>3. call' \in [Procs -> Calls]
      BY <2>1 DEF TypeOK, Calls
    <2>4. HandshakeError(p) \in Places
      BY DEF HandshakeError
    <2> QED BY <2>1, <2>2, <2>3, <2>4, <1>0, Zenon
  <1>2. CASE RestartAddress(p)
    <2>1. call' \in [Procs -> Calls]
      <3>1. call[p].left \subseteq Addrs
        BY DEF TypeOK, Calls
      <3>2. ASSUME NEW a \in call[p].left,
                   call' = [call EXCEPT ![p].addr = a, ![p].left = @ \ {a},
                                        ![p].phase = "ConnectIntent"]
            PROVE  call' \in [Procs -> Calls]
        BY <3>1, <3>2, SMTT(30) DEF TypeOK, Calls, InitStates
      <3> QED BY <1>2, <3>2, Zenon DEF RestartAddress, TypeOK
    <2> QED BY <2>1, <1>2, <1>0, ZenonT(40) DEF RestartAddress, SessionStates
  <1>3. CASE RestartAfterDirect(p)
    BY <1>3, <1>0, ZenonT(40) DEF RestartAfterDirect, SessionStates, TypeOK
  <1>4. CASE ReverseAwaiting(p)
    BY <1>4, <1>0, ZenonT(40) DEF ReverseAwaiting, SessionStates, ReverseStates, Reverse, TypeOK
  <1>5. CASE RestartAfterReverse(p)
    BY <1>5, <1>0, ZenonT(40) DEF RestartAfterReverse, SessionStates, TypeOK
  <1>6. CASE TryRelayed(p)
    BY <1>6, <1>0, ZenonT(40) DEF TryRelayed, SessionStates, RelayedStates, Relayed, TypeOK
  <1>7. CASE RelayReady(p)
    BY <1>7, <1>0, ZenonT(40) DEF RelayReady, SessionStates, RelayedStates, Relayed, TypeOK
  <1>8. CASE DropFailed(p)
    BY <1>8, <1>0, ZenonT(40) DEF DropFailed, SessionStates, TypeOK
  <1>9. CASE DropMove(p)
    <2>1. FinalState(p) \in SessionStates
      BY DEF FinalState, SessionStates, ReverseStates, Reverse
    <2> QED BY <2>1, <1>9, <1>0, Zenon DEF DropMove, TypeOK
  <1> QED BY <1>1, <1>2, <1>3, <1>4, <1>5, <1>6, <1>7, <1>8, <1>9

(***************************************************************************)
(* Calls that begin.                                                       *)
(***************************************************************************)
LEMMA EnvironmentTyped ==
    ASSUME TypeOK, NEW p \in Procs, Environment(p)
    PROVE  TypeOK'
  <1>0. ASSUME NEW o \in Operations, NEW l \in Places, Start(p, o, l),
               NEW c \in Calls, call' = [call EXCEPT ![p] = c]
        PROVE  TypeOK'
    BY <1>0 DEF Start, TypeOK, ViewsTyped, TablesTyped, TasksTyped
  <1>1. ASSUME NEW n \in Nodes, Session(p, n) \/ OnReverseConnection(p, n)
        PROVE  TypeOK'
    BY <1>0, <1>1, NoCallTyped, ZenonT(40) DEF Session, OnReverseConnection, Calls, Operations
  <1>2. ASSUME NEW n \in Nodes, Disconnect(p, n)
        PROVE  TypeOK'
    <2>1. epoch[n] \in Nat
      BY DEF TypeOK, ViewsTyped
    <2> QED BY <2>1, <1>0, <1>2, NoCallTyped, Zenon DEF Disconnect, Calls, Operations
  <1>3. ASSUME NEW n \in Nodes, NEW a \in Endpoints[n], DispatchSession(p, n, a)
        PROVE  TypeOK'
    BY <1>0, <1>3, NoCallTyped, ZenonT(40) DEF DispatchSession, Calls, Operations, Addrs
  <1>4. ASSUME Relay \in Nodes, NEW a \in Addrs, ServerSession(p, a)
        PROVE  TypeOK'
    <2>1. {s \in p2p : s.addr = a} \in SUBSET DirectSessions
      BY ZenonT(40) DEF TypeOK, TablesTyped
    <2>2. [NoCall EXCEPT !.op = "server", !.node = Relay, !.addr = a,
                         !.sess = {s \in p2p : s.addr = a}] \in Calls
      BY <2>1, <1>4, NoCallTyped, ZenonT(40) DEF Calls, Operations
    <2> QED BY <2>2, <1>0, <1>4, Zenon DEF ServerSession, Operations
  <1>5. ASSUME NEW s \in p2p, CloseSession(p, s)
        PROVE  TypeOK'
    <2>1. s \in DirectSessions /\ s.owner \in Nodes
      BY DEF TypeOK, TablesTyped, DirectSessions
    <2>2. [NoCall EXCEPT !.op = "close", !.node = s.owner, !.sess = {s}] \in Calls
      BY <2>1, NoCallTyped, Zenon DEF Calls, Operations
    <2> QED BY <2>2, <1>0, <1>5, Zenon DEF CloseSession, Operations
  <1>6. ASSUME NEW n \in Nodes, AwaitConnected(p, n)
        PROVE  TypeOK'
    <2>1. view[n] \in Nat /\ epoch[n] \in Nat
      BY DEF TypeOK, ViewsTyped
    <2>2. [NoCall EXCEPT !.op = "session", !.node = n, !.seen = view[n], !.gen = epoch[n]] \in Calls
      BY <2>1, NoCallTyped, Zenon DEF Calls, Operations
    <2> QED BY <2>2, <1>0, <1>6, Zenon DEF AwaitConnected, Operations
  <1> QED BY <1>1, <1>2, <1>3, <1>4, <1>5, <1>6 DEF Environment

(***************************************************************************)
(* Steps that take a permit, follow a connection method or register.       *)
(***************************************************************************)
LEMMA ConnectStepsTyped ==
    ASSUME TypeOK, NEW p \in Procs,
           \/ Guard(p) \/ LockSession(p) \/ RegisterSession(p) \/ TryDirect(p) \/ AwaitState(p)
           \/ AwaitNext(p) \/ RelayServer(p) \/ RegisterRouting(p) \/ DropPermit(p)
    PROVE  TypeOK'
  <1>0. /\ call[p].node \in Nodes /\ call[p].gen \in Nat /\ call[p].addr \in Addrs
        /\ call[p].sess \in SUBSET DirectSessions
    BY DEF TypeOK, Calls
  <1>1. CASE Guard(p)
    <2>1. ViewsTyped' /\ view'[call[p].node] \in Nat
      BY <1>0, <1>1 DEF Guard, TypeOK, ViewsTyped
    <2>2. call' \in [Procs -> Calls]
      BY <2>1, <1>1 DEF Guard, TypeOK, Calls
    <2> QED BY <2>1, <2>2, <1>1 DEF Guard, TypeOK, TablesTyped, TasksTyped
  <1>2. CASE LockSession(p)
    <2>1. LockTarget(p) \in SessionStates
      BY DEF LockTarget, IncomingTarget, SessionStates, ReverseStates, InitStates, Reverse, Incoming,
             Outgoing
    <2>2. ViewsTyped' /\ epoch'[call[p].node] \in Nat
      BY <2>1, <1>0, <1>2 DEF LockSession, TypeOK, ViewsTyped
    <2>3. call' \in [Procs -> Calls]
      <3>1. PICK o \in {call[p].op, "reverse"}, g \in Nat :
              call' = [call EXCEPT ![p].gen = g, ![p].op = o]
        BY <2>2, <1>2, Zenon DEF LockSession
      <3>2. o \in Operations \cup {"none", "reverse"}
        BY DEF TypeOK, Calls
      <3>3. call[p] \in Calls
        BY DEF TypeOK
      <3>4. [call[p] EXCEPT !.gen = g, !.op = o] \in Calls
        BY <3>2, <3>3, Zenon DEF Calls
      <3>5. call' = [call EXCEPT ![p] = [call[p] EXCEPT !.gen = g, !.op = o]]
        BY <3>1, Zenon
      <3> QED BY <3>4, <3>5 DEF TypeOK
    <2>4. inbox' \in [Procs -> Seq(SessionStates)]
      BY <2>1, <1>2, NotifyTyped DEF LockSession
    <2> QED BY <2>2, <2>3, <2>4, <1>2 DEF LockSession, TypeOK, TablesTyped, TasksTyped
  <1>3. CASE RegisterSession(p)
    <2> DEFINE s == [owner |-> call[p].node, gen |-> call[p].gen, by |-> p, addr |-> call[p].addr]
    <2>1. s \in DirectSessions
      BY <1>0 DEF DirectSessions
    <2>2. TablesTyped'
      <3>1. p2p' \subseteq DirectSessions
        BY <2>1, <1>3 DEF RegisterSession, TypeOK, TablesTyped
      <3>2. [node |-> call[p].node, gen |-> s.gen, route |-> s] \in Routings
        BY <2>1, <1>0 DEF Routings
      <3>3. nodes' \subseteq Routings
        BY <3>2, <1>3 DEF RegisterSession, TypeOK, TablesTyped
      <3> QED BY <3>1, <3>3 DEF TablesTyped
    <2>3. call' \in [Procs -> Calls]
      BY <2>1, <1>0, <1>3, SMTT(30) DEF RegisterSession, TypeOK, Calls
    <2> QED BY <2>2, <2>3, <1>3 DEF RegisterSession, HandshakeError, TypeOK, ViewsTyped, TasksTyped
  <1>4. CASE TryDirect(p)
    <2>1. Endpoints[call[p].node] \subseteq Addrs
      BY <1>0 DEF Addrs
    <2>2. call' \in [Procs -> Calls]
      <3>1. ASSUME NEW a \in Endpoints[call[p].node],
                   call' = [call EXCEPT ![p].addr = a, ![p].left = Endpoints[call[p].node] \ {a}]
            PROVE  call' \in [Procs -> Calls]
        <4>1. a \in Addrs /\ Endpoints[call[p].node] \ {a} \in SUBSET Addrs
          BY <2>1
        <4>2. call[p] \in Calls
          BY DEF TypeOK
        <4> DEFINE E == Endpoints[call[p].node] \ {a}
        <4> HIDE DEF E
        <4>3. [call[p] EXCEPT !.addr = a, !.left = E] \in Calls
          BY <4>1, <4>2, Zenon DEF Calls, E
        <4>4. call' = [call EXCEPT ![p] = [call[p] EXCEPT !.addr = a, !.left = E]]
          BY <3>1, Zenon DEF E
        <4> QED BY <4>3, <4>4 DEF TypeOK
      <3> QED BY <3>1, <1>4, Zenon DEF TryDirect, TypeOK
    <2> QED BY <2>2, <1>4, Zenon DEF TryDirect, TypeOK, ViewsTyped, TablesTyped, TasksTyped
  <1>5. ASSUME NEW s, NEW w \in Places, NEW again \in Places, AwaitLoop(p, s, w, again)
        PROVE  call' \in [Procs -> Calls] /\ pc' \in [Procs -> Places]
    <2>1. held[call[p].node] \in SUBSET DirectSessions
      BY <1>0 DEF TypeOK, ViewsTyped
    <2>2. PICK h \in SUBSET DirectSessions : call' = [call EXCEPT ![p].sess = h]
      BY <2>1, <1>0, <1>5, Zenon DEF AwaitLoop
    <2>3. call' \in [Procs -> Calls]
      BY <2>2 DEF TypeOK, Calls
    <2>4. pc' \in [Procs -> Places]
      BY <1>5 DEF AwaitLoop, TypeOK, TasksTyped
    <2> QED BY <2>3, <2>4
  <1>6. CASE AwaitState(p)
    BY <1>5, <1>6, Zenon DEF AwaitState, TypeOK, ViewsTyped, TablesTyped, TasksTyped
  <1>7. CASE AwaitNext(p)
    <2>1. call' \in [Procs -> Calls] /\ pc' \in [Procs -> Places]
      BY <1>5, <1>7, Zenon DEF AwaitNext, TypeOK, TasksTyped
    <2>2. inbox' \in [Procs -> Seq(SessionStates)]
      BY <1>7 DEF AwaitNext, TypeOK, TasksTyped
    <2> QED BY <2>1, <2>2, <1>7, ZenonT(40) DEF AwaitNext, TypeOK, ViewsTyped, TablesTyped, TasksTyped
  <1>8. CASE RelayServer(p)
    <2>1. call' \in [Procs -> Calls]
      BY <1>8 DEF RelayServer, TypeOK, TablesTyped, Calls
    <2> QED BY <2>1, <1>8, Zenon DEF RelayServer, TypeOK, ViewsTyped, TablesTyped, TasksTyped
  <1>9. CASE RegisterRouting(p)
    <2>1. TablesTyped'
      <3>1. \A s \in call[p].sess : [node |-> call[p].node, gen |-> call[p].gen, route |-> s] \in Routings
        BY <1>0 DEF Routings
      <3> QED BY <3>1, <1>9, ZenonT(40) DEF RegisterRouting, TypeOK, TablesTyped
    <2> QED BY <2>1, <1>9 DEF RegisterRouting, TypeOK, ViewsTyped, TasksTyped
  <1>10. CASE DropPermit(p)
    <2>1. call' \in [Procs -> Calls]
      BY <1>10 DEF DropPermit, TypeOK, Calls
    <2> QED BY <2>1, <1>10 DEF DropPermit, TypeOK, ViewsTyped, TablesTyped, TasksTyped
  <1> QED BY <1>1, <1>2, <1>3, <1>4, <1>6, <1>7, <1>8, <1>9, <1>10

(***************************************************************************)
(* Steps that close a session and retire its generation.                   *)
(***************************************************************************)
LEMMA UnregisterSessionTyped ==
    ASSUME TypeOK, NEW p \in Procs, NEW s \in DirectSessions, UnregisterSession(p, s)
    PROVE  call' \in [Procs -> Calls] /\ OwnersOf(s) \in SUBSET (Nodes \X Nat)
  <1>1. OwnersOf(s) \in SUBSET (Nodes \X Nat)
    BY DEF OwnersOf, TypeOK, TablesTyped, Routings, DirectSessions
  <1>2. call[p] \in Calls
    BY DEF TypeOK
  <1>3. ASSUME NEW o \in SUBSET (Nodes \X Nat)
        PROVE  [call[p] EXCEPT !.sess = {s}, !.owners = o] \in Calls
    BY <1>2, Zenon DEF Calls
  <1>4. call' = [call EXCEPT ![p] = [call[p] EXCEPT !.sess = {s}, !.owners = OwnersOf(s)]]
    BY Zenon DEF UnregisterSession
  <1> QED BY <1>1, <1>3, <1>4, Zenon DEF TypeOK

\* The steps of close and of unregister_generation keep their types.
LEMMA CloseStepsTyped ==
    ASSUME TypeOK, NEW p \in Procs,
           \/ CloseEntry(p) \/ BeginClosing(p) \/ AbortInitialization(p)
           \/ UnregisterGeneration(p) \/ RetireOwner(p)
    PROVE  TypeOK'
  <1>0. /\ call[p] \in Calls /\ call[p].node \in Nodes /\ call[p].gen \in Nat
        /\ call[p].sess \in SUBSET DirectSessions /\ call[p].owners \in SUBSET (Nodes \X Nat)
    BY DEF TypeOK, Calls
  <1>1. CASE CloseEntry(p)
    <2>1. PICK s \in call[p].sess :
            IF view[s.owner] # 0 /\ epoch[s.owner] = s.gen
            THEN call' = [call EXCEPT ![p].gen = s.gen] /\ Goto(p, "begin")
            ELSE UnregisterSession(p, s)
      BY <1>1 DEF CloseEntry
    <2>2. s \in DirectSessions /\ s.gen \in Nat
      BY <1>0 DEF DirectSessions
    <2>3. CASE view[s.owner] # 0 /\ epoch[s.owner] = s.gen
      <3>1. call' \in [Procs -> Calls]
        BY <2>1, <2>2, <2>3 DEF TypeOK, Calls
      <3> QED BY <3>1, <2>1, <2>3, <1>1, Zenon DEF CloseEntry, TypeOK, ViewsTyped, TablesTyped, TasksTyped
    <2>4. CASE ~(view[s.owner] # 0 /\ epoch[s.owner] = s.gen)
      <3>1. call' \in [Procs -> Calls]
        BY <2>1, <2>2, <2>4, UnregisterSessionTyped
      <3> QED BY <3>1, <2>1, <2>4, <1>1, ZenonT(40)
              DEF CloseEntry, UnregisterSession, TypeOK, ViewsTyped, TablesTyped, TasksTyped
    <2> QED BY <2>3, <2>4
  <1>2. CASE BeginClosing(p)
    <2>1. Closing \in SessionStates
      BY DEF SessionStates
    <2>2. ViewsTyped'
      BY <2>1, <1>0, <1>2 DEF BeginClosing, TypeOK, ViewsTyped
    <2>3. inbox' \in [Procs -> Seq(SessionStates)]
      <3>1. CASE inbox' = inbox
        BY <3>1 DEF TypeOK, TasksTyped
      <3>2. CASE Notify(call[p].node, Closing)
        BY <3>2, <2>1, NotifyTyped, ZenonT(40)
      <3> QED BY <3>1, <3>2, <1>2 DEF BeginClosing
    <2> QED BY <2>2, <2>3, <1>2 DEF BeginClosing, TypeOK, TablesTyped, TasksTyped
  <1>3. CASE AbortInitialization(p)
    <2>1. handles' \in [Nodes -> SUBSET (Procs \X Nat)] /\ aborted' \in [Procs -> BOOLEAN]
      <3> HIDE DEF Places, Running, Dropping
      <3>1. CASE IsCurrent(p)
        BY <3>1, <1>0, <1>3, ZenonT(40) DEF AbortInitialization, AbortHandles, TypeOK, ViewsTyped, TasksTyped
      <3>2. CASE ~IsCurrent(p)
        BY <3>2, <1>3, ZenonT(40) DEF AbortInitialization, TypeOK, ViewsTyped, TasksTyped
      <3> QED BY <3>1, <3>2, ZenonT(40)
    <2>2. call' \in [Procs -> Calls]
      BY <1>0, <1>3, UnregisterSessionTyped DEF AbortInitialization, TypeOK
    <2>3. pc' \in [Procs -> Places]
      <3>1. Goto(p, "unregister") \/ Goto(p, "retire")
        BY <1>3, Zenon DEF AbortInitialization, UnregisterSession
      <3> QED BY <3>1, GotoTyped
    <2> QED BY <2>1, <2>2, <2>3, <1>3 DEF AbortInitialization, TypeOK, ViewsTyped, TablesTyped, TasksTyped
  <1>4. CASE UnregisterGeneration(p)
    <2>1. CASE ~IsCurrent(p)
      BY <2>1, <1>4, ZenonT(40) DEF UnregisterGeneration, TypeOK, ViewsTyped, TablesTyped, TasksTyped
    <2>2. CASE IsCurrent(p)
      <3>1. Retire(call[p].node)
        BY <2>2, <1>4 DEF UnregisterGeneration
      <3>2. TablesTyped'
        BY <2>2, <1>4 DEF UnregisterGeneration, TypeOK, TablesTyped
      <3>3. call' \in [Procs -> Calls]
        <4>1. ASSUME NEW s \in p2p, NEW o, o \in SUBSET (Nodes \X Nat),
                     call' = [call EXCEPT ![p].sess = {s}, ![p].owners = o]
              PROVE  call' \in [Procs -> Calls]
          <5>1. [call[p] EXCEPT !.sess = {s}, !.owners = o] \in Calls
            BY <4>1, <1>0, ZenonT(40) DEF Calls, TypeOK, TablesTyped
          <5>2. call' = [call EXCEPT ![p] = [call[p] EXCEPT !.sess = {s}, !.owners = o]]
            BY <4>1, Zenon
          <5> QED BY <5>1, <5>2 DEF TypeOK
        <4>2. ASSUME NEW s \in p2p
              PROVE  {o \in OwnersOf(s) : o[2] # call[p].gen} \cup {<<call[p].node, call[p].gen>>}
                       \in SUBSET (Nodes \X Nat)
          BY <1>0 DEF OwnersOf, TypeOK, TablesTyped, Routings, DirectSessions
        <4>3. CASE call' = call
          BY <4>3 DEF TypeOK
        <4>4. CASE call' # call
          <5>1. PICK s \in p2p :
                  call' = [call EXCEPT ![p].sess = {s},
                             ![p].owners = {o \in OwnersOf(s) : o[2] # call[p].gen}
                                             \cup {<<call[p].node, call[p].gen>>}]
            BY <4>4, <2>2, <1>4, Zenon DEF UnregisterGeneration
          <5> QED BY <5>1, <4>1, <4>2, Zenon
        <4> QED BY <4>3, <4>4
      <3>4. pc' \in [Procs -> Places] /\ budget' = budget
        BY <2>2, <1>4, ZenonT(40) DEF UnregisterGeneration, TypeOK, TasksTyped
      <3> QED BY <3>1, <3>2, <3>3, <3>4, <1>0, RetireTyped DEF TypeOK, TasksTyped
    <2> QED BY <2>1, <2>2
  <1>5. CASE RetireOwner(p)
    <2>1. PICK o \in call[p].owners, s \in call[p].sess :
            LET live == view[o[1]] # 0 /\ epoch[o[1]] = o[2]
                last == call[p].owners = {o}
                rest == IF live THEN {r \in nodes : r.gen # o[2]} ELSE nodes IN
            /\ IF live THEN Retire(o[1]) ELSE UNCHANGED <<viewVars, aborted, inbox>>
            /\ nodes' = IF last THEN {r \in rest : r.route # s} ELSE rest
            /\ p2p' = IF last THEN p2p \ {s} ELSE p2p
            /\ call' = [call EXCEPT ![p].owners = @ \ {o}, ![p].sess = IF last THEN {} ELSE @]
            /\ Goto(p, IF last THEN AfterClose(p) ELSE "retire")
            /\ UNCHANGED budget
      BY <1>5, Zenon DEF RetireOwner
    <2>2. o[1] \in Nodes
      BY <1>0
    <2>3. /\ ViewsTyped' /\ aborted' \in [Procs -> BOOLEAN]
          /\ inbox' \in [Procs -> Seq(SessionStates)]
      <3>1. CASE Retire(o[1])
        BY <3>1, <2>2, RetireTyped
      <3>2. CASE UNCHANGED <<viewVars, aborted, inbox>>
        BY <3>2 DEF TypeOK, ViewsTyped, TasksTyped
      <3> QED BY <2>1, <3>1, <3>2
    <2>4. TablesTyped'
      BY <2>1 DEF TypeOK, TablesTyped
    <2>5. call' \in [Procs -> Calls]
      <3>1. PICK h \in SUBSET DirectSessions :
              call' = [call EXCEPT ![p].owners = @ \ {o}, ![p].sess = h]
        BY <2>1, <1>0, Zenon
      <3> DEFINE E == call[p].owners \ {o}
      <3>2. E \in SUBSET (Nodes \X Nat)
        BY <1>0
      <3>3. call' = [call EXCEPT ![p] = [call[p] EXCEPT !.owners = E, !.sess = h]]
        BY <3>1, Zenon
      <3> HIDE DEF E
      <3>4. [call[p] EXCEPT !.owners = E, !.sess = h] \in Calls
        BY <3>2, <1>0, Zenon DEF Calls
      <3> QED BY <3>3, <3>4 DEF TypeOK
    <2>6. pc' \in [Procs -> Places] /\ budget' = budget
      BY <2>1 DEF AfterClose, TypeOK, TasksTyped
    <2> QED BY <2>3, <2>4, <2>5, <2>6 DEF TypeOK, TasksTyped
  <1> QED BY <1>1, <1>2, <1>3, <1>4, <1>5

\* Every step keeps the types.
LEMMA NextTyped ==
    ASSUME TypeOK, [Next]_vars
    PROVE  TypeOK'
  <1>1. ASSUME NEW p \in Procs, Step(p)
        PROVE  TypeOK'
    BY <1>1, LocalStepsTyped, TransitionStepsTyped, ConnectStepsTyped, CloseStepsTyped DEF Step
  <1>2. ASSUME NEW p \in Procs, Environment(p)
        PROVE  TypeOK'
    BY <1>2, EnvironmentTyped
  <1>3. ASSUME NEW n \in Nodes, AbortInitializations(n)
        PROVE  TypeOK'
    <2>1. ViewsTyped' /\ TablesTyped'
      BY <1>3, ZenonT(40) DEF AbortInitializations, TypeOK, ViewsTyped, TablesTyped
    <2>2. aborted' \in [Procs -> BOOLEAN]
      BY <1>3 DEF AbortInitializations, AbortHandles, TypeOK, TasksTyped
    <2>3. budget' \in [Operations -> Nat]
      BY <1>3 DEF AbortInitializations, TypeOK, TasksTyped, Operations
    <2>4. UNCHANGED <<pc, call, inbox>>
      BY <1>3 DEF AbortInitializations
    <2> QED BY <2>1, <2>2, <2>3, <2>4 DEF TypeOK, TasksTyped
  <1>4. CASE UNCHANGED vars
    BY <1>4 DEF vars, TypeOK, ViewsTyped, TablesTyped, TasksTyped
  <1> QED BY <1>1, <1>2, <1>3, <1>4 DEF Next, Idle

(***************************************************************************)
(* The types of the state hold in every behaviour of the session core.     *)
(***************************************************************************)
THEOREM TypeCorrect == Spec => []TypeOK
  <1>1. Init => TypeOK
    BY NoCallTyped, ConstantsAssumption
       DEF Init, TypeOK, ViewsTyped, TablesTyped, TasksTyped, SessionStates
  <1> QED BY <1>1, NextTyped, PTL DEF Spec

-----------------------------------------------------------------------------
(***************************************************************************)
(* What a step can do to the views: nothing, or one of five things.        *)
(***************************************************************************)
Advances ==
    SessionStates \ {Outgoing("ConnectIntent"), Incoming("ConnectIntent"), Closing, Closed}

ViewsKept == UNCHANGED <<nextGen, view, epoch, state>>

Advance(p) ==
    \E s \in Advances, ok \in Places, err \in Places : Transition(p, s, ok, err)

ViewStep(p) == Guard(p) \/ LockSession(p) \/ BeginClosing(p) \/ Advance(p)

\* The states that a handshake goes through are those of an attempt that advances.
LEMMA HandshakeAdvances ==
    ASSUME NEW p \in Procs, NEW i \in InitStates, NEW j, <<j, i>> \in InitAllowed
    PROVE  HandshakeState(p, i) \in Advances
  <1>1. i # "ConnectIntent"
    BY ZenonT(40) DEF InitAllowed
  <1> QED BY <1>1, Zenon DEF HandshakeState, IncomingTarget, Advances, SessionStates, ReverseStates,
                Reverse, Incoming, Outgoing, Closing, Closed

\* Whoever holds a permit moves the view of its node by an allowed transition only.
LEMMA TransitionStepsAdvance ==
    ASSUME NEW p \in Procs,
           \/ HandshakeStep(p) \/ RestartAddress(p) \/ RestartAfterDirect(p) \/ ReverseAwaiting(p)
           \/ RestartAfterReverse(p) \/ TryRelayed(p) \/ RelayReady(p) \/ DropFailed(p)
           \/ DropMove(p)
    PROVE  Advance(p)
  <1> USE DEF Advance
  <1>0. /\ RestartConnect \in Advances /\ Reverse("Awaiting") \in Advances
        /\ Relayed("Initializing") \in Advances /\ Relayed("Ready") \in Advances
        /\ FailedEstablish \in Advances /\ FinalState(p) \in Advances
    BY Zenon DEF Advances, SessionStates, ReverseStates, RelayedStates, Reverse, Relayed, Outgoing, Incoming,
           FinalState, RestartConnect, FailedEstablish, Established, Closing, Closed
  <1>1. CASE HandshakeStep(p)
    <2>1. PICK i \in InitStates :
            /\ <<call[p].phase, i>> \in InitAllowed
            /\ Transition(p, HandshakeState(p, i),
                          CASE i = "ChallengeVerified" -> "register"
                            [] i = "Ready" -> IF call[p].op = "server" THEN "endpoints" ELSE "ok"
                            [] OTHER -> "init",
                          HandshakeError(p))
      BY <1>1 DEF HandshakeStep
    <2>2. HandshakeState(p, i) \in Advances
      BY <2>1, HandshakeAdvances
    <2>3. HandshakeError(p) \in Places
      BY ZenonT(40) DEF HandshakeError
    <2> QED BY <2>1, <2>2, <2>3
  <1>2. CASE RestartAddress(p)
    BY <1>0, <1>2, ZenonT(40) DEF RestartAddress
  <1>3. CASE RestartAfterDirect(p)
    BY <1>0, <1>3 DEF RestartAfterDirect
  <1>4. CASE ReverseAwaiting(p)
    BY <1>0, <1>4 DEF ReverseAwaiting
  <1>5. CASE RestartAfterReverse(p)
    BY <1>0, <1>5 DEF RestartAfterReverse
  <1>6. CASE TryRelayed(p)
    BY <1>0, <1>6 DEF TryRelayed
  <1>7. CASE RelayReady(p)
    BY <1>0, <1>7 DEF RelayReady
  <1>8. CASE DropFailed(p)
    BY <1>0, <1>8, ZenonT(40) DEF DropFailed
  <1>9. CASE DropMove(p)
    BY <1>0, <1>9, ZenonT(40) DEF DropMove
  <1> QED BY <1>1, <1>2, <1>3, <1>4, <1>5, <1>6, <1>7, <1>8, <1>9, ZenonT(40)

\* A step leaves the views alone, is one on the view of a task, or removes the view of a node.
LEMMA ViewSteps ==
    ASSUME TypeOK, [Next]_vars
    PROVE  ViewsKept \/ (\E p \in Procs : ViewStep(p)) \/ (\E n \in Nodes : Retire(n))
  <1> USE DEF ViewsKept
  <1>1. ASSUME NEW p \in Procs, Step(p)
        PROVE  ViewsKept \/ ViewStep(p) \/ (\E n \in Nodes : Retire(n))
    <2>1. CASE \/ Return(p) \/ CheckCached(p) \/ LockRefused(p) \/ RunAbortable(p) \/ Aborted(p)
               \/ HandshakeFails(p) \/ RegisterEndpoints(p) \/ TryReverse(p) \/ RequestReverse(p)
               \/ ReverseTimeout(p) \/ DropHandles(p) \/ CloseCheck(p) \/ AwaitForFinish(p)
      BY <2>1, ZenonT(40) DEF Return, CheckCached, LockRefused, RunAbortable, Aborted, HandshakeFails,
                  RegisterEndpoints, TryReverse, RequestReverse, ReverseTimeout, DropHandles, CloseCheck,
                  AwaitForFinish
    <2>2. CASE \/ RegisterSession(p) \/ TryDirect(p) \/ AwaitState(p) \/ AwaitNext(p)
               \/ RelayServer(p) \/ RegisterRouting(p) \/ DropPermit(p) \/ CloseEntry(p)
               \/ AbortInitialization(p)
      BY <2>2 DEF RegisterSession, TryDirect, AwaitState, AwaitNext, RelayServer, RegisterRouting,
                  DropPermit, CloseEntry, AbortInitialization
    <2>3. CASE Guard(p) \/ LockSession(p) \/ BeginClosing(p)
      BY <2>3 DEF ViewStep
    <2>4. CASE UnregisterGeneration(p)
      BY <2>4 DEF UnregisterGeneration, TypeOK, Calls
    <2>5. CASE RetireOwner(p)
      <3>1. ASSUME NEW o \in call[p].owners PROVE o[1] \in Nodes
        BY SMTT(30) DEF TypeOK, Calls
      <3> QED BY <2>5, <3>1 DEF RetireOwner
    <2> QED BY <1>1, <2>1, <2>2, <2>3, <2>4, <2>5, TransitionStepsAdvance, ZenonT(40) DEF Step, ViewStep
  <1>2. ASSUME NEW p \in Procs, Environment(p)
        PROVE  ViewsKept
    BY <1>2, ZenonT(40) DEF Environment, Session, AwaitConnected, OnReverseConnection, Disconnect, DispatchSession,
                ServerSession, CloseSession, Start
  <1>3. ASSUME NEW n \in Nodes, AbortInitializations(n)
        PROVE  ViewsKept
    BY <1>3 DEF AbortInitializations
  <1>4. CASE UNCHANGED vars
    BY <1>4 DEF vars
  <1> QED BY <1>1, <1>2, <1>3, <1>4 DEF Next, Idle

-----------------------------------------------------------------------------
(***************************************************************************)
(* A permit is only taken by lock_session; every other step keeps the      *)
(* generations of the permits there are.                                   *)
(***************************************************************************)
PermitsKept ==
    \A q \in Procs : HoldsPermit(q)' =>
        /\ HoldsPermit(q)
        /\ call'[q].gen = call[q].gen
        /\ call'[q].op = call[q].op

OriginOfGenerations ==
    \A q \in Procs : call'[q].gen \in {0, call[q].gen} \cup {epoch'[n] : n \in Nodes}

(***************************************************************************)
(* The effect of a step on one task p, in the terms of the invariant.      *)
(***************************************************************************)
TaskStep(p) ==
    /\ \A q \in Procs \ {p} : pc'[q] = pc[q] /\ call'[q] = call[q]
    /\ pc'[p] \in {"permit"} \cup Running \cup Dropping
         => \/ call'[p].op \notin PermitOps \/ call'[p].seen = 0
            \/ /\ pc[p] \in {"permit"} \cup Running \cup Dropping
               /\ call'[p].gen = call[p].gen /\ call'[p].op = call[p].op
               /\ call'[p].seen = call[p].seen
    /\ pc'[p] \in {"cached", "closeCheck", "closeEntry", "begin"} /\ call'[p].op \in PermitOps
         => call'[p].seen = 0
    /\ pc'[p] = "lock" => call'[p].seen # 0
    /\ call'[p].gen \in {0, call[p].gen} \cup {epoch'[n] : n \in Nodes}

\* A step of one task keeps the generations of the permits that others hold.
LEMMA TaskStepSuffices ==
    ASSUME TypeOK, SeenViews, NEW p \in Procs, TaskStep(p)
    PROVE  PermitsKept /\ SeenViews' /\ OriginOfGenerations
  <1>1. PermitsKept
    <2>1. ASSUME NEW q \in Procs \ {p}
          PROVE  /\ HoldsPermit(q)' => HoldsPermit(q)
                 /\ call'[q].gen = call[q].gen /\ call'[q].op = call[q].op
      <3>1. pc'[q] = pc[q] /\ call'[q] = call[q]
        BY <2>1 DEF TaskStep
      <3> HIDE DEF Running, Dropping
      <3> QED BY <3>1 DEF HoldsPermit
    <2>2. HoldsPermit(p)' => /\ HoldsPermit(p)
                             /\ call'[p].gen = call[p].gen /\ call'[p].op = call[p].op
      <3> HIDE DEF Running, Dropping
      <3> QED BY DEF TaskStep, HoldsPermit
    <2> QED BY <2>1, <2>2 DEF PermitsKept
  <1>2. SeenViews'
    BY DEF TaskStep, SeenViews
  <1>3. OriginOfGenerations
    BY ZenonT(40) DEF TaskStep, OriginOfGenerations
  <1> QED BY <1>1, <1>2, <1>3, ZenonT(40)

\* Steps that change nothing of the views are steps of their task alone.
LEMMA LocalTaskSteps ==
    ASSUME TypeOK, SeenViews, NEW p \in Procs,
           \/ Return(p) \/ CheckCached(p) \/ LockRefused(p) \/ RunAbortable(p) \/ Aborted(p)
           \/ HandshakeFails(p) \/ RegisterEndpoints(p) \/ TryReverse(p) \/ RequestReverse(p)
           \/ ReverseTimeout(p) \/ DropHandles(p) \/ CloseCheck(p) \/ AwaitForFinish(p)
    PROVE  TaskStep(p)
  <1> USE DEF TaskStep, TypeOK, TasksTyped, Calls
  <1>1. CASE Return(p)
    BY <1>1, ZenonT(40) DEF Return, NoCall, PermitOps
  <1>2. CASE CheckCached(p)
    BY <1>2, ZenonT(40) DEF CheckCached, SeenViews
  <1>3. CASE LockRefused(p)
    <2>1. PICK g \in {0, epoch'[call[p].node]} : call' = [call EXCEPT ![p].gen = g]
      BY <1>3, Zenon DEF LockRefused
    <2>2. /\ \A q \in Procs \ {p} : call'[q] = call[q]
          /\ call'[p].gen = g
      BY <2>1
    <2>3. pc'[p] \in {"wait0", "return"} /\ \A q \in Procs \ {p} : pc'[q] = pc[q]
      BY <1>3 DEF LockRefused
    <2> QED BY <2>2, <2>3, ZenonT(40)
  <1>4. CASE RunAbortable(p)
    BY <1>4, ZenonT(40) DEF RunAbortable
  <1>5. CASE Aborted(p)
    BY <1>5, ZenonT(40) DEF Aborted
  <1>6. CASE HandshakeFails(p)
    BY <1>6, ZenonT(40) DEF HandshakeFails, HandshakeError, Runs
  <1>7. CASE RegisterEndpoints(p)
    BY <1>7, ZenonT(40) DEF RegisterEndpoints, Runs
  <1>8. CASE TryReverse(p)
    BY <1>8, ZenonT(40) DEF TryReverse, Runs
  <1>9. CASE RequestReverse(p)
    BY <1>9, ZenonT(40) DEF RequestReverse, Runs
  <1>10. CASE ReverseTimeout(p)
    BY <1>10, ZenonT(40) DEF ReverseTimeout, Runs
  <1>11. CASE DropHandles(p)
    BY <1>11, ZenonT(40) DEF DropHandles
  <1>12. CASE CloseCheck(p)
    BY <1>12, ZenonT(40) DEF CloseCheck, AfterClose, SeenViews
  <1>13. CASE AwaitForFinish(p)
    <2>1. pc'[p] \in {"wait", "return"} /\ \A q \in Procs \ {p} : pc'[q] = pc[q]
      BY <1>13 DEF AwaitForFinish, Finished
    <2> QED BY <2>1, <1>13, ZenonT(40) DEF AwaitForFinish
  <1> QED BY <1>1, <1>2, <1>3, <1>4, <1>5, <1>6, <1>7, <1>8, <1>9, <1>10, <1>11, <1>12, <1>13, ZenonT(40)

CallKept(p) ==
    /\ \A q \in Procs \ {p} : call'[q] = call[q]
    /\ call'[p].gen = call[p].gen /\ call'[p].op = call[p].op /\ call'[p].seen = call[p].seen

\* Changes of addresses, sessions and owners leave the node and the generation of a call alone.
LEMMA UpdateKeepsCall ==
    ASSUME TypeOK, NEW p \in Procs, NEW x, NEW y,
           \/ call' = call
           \/ call' = [call EXCEPT ![p].sess = x]
           \/ call' = [call EXCEPT ![p].sess = x, ![p].owners = y]
           \/ call' = [call EXCEPT ![p].owners = y, ![p].sess = x]
           \/ call' = [call EXCEPT ![p].addr = x, ![p].left = y]
    PROVE  CallKept(p)
  <1>1. call \in [Procs -> Calls]
    BY DEF TypeOK
  <1>2. CASE call' = [call EXCEPT ![p].sess = x, ![p].owners = y]
    BY <1>1, <1>2 DEF CallKept, Calls
  <1>3. CASE call' = [call EXCEPT ![p].owners = y, ![p].sess = x]
    BY <1>1, <1>3 DEF CallKept, Calls
  <1>4. CASE call' = [call EXCEPT ![p].addr = x, ![p].left = y]
    BY <1>1, <1>4 DEF CallKept, Calls
  <1>5. CASE call' = call
    BY <1>5 DEF CallKept
  <1>6. CASE call' = [call EXCEPT ![p].sess = x]
    BY <1>1, <1>6, ZenonT(40) DEF CallKept, Calls
  <1> QED BY <1>2, <1>3, <1>4, <1>5, <1>6

\* So does waiting for a state.
LEMMA AwaitKeepsCall ==
    ASSUME TypeOK, NEW p \in Procs, NEW s, NEW w, NEW again, AwaitLoop(p, s, w, again)
    PROVE  CallKept(p)
  <1>1. call' = [call EXCEPT ![p].sess = IF pc'[p] = "ok" THEN held[call[p].node] ELSE call[p].sess]
    BY DEF AwaitLoop
  <1> QED BY <1>1, UpdateKeepsCall, ZenonT(40)

\* A task that keeps its call, and its permit if it has one, takes a step of its own.
LEMMA KeptTaskStep ==
    ASSUME TypeOK, NEW p \in Procs, CallKept(p),
           NEW l \in Running \cup Dropping \cup {"return", "retire", "guard"}, Goto(p, l),
           pc[p] \in Running \cup Dropping \cup {"permit"} \/ l \in {"return", "retire", "guard"}
    PROVE  TaskStep(p)
  BY DEF CallKept, TaskStep, TypeOK, TasksTyped

\* Transitions of the view are steps of the task that makes them.
LEMMA TransitionTaskSteps ==
    ASSUME TypeOK, NEW p \in Procs,
           \/ HandshakeStep(p) \/ RestartAddress(p) \/ RestartAfterDirect(p) \/ ReverseAwaiting(p)
           \/ RestartAfterReverse(p) \/ TryRelayed(p) \/ RelayReady(p) \/ DropFailed(p)
           \/ DropMove(p)
    PROVE  TaskStep(p)
  <1> DEFINE Target == {"return"} \cup Running \cup Dropping
             Same == CallKept(p)
  <1>0. ASSUME pc[p] \in Running \cup Dropping, Same,
               NEW s, NEW ok \in Target, NEW err \in Target, Transition(p, s, ok, err)
        PROVE  TaskStep(p)
    BY <1>0, KeptTaskStep, ZenonT(40) DEF Transition
  <1>1. CASE HandshakeStep(p)
    <2>1. PICK i \in InitStates :
            /\ Transition(p, HandshakeState(p, i),
                          CASE i = "ChallengeVerified" -> "register"
                            [] i = "Ready" -> IF call[p].op = "server" THEN "endpoints" ELSE "ok"
                            [] OTHER -> "init",
                          HandshakeError(p))
            /\ call' = [call EXCEPT ![p].phase = i]
      BY <1>1, Zenon DEF HandshakeStep
    <2>2. Same /\ HandshakeError(p) \in Target
      BY <2>1 DEF CallKept, HandshakeError, TypeOK, Calls
    <2> QED BY <2>1, <2>2, <1>0, <1>1 DEF HandshakeStep, Runs
  <1>2. CASE RestartAddress(p)
    <2>1. Same
      <3>1. ASSUME NEW a, call' = [call EXCEPT ![p].addr = a, ![p].left = @ \ {a},
                                               ![p].phase = "ConnectIntent"]
            PROVE  Same
        BY <3>1 DEF CallKept, TypeOK, Calls
      <3>2. CASE call' = call
        BY <3>2, ZenonT(40) DEF CallKept
      <3> QED BY <1>2, <3>1, <3>2, Zenon DEF RestartAddress
    <2> QED BY <2>1, <1>0, <1>2, ZenonT(40) DEF RestartAddress, Runs
  <1>3. CASE RestartAfterDirect(p)
    BY <1>0, <1>3, ZenonT(40) DEF RestartAfterDirect, CallKept, Runs
  <1>4. CASE ReverseAwaiting(p)
    BY <1>0, <1>4, ZenonT(40) DEF ReverseAwaiting, CallKept, Runs
  <1>5. CASE RestartAfterReverse(p)
    BY <1>0, <1>5, ZenonT(40) DEF RestartAfterReverse, CallKept, Runs
  <1>6. CASE TryRelayed(p)
    BY <1>0, <1>6, ZenonT(40) DEF TryRelayed, CallKept, Runs
  <1>7. CASE RelayReady(p)
    BY <1>0, <1>7, ZenonT(40) DEF RelayReady, CallKept, Runs
  <1>8. CASE DropFailed(p)
    BY <1>0, <1>8, ZenonT(40) DEF DropFailed, CallKept
  <1>9. CASE DropMove(p)
    BY <1>0, <1>9, ZenonT(40) DEF DropMove, CallKept
  <1> QED BY <1>1, <1>2, <1>3, <1>4, <1>5, <1>6, <1>7, <1>8, <1>9

\* So are the steps of an attempt to connect.
LEMMA ConnectTaskSteps ==
    ASSUME TypeOK, NEW p \in Procs,
           \/ Guard(p) \/ RegisterSession(p) \/ TryDirect(p) \/ AwaitState(p) \/ AwaitNext(p)
           \/ RelayServer(p) \/ RegisterRouting(p) \/ DropPermit(p)
    PROVE  TaskStep(p)
  <1> USE DEF TaskStep, TypeOK, TasksTyped, Calls
  <1>1. CASE Guard(p)
    <2>1. view'[call[p].node] # 0
      BY <1>1 DEF Guard, ViewsTyped
    <2>2. call' = [call EXCEPT ![p].seen = view'[call[p].node]] /\ Goto(p, "lock")
      BY <1>1 DEF Guard
    <2> QED BY <2>1, <2>2
  <1>2. CASE RegisterSession(p)
    BY <1>2, ZenonT(40) DEF RegisterSession, HandshakeError, Runs
  <1>3. CASE TryDirect(p)
    <2>1. CallKept(p)
      BY <1>3, UpdateKeepsCall, ZenonT(40) DEF TryDirect
    <2> QED BY <2>1, <1>3, KeptTaskStep, ZenonT(40) DEF TryDirect, Runs
  <1>4. CASE AwaitState(p)
    <2>1. CallKept(p)
      BY <1>4, AwaitKeepsCall, ZenonT(40) DEF AwaitState
    <2>2. PICK l \in Running \cup Dropping : Goto(p, l)
      <3>1. ASSUME NEW w \in {"handshake", "finish"}, NEW s, AwaitLoop(p, s, w, w)
            PROVE  \E l \in Running \cup Dropping : Goto(p, l)
        BY <3>1, ZenonT(40) DEF AwaitLoop
      <3> QED BY <3>1, <1>4, Zenon DEF AwaitState
    <2>3. pc[p] \in Running
      BY <1>4, ZenonT(40) DEF AwaitState, Runs
    <2> QED BY <2>1, <2>2, <2>3, KeptTaskStep, Zenon
  <1>5. CASE AwaitNext(p)
    <2>1. CallKept(p)
      <3>1. CASE call' = call
        BY <3>1, UpdateKeepsCall, ZenonT(40)
      <3> QED BY <1>5, <3>1, AwaitKeepsCall DEF AwaitNext
    <2>2. PICK l \in Running \cup Dropping : Goto(p, l)
      <3>1. ASSUME NEW w \in {"handshake", "finish"}, NEW s, AwaitLoop(p, s, w, w)
            PROVE  \E l \in Running \cup Dropping : Goto(p, l)
        BY <3>1, Zenon DEF AwaitLoop
      <3> QED BY <3>1, <1>5, ZenonT(40) DEF AwaitNext
    <2>3. pc[p] \in Running
      BY <1>5 DEF AwaitNext, Runs
    <2> QED BY <2>1, <2>2, <2>3, KeptTaskStep, Zenon
  <1>6. CASE RelayServer(p)
    BY <1>6, SMTT(30) DEF RelayServer, Runs
  <1>7. CASE RegisterRouting(p)
    BY <1>7, Zenon DEF RegisterRouting, Runs
  <1>8. CASE DropPermit(p)
    BY <1>8 DEF DropPermit
  <1> QED BY <1>1, <1>2, <1>3, <1>4, <1>5, <1>6, <1>7, <1>8, Zenon

\* So are the steps of close and of unregister_generation.
LEMMA CloseTaskSteps ==
    ASSUME TypeOK, SeenViews, NEW p \in Procs,
           \/ CloseEntry(p) \/ BeginClosing(p) \/ AbortInitialization(p)
           \/ UnregisterGeneration(p) \/ RetireOwner(p)
    PROVE  TaskStep(p)
  <1>1. CASE CloseEntry(p)
    <2>1. PICK s \in call[p].sess :
            IF view[s.owner] # 0 /\ epoch[s.owner] = s.gen
            THEN call' = [call EXCEPT ![p].gen = s.gen] /\ Goto(p, "begin")
            ELSE UnregisterSession(p, s)
      BY <1>1 DEF CloseEntry
    <2>2. pc[p] = "closeEntry" /\ epoch' = epoch /\ s.owner \in Nodes
      BY <1>1 DEF CloseEntry, DirectSessions, TypeOK, Calls
    <2>3. CASE view[s.owner] # 0 /\ epoch[s.owner] = s.gen
      <3>1. s.gen \in {epoch'[n] : n \in Nodes}
        BY <2>2, <2>3
      <3>2. call' = [call EXCEPT ![p].gen = s.gen] /\ pc' = [pc EXCEPT ![p] = "begin"]
        BY <2>1, <2>3
      <3>3. call[p].op \in PermitOps => call[p].seen = 0
        BY <2>2 DEF SeenViews
      <3>4. /\ \A q \in Procs \ {p} : pc'[q] = pc[q] /\ call'[q] = call[q]
            /\ pc'[p] = "begin" /\ call'[p] = [call[p] EXCEPT !.gen = s.gen]
        BY <3>2 DEF TypeOK, TasksTyped
      <3>5. call[p] \in Calls
        BY DEF TypeOK
      <3>6. call'[p].gen = s.gen /\ call'[p].op = call[p].op /\ call'[p].seen = call[p].seen
        BY <3>4, <3>5 DEF Calls
      <3> QED BY <3>1, <3>3, <3>4, <3>6 DEF TaskStep
    <2>4. CASE ~(view[s.owner] # 0 /\ epoch[s.owner] = s.gen)
      BY <2>1, <2>2, <2>4, UpdateKeepsCall, KeptTaskStep, Zenon DEF UnregisterSession
    <2> QED BY <2>3, <2>4
  <1>2. CASE BeginClosing(p)
    BY <1>2, Zenon DEF BeginClosing, SeenViews, TaskStep, TypeOK, TasksTyped
  <1>3. CASE AbortInitialization(p)
    <2>1. CallKept(p)
      BY <1>3, UpdateKeepsCall, Zenon DEF AbortInitialization, UnregisterSession
    <2> QED BY <2>1, <1>3, KeptTaskStep, Zenon DEF AbortInitialization, UnregisterSession
  <1>4. CASE UnregisterGeneration(p)
    <2>1. CallKept(p)
      <3>1. ASSUME NEW s,
                   call' = [call EXCEPT ![p].sess = {s},
                              ![p].owners = {o \in OwnersOf(s) : o[2] # call[p].gen}
                                              \cup {<<call[p].node, call[p].gen>>}]
            PROVE  CallKept(p)
        BY <3>1, UpdateKeepsCall, Zenon
      <3>2. CASE call' = call
        BY <3>2, ZenonT(40) DEF CallKept
      <3> QED BY <1>4, <3>1, <3>2, Zenon DEF UnregisterGeneration
    <2> QED BY <2>1, <1>4, KeptTaskStep, Zenon DEF UnregisterGeneration
  <1>5. CASE RetireOwner(p)
    <2>1. CallKept(p)
      <3>1. PICK o \in call[p].owners :
              call' = [call EXCEPT ![p].owners = @ \ {o},
                                   ![p].sess = IF call[p].owners = {o} THEN {} ELSE @]
        BY <1>5, Zenon DEF RetireOwner
      <3>2. call' = [call EXCEPT ![p].owners = call[p].owners \ {o},
                        ![p].sess = IF call[p].owners = {o} THEN {} ELSE call[p].sess]
        BY <3>1, ZenonT(40)
      <3> QED BY <3>2, UpdateKeepsCall, ZenonT(40)
    <2> QED BY <2>1, <1>5, KeptTaskStep, ZenonT(40) DEF RetireOwner, AfterClose
  <1> QED BY <1>1, <1>2, <1>3, <1>4, <1>5

\* So are calls that begin.
LEMMA EnvironmentTaskSteps ==
    ASSUME TypeOK, NEW p \in Procs, Environment(p)
    PROVE  TaskStep(p)
  <1> USE DEF TaskStep, TypeOK, TasksTyped
  <1>0. NoCall \in Calls /\ NoCall.seen = 0 /\ NoCall.gen = 0
    BY NoCallTyped, ZenonT(40) DEF NoCall
  <1>1. ASSUME NEW n \in Nodes, Session(p, n) \/ OnReverseConnection(p, n)
        PROVE  TaskStep(p)
    <2>1. ASSUME NEW o, call' = [call EXCEPT ![p] = [NoCall EXCEPT !.op = o, !.node = n]]
          PROVE  /\ \A q \in Procs \ {p} : call'[q] = call[q]
                 /\ call'[p].gen = 0 /\ call'[p].seen = 0
      BY <1>0, <2>1 DEF Calls
    <2> QED BY <2>1, <1>1, Zenon DEF Session, OnReverseConnection, Start
  <1>2. ASSUME NEW n \in Nodes, Disconnect(p, n)
        PROVE  TaskStep(p)
    BY <1>0, <1>2 DEF Disconnect, Start, Calls
  <1>3. ASSUME NEW n \in Nodes, NEW a \in Endpoints[n], DispatchSession(p, n, a)
        PROVE  TaskStep(p)
    BY <1>0, <1>3 DEF DispatchSession, Start, Calls
  <1>4. ASSUME NEW a \in Addrs, ServerSession(p, a)
        PROVE  TaskStep(p)
    BY <1>0, <1>4 DEF ServerSession, Start, Calls
  <1>5. ASSUME NEW s \in p2p, CloseSession(p, s)
        PROVE  TaskStep(p)
    BY <1>0, <1>5 DEF CloseSession, Start, Calls
  <1>6. ASSUME NEW n \in Nodes, AwaitConnected(p, n)
        PROVE  TaskStep(p)
    BY <1>0, <1>6 DEF AwaitConnected, Start, Calls
  <1> QED BY <1>1, <1>2, <1>3, <1>4, <1>5, <1>6, ZenonT(40) DEF Environment

-----------------------------------------------------------------------------
\* lock_outgoing and lock_incoming give a permit of a generation that nobody else has.
LEMMA LockKeepsPermitsDistinct ==
    ASSUME TypeOK, GenerationInvariant, NEW p \in Procs, LockSession(p)
    PROVE  PermitsDistinct' /\ SeenViews' /\ OriginOfGenerations
  <1> DEFINE n == call[p].node
             reverse == LockTarget(p).kind = "Reverse"
  <1>1. call[p] \in Calls /\ n \in Nodes
    BY ZenonT(40) DEF TypeOK, Calls
  <1>2. PICK g, o : /\ call' = [call EXCEPT ![p].gen = g, ![p].op = o]
                    /\ g = epoch'[n]
                    /\ o = IF reverse THEN "reverse" ELSE call[p].op
                    /\ ~reverse => g = nextGen
    BY <1>1, Zenon DEF LockSession, TypeOK, ViewsTyped
  <1>3. call'[p].gen = g /\ call'[p].op = o /\ \A q \in Procs \ {p} : call'[q] = call[q]
    BY <1>1, <1>2 DEF TypeOK, Calls
  <1>4. pc'[p] = "permit" /\ \A q \in Procs \ {p} : pc'[q] = pc[q]
    BY DEF LockSession, TypeOK, TasksTyped
  <1>5. \A q \in Procs : call[q].gen # nextGen
    BY DEF GenerationInvariant, GenerationsIssued, TypeOK, ViewsTyped, Calls
  <1>6. PermitsDistinct'
    <2>1. ASSUME NEW q \in Procs \ {p}, call'[p].op # "reverse"
          PROVE  call'[p].gen # call'[q].gen
      BY <2>1, <1>2, <1>3, <1>5, ZenonT(40)
    <2>2. ASSUME NEW q \in Procs \ {p}, NEW r \in Procs \ {p},
                 HoldsPermit(q)', HoldsPermit(r)', call'[q].op # "reverse",
                 call'[r].op # "reverse", call'[q].gen = call'[r].gen
          PROVE  q = r
      <3>1. pc'[q] = pc[q] /\ call'[q] = call[q] /\ pc'[r] = pc[r] /\ call'[r] = call[r]
        BY <1>3, <1>4
      <3> HIDE DEF Running, Dropping
      <3>2. HoldsPermit(q) /\ HoldsPermit(r)
        BY <3>1, <2>2 DEF HoldsPermit
      <3> QED BY <3>1, <3>2, <2>2 DEF GenerationInvariant, PermitsDistinct
    <2>3. ASSUME NEW q \in Procs, NEW r \in Procs,
                 HoldsPermit(q)', HoldsPermit(r)', call'[q].op # "reverse",
                 call'[r].op # "reverse", call'[q].gen = call'[r].gen
          PROVE  q = r
      BY <2>1, <2>2, <2>3
    <2> QED BY <2>3 DEF PermitsDistinct
  <1>7. SeenViews'
    BY <1>3, <1>4 DEF GenerationInvariant, SeenViews
  <1>8. OriginOfGenerations
    BY <1>1, <1>2, <1>3, Zenon DEF OriginOfGenerations
  <1> QED BY <1>6, <1>7, <1>8

\* Every step keeps the generations of permits apart, and those who ask have seen a view.
LEMMA TaskSteps ==
    ASSUME TypeOK, GenerationInvariant, [Next]_vars
    PROVE  PermitsDistinct' /\ SeenViews' /\ OriginOfGenerations
  <1>0. SeenViews /\ PermitsDistinct
    BY DEF GenerationInvariant
  <1>1. ASSUME PermitsKept PROVE PermitsDistinct'
    BY <1>0, <1>1 DEF PermitsKept, PermitsDistinct
  <1>2. ASSUME NEW p \in Procs, TaskStep(p)
        PROVE  PermitsDistinct' /\ SeenViews' /\ OriginOfGenerations
    BY <1>0, <1>1, <1>2, TaskStepSuffices, ZenonT(40)
  <1>3. ASSUME NEW p \in Procs, Step(p)
        PROVE  PermitsDistinct' /\ SeenViews' /\ OriginOfGenerations
    BY <1>0, <1>2, <1>3, LockKeepsPermitsDistinct, LocalTaskSteps, TransitionTaskSteps,
       ConnectTaskSteps, CloseTaskSteps DEF Step
  <1>4. ASSUME NEW p \in Procs, Environment(p)
        PROVE  PermitsDistinct' /\ SeenViews' /\ OriginOfGenerations
    BY <1>2, <1>4, EnvironmentTaskSteps, ZenonT(40)
  <1>5. ASSUME pc' = pc, call' = call
        PROVE  PermitsDistinct' /\ SeenViews' /\ OriginOfGenerations
    BY <1>0, <1>5 DEF PermitsDistinct, HoldsPermit, SeenViews, OriginOfGenerations
  <1>6. ASSUME NEW n \in Nodes, AbortInitializations(n)
        PROVE  pc' = pc /\ call' = call
    BY <1>6 DEF AbortInitializations
  <1> QED BY <1>3, <1>4, <1>5, <1>6 DEF Next, Idle, vars

\* No step gives two views the same generation, and the counter stays ahead of them.
LEMMA ViewsStayDistinct ==
    ASSUME TypeOK, GenerationInvariant, [Next]_vars
    PROVE  /\ ViewsDistinct'
           /\ nextGen' \in Nat /\ nextGen <= nextGen'
           /\ \A n \in Nodes : epoch'[n] < nextGen'
  <1>0. /\ nextGen \in Nat \ {0}
        /\ \A n \in Nodes : epoch[n] \in Nat /\ epoch[n] < nextGen /\ view[n] \in Nat
        /\ ViewsDistinct
    BY DEF TypeOK, ViewsTyped, GenerationInvariant, GenerationsIssued
  <1> DEFINE Goal == /\ ViewsDistinct'
                     /\ nextGen' \in Nat /\ nextGen <= nextGen'
                     /\ \A n \in Nodes : epoch'[n] < nextGen'
  <1>1. CASE ViewsKept
    BY <1>0, <1>1, SMTT(30) DEF ViewsKept, ViewsDistinct
  <1>2. ASSUME NEW n \in Nodes, Retire(n)
        PROVE  Goal
    BY <1>0, <1>2 DEF Retire, ViewsDistinct, TypeOK, ViewsTyped
  <1>3. ASSUME NEW p \in Procs, Guard(p)
        PROVE  Goal
    <2>1. call[p].node \in Nodes
      BY DEF TypeOK, Calls
    <2> QED BY <2>1, <1>0, <1>3 DEF Guard, ViewsDistinct, TypeOK, ViewsTyped
  <1>4. ASSUME NEW p \in Procs, LockSession(p)
        PROVE  Goal
    <2>1. call[p].node \in Nodes
      BY DEF TypeOK, Calls
    <2>2. view[call[p].node] # 0
      BY <1>4, ZenonT(40) DEF LockSession, GenerationInvariant, SeenViews
    <2> QED BY <2>1, <2>2, <1>0, <1>4 DEF LockSession, ViewsDistinct, TypeOK, ViewsTyped
  <1>5. ASSUME NEW p \in Procs, BeginClosing(p)
        PROVE  Goal
    <2>1. call[p].node \in Nodes
      BY DEF TypeOK, Calls
    <2> QED BY <2>1, <1>0, <1>5 DEF BeginClosing, IsCurrent, ViewsDistinct, TypeOK, ViewsTyped
  <1>6. ASSUME NEW p \in Procs, Advance(p)
        PROVE  Goal
    <2>1. call[p].node \in Nodes
      BY DEF TypeOK, Calls
    <2>2. UNCHANGED <<nextGen, view, epoch>>
      BY <1>6, ZenonT(40) DEF Advance, Transition
    <2>3. \A n \in Nodes : state'[n] # state[n] => view[n] # 0
      BY <2>1, <1>6 DEF Advance, Transition, IsCurrent, TypeOK, ViewsTyped
    <2>4. ViewsDistinct'
      <3>1. \A n \in Nodes : view[n] = 0 => state'[n] = Closed
        BY <2>3, <1>0 DEF ViewsDistinct
      <3> QED BY <3>1, <2>2, <1>0 DEF ViewsDistinct
    <2> QED BY <2>2, <2>4, <1>0, SMTT(30)
  <1> QED BY <1>1, <1>2, <1>3, <1>4, <1>5, <1>6, ViewSteps DEF ViewStep

(***************************************************************************)
(* GenerationInvariant is inductive.                                       *)
(***************************************************************************)
LEMMA GenerationInvariantInductive ==
    ASSUME TypeOK, GenerationInvariant, [Next]_vars
    PROVE  GenerationInvariant'
  <1>1. PermitsDistinct' /\ SeenViews' /\ OriginOfGenerations
    BY TaskSteps
  <1>2. /\ ViewsDistinct' /\ nextGen' \in Nat /\ nextGen <= nextGen'
        /\ \A n \in Nodes : epoch'[n] < nextGen'
    BY ViewsStayDistinct
  <1>3. nextGen \in Nat \ {0} /\ \A q \in Procs : call[q].gen \in Nat /\ call[q].gen < nextGen
    BY DEF TypeOK, ViewsTyped, Calls, GenerationInvariant, GenerationsIssued
  <1>4. \A q \in Procs : call'[q].gen < nextGen'
    BY <1>1, <1>2, <1>3 DEF OriginOfGenerations
  <1> QED BY <1>1, <1>2, <1>4 DEF GenerationInvariant, GenerationsIssued

(***************************************************************************)
(* A generation names one view and one attempt in every behaviour.         *)
(***************************************************************************)
THEOREM GenerationsCorrect == Spec => []GenerationInvariant
  <1>1. Init => GenerationInvariant
    <2>1. NoCall.gen = 0 /\ NoCall.op = "none"
      BY DEF NoCall
    <2> QED BY <2>1, SMTT(30) DEF Init, GenerationInvariant, GenerationsIssued, ViewsDistinct, SeenViews,
                        PermitsDistinct, HoldsPermit
  <1>2. TypeOK /\ GenerationInvariant /\ [Next]_vars => GenerationInvariant'
    BY GenerationInvariantInductive
  <1> QED BY <1>1, <1>2, TypeCorrect, PTL DEF Spec

(***************************************************************************)
(* Of the permits that are not reverse ones, at most one is current for a  *)
(* node, however many tasks connect to it, fail, abort and disconnect.     *)
(***************************************************************************)
THEOREM PermitExclusiveCorrect == Spec => []PermitExclusive
  <1>1. GenerationInvariant => PermitExclusive
    BY DEF GenerationInvariant, PermitsDistinct, PermitExclusive, IsCurrent
  <1> QED BY <1>1, GenerationsCorrect, PTL

-----------------------------------------------------------------------------
(***************************************************************************)
(* NetworkView implements SessionContract: the step simulation, along the  *)
(* classification of steps and the invariant.                              *)
(***************************************************************************)
AbstractGen == [n \in Nodes |-> IF state[n] \in {Closed, FailedEstablish} THEN 0 ELSE epoch[n]]

AbstractPhase == [n \in Nodes |-> ContractPhase(state[n])]

(***************************************************************************)
(* The phases of the states, and what the table of transitions does to     *)
(* them.                                                                   *)
(***************************************************************************)
LEMMA Phases ==
    /\ ContractPhase(Established) = "up"
    /\ ContractPhase(Closing) = "closing"
    /\ ContractPhase(Closed) = "free"
    /\ ContractPhase(FailedEstablish) = "free"
    /\ \A s \in SessionStates : Connecting(s) =>
         /\ ContractPhase(s) = "connecting"
         /\ s \notin {Closed, FailedEstablish, Established, Closing}
  <1>1. /\ ~Connecting(Closed) /\ ~Connecting(FailedEstablish)
        /\ ~Connecting(Established) /\ ~Connecting(Closing)
    BY DEF Connecting, Established, Closing, Closed, FailedEstablish
  <1>2. Established # Closing /\ Closed \notin {Established, Closing}
        /\ FailedEstablish \notin {Established, Closing}
    BY Zenon DEF Established, Closing, Closed, FailedEstablish
  <1> QED BY <1>1, <1>2 DEF ContractPhase

\* What an attempt that advances does to a state, as the contract sees it.
LEMMA AdvancesStay ==
    ASSUME NEW s \in SessionStates, NEW t \in Advances, TransitionAllowed(s, t)
    PROVE  \/ t = Established /\ (Connecting(s) \/ s = Established)
           \/ t = FailedEstablish
           \/ Connecting(s) /\ Connecting(t)
  <1>1. t \notin {Outgoing("ConnectIntent"), Incoming("ConnectIntent"), Closing, Closed}
    BY DEF Advances
  <1>2. CASE t = Established
    <2>1. /\ t # FailedEstablish /\ t # RestartConnect /\ t # Outgoing("Initializing")
          /\ t \notin {Reverse("Awaiting"), Relayed("Initializing")}
          /\ t.kind \notin {"Incoming", "Outgoing", "Relayed", "Reverse"}
      BY <1>2, Zenon DEF Established, FailedEstablish, RestartConnect, Outgoing, Reverse, Relayed
    <2>2. s \in {Incoming("Ready"), Outgoing("Ready"), Relayed("Ready"), Reverse("FinishedOk"),
                 Established}
      BY <2>1, <1>1 DEF TransitionAllowed
    <2> QED BY <2>2, <1>2 DEF Connecting, Incoming, Outgoing, Relayed, Reverse
  <1>3. CASE t \notin {Established, FailedEstablish}
    <2>1. \/ t \in {Reverse("Awaiting"), Relayed("Initializing")} /\ s \in {Outgoing("ConnectIntent"), RestartConnect}
          \/ t = RestartConnect /\ Connecting(s)
          \/ t = Outgoing("Initializing") /\ s = RestartConnect
          \/ s.kind = t.kind /\ s.kind \in {"Incoming", "Outgoing", "Relayed", "Reverse"}
      BY <1>1, <1>3 DEF TransitionAllowed
    <2>2. /\ Connecting(RestartConnect) /\ Connecting(Reverse("Awaiting"))
          /\ Connecting(Relayed("Initializing")) /\ Connecting(Outgoing("Initializing"))
          /\ Connecting(Outgoing("ConnectIntent"))
      BY DEF Connecting, Reverse, Relayed, RestartConnect, Outgoing
    <2>3. s.kind = t.kind /\ s.kind \in {"Incoming", "Outgoing", "Relayed", "Reverse"}
            => Connecting(s) /\ Connecting(t)
      BY DEF Connecting
    <2> QED BY <2>1, <2>2, <2>3
  <1> QED BY <1>2, <1>3

\* lock_outgoing and lock_incoming begin an attempt, or take over one as a reverse connection.
LEMMA LockTargets ==
    ASSUME NEW p \in Procs, NEW s \in SessionStates, TransitionAllowed(s, LockTarget(p)),
           s = state[call[p].node]
    PROVE  /\ Connecting(LockTarget(p))
           /\ LockTarget(p).kind = "Reverse" => Connecting(s)
           /\ LockTarget(p).kind # "Reverse" => s \in {Closed, FailedEstablish}
  BY Zenon DEF LockTarget, IncomingTarget, TransitionAllowed, SessionStates, Connecting, Established,
         Closing, Closed, FailedEstablish, RestartConnect, Outgoing, Incoming, Reverse, Relayed,
         InitAllowed, ReverseAllowed

-----------------------------------------------------------------------------
\* Every step of the registry is one of the contract, or a stutter.
LEMMA StepSimulation ==
    ASSUME TypeOK, GenerationInvariant, [Next]_vars
    PROVE  [Contract!Next]_Contract!vars
  <1> DEFINE Stutter == AbstractGen' = AbstractGen /\ AbstractPhase' = AbstractPhase /\ nextGen' = nextGen
  <1>0. /\ nextGen \in Nat \ {0} /\ state \in [Nodes -> SessionStates]
        /\ epoch \in [Nodes -> Nat] /\ \A n \in Nodes : epoch[n] < nextGen
        /\ ViewsDistinct
    BY ZenonT(40) DEF TypeOK, ViewsTyped, GenerationInvariant, GenerationsIssued
  <1>1. ASSUME Stutter PROVE [Contract!Next]_Contract!vars
    BY <1>1 DEF AbstractGen, AbstractPhase, Contract!vars
  <1>a. ASSUME NEW m \in Nodes,
               Contract!Acquire(m) \/ Contract!Establish(m) \/ Contract!Close(m) \/ Contract!Release(m)
        PROVE  [Contract!Next]_Contract!vars
    BY <1>a DEF Contract!Next
  <1>2. CASE ViewsKept
    BY <1>1, <1>2 DEF ViewsKept, AbstractGen, AbstractPhase
  <1>3. ASSUME NEW n \in Nodes, Retire(n)
        PROVE  [Contract!Next]_Contract!vars
    <2>1. /\ state' = [state EXCEPT ![n] = Closed] /\ epoch' = [epoch EXCEPT ![n] = 0]
          /\ nextGen' = nextGen
      BY <1>3 DEF Retire
    <2>2. AbstractGen' = [AbstractGen EXCEPT ![n] = 0]
      BY <2>1, <1>0, Zenon DEF AbstractGen
    <2>3. AbstractPhase' = [AbstractPhase EXCEPT ![n] = "free"]
      BY <2>1, <1>0, Phases, Zenon DEF AbstractPhase
    <2>4. Contract!Release(n)
      BY <2>1, <2>2, <2>3 DEF Contract!Release, AbstractGen, AbstractPhase
    <2> QED BY <2>4, <1>a
  <1>4. ASSUME NEW p \in Procs, Guard(p)
        PROVE  [Contract!Next]_Contract!vars
    <2>1. PICK n \in Nodes : n = call[p].node
      BY DEF TypeOK, Calls
    <2>2. CASE view[n] # 0
      BY <2>1, <2>2, <1>0, <1>1, <1>4 DEF Guard, AbstractGen, AbstractPhase
    <2>3. CASE view[n] = 0
      <3>1. /\ state' = state /\ nextGen' = nextGen + 1 /\ state[n] = Closed
            /\ epoch' = [epoch EXCEPT ![n] = nextGen]
        BY <2>1, <2>3, <1>0, <1>4 DEF Guard, ViewsDistinct
      <3>2. AbstractGen' = AbstractGen /\ AbstractPhase' = AbstractPhase
        BY <3>1, <2>1, <1>0 DEF AbstractGen, AbstractPhase
      <3>3. Contract!Reserve
        BY <3>1, <3>2, <1>0 DEF Contract!Reserve, AbstractGen, AbstractPhase
      <3> QED BY <3>3 DEF Contract!Next
    <2> QED BY <2>2, <2>3
  <1>5. ASSUME NEW p \in Procs, LockSession(p)
        PROVE  [Contract!Next]_Contract!vars
    <2>1. PICK n \in Nodes : n = call[p].node
      BY DEF TypeOK, Calls
    <2> DEFINE t == LockTarget(p)
    <2>2. TransitionAllowed(state[n], t) /\ state' = [state EXCEPT ![n] = t]
      BY <2>1, <1>5, ZenonT(40) DEF LockSession
    <2>3. /\ t \in SessionStates /\ Connecting(t)
          /\ t.kind = "Reverse" => Connecting(state[n])
          /\ t.kind # "Reverse" => state[n] \in {Closed, FailedEstablish}
      BY <2>1, <2>2, <1>0, LockTargets, Zenon
         DEF LockTarget, IncomingTarget, SessionStates, ReverseStates, InitStates, Reverse, Incoming, Outgoing
    <2> HIDE DEF t
    <2>4. CASE t.kind = "Reverse"
      <3>1. epoch' = epoch /\ nextGen' = nextGen
        BY <2>1, <2>4, <1>0, <1>5 DEF LockSession, t
      <3>2. AbstractGen' = AbstractGen
        BY <3>1, <2>1, <2>2, <2>3, <2>4, <1>0, Phases DEF AbstractGen
      <3>3. AbstractPhase' = AbstractPhase
        BY <2>1, <2>2, <2>3, <2>4, <1>0, Phases DEF AbstractPhase
      <3> QED BY <3>1, <3>2, <3>3, <1>1
    <2>5. CASE t.kind # "Reverse"
      <3>1. epoch' = [epoch EXCEPT ![n] = nextGen] /\ nextGen' = nextGen + 1
        BY <2>1, <2>5, <1>5 DEF LockSession, t
      <3>2. AbstractGen' = [AbstractGen EXCEPT ![n] = nextGen]
        BY <3>1, <2>1, <2>2, <2>3, <1>0, Phases, Zenon DEF AbstractGen
      <3>3. AbstractPhase' = [AbstractPhase EXCEPT ![n] = "connecting"]
        BY <2>1, <2>2, <2>3, <1>0, Phases, Zenon DEF AbstractPhase
      <3>4. AbstractPhase[n] = "free"
        BY <2>1, <2>3, <2>5, Phases DEF AbstractPhase
      <3>5. Contract!Acquire(n)
        BY <3>1, <3>2, <3>3, <3>4, <1>0 DEF Contract!Acquire, AbstractGen, AbstractPhase
      <3> QED BY <3>5, <2>1, <1>a
    <2> QED BY <2>4, <2>5
  <1>6. ASSUME NEW p \in Procs, BeginClosing(p)
        PROVE  [Contract!Next]_Contract!vars
    <2>1. PICK n \in Nodes : n = call[p].node
      BY DEF TypeOK, Calls
    <2>2. CASE ~IsCurrent(p)
      BY <2>2, <1>1, <1>6 DEF BeginClosing, AbstractGen, AbstractPhase
    <2>3. CASE IsCurrent(p)
      <3>1. state' = [state EXCEPT ![n] = Closing] /\ epoch' = epoch /\ nextGen' = nextGen
        BY <2>1, <2>3, <1>6 DEF BeginClosing
      <3>2. epoch[n] # 0 /\ epoch[n] \in 1..(nextGen - 1)
        BY <2>1, <2>3, <1>0 DEF IsCurrent, ViewsDistinct
      <3>3. AbstractGen' = [AbstractGen EXCEPT ![n] = epoch[n]]
        BY <3>1, <2>1, <1>0, Zenon DEF AbstractGen, Closing, Closed, FailedEstablish
      <3>4. AbstractPhase' = [AbstractPhase EXCEPT ![n] = "closing"]
        BY <3>1, <2>1, <1>0, Phases, ZenonT(40) DEF AbstractPhase
      <3>5. AbstractGen[n] \in {0, epoch[n]} /\ \A m \in Nodes \ {n} : AbstractGen[m] # epoch[n]
        BY <3>2, <2>1, <1>0 DEF AbstractGen, ViewsDistinct
      <3>6. Contract!Close(n)
        BY <3>1, <3>2, <3>3, <3>4, <3>5, ZenonT(40) DEF Contract!Close, AbstractGen, AbstractPhase
      <3> QED BY <3>6, <2>1, <1>a
    <2> QED BY <2>2, <2>3, ZenonT(40)
  <1>7. ASSUME NEW p \in Procs, Advance(p)
        PROVE  [Contract!Next]_Contract!vars
    <2>1. PICK n \in Nodes : n = call[p].node
      BY DEF TypeOK, Calls
    <2>2. PICK t \in Advances, ok \in Places, err \in Places : Transition(p, t, ok, err)
      BY <1>7, ZenonT(40) DEF Advance
    <2>3. epoch' = epoch /\ nextGen' = nextGen
      BY <2>2 DEF Transition
    <2>4. CASE state' = state
      BY <2>3, <2>4, <1>1 DEF AbstractGen, AbstractPhase
    <2>5. CASE state' = [state EXCEPT ![n] = t] /\ TransitionAllowed(state[n], t)
      <3>1. state[n] \in SessionStates /\ t \in SessionStates
        BY <2>1, <1>0 DEF Advances
      <3>2. CASE t = Established /\ Connecting(state[n])
        <4>1. AbstractGen' = AbstractGen
          BY <3>1, <3>2, <2>1, <2>3, <2>5, <1>0, Phases, ZenonT(40) DEF AbstractGen, Established, Closed, FailedEstablish
        <4>2. AbstractPhase' = [AbstractPhase EXCEPT ![n] = "up"] /\ AbstractPhase[n] = "connecting"
          BY <3>1, <3>2, <2>1, <2>5, <1>0, Phases, ZenonT(40) DEF AbstractPhase
        <4>3. Contract!Establish(n)
          BY <4>1, <4>2, <2>3 DEF Contract!Establish, AbstractGen, AbstractPhase
        <4> QED BY <4>3, <2>1, <1>a
      <3>3. CASE t = Established /\ state[n] = Established
        <4>1. state' = state
          BY <3>3, <2>1, <2>5, <1>0
        <4> QED BY <4>1, <2>4
      <3>4. CASE t = FailedEstablish
        <4>1. AbstractGen' = [AbstractGen EXCEPT ![n] = 0]
          BY <3>4, <2>1, <2>3, <2>5, <1>0, Zenon DEF AbstractGen
        <4>2. AbstractPhase' = [AbstractPhase EXCEPT ![n] = "free"]
          BY <3>4, <2>1, <2>5, <1>0, Phases, ZenonT(40) DEF AbstractPhase
        <4>3. Contract!Release(n)
          BY <4>1, <4>2, <2>3 DEF Contract!Release, AbstractGen, AbstractPhase
        <4> QED BY <4>3, <2>1, <1>a
      <3>5. CASE Connecting(state[n]) /\ Connecting(t)
        <4>1. AbstractGen' = AbstractGen
          BY <3>1, <3>5, <2>1, <2>3, <2>5, <1>0, Phases, ZenonT(40) DEF AbstractGen
        <4>2. AbstractPhase' = AbstractPhase
          BY <3>1, <3>5, <2>1, <2>5, <1>0, Phases DEF AbstractPhase
        <4> QED BY <4>1, <4>2, <2>3, <1>1, ZenonT(40)
      <3> QED BY <3>1, <3>2, <3>3, <3>4, <3>5, <2>5, AdvancesStay
    <2> QED BY <2>1, <2>2, <2>4, <2>5, ZenonT(40) DEF Transition
  <1> QED BY <1>2, <1>3, <1>4, <1>5, <1>6, <1>7, ViewSteps DEF ViewStep

(***************************************************************************)
(* The session core implements the lifecycle of SessionContract, for any   *)
(* number of nodes and tasks.                                              *)
(***************************************************************************)
THEOREM Refinement == Spec => ImplementsContract
  <1>1. Init => Contract!Init
    BY Phases DEF Init, Contract!Init
  <1>2. TypeOK /\ GenerationInvariant /\ [Next]_vars => [Contract!Next]_Contract!vars
    BY StepSimulation
  <1> QED BY <1>1, <1>2, TypeCorrect, GenerationsCorrect, PTL DEF Spec, ImplementsContract, Contract!Spec

=============================================================================
