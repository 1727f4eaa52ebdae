--------------------------- MODULE TransportProofs ----------------------------
(***************************************************************************)
(* Proofs about VirtualTcp and Transport, for any tasks, any callers of    *)
(* remove_node and any number of connections. The types of VirtualTcp,     *)
(* that permits are exclusive and that connections are kept once; that     *)
(* this holds under the transport layer, whose steps are steps of          *)
(* VirtualTcp or none; that connections that end do not stay in channels,  *)
(* and are closed before the sessions are.                                 *)
(***************************************************************************)
EXTENDS Transport, SequenceTheorems, FiniteSetTheorems, TLAPS

\* A task that is past add_virt_node has a VirtNode; so has remove_node once it resolved it.
Assigned ==
    /\ \A c \in Tasks : task[c].pc \notin {"idle", "add"} => task[c].obj # None
    /\ \A r \in Removers : remover[r].pc # "idle" => registry # None
    /\ \A r \in Removers : remover[r].pc \in Channels => remover[r].obj # None

TcpInvariant == TypeOK /\ Assigned /\ PermitExclusive

States == [Channels -> TcpStates]

-----------------------------------------------------------------------------
(***************************************************************************)
(* A transition changes at most the state of the channel it is made on,    *)
(* and leaves it in the new state if that is allowed.                      *)
(***************************************************************************)
LEMMA TransitionChannel ==
    ASSUME channel \in Seq(States),
           NEW o \in 1..Len(channel), NEW ch \in Channels, NEW new \in TcpStates
    PROVE  /\ Transition(o, ch, new) \in Seq(States)
           /\ Len(Transition(o, ch, new)) = Len(channel)
           /\ \A p \in 1..Len(channel), i \in Channels :
                Transition(o, ch, new)[p][i] =
                    IF p = o /\ i = ch /\ Allowed(channel[o][ch], new)
                    THEN new ELSE channel[p][i]
<1> DEFINE e == [channel[o] EXCEPT ![ch] = new]
<1>1. channel[o] \in States
    OBVIOUS
<1>2. e \in States
    BY <1>1 DEF States
<1>3. /\ [channel EXCEPT ![o] = e] \in Seq(States)
      /\ Len([channel EXCEPT ![o] = e]) = Len(channel)
      /\ \A p \in 1..Len(channel) :
            [channel EXCEPT ![o] = e][p] = IF p = o THEN e ELSE channel[p]
    BY <1>2, ExceptSeq
<1>4. \A i \in Channels : e[i] = IF i = ch THEN new ELSE channel[o][i]
    BY <1>1 DEF States
<1>5. CASE Allowed(channel[o][ch], new)
    <2>1. Transition(o, ch, new) = [channel EXCEPT ![o] = e]
        BY <1>5 DEF Transition
    <2> HIDE DEF e
    <2> QED BY <2>1, <1>3, <1>4, <1>5
<1>6. CASE ~Allowed(channel[o][ch], new)
    BY <1>6 DEF Transition
<1> QED BY <1>5, <1>6

(***************************************************************************)
(* A new VirtNode leaves the channels of the others alone.                 *)
(***************************************************************************)
LEMMA AddChannel ==
    ASSUME channel \in Seq(States), AddVirtNode
    PROVE  /\ channel' \in Seq(States)
           /\ Len(channel') = Len(channel) + 1
           /\ registry' = Len(channel')
           /\ \A p \in 1..Len(channel) : channel'[p] = channel[p]
<1>1. [ch \in Channels |-> Closed] \in States
    BY DEF States, TcpStates
<1> QED BY <1>1, AppendProperties DEF AddVirtNode

(***************************************************************************)
(* Sockets that close leave the network's state well-typed.                *)
(***************************************************************************)
LEMMA GoneTyped ==
    ASSUME TypeOK, NEW conns \in SUBSET Conns, Gone(conns)
    PROVE  /\ socket' \in [Conns -> {"none", "open", "closing", "gone"}]
           /\ events' \in Nat
<1> DEFINE T == {k \in conns : socket[k] # "gone"}
<1>1. IsFiniteSet(Conns)
    BY TcpAssumption, FS_Interval DEF Conns
<1>2. T \in SUBSET Conns
    OBVIOUS
<1>3. IsFiniteSet(T)
    BY <1>1, <1>2, FS_Subset
<1>4. Cardinality(T) \in Nat
    BY <1>3, FS_CardinalityType
<1> HIDE DEF T
<1>5. events' = events + Cardinality(T)
    BY DEF Gone, T
<1>6. events' \in Nat
    BY <1>4, <1>5 DEF TypeOK
<1>7. socket' \in [Conns -> {"none", "open", "closing", "gone"}]
    BY DEF Gone, TypeOK
<1> QED BY <1>6, <1>7

(***************************************************************************)
(* What the invariant says of a call of connect or of remove_node.         *)
(***************************************************************************)
LEMMA Assignment ==
    ASSUME TcpInvariant
    PROVE  /\ Len(channel) \in Nat
           /\ \A c \in Tasks :
                /\ task[c].ch \in Channels
                /\ task[c].obj \in 0..Len(channel)
                /\ task[c].pc \notin {"idle", "add"} => task[c].obj \in 1..Len(channel)
           /\ \A r \in Removers :
                remover[r].pc \in Channels => remover[r].obj \in 1..Len(channel)
<1>1. Len(channel) \in Nat
    BY DEF TcpInvariant, TypeOK
<1>2. ASSUME NEW c \in Tasks
      PROVE  task[c].ch \in Channels /\ task[c].obj \in 0..Len(channel)
    <2>1. task[c] \in Calls(Len(channel))
        BY DEF TcpInvariant, TypeOK
    <2> QED BY <2>1 DEF Calls
<1>3. ASSUME NEW r \in Removers
      PROVE  remover[r].obj \in 0..Len(channel)
    <2>1. remover[r] \in Removals(Len(channel))
        BY DEF TcpInvariant, TypeOK
    <2> QED BY <2>1 DEF Removals
<1> QED BY <1>1, <1>2, <1>3 DEF TcpInvariant, Assigned, None

(***************************************************************************)
(* When VirtNodes are added, calls keep the ones they have.                *)
(***************************************************************************)
LEMMA MoreNodes ==
    ASSUME NEW m \in Nat, NEW n \in Nat, m <= n
    PROVE  Calls(m) \subseteq Calls(n) /\ Removals(m) \subseteq Removals(n)
<1>1. 0..m \subseteq 0..n
    OBVIOUS
<1> QED BY <1>1 DEF Calls, Removals

(***************************************************************************)
(* A step of one task leaves the tasks of others alone.                    *)
(***************************************************************************)
LEMMA TaskStep ==
    ASSUME NEW n \in Nat, task \in [Tasks -> Calls(n)], NEW c \in Tasks,
           NEW t \in Calls(n), task' = [task EXCEPT ![c] = t]
    PROVE  /\ task' \in [Tasks -> Calls(n)]
           /\ \A d \in Tasks : task'[d] = IF d = c THEN t ELSE task[d]
OBVIOUS

-----------------------------------------------------------------------------
(***************************************************************************)
(* The invariant holds initially.                                          *)
(***************************************************************************)
THEOREM InitCorrect == Init => TcpInvariant
<1> SUFFICES ASSUME Init PROVE TcpInvariant
    OBVIOUS
<1>1. channel \in Seq([Channels -> TcpStates]) /\ Len(channel) = 0
    BY DEF Init
<1>2. task \in [Tasks -> Calls(Len(channel))]
    BY <1>1, TcpAssumption DEF Init, Idle, None, Calls
<1>3. remover \in [Removers -> Removals(Len(channel))]
    BY <1>1 DEF Init, Resting, None, Removals
<1>4. TypeOK
    BY <1>1, <1>2, <1>3 DEF Init, TypeOK, None
<1>5. \A c \in Tasks : task[c].pc = "idle"
    BY DEF Init, Idle
<1>6. \A r \in Removers : remover[r].pc = "idle"
    BY DEF Init, Resting
<1>7. Assigned /\ PermitExclusive
    BY <1>5, <1>6 DEF Assigned, PermitExclusive, Permit, Channels
<1> QED BY <1>4, <1>7 DEF TcpInvariant

-----------------------------------------------------------------------------
(***************************************************************************)
(* The steps of connect.                                                   *)
(***************************************************************************)
LEMMA ResolveStep ==
    ASSUME TcpInvariant, NEW c \in Tasks, Resolve(c)
    PROVE  TcpInvariant'
<1> DEFINE t == [task[c] EXCEPT !.pc = IF registry = None THEN "add" ELSE "attempt",
                                !.obj = registry, !.heard = "nothing"]
<1>1. task[c] \in Calls(Len(channel)) /\ registry \in 0..Len(channel)
    BY DEF TcpInvariant, TypeOK
<1>2. t \in Calls(Len(channel)) /\ t.pc \in {"add", "attempt"}
        /\ (t.pc = "attempt" => t.obj # None)
    BY <1>1, Zenon DEF Calls
<1>3. task' = [task EXCEPT ![c] = t]
    BY Zenon DEF Resolve
<1> HIDE DEF t
<1>4. /\ task' \in [Tasks -> Calls(Len(channel))]
      /\ \A d \in Tasks : task'[d] = IF d = c THEN t ELSE task[d]
    BY <1>2, <1>3, Assignment, TaskStep DEF TcpInvariant, TypeOK
<1>5. UNCHANGED <<registry, channel, socket, events, receiver, remover>>
    BY DEF Resolve
<1>6. TypeOK'
    BY <1>4, <1>5 DEF TcpInvariant, TypeOK
<1>7. Assigned'
    BY <1>2, <1>4, <1>5 DEF TcpInvariant, Assigned
<1>8. PermitExclusive'
    BY <1>2, <1>4, <1>5 DEF TcpInvariant, PermitExclusive, Permit
<1> QED BY <1>6, <1>7, <1>8 DEF TcpInvariant

\* add_virt_node leaves the channels that have a permit alone.
LEMMA AddNodeStep ==
    ASSUME TcpInvariant, NEW c \in Tasks, AddNode(c)
    PROVE  TcpInvariant'
<1> DEFINE t == [task[c] EXCEPT !.pc = "attempt", !.obj = Len(channel) + 1]
<1>1. /\ channel' \in Seq(States)
      /\ Len(channel') = Len(channel) + 1
      /\ Len(channel) \in Nat
      /\ registry' = Len(channel')
      /\ \A p \in 1..Len(channel) : channel'[p] = channel[p]
    BY AddChannel, Assignment DEF AddNode, TcpInvariant, TypeOK, States
<1>2. /\ task \in [Tasks -> Calls(Len(channel'))]
      /\ remover \in [Removers -> Removals(Len(channel'))]
    BY <1>1, MoreNodes DEF TcpInvariant, TypeOK
<1>3. t \in Calls(Len(channel')) /\ t.pc = "attempt" /\ t.obj = Len(channel')
    <2>1. task[c] \in Calls(Len(channel'))
        BY <1>2
    <2>2. Len(channel) + 1 \in 0..Len(channel') /\ Len(channel) + 1 = Len(channel')
        BY <1>1
    <2>3. t.pc = "attempt" /\ t.obj = Len(channel) + 1
        BY <2>1 DEF Calls
    <2>4. t \in Calls(Len(channel'))
        BY <2>1, <2>2, Zenon DEF Calls
    <2> QED BY <2>2, <2>3, <2>4
<1>4. task' = [task EXCEPT ![c] = t]
    BY Zenon DEF AddNode
<1> HIDE DEF t
<1>5. /\ task' \in [Tasks -> Calls(Len(channel'))]
      /\ \A d \in Tasks : task'[d] = IF d = c THEN t ELSE task[d]
    BY <1>1, <1>2, <1>3, <1>4, TaskStep
<1>6. UNCHANGED <<socket, events, receiver, remover>>
    BY DEF AddNode
<1>7. TypeOK'
    BY <1>1, <1>2, <1>5, <1>6 DEF TcpInvariant, TypeOK, States
<1>8. Assigned'
    BY <1>1, <1>3, <1>5, <1>6 DEF TcpInvariant, Assigned, None
<1>9. PermitExclusive'
    <2>1. \A d \in Tasks : Permit(d)' => Permit(d) /\ task'[d] = task[d]
        BY <1>3, <1>5 DEF Permit
    <2>2. \A d \in Tasks : Permit(d) => task[d].obj \in 1..Len(channel)
        BY Assignment DEF Permit
    <2> QED BY <1>1, <2>1, <2>2 DEF TcpInvariant, PermitExclusive
<1> QED BY <1>7, <1>8, <1>9 DEF TcpInvariant

\* A permit is granted only for a channel that is not Connecting.
LEMMA AttemptStep ==
    ASSUME TcpInvariant, NEW c \in Tasks, Attempt(c)
    PROVE  TcpInvariant'
<1> DEFINE o == task[c].obj
           ch == task[c].ch
           granted == Allowed(channel[o][ch], Connecting)
           t == [task[c] EXCEPT !.pc = IF granted THEN "connect" ELSE "wait"]
<1>1. o \in 1..Len(channel) /\ ch \in Channels
    BY Assignment DEF Attempt, At
<1>2. Connecting \in TcpStates
    BY DEF TcpStates
<1>3. /\ channel' \in Seq(States)
      /\ Len(channel') = Len(channel)
      /\ \A p \in 1..Len(channel), i \in Channels :
            channel'[p][i] = IF p = o /\ i = ch /\ granted THEN Connecting ELSE channel[p][i]
    <2>1. channel' = Transition(o, ch, Connecting)
        BY DEF Attempt
    <2>2. channel \in Seq(States)
        BY DEF TcpInvariant, TypeOK, States
    <2> HIDE DEF o, ch
    <2> QED BY <1>1, <1>2, <2>1, <2>2, TransitionChannel
<1>4. /\ t \in Calls(Len(channel))
      /\ t.pc = IF granted THEN "connect" ELSE "wait"
      /\ t.obj = o /\ t.ch = ch
    <2>1. task[c] \in Calls(Len(channel))
        BY DEF TcpInvariant, TypeOK
    <2> HIDE DEF granted
    <2> QED BY <2>1 DEF Calls
<1>5. task' = [task EXCEPT ![c] = t]
    BY DEF Attempt
<1>6. UNCHANGED <<registry, socket, events, receiver, remover>>
    BY DEF Attempt
<1> HIDE DEF granted, t
<1>7. /\ task' \in [Tasks -> Calls(Len(channel))]
      /\ \A d \in Tasks : task'[d] = IF d = c THEN t ELSE task[d]
    BY <1>4, <1>5, Assignment, TaskStep DEF TcpInvariant, TypeOK
<1>8. TypeOK'
    BY <1>3, <1>6, <1>7 DEF TcpInvariant, TypeOK, States
<1>9. Assigned'
    BY <1>1, <1>4, <1>6, <1>7 DEF TcpInvariant, Assigned, None
<1>10. \A d \in Tasks : Permit(d) => task[d].obj \in 1..Len(channel) /\ task[d].ch \in Channels
    BY Assignment DEF Permit
<1>11. CASE granted
    <2>1. channel[o][ch] # Connecting
        BY <1>11 DEF granted, Allowed, Connecting
    <2>2. \A d \in Tasks : Permit(d) => ~(task[d].obj = o /\ task[d].ch = ch)
        BY <2>1 DEF TcpInvariant, PermitExclusive
    <2>3. \A d \in Tasks : Permit(d)' => d = c \/ (d # c /\ Permit(d) /\ task'[d] = task[d])
        BY <1>7 DEF Permit
    <2>4. task'[c].obj = o /\ task'[c].ch = ch
        BY <1>4, <1>7
    <2>5. channel'[o][ch] = Connecting
        BY <1>1, <1>3, <1>11
    <2>6. \A d \in Tasks : Permit(d)' => channel'[task'[d].obj][task'[d].ch] = Connecting
        BY <1>3, <1>10, <2>3, <2>4, <2>5, SMTT(30) DEF TcpInvariant, PermitExclusive
    <2>7. \A d, f \in Tasks :
            Permit(d)' /\ Permit(f)' /\ task'[d].obj = task'[f].obj /\ task'[d].ch = task'[f].ch
                => d = f
        BY <2>2, <2>3, <2>4 DEF TcpInvariant, PermitExclusive
    <2>8. PermitExclusive'
        BY <2>6, <2>7 DEF PermitExclusive
    <2> QED BY <1>8, <1>9, <2>8 DEF TcpInvariant
<1>12. CASE ~granted
    <2>1. \A d \in Tasks : Permit(d)' => Permit(d) /\ task'[d] = task[d]
        BY <1>4, <1>7, <1>12 DEF Permit
    <2>2. PermitExclusive'
        BY <1>3, <1>10, <1>12, <2>1 DEF TcpInvariant, PermitExclusive
    <2> QED BY <1>8, <1>9, <2>2 DEF TcpInvariant
<1> QED BY <1>11, <1>12

\* The result of connecting does not change the channel yet.
LEMMA ConnectStep ==
    ASSUME TcpInvariant, NEW c \in Tasks, ConnectOk(c) \/ ConnectFail(c)
    PROVE  TcpInvariant'
<1>1. /\ UNCHANGED <<registry, channel, receiver, remover>>
      /\ task[c].pc = "connect"
    BY DEF ConnectOk, ConnectFail, At
<1>2. PICK k \in Conns \cup {None} : task' = [task EXCEPT ![c].pc = "drop", ![c].conn = k]
    BY DEF ConnectOk, ConnectFail
<1>3. /\ socket' \in [Conns -> {"none", "open", "closing", "gone"}]
      /\ events' \in Nat
    BY DEF ConnectOk, ConnectFail, TcpInvariant, TypeOK
<1> DEFINE t == [task[c] EXCEPT !.pc = "drop", !.conn = k]
<1>4. /\ t \in Calls(Len(channel))
      /\ t.pc = "drop" /\ t.obj = task[c].obj /\ t.ch = task[c].ch
    <2>1. task[c] \in Calls(Len(channel))
        BY DEF TcpInvariant, TypeOK
    <2> QED BY <2>1, Zenon DEF Calls
<1>5. task' = [task EXCEPT ![c] = t]
    BY <1>2, Zenon
<1> HIDE DEF t
<1>6. /\ task' \in [Tasks -> Calls(Len(channel))]
      /\ \A d \in Tasks : task'[d] = IF d = c THEN t ELSE task[d]
    BY <1>4, <1>5, Assignment, TaskStep DEF TcpInvariant, TypeOK
<1>7. TypeOK'
    BY <1>1, <1>3, <1>6 DEF TcpInvariant, TypeOK
<1>8. Assigned'
    BY <1>1, <1>4, <1>6 DEF TcpInvariant, Assigned
<1>9. PermitExclusive'
    BY <1>1, <1>4, <1>6 DEF TcpInvariant, PermitExclusive, Permit
<1> QED BY <1>7, <1>8, <1>9 DEF TcpInvariant

(***************************************************************************)
(* The permit is dropped: the channel leaves Connecting, and no other task *)
(* had that permit.                                                        *)
(***************************************************************************)
LEMMA AsyncDropStep ==
    ASSUME TcpInvariant, NEW c \in Tasks, AsyncDrop(c)
    PROVE  TcpInvariant'
<1> DEFINE o == task[c].obj
           ch == task[c].ch
           new == IF task[c].conn = None THEN Failed ELSE Connected(task[c].conn)
<1>1. o \in 1..Len(channel) /\ ch \in Channels /\ task[c].pc = "drop"
    BY Assignment DEF AsyncDrop, At
<1>2. task[c] \in Calls(Len(channel))
    BY DEF TcpInvariant, TypeOK
<1>3. new \in TcpStates
    BY <1>2 DEF Calls, TcpStates
<1>4. /\ channel' \in Seq(States)
      /\ Len(channel') = Len(channel)
      /\ \A p \in 1..Len(channel), i \in Channels :
            ~(p = o /\ i = ch) => channel'[p][i] = channel[p][i]
    <2>1. channel' = Transition(o, ch, new)
        BY DEF AsyncDrop
    <2>2. channel \in Seq(States)
        BY DEF TcpInvariant, TypeOK, States
    <2> HIDE DEF o, ch, new
    <2> QED BY <1>1, <1>3, <2>1, <2>2, TransitionChannel
<1>5. UNCHANGED <<registry, socket, events, receiver, remover>>
    BY DEF AsyncDrop
<1>6. ASSUME NEW d \in Tasks
      PROVE  /\ task'[d] \in Calls(Len(channel))
             /\ d = c => task'[d].pc = "idle"
             /\ d # c => /\ task'[d].pc = task[d].pc
                        /\ task'[d].obj = task[d].obj
                        /\ task'[d].ch = task[d].ch
    <2>1. task[d] \in Calls(Len(channel)) /\ Len(channel) \in Nat
        BY Assignment DEF TcpInvariant, TypeOK
    <2>2. CASE d = c
        <3>1. task'[d] = Idle(ch)
            BY <2>2 DEF AsyncDrop
        <3>2. ch \in Channels
            BY <1>1
        <3> HIDE DEF ch
        <3> QED BY <2>1, <2>2, <3>1, <3>2 DEF Idle, Calls, None
    <2>3. CASE d # c
        <3>1. PICK h \in {"nothing", "ok", "err", "lagged"} : task'[d] = [task[d] EXCEPT !.heard = h]
            <4>1. PICK r \in {"ok", "err"} :
                    task'[d] = IF d \in Subscribed(o, ch)
                               THEN [task[d] EXCEPT !.heard = Heard(@, r)] ELSE task[d]
                BY <2>3 DEF AsyncDrop
            <4>2. task[d] = [task[d] EXCEPT !.heard = task[d].heard]
                BY <2>1 DEF Calls
            <4>3. /\ task[d].heard \in {"nothing", "ok", "err", "lagged"}
                  /\ Heard(task[d].heard, r) \in {"nothing", "ok", "err", "lagged"}
                BY <2>1 DEF Calls, Heard
            <4> HIDE DEF o, ch
            <4> QED BY <4>1, <4>2, <4>3
        <3> QED BY <2>1, <2>3, <3>1 DEF Calls
    <2> QED BY <2>2, <2>3
<1>7. task' \in [Tasks -> Calls(Len(channel))]
    <2>1. DOMAIN task' = Tasks /\ task' = [d \in Tasks |-> task'[d]]
        BY DEF AsyncDrop
    <2> QED BY <1>6, <2>1
<1>8. TypeOK'
    BY <1>4, <1>5, <1>7 DEF TcpInvariant, TypeOK, States
<1>9. Assigned'
    BY <1>5, <1>6 DEF TcpInvariant, Assigned
<1>10. PermitExclusive'
    <2>1. \A d \in Tasks : Permit(d)' => d # c /\ Permit(d)
        BY <1>6 DEF Permit
    <2>2. \A d \in Tasks : Permit(d) /\ d # c =>
            /\ ~(task[d].obj = o /\ task[d].ch = ch)
            /\ task[d].obj \in 1..Len(channel) /\ task[d].ch \in Channels
        BY <1>1, Assignment DEF TcpInvariant, PermitExclusive, Permit
    <2> HIDE DEF o, ch
    <2> QED BY <1>4, <1>6, <2>1, <2>2 DEF TcpInvariant, PermitExclusive
<1> QED BY <1>8, <1>9, <1>10 DEF TcpInvariant

\* await_for_finish gives up no permit and takes none.
LEMMA WaitStep ==
    ASSUME TcpInvariant, NEW c \in Tasks, Await(c) \/ Recv(c)
    PROVE  TcpInvariant'
<1>1. task[c] \in Calls(Len(channel)) /\ Len(channel) \in Nat
    BY Assignment DEF TcpInvariant, TypeOK
<1>2. task[c].obj # None
    BY DEF TcpInvariant, Assigned, Await, Recv, At
<1>3. PICK t \in Calls(Len(channel)) :
        /\ task' = [task EXCEPT ![c] = t]
        /\ t.pc \in {"idle", "recv"}
        /\ t.pc = "recv" => t.obj # None
    <2>1. /\ Idle(task[c].ch) \in Calls(Len(channel))
          /\ Idle(task[c].ch).pc = "idle"
        BY <1>1 DEF Calls, Idle, None
    <2>2. /\ [task[c] EXCEPT !.pc = "recv"] \in Calls(Len(channel))
          /\ [task[c] EXCEPT !.pc = "recv"].pc = "recv"
          /\ [task[c] EXCEPT !.pc = "recv"].obj # None
        BY <1>1, <1>2 DEF Calls
    <2>3. \/ task' = [task EXCEPT ![c] = Idle(task[c].ch)]
          \/ task' = [task EXCEPT ![c] = [task[c] EXCEPT !.pc = "recv"]]
        BY DEF Await, Recv
    <2> QED BY <2>1, <2>2, <2>3, Zenon
<1>4. /\ task' \in [Tasks -> Calls(Len(channel))]
      /\ \A d \in Tasks : task'[d] = IF d = c THEN t ELSE task[d]
    BY <1>1, <1>3, TaskStep DEF TcpInvariant, TypeOK
<1>5. UNCHANGED <<registry, channel, socket, events, receiver, remover>>
    BY DEF Await, Recv
<1>6. TypeOK'
    BY <1>4, <1>5 DEF TcpInvariant, TypeOK
<1>7. Assigned'
    BY <1>3, <1>4, <1>5 DEF TcpInvariant, Assigned
<1>8. PermitExclusive'
    BY <1>3, <1>4, <1>5 DEF TcpInvariant, PermitExclusive, Permit
<1> QED BY <1>6, <1>7, <1>8 DEF TcpInvariant

(***************************************************************************)
(* The steps of receive, of the network and of remove_node.                *)
(***************************************************************************)
LEMMA ReceiveStep ==
    ASSUME TcpInvariant, ReceiveResolve \/ ReceiveAdd
    PROVE  TcpInvariant'
<1>1. CASE ReceiveResolve
    BY <1>1 DEF ReceiveResolve, TcpInvariant, TypeOK, Assigned, PermitExclusive, Permit
<1>2. CASE ReceiveAdd
    <2>1. /\ channel' \in Seq(States)
          /\ Len(channel') = Len(channel) + 1
          /\ Len(channel) \in Nat
          /\ registry' = Len(channel')
          /\ \A p \in 1..Len(channel) : channel'[p] = channel[p]
        BY <1>2, AddChannel, Assignment DEF ReceiveAdd, TcpInvariant, TypeOK, States
    <2>2. UNCHANGED <<socket, events, task, remover>> /\ receiver' = "idle"
        BY <1>2 DEF ReceiveAdd
    <2>3. /\ task \in [Tasks -> Calls(Len(channel'))]
          /\ remover \in [Removers -> Removals(Len(channel'))]
        BY <2>1, MoreNodes DEF TcpInvariant, TypeOK
    <2>4. TypeOK'
        BY <2>1, <2>2, <2>3 DEF TcpInvariant, TypeOK, States
    <2>5. Assigned'
        BY <2>1, <2>2 DEF TcpInvariant, Assigned, None
    <2>6. \A d \in Tasks : Permit(d) => task[d].obj \in 1..Len(channel)
        BY Assignment DEF Permit
    <2>7. PermitExclusive'
        BY <2>1, <2>2, <2>6 DEF TcpInvariant, PermitExclusive, Permit
    <2> QED BY <2>4, <2>5, <2>7 DEF TcpInvariant
<1> QED BY <1>1, <1>2

\* Sockets that open and close leave channels and permits alone.
LEMMA NetworkStep ==
    ASSUME TcpInvariant,
           \/ Inbound \/ \E k \in Conns : SocketCloses(k)
           \/ CloseAll \/ \E conns \in SUBSET Conns : AllClosed(conns)
    PROVE  TcpInvariant'
<1>1. UNCHANGED <<registry, channel, task, receiver, remover>>
    BY Zenon DEF Inbound, SocketCloses, CloseAll, AllClosed
<1>2. /\ socket' \in [Conns -> {"none", "open", "closing", "gone"}]
      /\ events' \in Nat
    <2>1. CASE Inbound
        BY <2>1 DEF Inbound, TcpInvariant, TypeOK
    <2>2. CASE \E k \in Conns : SocketCloses(k)
        BY <2>2, GoneTyped DEF SocketCloses, TcpInvariant
    <2>3. CASE CloseAll
        BY <2>3 DEF CloseAll, TcpInvariant, TypeOK
    <2>4. CASE \E conns \in SUBSET Conns : AllClosed(conns)
        BY <2>4, GoneTyped DEF AllClosed, TcpInvariant
    <2> QED BY <2>1, <2>2, <2>3, <2>4
<1> QED BY <1>1, <1>2 DEF TcpInvariant, TypeOK, Assigned, PermitExclusive, Permit

\* disconnect_all closes sockets and leaves the channels alone.
LEMMA RemoveStep ==
    ASSUME TcpInvariant, NEW r \in Removers, RemoveNode(r) \/ Disconnected(r)
    PROVE  TcpInvariant'
<1> USE DEF OnDisconnected, OnSendFailed, DisconnectAll
<1>1. UNCHANGED <<registry, channel, task, receiver>>
    BY DEF RemoveNode, Disconnected
<1>2. /\ remover[r] \in Removals(Len(channel)) /\ Len(channel) \in Nat
      /\ registry \in 0..Len(channel) /\ registry # None
    BY Assignment DEF TcpInvariant, TypeOK, Assigned, RemoveNode, Disconnected
<1>3. /\ socket' \in [Conns -> {"none", "open", "closing", "gone"}]
      /\ events' \in Nat
    <2>1. CASE RemoveNode(r)
        BY <2>1 DEF RemoveNode, TcpInvariant, TypeOK
    <2>2. CASE Disconnected(r)
        <3>1. remover[r].conns \in SUBSET Conns
            BY <1>2 DEF Removals
        <3> QED BY <2>2, <3>1, GoneTyped DEF Disconnected, TcpInvariant
    <2> QED BY <2>1, <2>2
<1>4. PICK v \in Removals(Len(channel)) :
        /\ remover' = [remover EXCEPT ![r] = v]
        /\ v.pc \in Channels => v.obj # None
    <2>1. CASE RemoveNode(r)
        <3> DEFINE open == {k \in Conns : socket[k] \in {"open", "closing"}}
                   v == [remover[r] EXCEPT !.pc = "disconnect", !.conns = open]
        <3>1. remover' = [remover EXCEPT ![r] = v]
            BY <2>1, Zenon DEF RemoveNode
        <3>2. open \in SUBSET Conns
            OBVIOUS
        <3> HIDE DEF open
        <3>3. v \in Removals(Len(channel)) /\ v.pc = "disconnect"
            BY <1>2, <3>2, Zenon DEF Removals
        <3> QED BY <3>1, <3>3, Zenon DEF Channels
    <2>2. CASE Disconnected(r)
        <3>1. [pc |-> "Messages", conns |-> {}, obj |-> registry] \in Removals(Len(channel))
            BY <1>2 DEF Removals
        <3> QED BY <1>2, <2>2, <3>1, Zenon DEF Disconnected
    <2> QED BY <2>1, <2>2
<1>5. /\ remover' \in [Removers -> Removals(Len(channel))]
      /\ \A q \in Removers : remover'[q] = IF q = r THEN v ELSE remover[q]
    BY <1>4 DEF TcpInvariant, TypeOK
<1>6. TypeOK'
    BY <1>1, <1>3, <1>5 DEF TcpInvariant, TypeOK
<1>7. Assigned'
    BY <1>1, <1>2, <1>4, <1>5 DEF TcpInvariant, Assigned
<1>8. PermitExclusive'
    BY <1>1 DEF TcpInvariant, PermitExclusive, Permit
<1> QED BY <1>6, <1>7, <1>8 DEF TcpInvariant

(***************************************************************************)
(* close_channel cannot disturb a permit: Connecting does not allow Closed.*)
(***************************************************************************)
LEMMA CloseChannelStep ==
    ASSUME TcpInvariant, NEW r \in Removers, NEW ch \in Channels, CloseChannel(r, ch)
    PROVE  TcpInvariant'
<1>1. UNCHANGED <<registry, socket, events, task, receiver>>
    BY DEF CloseChannel
<1>2. remover[r].obj \in 1..Len(channel) /\ Closed \in TcpStates
    BY Assignment DEF CloseChannel, Closes, TcpStates
<1>3. /\ channel' \in Seq(States)
      /\ Len(channel') = Len(channel)
      /\ \A p \in 1..Len(channel), i \in Channels :
            channel[p][i] = Connecting => channel'[p][i] = Connecting
    <2>1. channel \in Seq(States)
        BY DEF TcpInvariant, TypeOK, States
    <2>2. ~Allowed(Connecting, Closed)
        BY DEF Allowed, Connecting, Closed
    <2> QED BY <1>2, <2>1, <2>2, TransitionChannel DEF CloseChannel
<1>4. PICK v \in Removals(Len(channel)) :
        /\ remover' = [remover EXCEPT ![r] = v]
        /\ v.pc \in Channels => v.obj # None
    <2>1. remover[r] \in Removals(Len(channel)) /\ Len(channel) \in Nat
        BY Assignment DEF TcpInvariant, TypeOK
    <2>2. Resting \in Removals(Len(channel)) /\ Resting.pc = "idle"
        BY <2>1 DEF Resting, Removals, None
    <2>3. /\ [remover[r] EXCEPT !.pc = "Transfer"] \in Removals(Len(channel))
          /\ [remover[r] EXCEPT !.pc = "Transfer"].obj # None
        BY <1>2, <2>1 DEF Removals, None
    <2>4. \/ remover' = [remover EXCEPT ![r] = [remover[r] EXCEPT !.pc = "Transfer"]]
          \/ remover' = [remover EXCEPT ![r] = Resting]
        BY Zenon DEF CloseChannel, Closes
    <2> QED BY <2>2, <2>3, <2>4, ZenonT(40) DEF Channels
<1>5. /\ remover' \in [Removers -> Removals(Len(channel))]
      /\ \A q \in Removers : remover'[q] = IF q = r THEN v ELSE remover[q]
    BY <1>4 DEF TcpInvariant, TypeOK
<1>6. remover[r].pc # "idle"
    BY DEF CloseChannel, Closes, Channels
<1>7. TypeOK'
    BY <1>1, <1>3, <1>5 DEF TcpInvariant, TypeOK, States
<1>8. Assigned'
    BY <1>1, <1>4, <1>5, <1>6 DEF TcpInvariant, Assigned
<1>9. \A d \in Tasks : Permit(d) => task[d].obj \in 1..Len(channel) /\ task[d].ch \in Channels
    BY Assignment DEF Permit
<1>10. PermitExclusive'
    BY <1>1, <1>3, <1>9 DEF TcpInvariant, PermitExclusive, Permit
<1> QED BY <1>7, <1>8, <1>10 DEF TcpInvariant

-----------------------------------------------------------------------------
(***************************************************************************)
(* Every step preserves the invariant.                                     *)
(***************************************************************************)
THEOREM NextCorrect == TcpInvariant /\ [Next]_vars => TcpInvariant'
<1> SUFFICES ASSUME TcpInvariant, [Next]_vars PROVE TcpInvariant'
    OBVIOUS
<1>1. CASE \E c \in Tasks : Connect(c)
    <2>1. PICK c \in Tasks : Connect(c)
        BY <1>1
    <2> QED BY <2>1, ResolveStep, AddNodeStep, AttemptStep, ConnectStep, AsyncDropStep, WaitStep
            DEF Connect
<1>2. CASE ReceiveResolve \/ ReceiveAdd
    BY <1>2, ReceiveStep
<1>3. CASE \/ Inbound \/ \E k \in Conns : SocketCloses(k)
           \/ CloseAll \/ \E conns \in SUBSET Conns : AllClosed(conns)
    BY <1>3, NetworkStep
<1>4. CASE \E r \in Removers : RemoveNode(r) \/ Disconnected(r)
    BY <1>4, RemoveStep
<1>5. CASE \E r \in Removers, ch \in Channels : CloseChannel(r, ch)
    BY <1>5, CloseChannelStep
<1>6. CASE UNCHANGED vars
    BY <1>6 DEF vars, TcpInvariant, TypeOK, Assigned, PermitExclusive, Permit
<1> QED BY <1>1, <1>2, <1>3, <1>4, <1>5, <1>6 DEF Next

(***************************************************************************)
(* The variables of the TCP layer keep their types.                        *)
(***************************************************************************)
THEOREM TypeCorrect == Spec => []TypeOK
<1>1. TcpInvariant => TypeOK
    BY DEF TcpInvariant
<1> QED BY InitCorrect, NextCorrect, <1>1, PTL DEF Spec

(***************************************************************************)
(* Permits are exclusive, and async_drop can store every connection that   *)
(* connect returned, however many tasks connect and remove the node.       *)
(***************************************************************************)
THEOREM PermitExclusiveCorrect == Spec => []PermitExclusive
<1>1. TcpInvariant => PermitExclusive
    BY DEF TcpInvariant
<1> QED BY InitCorrect, NextCorrect, <1>1, PTL DEF Spec

-----------------------------------------------------------------------------
(***************************************************************************)
(* Connections are kept once: what tasks have is kept by nobody else.      *)
(***************************************************************************)
Owned ==
    /\ KeptOnce
    /\ \A c \in Tasks : task[c].conn # None =>
        /\ socket[task[c].conn] # "none"
        /\ \A d \in Tasks : task[d].conn = task[c].conn => d = c

\* A step that only lets go of connections.
Releases ==
    /\ \A k \in Conns : socket[k] # "none" => socket'[k] # "none"
    /\ \A o \in DOMAIN channel', ch \in Channels :
        \/ channel'[o][ch].conn = None
        \/ o \in DOMAIN channel /\ channel'[o][ch].conn = channel[o][ch].conn
    /\ \A c \in Tasks : task'[c].conn \in {None, task[c].conn}

\* What channels and tasks have is a connection of the network, or none.
LEMMA ConnTyped ==
    ASSUME TypeOK
    PROVE  /\ \A o \in DOMAIN channel, ch \in Channels : channel[o][ch].conn \in Conns \cup {None}
           /\ \A c \in Tasks : task[c].conn \in Conns \cup {None}
<1>1. ASSUME NEW o \in DOMAIN channel, NEW ch \in Channels
      PROVE  channel[o][ch].conn \in Conns \cup {None}
    <2>1. channel[o][ch] \in TcpStates
        BY DEF TypeOK
    <2> QED BY <2>1 DEF TcpStates, Closed, Connecting, Failed, Connected
<1>2. ASSUME NEW c \in Tasks PROVE task[c].conn \in Conns \cup {None}
    <2>1. task[c] \in Calls(Len(channel))
        BY DEF TypeOK
    <2> QED BY <2>1 DEF Calls
<1> QED BY <1>1, <1>2

\* A step that only lets go of connections leaves each with one owner.
LEMMA ReleasesKeep ==
    ASSUME TypeOK, Owned, Releases PROVE Owned'
<1>1. KeptOnce'
    BY ConnTyped DEF Owned, KeptOnce, Releases
<1>2. \A c \in Tasks : task'[c].conn # None =>
        /\ socket'[task'[c].conn] # "none"
        /\ \A d \in Tasks : task'[d].conn = task'[c].conn => d = c
    BY ConnTyped DEF Owned, Releases
<1> QED BY <1>1, <1>2 DEF Owned

\* A socket that closes has been there.
LEMMA GoneReleases ==
    ASSUME TypeOK, NEW conns, Gone(conns)
    PROVE  \A k \in Conns : socket[k] # "none" => socket'[k] # "none"
BY DEF TypeOK, Gone

\* A transition to a state without a connection.
LEMMA TransitionReleases ==
    ASSUME TypeOK, NEW o \in 1..Len(channel), NEW ch \in Channels,
           NEW new \in TcpStates, new.conn = None, channel' = Transition(o, ch, new)
    PROVE  \A p \in DOMAIN channel', i \in Channels :
              \/ channel'[p][i].conn = None
              \/ p \in DOMAIN channel /\ channel'[p][i].conn = channel[p][i].conn
<1>1. channel \in Seq(States)
    BY DEF TypeOK, States
<1>2. channel' \in Seq(States) /\ Len(channel') = Len(channel)
    BY <1>1, TransitionChannel
<1>3. DOMAIN channel' = 1..Len(channel) /\ DOMAIN channel = 1..Len(channel)
    BY <1>1, <1>2
<1> QED BY <1>1, <1>3, TransitionChannel

\* A new VirtNode has no connections.
LEMMA AddReleases ==
    ASSUME TypeOK, AddVirtNode
    PROVE  \A p \in DOMAIN channel', i \in Channels :
              \/ channel'[p][i].conn = None
              \/ p \in DOMAIN channel /\ channel'[p][i].conn = channel[p][i].conn
<1>1. channel \in Seq(States)
    BY DEF TypeOK, States
<1>2. /\ channel' \in Seq(States) /\ Len(channel') = Len(channel) + 1
      /\ \A p \in 1..Len(channel) : channel'[p] = channel[p]
    BY <1>1, AddChannel
<1>3. channel'[Len(channel) + 1] = [ch \in Channels |-> Closed]
    BY <1>1 DEF AddVirtNode
<1>4. \A p \in DOMAIN channel' : p \in DOMAIN channel \/ p = Len(channel) + 1
    BY <1>1, <1>2
<1>5. \A p \in DOMAIN channel : channel'[p] = channel[p]
    BY <1>1, <1>2
<1> QED BY <1>3, <1>4, <1>5 DEF Closed

\* These steps of connect give no task a connection.
LEMMA TasksRelease ==
    ASSUME TypeOK, NEW c \in Tasks, 
           Resolve(c) \/ AddNode(c) \/ Attempt(c) \/ ConnectFail(c) \/ Await(c) \/ Recv(c)
    PROVE  \A d \in Tasks : task'[d].conn \in {None, task[d].conn}
<1> SUFFICES ASSUME NEW d \in Tasks PROVE task'[d].conn \in {None, task[d].conn}
    OBVIOUS
<1>1. task[d] \in Calls(Len(channel)) /\ task \in [Tasks -> Calls(Len(channel))]
    BY DEF TypeOK
<1>2. CASE Resolve(c) \/ AddNode(c) \/ Attempt(c) \/ ConnectFail(c)
    <2>1. CASE d # c
        BY <1>1, <1>2, <2>1 DEF Resolve, AddNode, Attempt, ConnectFail
    <2>2. CASE d = c /\ ConnectFail(c)
        BY <1>1, <2>2 DEF ConnectFail, Calls
    <2>3. CASE d = c /\ Resolve(c)
        BY <1>1, <2>3 DEF Resolve, Calls
    <2>4. CASE d = c /\ AddNode(c)
        BY <1>1, <2>4 DEF AddNode, Calls
    <2>5. CASE d = c /\ Attempt(c)
        BY <1>1, <2>5 DEF Attempt, Calls
    <2> QED BY <1>2, <2>1, <2>2, <2>3, <2>4, <2>5, ZenonT(40)
<1>3. CASE Await(c) \/ Recv(c)
    BY <1>1, <1>3 DEF Await, Recv, Idle, Calls
<1> QED BY <1>2, <1>3

\* Nor do they give one to a channel.
LEMMA ConnectReleases ==
    ASSUME TcpInvariant, NEW c \in Tasks,
           Resolve(c) \/ AddNode(c) \/ Attempt(c) \/ ConnectFail(c) \/ Await(c) \/ Recv(c)
    PROVE  Releases
<1>1. \A d \in Tasks : task'[d].conn \in {None, task[d].conn}
    BY TasksRelease DEF TcpInvariant
<1>2. UNCHANGED socket
    BY DEF Resolve, AddNode, Attempt, ConnectFail, Await, Recv
<1>3. CASE UNCHANGED channel
    BY <1>1, <1>2, <1>3 DEF Releases
<1>4. CASE AddNode(c)
    BY <1>1, <1>2, <1>4, AddReleases, ZenonT(40) DEF Releases, TcpInvariant, AddNode
<1>5. CASE Attempt(c)
    <2>1. task[c].obj \in 1..Len(channel) /\ task[c].ch \in Channels
        BY <1>5, Assignment DEF Attempt, At
    <2>2. Connecting \in TcpStates /\ Connecting.conn = None
        BY DEF TcpStates, Connecting
    <2>3. channel' = Transition(task[c].obj, task[c].ch, Connecting)
        BY <1>5 DEF Attempt
    <2> QED BY <1>1, <1>2, <2>1, <2>2, <2>3, TransitionReleases DEF Releases, TcpInvariant
<1> QED BY <1>3, <1>4, <1>5 DEF Resolve, ConnectFail, Await, Recv

\* connect_internal returns a connection that nobody has.
LEMMA ConnectOwned ==
    ASSUME TcpInvariant, Owned, NEW c \in Tasks, ConnectOk(c)
    PROVE  Owned'
<1>1. PICK k \in Conns :
        /\ socket[k] = "none"
        /\ socket' = [socket EXCEPT ![k] = "open"]
        /\ task' = [task EXCEPT ![c].pc = "drop", ![c].conn = k]
    BY Zenon DEF ConnectOk
<1>2. UNCHANGED channel
    BY DEF ConnectOk
<1>3. /\ socket'[k] = "open"
      /\ \A j \in Conns : j # k => socket'[j] = socket[j]
    BY <1>1 DEF TcpInvariant, TypeOK
<1>4. task'[c].conn = k /\ \A d \in Tasks : d # c => task'[d].conn = task[d].conn
    <2>1. task \in [Tasks -> Calls(Len(channel))]
        BY DEF TcpInvariant, TypeOK
    <2>2. task[c] \in Calls(Len(channel))
        BY <2>1
    <2>3. task'[c].conn = k
        BY <1>1, <2>1, <2>2 DEF Calls
    <2> QED BY <1>1, <2>1, <2>3
<1>5. k # None
    BY TcpAssumption DEF Conns, None
<1>6. /\ \A o \in DOMAIN channel, ch \in Channels : channel[o][ch].conn # k
      /\ \A d \in Tasks : task[d].conn # k
    BY <1>1, <1>5 DEF Owned, KeptOnce
<1>7. KeptOnce'
    BY <1>2, <1>3, <1>4, <1>6, ConnTyped, SMTT(30) DEF Owned, KeptOnce, TcpInvariant
<1>8. \A d \in Tasks : task'[d].conn # None =>
        /\ socket'[task'[d].conn] # "none"
        /\ \A e \in Tasks : task'[e].conn = task'[d].conn => e = d
    BY <1>3, <1>4, <1>6, ConnTyped DEF Owned, TcpInvariant
<1> QED BY <1>7, <1>8 DEF Owned

\* async_drop hands the connection of the permit to the channel, or lets go of it.
LEMMA DropOwned ==
    ASSUME TcpInvariant, Owned, NEW c \in Tasks, AsyncDrop(c)
    PROVE  Owned'
<1> DEFINE o == task[c].obj
           ch == task[c].ch
           k == task[c].conn
           new == IF k = None THEN Failed ELSE Connected(k)
<1>1. o \in 1..Len(channel) /\ ch \in Channels
    BY Assignment DEF AsyncDrop, At
<1>2. new \in TcpStates /\ new.conn = k
    <2>1. k \in Conns \cup {None}
        BY ConnTyped DEF TcpInvariant
    <2> HIDE DEF k
    <2> QED BY <2>1 DEF TcpStates, Failed, Connected
<1>3. UNCHANGED socket /\ channel' = Transition(o, ch, new)
    BY DEF AsyncDrop
<1>4. /\ DOMAIN channel' = DOMAIN channel
      /\ \A p \in DOMAIN channel, i \in Channels :
            \/ channel'[p][i].conn = channel[p][i].conn
            \/ p = o /\ i = ch /\ channel'[p][i].conn = k
    <2>1. channel \in Seq(States)
        BY DEF TcpInvariant, TypeOK, States
    <2> HIDE DEF o, ch, k, new
    <2>2. /\ channel' \in Seq(States) /\ Len(channel') = Len(channel)
          /\ \A p \in 1..Len(channel), i \in Channels :
                channel'[p][i] = IF p = o /\ i = ch /\ Allowed(channel[o][ch], new)
                                 THEN new ELSE channel[p][i]
        BY <1>1, <1>2, <1>3, <2>1, TransitionChannel
    <2>3. DOMAIN channel = 1..Len(channel) /\ DOMAIN channel' = 1..Len(channel)
        BY <2>1, <2>2
    <2> QED BY <1>2, <2>2, <2>3
<1>5. task'[c].conn = None /\ \A d \in Tasks : d # c => task'[d].conn = task[d].conn
    <2>1. task'[c].conn = None
        BY DEF AsyncDrop, Idle
    <2>2. ASSUME NEW d \in Tasks, d # c PROVE task'[d].conn = task[d].conn
        <3>1. task[d] \in Calls(Len(channel))
            BY DEF TcpInvariant, TypeOK
        <3>2. PICK h : task'[d] = [task[d] EXCEPT !.heard = h] \/ task'[d] = task[d]
            BY <2>2, Zenon DEF AsyncDrop
        <3> QED BY <3>1, <3>2 DEF Calls
    <2> QED BY <2>1, <2>2
<1>6. k # None =>
        /\ socket[k] # "none"
        /\ \A p \in DOMAIN channel, i \in Channels : channel[p][i].conn # k
        /\ \A d \in Tasks : d # c => task[d].conn # k
    BY SMTT(30) DEF Owned, KeptOnce
<1> HIDE DEF o, ch, k, new
<1>7. KeptOnce'
    BY <1>3, <1>4, <1>5, <1>6, SMTT(30) DEF Owned, KeptOnce
<1>8. \A d \in Tasks : task'[d].conn # None =>
        /\ socket'[task'[d].conn] # "none"
        /\ \A e \in Tasks : task'[e].conn = task'[d].conn => e = d
    BY <1>3, <1>5 DEF Owned
<1> QED BY <1>7, <1>8 DEF Owned

\* The steps of receive, of the network and of remove_node.
LEMMA OthersRelease ==
    ASSUME TcpInvariant,
           \/ ReceiveResolve \/ ReceiveAdd \/ Inbound
           \/ \E k \in Conns : SocketCloses(k)
           \/ CloseAll \/ \E conns \in SUBSET Conns : AllClosed(conns)
           \/ \E r \in Removers : RemoveNode(r) \/ Disconnected(r)
           \/ \E r \in Removers, ch \in Channels : CloseChannel(r, ch)
           \/ UNCHANGED vars
    PROVE  Releases
<1>1. UNCHANGED task
    BY Zenon DEF ReceiveResolve, ReceiveAdd, Inbound, SocketCloses, CloseAll, AllClosed, RemoveNode,
           OnDisconnected, OnSendFailed, DisconnectAll, Disconnected, CloseChannel, vars
<1>2. \A k \in Conns : socket[k] # "none" => socket'[k] # "none"
    <2>1. CASE Inbound \/ CloseAll
        BY <2>1 DEF Inbound, CloseAll, TcpInvariant, TypeOK
    <2>2. CASE \E r \in Removers : RemoveNode(r)
        BY <2>2 DEF RemoveNode, OnDisconnected, OnSendFailed, DisconnectAll, TcpInvariant, TypeOK
    <2>3. CASE \/ \E k \in Conns : SocketCloses(k)
               \/ \E conns \in SUBSET Conns : AllClosed(conns)
               \/ \E r \in Removers : Disconnected(r)
        BY <2>3, GoneReleases, Zenon DEF SocketCloses, AllClosed, Disconnected, TcpInvariant
    <2>4. CASE UNCHANGED socket
        BY <2>4
    <2> QED BY <2>1, <2>2, <2>3, <2>4 DEF ReceiveResolve, ReceiveAdd, CloseChannel, vars
<1>3. \A p \in DOMAIN channel', i \in Channels :
        \/ channel'[p][i].conn = None
        \/ p \in DOMAIN channel /\ channel'[p][i].conn = channel[p][i].conn
    <2>1. CASE ReceiveAdd
        BY <2>1, AddReleases, ZenonT(40) DEF ReceiveAdd, TcpInvariant
    <2>2. CASE \E r \in Removers, ch \in Channels : CloseChannel(r, ch)
        <3>1. PICK r \in Removers, ch \in Channels : CloseChannel(r, ch)
            BY <2>2
        <3>2. remover[r].obj \in 1..Len(channel)
            BY <3>1, Assignment DEF CloseChannel, Closes
        <3>3. Closed \in TcpStates /\ Closed.conn = None
            BY DEF TcpStates, Closed
        <3>4. channel' = Transition(remover[r].obj, ch, Closed)
            BY <3>1 DEF CloseChannel
        <3> QED BY <3>2, <3>3, <3>4, TransitionReleases DEF TcpInvariant
    <2>3. CASE UNCHANGED channel
        BY <2>3
    <2> QED BY <2>1, <2>2, <2>3, ZenonT(40)
            DEF ReceiveResolve, Inbound, SocketCloses, CloseAll, AllClosed, RemoveNode,
                OnDisconnected, OnSendFailed, DisconnectAll, Disconnected, vars
<1> QED BY <1>1, <1>2, <1>3 DEF Releases

\* Every step leaves a connection with one owner.
LEMMA OwnedStep ==
    TcpInvariant /\ Owned /\ [Next]_vars => Owned'
<1> SUFFICES ASSUME TcpInvariant, Owned, [Next]_vars PROVE Owned'
    OBVIOUS
<1>1. CASE \E c \in Tasks : Connect(c)
    <2>1. PICK c \in Tasks : Connect(c)
        BY <1>1
    <2>2. CASE ConnectOk(c)
        BY <2>2, ConnectOwned
    <2>3. CASE AsyncDrop(c)
        BY <2>3, DropOwned
    <2>4. CASE Resolve(c) \/ AddNode(c) \/ Attempt(c) \/ ConnectFail(c) \/ Await(c) \/ Recv(c)
        BY <2>4, ConnectReleases, ReleasesKeep DEF TcpInvariant
    <2> QED BY <2>1, <2>2, <2>3, <2>4 DEF Connect
<1>2. CASE ~ \E c \in Tasks : Connect(c)
    <2>1. Releases
        BY <1>2, OthersRelease DEF Next
    <2> QED BY <2>1, ReleasesKeep DEF TcpInvariant
<1> QED BY <1>1, <1>2

(***************************************************************************)
(* A connection that connect established is kept by at most one channel of *)
(* one VirtNode, however many tasks connect, and by none while its permit  *)
(* has not been dropped.                                                   *)
(***************************************************************************)
THEOREM KeptOnceCorrect == Spec => []KeptOnce
<1>1. Init => Owned
    BY DEF Init, Owned, KeptOnce, Idle
<1>2. Owned => KeptOnce
    BY DEF Owned
<1> QED BY InitCorrect, NextCorrect, OwnedStep, <1>1, <1>2, PTL DEF Spec

-----------------------------------------------------------------------------
(* The transport layer *)

Phases == {"up", "remove", "close", "sleep", "down"}

\* What shutdown remembers of the connections.
StopTyped == \E n : stop \in [phase : Phases, senders : {n}, conns : SUBSET Conns]

\* Every step leaves the connections that shutdown remembers well-typed.
LEMMA StopStep ==
    ASSUME StopTyped, TransportNext \/ UNCHANGED allVars
    PROVE  StopTyped'
<1>1. PICK n : stop \in [phase : Phases, senders : {n}, conns : SUBSET Conns]
    BY DEF StopTyped
<1>2. CASE UNCHANGED stop
    BY <1>1, <1>2 DEF StopTyped
<1>3. CASE Shutdown
    <2>1. stop' \in [phase : Phases, senders : {Cardinality(Places)}, conns : SUBSET Conns]
        BY <1>1, <1>3, Zenon DEF Shutdown, Phases
    <2> QED BY <2>1 DEF StopTyped
<1>4. CASE ShutdownRemoves
    <2>1. stop' \in [phase : Phases, senders : {stop.senders - 1}, conns : SUBSET Conns]
        BY <1>1, <1>4 DEF ShutdownRemoves
    <2> QED BY <2>1 DEF StopTyped
<1>5. CASE ShutdownCloses
    <2>1. stop' \in [phase : Phases, senders : {n}, conns : SUBSET Conns]
        BY <1>1, <1>5, Zenon DEF ShutdownCloses, Phases
    <2> QED BY <2>1 DEF StopTyped
<1>6. CASE ShutdownWaits \/ SessionsClose
    <2>1. stop' \in [phase : Phases, senders : {n}, conns : SUBSET Conns]
        BY <1>1, <1>6, ZenonT(40) DEF ShutdownWaits, SessionsClose, Phases
    <2> QED BY <2>1 DEF StopTyped
<1>7. ASSUME \/ \E u \in Users : UserNext(u)
             \/ \E c \in Tasks :
                  Proceeds(c) \/ Connects(c) \/ Drops(c) \/ Awaits(c) \/ Receives(c)
             \/ Dispatch \/ DispatchAdds \/ NetworkActs
             \/ \E r \in Removers : Remove(r) \/ Removed(r)
             \/ UNCHANGED allVars
      PROVE  UNCHANGED stop
    BY <1>7, ZenonT(40) DEF UserNext, Forward, QueryFails, QueryHit, QueryMiss, Send, Sent, Reconnect, Return,
                Proceeds, Connects, Drops, Awaits, Receives, Dispatch, DispatchAdds, NetworkActs,
                Remove, Removed, allVars, transportVars
<1> QED BY <1>2, <1>3, <1>4, <1>5, <1>6, <1>7 DEF TransportNext

\* A caller that goes on starts a call of connect, or leaves VirtualTcp alone.
LEMMA UserStep ==
    ASSUME NEW u \in Users, UserNext(u)
    PROVE  UNCHANGED vars \/ \E c \in Tasks : Resolve(c)
<1> USE DEF UserNext, Forward, QueryFails, QueryHit, Sent, Return
<1>1. CASE \/ \E ch \in Uses, i \in Ids : Forward(u, ch, i)
           \/ QueryFails(u) \/ QueryHit(u) \/ Sent(u) \/ Return(u)
    BY <1>1, ZenonT(40)
<1>2. ASSUME NEW for, Begin(u, for) PROVE \E c \in Tasks : Resolve(c)
    <2> DEFINE free == {c \in Tasks : At(c, "idle") /\ task[c].ch = user[u].ch}
    <2>1. PICK c \in free : Resolve(c)
        BY <1>2, ZenonT(40) DEF Begin
    <2> QED BY <2>1, ZenonT(40)
<1>3. CASE QueryMiss(u) \/ Send(u) \/ Reconnect(u)
    BY <1>2, <1>3, Zenon DEF QueryMiss, Send, Reconnect
<1> QED BY <1>1, <1>3, ZenonT(40)

(***************************************************************************)
(* Every step of the transport layer is allowed by VirtualTcp.             *)
(***************************************************************************)
THEOREM TransportRefines == StopTyped /\ [TransportNext]_allVars => [Next]_vars
<1> SUFFICES ASSUME StopTyped, TransportNext \/ UNCHANGED allVars PROVE [Next]_vars
    OBVIOUS
<1>1. CASE \E u \in Users : UserNext(u)
    BY <1>1, UserStep DEF Next, Connect
<1>2. CASE \E c \in Tasks : Proceeds(c) \/ Connects(c) \/ Drops(c) \/ Awaits(c) \/ Receives(c)
    BY <1>2 DEF Proceeds, Connects, Drops, Awaits, Receives, Next, Connect
<1>3. CASE Dispatch \/ DispatchAdds \/ NetworkActs
    BY <1>3 DEF Dispatch, DispatchAdds, NetworkActs, Next
<1>4. CASE \E r \in Removers : Remove(r) \/ Removed(r)
    BY <1>4 DEF Remove, Removed, RemoveNode, Next, Channels
<1>5. CASE Shutdown \/ SessionsClose \/ UNCHANGED allVars
    BY <1>5 DEF Shutdown, SessionsClose, allVars
<1>6. CASE ShutdownRemoves \/ ShutdownCloses
    BY <1>6, TransportAssumption DEF ShutdownRemoves, ShutdownCloses, RemoveNode, Next
<1>7. CASE ShutdownWaits
    <2>1. AllClosed(stop.conns)
        BY <1>7 DEF ShutdownWaits
    <2>2. stop.conns \in SUBSET Conns
        BY DEF StopTyped
    <2> QED BY <2>1, <2>2 DEF Next
<1> QED BY <1>1, <1>2, <1>3, <1>4, <1>5, <1>6, <1>7 DEF TransportNext

\* The invariant of VirtualTcp, and what shutdown adds to it, is preserved.
LEMMA TransportInvariantCorrect == TransportSpec => [](TcpInvariant /\ Owned /\ StopTyped)
<1>1. TransportInit => TcpInvariant /\ Owned /\ StopTyped
    <2> SUFFICES ASSUME TransportInit PROVE TcpInvariant /\ Owned /\ StopTyped
        OBVIOUS
    <2>1. TcpInvariant
        BY InitCorrect, ZenonT(40) DEF TransportInit
    <2>3. Owned
        BY DEF TransportInit, Init, Owned, KeptOnce, Idle
    <2>2. stop \in [phase : Phases, senders : {0}, conns : SUBSET Conns]
        BY DEF TransportInit, Phases
    <2> QED BY <2>1, <2>2, <2>3 DEF StopTyped
<1>2. TcpInvariant /\ Owned /\ StopTyped /\ [TransportNext]_allVars
        => (TcpInvariant /\ Owned /\ StopTyped)'
    BY TransportRefines, NextCorrect, OwnedStep, StopStep
<1> QED BY <1>1, <1>2, PTL DEF TransportSpec

(***************************************************************************)
(* Whatever the callers of the transport layer do, and while it is shut    *)
(* down, permits are exclusive and a connection is kept once.              *)
(***************************************************************************)
THEOREM TransportPermits == TransportSpec => [](PermitExclusive /\ KeptOnce)
<1>1. TcpInvariant /\ Owned => PermitExclusive /\ KeptOnce
    BY DEF TcpInvariant, Owned
<1> QED BY TransportInvariantCorrect, <1>1, PTL

-----------------------------------------------------------------------------
(* Connections that end *)

\* What the channel ch of the registered VirtNode keeps.
Kept(ch) == IF registry = None THEN None ELSE channel[registry][ch].conn

\* The end of a connection is still to be handled for the channel: by ingress_router, which has
\* an event left or removes this very VirtNode.  Other removals do not count: theirs may be an
\* older one.
Awaited(ch) ==
    \/ events > 0
    \/ remover["router"].pc = "disconnect"
    \/ remover["router"].pc \in {"Messages", ch} /\ remover["router"].obj = registry

\* GoneIsCleared, with the removal that clears the channel.
Cleared ==
    \A ch \in Channels :
        Kept(ch) \notin late \cup {None} /\ socket[Kept(ch)] = "gone" => Awaited(ch)

\* Connections that existed when TcpLayer::shutdown began are closed once its wait is over.
Ended == stop.phase \in {"sleep", "down"} => \A k \in stop.conns : socket[k] = "gone"

\* What channels keep is a connection of the network.
LEMMA KeptTyped == ASSUME TypeOK, NEW ch \in Channels PROVE Kept(ch) \in Conns \cup {None}
<1>1. CASE registry = None
    BY <1>1 DEF Kept
<1>2. CASE registry # None
    <2>1. registry \in DOMAIN channel
        BY <1>2 DEF TypeOK, None
    <2> QED BY <1>2, <2>1, ConnTyped DEF Kept
<1> QED BY <1>1, <1>2

\* Sockets that close are reported by events.
LEMMA GoneIsReported ==
    ASSUME TypeOK, NEW conns \in SUBSET Conns, Gone(conns)
    PROVE  /\ \A k \in Conns : socket[k] = "gone" => socket'[k] = "gone"
           /\ \A k \in conns : socket'[k] = "gone"
           /\ \A k \in Conns : socket'[k] = "gone" => socket[k] = "gone" \/ events' > 0
           /\ events > 0 => events' > 0
<1> DEFINE T == {k \in conns : socket[k] # "gone"}
<1>1. IsFiniteSet(T)
    <2>1. IsFiniteSet(Conns)
        BY TcpAssumption, FS_Interval DEF Conns
    <2> QED BY <2>1, FS_Subset
<1>2. Cardinality(T) \in Nat /\ (T # {} => Cardinality(T) # 0)
    BY <1>1, FS_CardinalityType, FS_EmptySet
<1>3. events' = events + Cardinality(T) /\ events \in Nat
    BY DEF Gone, TypeOK
<1>4. (events > 0 => events' > 0) /\ (T # {} => events' > 0)
    <2> HIDE DEF T
    <2> QED BY <1>2, <1>3
<1>5. \A k \in Conns : socket'[k] = IF k \in conns THEN "gone" ELSE socket[k]
    BY DEF Gone
<1> QED BY <1>4, <1>5

\* A connection that is gone does not come back.
LEMMA GoneStays ==
    ASSUME TypeOK, [Next]_vars, NEW k \in Conns, socket[k] = "gone"
    PROVE  socket'[k] = "gone"
<1>1. CASE UNCHANGED socket
    BY <1>1, ZenonT(40)
<1>2. CASE \E c \in Tasks : Connect(c)
    <2>1. PICK c \in Tasks : Connect(c)
        BY <1>2
    <2>2. CASE ConnectOk(c)
        BY <2>2 DEF ConnectOk, TypeOK
    <2> QED BY <1>1, <2>1, <2>2 DEF Connect, Resolve, AddNode, Attempt, ConnectFail, AsyncDrop, Await, Recv
<1>3. CASE Inbound \/ CloseAll
    BY <1>3 DEF Inbound, CloseAll, TypeOK
<1>4. CASE \/ \E j \in Conns : SocketCloses(j)
           \/ \E conns \in SUBSET Conns : AllClosed(conns)
           \/ \E r \in Removers : Disconnected(r)
    BY <1>4, Zenon DEF SocketCloses, AllClosed, Disconnected, Gone, TypeOK
<1>5. CASE \E r \in Removers : RemoveNode(r)
    BY <1>5 DEF RemoveNode, OnDisconnected, OnSendFailed, DisconnectAll, TypeOK
<1>6. CASE \/ ReceiveResolve \/ ReceiveAdd \/ UNCHANGED vars
           \/ \E r \in Removers, ch \in Channels : CloseChannel(r, ch)
    BY <1>1, <1>6 DEF ReceiveResolve, ReceiveAdd, CloseChannel, vars
<1> QED BY <1>2, <1>3, <1>4, <1>5, <1>6 DEF Next

\* The registry does not lose the node.
LEMMA RegistryStays ==
    ASSUME TypeOK, [Next]_vars
    PROVE  registry' = registry \/ (AddVirtNode /\ registry' # None)
<1>1. CASE AddVirtNode
    <2>1. Len(channel) \in Nat
        BY DEF TypeOK
    <2> QED BY <1>1, <2>1 DEF AddVirtNode, None
<1> QED BY <1>1, Zenon
        DEF Next, Connect, Resolve, AddNode, Attempt, ConnectOk, ConnectFail, AsyncDrop, Await, Recv,
            ReceiveResolve, ReceiveAdd, Inbound, SocketCloses, CloseAll, AllClosed, RemoveNode,
            OnDisconnected, OnSendFailed, DisconnectAll, Disconnected, CloseChannel, vars

\* A new VirtNode keeps nothing.
LEMMA AddKept ==
    ASSUME TypeOK, AddVirtNode, NEW ch \in Channels PROVE Kept(ch)' = None
<1>1. channel \in Seq(States) /\ Len(channel) \in Nat
    BY DEF TypeOK, States
<1>2. channel'[Len(channel) + 1] = [i \in Channels |-> Closed] /\ registry' = Len(channel) + 1
    BY <1>1 DEF AddVirtNode
<1> QED BY <1>2 DEF Kept, Closed

\* A step that only lets go of connections, on the registered VirtNode.
LEMMA KeptReleased ==
    ASSUME TypeOK, TypeOK', Releases, registry' = registry, NEW ch \in Channels
    PROVE  Kept(ch)' \in {None, Kept(ch)}
<1>1. CASE registry = None
    BY <1>1 DEF Kept
<1>2. CASE registry # None
    <2>1. registry \in DOMAIN channel'
        BY <1>2 DEF TypeOK, None
    <2> QED BY <1>2, <2>1 DEF Kept, Releases
<1> QED BY <1>1, <1>2

\* What is cleared stays so when ends are reported and the one that handles them goes on.
LEMMA ClearedKeeps ==
    ASSUME TypeOK, Cleared, late' = late, NEW ch \in Channels,
           Kept(ch)' \in {None, Kept(ch)},
           \A k \in Conns : socket'[k] = "gone" => socket[k] = "gone" \/ events' > 0,
           Awaited(ch) => Awaited(ch)' \/ Kept(ch)' = None
    PROVE  Kept(ch)' \notin late' \cup {None} /\ socket'[Kept(ch)'] = "gone" => Awaited(ch)'
<1> SUFFICES ASSUME Kept(ch)' \notin late' \cup {None}, socket'[Kept(ch)'] = "gone"
             PROVE  Awaited(ch)'
    OBVIOUS
<1>1. Kept(ch)' = Kept(ch) /\ Kept(ch) \in Conns /\ Kept(ch) \notin late \cup {None}
    BY KeptTyped
<1>2. CASE socket[Kept(ch)] = "gone"
    BY <1>1, <1>2 DEF Cleared
<1>3. CASE events' > 0
    BY <1>3 DEF Awaited
<1> QED BY <1>1, <1>2, <1>3

\* The steps of VirtualTcp that end no connection, and of a call that keeps none.
Calm(c) ==
    Resolve(c) \/ AddNode(c) \/ Attempt(c) \/ ConnectOk(c) \/ ConnectFail(c) \/ Await(c) \/ Recv(c)

\* Those steps leave no channel with a connection that is gone and not awaited.
LEMMA CalmCleared ==
    ASSUME TcpInvariant, TypeOK', Cleared, late' = late,
           \/ \E c \in Tasks : Calm(c)
           \/ ReceiveResolve \/ ReceiveAdd \/ Inbound \/ CloseAll \/ UNCHANGED vars
    PROVE  Cleared'
<1> SUFFICES ASSUME NEW ch \in Channels
             PROVE  Kept(ch)' \notin late' \cup {None} /\ socket'[Kept(ch)'] = "gone"
                      => Awaited(ch)'
    BY DEF Cleared
<1>1. TypeOK
    BY ZenonT(40) DEF TcpInvariant
<1>2. events' = events /\ remover' = remover
    BY ZenonT(40) DEF Calm, Resolve, AddNode, Attempt, ConnectOk, ConnectFail, Await, Recv, ReceiveResolve,
           ReceiveAdd, Inbound, CloseAll, vars
<1>3. \A k \in Conns : socket'[k] = "gone" => socket[k] = "gone"
    <2>1. CASE UNCHANGED socket
        BY <2>1
    <2>2. CASE \E c \in Tasks : ConnectOk(c)
        BY <1>1, <2>2, ZenonT(40) DEF ConnectOk, TypeOK
    <2>3. CASE Inbound \/ CloseAll
        BY <1>1, <2>3 DEF Inbound, CloseAll, TypeOK
    <2> QED BY <2>1, <2>2, <2>3, Zenon
            DEF Calm, Resolve, AddNode, Attempt, ConnectFail, Await, Recv, ReceiveResolve,
                ReceiveAdd, vars
<1>4. CASE AddVirtNode
    BY <1>1, <1>4, AddKept
<1>5. CASE ~ AddVirtNode
    <2>1. registry' = registry
        BY <1>5, Zenon DEF Calm, Resolve, AddNode, Attempt, ConnectOk, ConnectFail, Await, Recv,
                    ReceiveResolve, ReceiveAdd, Inbound, CloseAll, vars
    <2>2. Kept(ch)' \in {None, Kept(ch)}
        <3>1. CASE UNCHANGED channel
            BY <2>1, <3>1 DEF Kept
        <3>2. CASE Releases
            BY <1>1, <2>1, <3>2, KeptReleased
        <3>3. CASE \E c \in Tasks : ConnectOk(c)
            BY <3>1, <3>3 DEF ConnectOk
        <3>4. CASE \E c \in Tasks : Calm(c) /\ ~ ConnectOk(c)
            BY <3>2, <3>4, ConnectReleases DEF Calm
        <3> QED BY <3>2, <3>3, <3>4, OthersRelease, ZenonT(40)
    <2>3. Awaited(ch)' = Awaited(ch)
        BY <1>2, <2>1 DEF Awaited
    <2> QED BY <1>1, <1>3, <2>2, <2>3, ClearedKeeps, ZenonT(40)
<1> QED BY <1>4, <1>5

\* Connections that end are reported, or closed by a removal that resolves the node afterwards.
LEMMA EndsCleared ==
    ASSUME TcpInvariant, Cleared, late' = late,
           \/ \E k \in Conns : SocketCloses(k)
           \/ \E conns \in SUBSET Conns : AllClosed(conns)
           \/ \E r \in Removers : Disconnected(r)
    PROVE  Cleared'
<1> SUFFICES ASSUME NEW ch \in Channels
             PROVE  Kept(ch)' \notin late' \cup {None} /\ socket'[Kept(ch)'] = "gone"
                      => Awaited(ch)'
    BY DEF Cleared
<1>1. TypeOK
    BY DEF TcpInvariant
<1>2. UNCHANGED <<registry, channel>>
    BY ZenonT(40) DEF SocketCloses, AllClosed, Disconnected
<1>3. Kept(ch)' = Kept(ch)
    BY <1>2 DEF Kept
<1>4. PICK conns \in SUBSET Conns : Gone(conns)
    <2>1. ASSUME NEW k \in Conns PROVE {k} \in SUBSET Conns
        OBVIOUS
    <2>2. ASSUME NEW r \in Removers PROVE remover[r].conns \in SUBSET Conns
        <3>1. remover[r] \in Removals(Len(channel))
            BY <1>1 DEF TypeOK
        <3> QED BY <3>1 DEF Removals
    <2> QED BY <2>1, <2>2, Zenon DEF SocketCloses, AllClosed, Disconnected
<1>5. /\ \A k \in Conns : socket'[k] = "gone" => socket[k] = "gone" \/ events' > 0
      /\ events > 0 => events' > 0
    BY <1>1, <1>4, GoneIsReported
<1>6. CASE remover'["router"] = remover["router"]
    <2>1. Awaited(ch) => Awaited(ch)'
        BY <1>2, <1>5, <1>6, ZenonT(40) DEF Awaited
    <2> QED BY <1>1, <1>3, <1>5, <2>1, ClearedKeeps, ZenonT(40)
<1>7. CASE Disconnected("router")
    <2>1. remover'["router"] = [pc |-> "Messages", conns |-> {}, obj |-> registry]
        BY <1>1, <1>7, TransportAssumption, ZenonT(40) DEF Disconnected, TypeOK
    <2> QED BY <1>2, <2>1 DEF Awaited
<1>8. CASE \E r \in Removers : r # "router" /\ Disconnected(r)
    BY <1>1, <1>6, <1>8, TransportAssumption, ZenonT(40) DEF Disconnected, TypeOK
<1> QED BY <1>6, <1>7, <1>8, ZenonT(40) DEF SocketCloses, AllClosed

\* remove_node begins: ingress_router is the one that takes an event.
LEMMA RemoveCleared ==
    ASSUME TcpInvariant, Cleared, late' = late, NEW r \in Removers, RemoveNode(r)
    PROVE  Cleared'
<1> SUFFICES ASSUME NEW ch \in Channels
             PROVE  Kept(ch)' \notin late' \cup {None} /\ socket'[Kept(ch)'] = "gone"
                      => Awaited(ch)'
    BY DEF Cleared
<1>1. TypeOK /\ "router" \in Removers
    BY TransportAssumption DEF TcpInvariant
<1>2. UNCHANGED <<registry, channel>>
    BY DEF RemoveNode, OnDisconnected, OnSendFailed, DisconnectAll
<1>3. Kept(ch)' = Kept(ch)
    BY <1>2 DEF Kept
<1>4. \A k \in Conns : socket'[k] = "gone" => socket[k] = "gone"
    BY DEF RemoveNode, OnDisconnected, OnSendFailed, DisconnectAll
<1>5. CASE OnDisconnected(r)
    <2>1. remover["router"] \in Removals(Len(channel))
        BY <1>1 DEF TypeOK
    <2>2. remover'["router"].pc = "disconnect"
        BY <1>1, <1>5, <2>1, ZenonT(40) DEF OnDisconnected, DisconnectAll, TypeOK, Removals
    <2> QED BY <2>2 DEF Awaited
<1>6. CASE OnSendFailed(r)
    <2>1. remover'["router"] = remover["router"] /\ events' = events
        BY <1>1, <1>6 DEF OnSendFailed, DisconnectAll, TypeOK
    <2>2. Awaited(ch) => Awaited(ch)'
        BY <1>2, <2>1 DEF Awaited
    <2> QED BY <1>1, <1>3, <1>4, <2>2, ClearedKeeps
<1> QED BY <1>5, <1>6 DEF RemoveNode

\* close_channel of the registered VirtNode leaves no connection in the channel.
LEMMA ClosingKeepsNothing ==
    ASSUME TypeOK, registry # None, NEW ch \in Channels, registry' = registry,
           channel' = Transition(registry, ch, Closed)
    PROVE  Kept(ch)' = None
<1>1. registry \in 1..Len(channel) /\ channel \in Seq(States)
    BY DEF TypeOK, None, States
<1>2. channel[registry][ch] \in TcpStates /\ Closed \in TcpStates /\ Closed.conn = None
    BY <1>1 DEF TypeOK, States, TcpStates, Closed
<1>3. channel'[registry][ch] =
        IF Allowed(channel[registry][ch], Closed) THEN Closed ELSE channel[registry][ch]
    BY <1>1, <1>2, TransitionChannel, ZenonT(40)
<1>4. ~ Allowed(channel[registry][ch], Closed) => channel[registry][ch].conn = None
    BY <1>2 DEF Allowed, TcpStates, Closed, Connecting, Failed, Connected
<1> QED BY <1>2, <1>3, <1>4 DEF Kept

\* remove_node goes on: a removal that has closed the channel is not awaited any more.
LEMMA CloseCleared ==
    ASSUME TcpInvariant, TypeOK', Cleared, late' = late,
           NEW r \in Removers, NEW i \in Channels, CloseChannel(r, i)
    PROVE  Cleared'
<1> SUFFICES ASSUME NEW ch \in Channels
             PROVE  Kept(ch)' \notin late' \cup {None} /\ socket'[Kept(ch)'] = "gone"
                      => Awaited(ch)'
    BY DEF Cleared
<1>1. TypeOK /\ "router" \in Removers
    BY TransportAssumption DEF TcpInvariant
<1>2. UNCHANGED <<registry, socket, events>>
    BY DEF CloseChannel
<1>3. Kept(ch)' \in {None, Kept(ch)}
    BY <1>1, <1>2, OthersRelease, KeptReleased
<1>4. Awaited(ch) => Awaited(ch)' \/ Kept(ch)' = None
    <2> SUFFICES ASSUME Awaited(ch), ~ Awaited(ch)' PROVE Kept(ch)' = None
        OBVIOUS
    <2>1. ~ events > 0
        BY <1>2 DEF Awaited
    <2>2. r = "router"
        <3>1. CASE r # "router"
            <4>1. remover'["router"] = remover["router"]
                BY <1>1, <3>1 DEF CloseChannel, Closes, TypeOK
            <4> QED BY <1>2, <4>1 DEF Awaited
        <3> QED BY <3>1
    <2>3. remover["router"].pc = i /\ i \in {"Messages", ch} /\ remover["router"].obj = registry
        BY <2>1, <2>2 DEF Awaited, CloseChannel, Closes, Channels
    <2>4. i = ch
        <3>1. CASE i = "Messages" /\ ch = "Transfer"
            <4>1. remover["router"] \in Removals(Len(channel))
                BY <1>1 DEF TypeOK
            <4>2. remover'["router"] = [remover["router"] EXCEPT !.pc = "Transfer"]
                BY <1>1, <2>2, <3>1 DEF CloseChannel, Closes, TypeOK
            <4>3. remover'["router"].pc = "Transfer" /\ remover'["router"].obj = registry
                BY <2>3, <4>1, <4>2, ZenonT(40) DEF Removals
            <4> QED BY <1>2, <3>1, <4>3 DEF Awaited
        <3> QED BY <2>3, <3>1 DEF Channels
    <2>5. registry # None
        BY <2>2, <2>3 DEF TcpInvariant, Assigned, Channels
    <2>6. channel' = Transition(registry, ch, Closed)
        BY <2>2, <2>3, <2>4, ZenonT(40) DEF CloseChannel
    <2> QED BY <1>1, <1>2, <2>5, <2>6, ClosingKeepsNothing, ZenonT(40)
<1> QED BY <1>1, <1>2, <1>3, <1>4, ClearedKeeps, ZenonT(40)

\* async_drop stores a connection that has not ended, or is a late one.
LEMMA DropCleared ==
    ASSUME TcpInvariant, TypeOK', Cleared, NEW c \in Tasks, Drops(c)
    PROVE  Cleared'
<1> SUFFICES ASSUME NEW ch \in Channels, Kept(ch)' \notin late' \cup {None},
                    socket'[Kept(ch)'] = "gone"
             PROVE  Awaited(ch)'
    BY DEF Cleared
<1>1. UNCHANGED <<registry, socket, events, remover>> /\ AsyncDrop(c)
    BY DEF Drops, AsyncDrop
<1>2. Awaited(ch)' = Awaited(ch)
    BY <1>1 DEF Awaited
<1>3. late \subseteq late'
    BY DEF Drops
<1>4. CASE Kept(ch)' = Kept(ch)
    BY <1>1, <1>2, <1>3, <1>4 DEF Cleared
<1>5. CASE Kept(ch)' = task[c].conn
    BY <1>1, <1>5, ZenonT(40) DEF Drops
<1>6. registry # None /\ registry \in 1..Len(channel)
    BY <1>1 DEF Kept, TcpInvariant, TypeOK, None
<1>7. Kept(ch)' = Kept(ch) \/ Kept(ch)' = task[c].conn
    <2> DEFINE k == task[c].conn
               new == IF k = None THEN Failed ELSE Connected(k)
    <2>1. task[c].obj \in 1..Len(channel) /\ task[c].ch \in Channels
        BY <1>1, Assignment, ZenonT(40) DEF AsyncDrop, At
    <2>2. new \in TcpStates /\ new.conn = k
        <3>1. k \in Conns \cup {None}
            BY ConnTyped DEF TcpInvariant
        <3> HIDE DEF k
        <3> QED BY <3>1, ZenonT(40) DEF TcpStates, Failed, Connected
    <2>3. channel' = Transition(task[c].obj, task[c].ch, new)
        BY <1>1 DEF AsyncDrop
    <2>4. channel \in Seq(States)
        BY ZenonT(40) DEF TcpInvariant, TypeOK, States
    <2> HIDE DEF k, new
    <2>5. channel'[registry][ch] \in {new, channel[registry][ch]}
        BY <1>6, <2>1, <2>2, <2>3, <2>4, TransitionChannel, SMTT(30)
    <2>6. Kept(ch)' \in {k, Kept(ch)}
        BY <1>1, <1>6, <2>2, <2>5, ZenonT(40) DEF Kept
    <2> QED BY <2>6 DEF k
<1> QED BY <1>4, <1>5, <1>7, ZenonT(40)

-----------------------------------------------------------------------------
\* Every step of the transport layer, but for async_drop, leaves the late connections alone.
LEMMA LateStep ==
    ASSUME TransportNext \/ UNCHANGED allVars
    PROVE  \/ \E c \in Tasks : Drops(c)
           \/ /\ late' = late
              /\ \/ \E c \in Tasks : Calm(c)
                 \/ UNCHANGED vars \/ ReceiveResolve \/ ReceiveAdd \/ Inbound \/ CloseAll
                 \/ \E k \in Conns : SocketCloses(k)
                 \/ AllClosed(stop.conns)
                 \/ \E r \in Removers : RemoveNode(r) \/ Disconnected(r)
                 \/ \E r \in Removers, ch \in Channels : CloseChannel(r, ch)
<1>1. CASE \E u \in Users : UserNext(u)
    <2>1. late' = late
        BY <1>1, ZenonT(40) DEF UserNext, Forward, QueryFails, QueryHit, QueryMiss, Send, Sent, Reconnect, Return
    <2> QED BY <1>1, <2>1, UserStep, ZenonT(40) DEF Calm
<1>2. CASE \E c \in Tasks : Proceeds(c) \/ Connects(c) \/ Drops(c) \/ Awaits(c) \/ Receives(c)
    BY <1>2, Zenon DEF Proceeds, Connects, Awaits, Receives, Calm, transportVars
<1>3. CASE Dispatch \/ DispatchAdds \/ NetworkActs
    BY <1>3 DEF Dispatch, DispatchAdds, NetworkActs
<1>4. CASE \E r \in Removers : Remove(r) \/ Removed(r)
    BY <1>4 DEF Remove, Removed, RemoveNode, Channels
<1>5. CASE Shutdown \/ SessionsClose \/ UNCHANGED allVars
    BY <1>5 DEF Shutdown, SessionsClose, allVars, transportVars
<1>6. CASE ShutdownRemoves \/ ShutdownCloses \/ ShutdownWaits
    BY <1>6, TransportAssumption DEF ShutdownRemoves, ShutdownCloses, ShutdownWaits, RemoveNode
<1> QED BY <1>1, <1>2, <1>3, <1>4, <1>5, <1>6, ZenonT(40) DEF TransportNext

\* Nor does any other step of the transport layer.
LEMMA ClearedStep ==
    ASSUME TcpInvariant, TypeOK', StopTyped, Cleared, [TransportNext]_allVars
    PROVE  Cleared'
<1>1. CASE \E c \in Tasks : Drops(c)
    BY <1>1, DropCleared
<1>2. CASE /\ late' = late
           /\ \/ \E c \in Tasks : Calm(c)
              \/ UNCHANGED vars \/ ReceiveResolve \/ ReceiveAdd \/ Inbound \/ CloseAll
    BY <1>2, CalmCleared, ZenonT(40)
<1>3. CASE /\ late' = late
           /\ \/ \E k \in Conns : SocketCloses(k)
              \/ AllClosed(stop.conns)
              \/ \E r \in Removers : Disconnected(r)
    <2>1. stop.conns \in SUBSET Conns
        BY DEF StopTyped
    <2> QED BY <1>3, <2>1, EndsCleared
<1>4. CASE late' = late /\ \E r \in Removers : RemoveNode(r)
    BY <1>4, RemoveCleared
<1>5. CASE late' = late /\ \E r \in Removers, ch \in Channels : CloseChannel(r, ch)
    BY <1>5, CloseCleared
<1> QED BY <1>1, <1>2, <1>3, <1>4, <1>5, LateStep, ZenonT(40)

\* Only dispatch lets packets take the fast lane, and the registry knows the node by then.
LEMMA LaneStep ==
    ASSUME TypeOK, StopTyped, LaneIsKnown, [TransportNext]_allVars
    PROVE  LaneIsKnown'
<1>1. registry # None => registry' # None
    BY TransportRefines, RegistryStays
<1>2. CASE lane' => lane
    BY <1>1, <1>2 DEF LaneIsKnown
<1>3. CASE Dispatch
    BY <1>1, <1>2, <1>3, Zenon DEF Dispatch, LaneIsKnown
<1>4. CASE DispatchAdds
    <2>1. Len(channel) \in Nat
        BY DEF TypeOK
    <2> QED BY <1>4, <2>1 DEF DispatchAdds, ReceiveAdd, AddVirtNode, LaneIsKnown, None
<1>5. CASE \E r \in Removers : Removed(r)
    BY <1>5, ZenonT(40) DEF Removed, LaneIsKnown
<1>6. ASSUME \/ \E u \in Users : UserNext(u)
             \/ \E c \in Tasks :
                  Proceeds(c) \/ Connects(c) \/ Drops(c) \/ Awaits(c) \/ Receives(c)
             \/ NetworkActs \/ \E r \in Removers : Remove(r)
             \/ Shutdown \/ ShutdownRemoves \/ ShutdownCloses \/ ShutdownWaits \/ SessionsClose
             \/ UNCHANGED allVars
      PROVE  lane' = lane
    BY <1>6, Zenon DEF UserNext, Forward, QueryFails, QueryHit, QueryMiss, Send, Sent, Reconnect, Return,
                Proceeds, Connects, Drops, Awaits, Receives, NetworkActs, Remove, Shutdown,
                ShutdownRemoves, ShutdownCloses, ShutdownWaits, SessionsClose, allVars,
                transportVars
<1> QED BY <1>2, <1>3, <1>4, <1>5, <1>6 DEF TransportNext

\* The wait of shutdown ends with its connections closed, and they stay closed.
LEMMA EndedStep ==
    ASSUME TypeOK, StopTyped, Ended, [TransportNext]_allVars
    PROVE  Ended'
<1>1. stop.conns \in SUBSET Conns
    BY DEF StopTyped
<1>2. \A k \in Conns : socket[k] = "gone" => socket'[k] = "gone"
    BY TransportRefines, GoneStays
<1>3. PICK n : stop \in [phase : Phases, senders : {n}, conns : SUBSET Conns]
    BY DEF StopTyped
<1>4. CASE UNCHANGED stop
    BY <1>1, <1>2, <1>4 DEF Ended
<1>5. CASE Shutdown \/ ShutdownRemoves \/ ShutdownCloses
    <2>1. stop'.phase \in {"remove", "close"}
        BY <1>3, <1>5, ZenonT(40) DEF Shutdown, ShutdownRemoves, ShutdownCloses
    <2> QED BY <2>1 DEF Ended
<1>6. CASE ShutdownWaits
    <2>1. stop'.conns = stop.conns /\ Gone(stop.conns)
        BY <1>3, <1>6 DEF ShutdownWaits, AllClosed
    <2> QED BY <1>1, <2>1, GoneIsReported DEF Ended
<1>7. CASE SessionsClose
    <2>1. stop'.conns = stop.conns /\ stop.phase = "sleep"
        BY <1>3, <1>7 DEF SessionsClose
    <2> QED BY <1>1, <1>2, <2>1 DEF Ended
<1>8. ASSUME \/ \E u \in Users : UserNext(u)
             \/ \E c \in Tasks :
                  Proceeds(c) \/ Connects(c) \/ Drops(c) \/ Awaits(c) \/ Receives(c)
             \/ Dispatch \/ DispatchAdds \/ NetworkActs
             \/ \E r \in Removers : Remove(r) \/ Removed(r)
             \/ UNCHANGED allVars
      PROVE  UNCHANGED stop
    BY <1>8, ZenonT(40) DEF UserNext, Forward, QueryFails, QueryHit, QueryMiss, Send, Sent, Reconnect, Return,
                Proceeds, Connects, Drops, Awaits, Receives, Dispatch, DispatchAdds, NetworkActs,
                Remove, Removed, allVars, transportVars
<1> QED BY <1>4, <1>5, <1>6, <1>7, <1>8 DEF TransportNext

\* Nothing is established, cached or shut down initially.
LEMMA EndsInit == TransportInit => Cleared /\ LaneIsKnown /\ Ended
BY DEF TransportInit, Init, Cleared, Kept, LaneIsKnown, Ended

\* The invariants about connections that end, together.
LEMMA EndsCorrect == TransportSpec => [](TypeOK /\ Cleared /\ LaneIsKnown /\ Ended)
<1> DEFINE Base == TcpInvariant /\ Owned /\ StopTyped
           Ends == Cleared /\ LaneIsKnown /\ Ended
<1>1. Base /\ Base' /\ Ends /\ [TransportNext]_allVars => Ends'
    BY ClearedStep, LaneStep, EndedStep DEF TcpInvariant
<1>2. TransportInit => Ends
    BY EndsInit
<1>3. TransportSpec => []Base
    BY TransportInvariantCorrect
<1>4. Base /\ Ends => TypeOK /\ Cleared /\ LaneIsKnown /\ Ended
    BY DEF TcpInvariant
<1> HIDE DEF Base, Ends
<1> QED BY <1>1, <1>2, <1>3, <1>4, PTL DEF TransportSpec

(***************************************************************************)
(* A channel of the registered VirtNode keeps a connection that is gone    *)
(* only while ingress_router has its end still to handle, or if the        *)
(* connection ended before async_drop stored it; and the fast lane leads   *)
(* to a node that the registry knows.  However many callers connect, send  *)
(* and disconnect meanwhile, and however many nodes were added.            *)
(***************************************************************************)
THEOREM NothingIsStaleCorrect == TransportSpec => []NothingIsStale
<1>1. TypeOK /\ Cleared => GoneIsCleared
    <2> SUFFICES ASSUME Cleared, NEW ch \in Channels, Kept(ch) \notin late \cup {None},
                        socket[Kept(ch)] = "gone"
                 PROVE  \/ events > 0
                        \/ \E r \in Removers : remover[r].pc \in {"disconnect", "Messages", ch}
        BY DEF GoneIsCleared, Kept
    <2> QED BY TransportAssumption DEF Cleared, Awaited
<1> QED BY <1>1, EndsCorrect, PTL DEF NothingIsStale

(***************************************************************************)
(* SessionLayer::shutdown begins after every connection that existed when  *)
(* TcpLayer::shutdown began is closed, whatever is established, closed or  *)
(* removed while it waits.                                                 *)
(***************************************************************************)
THEOREM ClosedBeforeSessionsCorrect == TransportSpec => []ClosedBeforeSessions
<1>1. Ended => ClosedBeforeSessions
    BY DEF Ended, ClosedBeforeSessions
<1> QED BY <1>1, EndsCorrect, PTL
===============================================================================
