------------------------------ MODULE Discovery ------------------------------
(***************************************************************************)
(* How a client finds other nodes: what the relay answers to requests for  *)
(* neighbours and for a node, which gives slots to the nodes it names      *)
(* (SlotManager), and what a client does with the answers: the cached      *)
(* neighbourhood, the check of nodes that have left it, and broadcasts     *)
(* (client.rs).                                                            *)
(*                                                                         *)
(* The index of the relay is what RelayServer has in detail: a node is in  *)
(* it with a session whose address is valid or not, or its sessions are    *)
(* gone and the cleaner has not passed yet.  Every node has one identity.  *)
(* A handler of the relay is one step; so is the sending of a packet.      *)
(***************************************************************************)
EXTENDS SlotManager, FiniteSets, SequencesExt

CONSTANTS
    Bits,       \* the bits of each node's id
    Self,       \* the client
    Callers,    \* its tasks that broadcast
    Count,      \* to so many nodes
    Word,       \* the bits that extract_prefix takes, 32 in the code
    Limit,      \* how many nodes the relay's operator is shown, 50 in the code
    Mixes       \* what may happen how often, and the relay's index at the beginning

ASSUME DiscoveryAssumption ==
    /\ Self \in NodeIds \ {Default} /\ Count \in Nat /\ Word \in Nat \ {0} /\ Limit \in Nat \ {0}
    /\ DOMAIN Bits = NodeIds
    /\ \A m, n \in NodeIds : Len(Bits[m]) = Len(Bits[n]) /\ (m # n => Bits[m] # Bits[n])

VARIABLES
    left,       \* what may still happen; `split`: SessionManager::mode
    listed,     \* SessionManager::node_sessions, and the address status of the last session
    shown,      \* the answer to the operator's last question, and the index it was asked of
    p2p,        \* the nodes with which the client has a session of its own
    routed,     \* those it reaches through the relay
    cache,      \* ClientState::neighbours
    caller,     \* the broadcasts
    checks      \* the tasks of check_nodes_connection

clientVars == <<p2p, routed, cache, caller, checks>>
relayVars == <<listed, shown>>
allVars == <<slotVars, left, relayVars, clientVars>>

NoCache == [kept |-> FALSE, nodes |-> <<>>, fresh |-> FALSE]
Idle == [at |-> "idle", targets |-> {}, todo |-> {}, reply |-> <<>>, others |-> 0]

DiscoveryInit ==
    /\ SlotInit
    /\ left \in Mixes
    /\ listed = left.index
    /\ shown = [text |-> <<>>, index |-> {}, nodes |-> {}]
    /\ p2p = {} /\ routed = {}
    /\ cache = NoCache
    /\ caller = [k \in Callers |-> Idle]
    /\ checks = {}

Happens(what) == left[what] > 0 /\ left' = [left EXCEPT ![what] = @ - 1]
-----------------------------------------------------------------------------
(* The relay *)

Live(n) == listed[n] \in {"valid", "invalid"}

hamming_distance ==
    [m, n \in NodeIds |-> Cardinality({i \in DOMAIN Bits[m] : Bits[m][i] # Bits[n][i]})]

\* The order of node ids as byte strings.
Greater(m, n) ==
    \E i \in DOMAIN Bits[m] : Bits[m][i] > Bits[n][i] /\ \A j \in 1..(i - 1) : Bits[m][j] = Bits[n][j]

\* The nodes that the heap of Distance gives before n.
Before ==
    [base, n \in NodeIds |->
        LET d(m) == hamming_distance[base, m]
        IN  {m \in NodeIds : d(m) < d(n) \/ (d(m) = d(n) /\ Greater(m, n))}]

Popped(base, ids) ==
    [i \in 1..Cardinality(ids) |-> CHOOSE n \in ids : Cardinality(Before[base, n] \cap ids) = i - 1]

\* A fault: the node that asks is taken for one of its neighbours.
neighboursAll(base, count) ==
    LET found == SelectSeq(Popped(base, {n \in NodeIds : listed[n] # "none"}), Live)
    IN  SubSeq(found, 1, IF Len(found) < count THEN Len(found) ELSE count)

\* SessionManager::neighbours.  The first one found is skipped: it should be base itself.
neighbours(base, count) ==
    LET public == left.split = 1 /\ listed[base] # "valid"
        heap == {n \in NodeIds : IF public THEN listed[n] = "valid" ELSE listed[n] # "none"}
        found == SelectSeq(Popped(base, heap), Live)
    IN  SubSeq(found, 2, IF Len(found) < count + 1 THEN Len(found) ELSE count + 1)

\* to_node_info for the nodes ns: each gets a slot, if it has none.
Decoded(ns) ==
    LET new == SelectSeq(ns, LAMBDA n : n \notin DOMAIN nodes)
    IN  /\ Running /\ (new # <<>> => phase # "writing")
        /\ slots' = slots \o new
        /\ nodes' = Numbering(slots')
        /\ given' = given \cup {<<n, nodes'[n]>> : n \in Range(ns)}
        /\ UNCHANGED <<phase, exists, file, out>>

\* NodeHandler and SlotHandler, for any client.
AskedFor(n) ==
    /\ Live(n) /\ left.busy = 1
    /\ Slot(n)
    /\ UNCHANGED <<left, relayVars, clientVars>>

\* A node registers, with the outcome of the check of its address, or loses its last session.
Join(n) ==
    /\ ~Live(n) /\ Happens("join")
    /\ \E status \in {"valid", "invalid"} : listed' = [listed EXCEPT ![n] = status]
    /\ UNCHANGED <<slotVars, shown, clientVars>>

Leave(n) ==
    /\ Live(n) /\ Happens("leave")
    /\ listed' = [listed EXCEPT ![n] = "gone"]
    /\ UNCHANGED <<slotVars, shown, clientVars>>

\* clean_node_sessions.
Clean(n) ==
    /\ listed[n] = "gone"
    /\ listed' = [listed EXCEPT ![n] = "none"]
    /\ UNCHANGED <<slotVars, left, shown, clientVars>>

\* ControlCommand::SetMode.
SetMode ==
    /\ left.mode > 0
    /\ left' = [left EXCEPT !.mode = @ - 1, !.split = 1 - @]
    /\ UNCHANGED <<slotVars, relayVars, clientVars>>

\* The process of the relay saves its state, ends and is started again.  The sessions it loads
\* are those it had, or none if their file is missing.
Process ==
    /\ left.busy = 1
    /\ Interrupt \/ WriteBuffer \/ LoopEnd \/ Flush \/ Exit \/ Crash \/ Start
    /\ listed' \in IF phase = "down" THEN {listed, [n \in NodeIds |-> "none"]} ELSE {listed}
    /\ UNCHANGED <<left, shown, clientVars>>
-----------------------------------------------------------------------------
(* The list of nodes that the relay's operator is shown: Selector.  A digit is one bit here. *)

Texts == SeqOf({0, 1}, Len(Bits[Default]))
Number(digits) == FoldLeft(LAMBDA v, b : 2 * v + b, 0, digits)

\* A fault: the mask has a bit too few.
ParseShort(text) ==
    LET shift == (Word - Len(text)) % Word IN
    IF Len(text) = Len(Bits[Default]) THEN [kind |-> "exact", bytes |-> text]
    ELSE IF text = <<>> \/ Number(text) >= 2^Word THEN [kind |-> "error"]
    ELSE [kind |-> "prefix", value |-> (Number(text) * 2^shift) % 2^Word, mask |-> shift + 1]

\* Selector::from_str of digits (the word `all' is left out).  The text of a prefix is a number of Word bits, shifted to the
\* left: by how much is computed modulo the width of the word.  `mask' has that many zeros.
Parse(text) ==
    LET shift == (Word - Len(text)) % Word IN
    IF Len(text) = Len(Bits[Default]) THEN [kind |-> "exact", bytes |-> text]
    ELSE IF text = <<>> \/ Number(text) >= 2^Word THEN [kind |-> "error"]
    ELSE [kind |-> "prefix", value |-> (Number(text) * 2^shift) % 2^Word, mask |-> shift]

extract_prefix(n) == Number(SubSeq(Bits[n], 1, Word))

match_prefix(selector, n) ==
    \/ selector.kind = "prefix" /\ (extract_prefix(n) \div 2^selector.mask) * 2^selector.mask = selector.value
    \/ selector.kind = "exact" /\ Bits[n] = selector.bytes

Indexed == {n \in NodeIds : listed[n] # "none"}

\* The answers nodes_for may give: the index has no order, and the first ones found are taken.
nodes_for(selector) ==
    LET found == {n \in Indexed : match_prefix(selector, n)}
    IN  IF Cardinality(found) <= Limit THEN {found} ELSE {S \in SUBSET found : Cardinality(S) = Limit}

\* nodes_list_prefix.
ListNodes(text) ==
    /\ Happens("list")
    /\ Parse(text).kind # "error"
    /\ \E S \in nodes_for(Parse(text)) : shown' = [text |-> text, index |-> Indexed, nodes |-> S]
    /\ UNCHANGED <<slotVars, listed, clientVars>>
-----------------------------------------------------------------------------
(* The client *)

\* The nodes of a reply are added until there are enough.
Filled(S, ns) == FoldLeft(LAMBDA T, n : IF Cardinality(T) >= Count THEN T ELSE T \cup {n}, S, ns)

Sending(S, others) == [Idle EXCEPT !.at = "sending", !.targets = S, !.todo = S, !.others = others]

\* broadcast: some of the nodes it has sessions with, and if these are too few, neighbours().
Broadcast(k) ==
    /\ caller[k].at = "idle" /\ Happens("broadcast")
    /\ \E S \in SUBSET p2p :
        /\ Cardinality(S) = IF Cardinality(p2p) < Count THEN Cardinality(p2p) ELSE Count
        /\ caller' = [caller EXCEPT ![k] =
                IF Cardinality(S) >= Count THEN Sending(S, 0)
                ELSE IF cache.kept /\ cache.fresh /\ Len(cache.nodes) >= Count
                     THEN Sending(Filled(S, cache.nodes), Count)
                     ELSE [Idle EXCEPT !.at = "asking", !.targets = S]]
    /\ UNCHANGED <<slotVars, relayVars, p2p, routed, cache, checks>>

\* A fault: only the missing number of nodes is asked for.
NeighboursMissing(k) ==
    /\ caller[k].at = "asking"
    /\ LET ns == neighbours(Self, Count - Cardinality(caller[k].targets))
       IN  /\ Decoded(ns)
           /\ caller' = [caller EXCEPT ![k].at = "answered", ![k].reply = ns,
                            ![k].others = IF Live(Self) THEN Cardinality({n \in NodeIds \ {Self} : Live(n)}) ELSE 0]
    /\ UNCHANGED <<left, relayVars, p2p, routed, cache, checks>>

\* NeighboursHandler of the relay; `others' says how many it could have named.
Neighbours(k) ==
    /\ caller[k].at = "asking"
    /\ LET ns == neighbours(Self, Count)
       IN  /\ Decoded(ns)
           /\ caller' = [caller EXCEPT ![k].at = "answered", ![k].reply = ns,
                ![k].others = IF Live(Self) /\ left.split = 0
                              THEN Cardinality({n \in NodeIds \ {Self} : Live(n)}) ELSE Len(ns)]
    /\ UNCHANGED <<left, relayVars, p2p, routed, cache, checks>>

\* No answer in time, or no session with the relay: the broadcast fails.
NeighboursFails(k) ==
    /\ caller[k].at \in {"asking", "answered"} /\ Happens("fail")
    /\ caller' = [caller EXCEPT ![k] = Idle]
    /\ UNCHANGED <<slotVars, relayVars, p2p, routed, cache, checks>>

Check(todo) == [at |-> "start", todo |-> todo, node |-> Default]

\* check_nodes_connection: the nodes that are not in the neighbourhood any more.
Lost(prev, new) == Range(prev) \ Range(new)

\* neighbours() after the answer: the cache is replaced, and compared with what it was.
OnNeighbours(k) ==
    /\ caller[k].at = "answered"
    /\ LET ns == caller[k].reply
           lost == IF cache.kept THEN Lost(cache.nodes, ns) ELSE {}
       IN  /\ cache' = [kept |-> TRUE, nodes |-> ns, fresh |-> TRUE]
           /\ checks' = IF lost = {} THEN checks ELSE checks \cup {Check(lost)}
           /\ caller' = [caller EXCEPT ![k] = Sending(Filled(@.targets, ns), @.others)]
    /\ UNCHANGED <<slotVars, left, relayVars, p2p, routed>>

\* forward_unreliable and send: a node that is not connected is looked up at the relay.
Send(k, n) ==
    /\ caller[k].at = "sending" /\ n \in caller[k].todo
    /\ caller' = [caller EXCEPT ![k].todo = @ \ {n}]
    /\ IF n \in p2p \cup routed THEN UNCHANGED <<slotVars, routed>>
       ELSE \/ Live(n) /\ Slot(n) /\ routed' = routed \cup {n}
            \/ ~Live(n) /\ UNCHANGED <<slotVars, routed>>
    /\ UNCHANGED <<left, relayVars, p2p, cache, checks>>

Sent(k) ==
    /\ caller[k].at = "sending" /\ caller[k].todo = {}
    /\ caller' = [caller EXCEPT ![k] = Idle]
    /\ UNCHANGED <<slotVars, left, relayVars, p2p, routed, cache, checks>>

\* neighbourhood_ttl has passed.
Expires ==
    /\ cache.fresh /\ Happens("expire")
    /\ cache' = [cache EXCEPT !.fresh = FALSE]
    /\ UNCHANGED <<slotVars, relayVars, p2p, routed, caller, checks>>

\* invalidate_neighbourhood_cache.
Invalidate ==
    /\ cache.kept /\ Happens("invalidate")
    /\ cache' = NoCache
    /\ UNCHANGED <<slotVars, relayVars, p2p, routed, caller, checks>>

\* check_nodes_connection needs a session with the relay, and gives up without one.
CheckStarts(c) ==
    /\ c \in checks /\ c.at = "start"
    /\ checks' = (checks \ {c}) \cup {[c EXCEPT !.at = "begin"]}
    /\ UNCHANGED <<slotVars, left, relayVars, p2p, routed, cache, caller>>

CheckFails(c) ==
    /\ c \in checks /\ c.at = "start" /\ Happens("offline")
    /\ checks' = checks \ {c}
    /\ UNCHANGED <<slotVars, relayVars, p2p, routed, cache, caller>>

\* A fault: the nodes without a session of their own are passed over.
CheckRouted(c, n) ==
    /\ c \in checks /\ c.at = "begin" /\ n \in c.todo
    /\ checks' = (checks \ {c}) \cup
            {[c EXCEPT !.todo = @ \ {n}, !.at = IF n \notin p2p THEN "begin" ELSE "asking",
                       !.node = IF n \notin p2p THEN Default ELSE n]}
    /\ UNCHANGED <<slotVars, left, relayVars, p2p, routed, cache, caller>>

\* The next node: one that is connected directly is left alone.
CheckNode(c, n) ==
    /\ c \in checks /\ c.at = "begin" /\ n \in c.todo
    /\ checks' = (checks \ {c}) \cup
            {[c EXCEPT !.todo = @ \ {n}, !.at = IF n \in p2p THEN "begin" ELSE "asking",
                       !.node = IF n \in p2p THEN Default ELSE n]}
    /\ UNCHANGED <<slotVars, left, relayVars, p2p, routed, cache, caller>>

\* NodeHandler of the relay.
FindNode(c) ==
    /\ c \in checks /\ c.at = "asking"
    /\ checks' = (checks \ {c}) \cup {[c EXCEPT !.at = IF Live(c.node) THEN "found" ELSE "missing"]}
    /\ IF Live(c.node) THEN Slot(c.node) ELSE UNCHANGED slotVars
    /\ UNCHANGED <<left, relayVars, p2p, routed, cache, caller>>

\* find_node ends with an error as well when no answer comes in time.
FindNodeFails(c) ==
    /\ c \in checks /\ c.at \in {"asking", "found"} /\ Happens("fail")
    /\ checks' = (checks \ {c}) \cup {[c EXCEPT !.at = "missing"]}
    /\ UNCHANGED <<slotVars, relayVars, p2p, routed, cache, caller>>

\* disconnect, of a session of its own that was made meanwhile too.
Checked(c) ==
    /\ c \in checks /\ c.at \in {"found", "missing"}
    /\ checks' = (checks \ {c}) \cup {[c EXCEPT !.at = "begin", !.node = Default]}
    /\ IF c.at = "missing" THEN routed' = routed \ {c.node} /\ p2p' = p2p \ {c.node}
                           ELSE UNCHANGED <<p2p, routed>>
    /\ UNCHANGED <<slotVars, left, relayVars, cache, caller>>

CheckEnds(c) ==
    /\ c \in checks /\ c.at = "begin" /\ c.todo = {}
    /\ checks' = checks \ {c}
    /\ UNCHANGED <<slotVars, left, relayVars, p2p, routed, cache, caller>>

\* A session with a node is made, or ends.
Connect(n) ==
    /\ n \notin p2p /\ Live(n) /\ Happens("connect")
    /\ p2p' = p2p \cup {n} /\ routed' = routed \ {n}
    /\ UNCHANGED <<slotVars, relayVars, cache, caller, checks>>

Close(n) ==
    /\ n \in p2p /\ Happens("close")
    /\ p2p' = p2p \ {n}
    /\ UNCHANGED <<slotVars, relayVars, routed, cache, caller, checks>>
-----------------------------------------------------------------------------
CheckStep(c) ==
    \/ CheckStarts(c) \/ FindNode(c) \/ Checked(c) \/ CheckEnds(c)
    \/ \E n \in c.todo : CheckNode(c, n)

DiscoveryNext ==
    \/ Process \/ SetMode \/ Expires \/ Invalidate
    \/ \E text \in Texts : ListNodes(text)
    \/ \E n \in NodeIds : AskedFor(n) \/ Clean(n)
    \/ \E n \in NodeIds \ {Default} : Join(n) \/ Leave(n)
    \/ \E n \in NodeIds \ {Default, Self} : Connect(n) \/ Close(n)
    \/ \E k \in Callers :
        \/ Broadcast(k) \/ Neighbours(k) \/ NeighboursFails(k) \/ OnNeighbours(k) \/ Sent(k)
        \/ \E n \in NodeIds : Send(k, n)
    \/ \E c \in checks : CheckStep(c) \/ CheckFails(c) \/ FindNodeFails(c)

DiscoverySpec == DiscoveryInit /\ [][DiscoveryNext]_allVars

\* A task of the client goes on, and the relay answers its requests.
FairDiscovery == DiscoverySpec /\ WF_allVars(\E c \in checks : CheckStep(c))
-----------------------------------------------------------------------------
(* Properties *)

(***************************************************************************)
(* The answer to a registered client that asks for neighbours names other  *)
(* nodes that are connected, as many as it asks for and there are, and     *)
(* none of those it leaves out is nearer.  In split mode a client without  *)
(* a public address is told public ones only.                              *)
(***************************************************************************)
NeighboursAreNearest ==
    \A base \in {n \in NodeIds : Live(n)}, count \in 1..Cardinality(NodeIds) :
        LET ns == neighbours(base, count)
            others == {n \in NodeIds \ {base} : Live(n)}
            distance(n) == hamming_distance[base, n]
        IN  IF left.split = 1 /\ listed[base] # "valid"
            THEN \A i \in DOMAIN ns : listed[ns[i]] = "valid" /\ ns[i] # base
            ELSE /\ Range(ns) \subseteq others
                 /\ Cardinality(Range(ns)) = IF Cardinality(others) < count THEN Cardinality(others) ELSE count
                 /\ \A n \in Range(ns), m \in others \ Range(ns) : distance(n) <= distance(m)

(***************************************************************************)
(* Selector::from_str and nodes_for: whatever the digits of a prefix or of *)
(* an id, the operator is shown nodes of the index that begin with them,   *)
(* and all of them up to the limit.  Texts between a word and a whole id   *)
(* are left out: their shift wraps around.                                 *)
(***************************************************************************)
PrefixIsListed ==
    Len(shown.text) \in 1..Word \cup {Len(Bits[Default])} =>
        LET all == {n \in shown.index : IsPrefix(shown.text, Bits[n])}
        IN  /\ shown.nodes \subseteq all
            /\ Cardinality(shown.nodes) = IF Cardinality(all) < Limit THEN Cardinality(all) ELSE Limit

(***************************************************************************)
(* A broadcast goes to no more nodes than asked for, never to the client   *)
(* itself, and to fewer only if the relay knows fewer, although the nodes  *)
(* it has sessions with may be among those the relay names.                *)
(***************************************************************************)
BroadcastReaches ==
    \A k \in Callers : caller[k].at = "sending" =>
        LET size == Cardinality(caller[k].targets)
        IN  /\ size <= Count /\ Self \notin caller[k].targets
            /\ size < Count => size >= caller[k].others

\* A node that dropped out, is reached through the relay and has left it does not stay in the
\* client's tables, where it would stand in the way of a new connection; unless the client loses
\* its own session with the relay meanwhile.
GoneIsDisconnected ==
    \A n \in NodeIds :
        (\E c \in checks : n \in c.todo) /\ n \in routed /\ ~Live(n) /\ left.offline = 0
            ~> n \notin routed \/ Live(n)
=============================================================================
