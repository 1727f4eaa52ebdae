---------------------------- MODULE SlotManager ----------------------------
(***************************************************************************)
(* The relay server's slot table and its state file.                       *)
(*                                                                         *)
(* A slot is the number under which clients address another node when they *)
(* forward packets through the relay.  SlotManager keeps two maps under    *)
(* one lock, from nodes to slots and back, and never removes an entry.     *)
(* The table is written to slots.state only when the process is            *)
(* interrupted, while the worker threads still serve requests, and is read *)
(* back when the next process starts.                                      *)
(*                                                                         *)
(* `given' is a history variable: the pairs <<node, slot>> that clients    *)
(* have been told and that the server owes them still, which are those of  *)
(* this process and, after an orderly shutdown, those that were in the     *)
(* table when it was written.                                              *)
(***************************************************************************)
EXTENDS Integers, Sequences

CONSTANTS
    NodeIds,      \* node identifiers
    Default,      \* NodeId::default(), the owner of slot 0
    RecordSize,   \* bytes of a node identifier in the file
    BufferSize    \* capacity of the buffered reader and of the buffered writer

ASSUME SlotAssumption ==
    /\ Default \in NodeIds
    /\ RecordSize \in Nat \ {0}
    /\ BufferSize \in Nat
    /\ BufferSize >= RecordSize

VARIABLES
    phase,    \* where the process is, from start to exit
    slots,    \* Inner::slots; slot s is held at position s + 1
    nodes,    \* Inner::nodes
    exists,   \* whether slots.state exists
    file,     \* the records that are in slots.state
    out,      \* the table the write loop of save() goes through
    given

slotVars == <<phase, slots, nodes, exists, file, out, given>>
table == <<slots, nodes>>

Phases == {"down", "serving", "writing", "flushing", "leaving"}

Running == phase # "down"

\* The map that SlotManager::load collects from the records of a file.
Numbering(records) ==
    [n \in {records[i] : i \in 1..Len(records)} |->
        (CHOOSE i \in 1..Len(records) :
            records[i] = n /\ \A j \in 1..Len(records) : records[j] = n => j <= i) - 1]

\* SlotManager::new: slot 0 belongs to the default node.
NewTable == <<Default>>

\* Records that fit in a buffer.
PerBuffer == BufferSize \div RecordSize

(***************************************************************************)
(* load() calls read() once per record.  A call is served from what is     *)
(* left of the current buffer, so the record that straddles two buffers is *)
(* read short, and load() gives up with "wrong file size".                 *)
(***************************************************************************)
ShortRead(records) == Len(records) > PerBuffer /\ BufferSize % RecordSize # 0

\* server::run: the table of a new process; load() that fails is the same as no file.
LoadedTable ==
    IF exists /\ ~ShortRead(file) THEN file ELSE NewTable

SlotInit ==
    /\ phase = "serving"
    /\ slots = NewTable
    /\ nodes = Numbering(NewTable)
    /\ exists = FALSE
    /\ file = <<>>
    /\ out = <<>>
    /\ given = {}

(***************************************************************************)
(* slot(n), called by the handlers of every worker.  The upgradable lock   *)
(* makes look-up and insertion one step; an insertion waits while save()   *)
(* holds the lock for its loop.                                            *)
(***************************************************************************)
Slot(n) ==
    /\ Running
    /\ IF n \in DOMAIN nodes
       THEN UNCHANGED table
       ELSE /\ phase # "writing"
            /\ slots' = Append(slots, n)
            /\ nodes' = [m \in DOMAIN nodes \cup {n} |-> IF m = n THEN Len(slots) ELSE nodes[m]]
    /\ given' = given \cup {<<n, nodes'[n]>>}
    /\ UNCHANGED <<phase, exists, file, out>>

\* Ctrl-C: save() truncates the file and takes the read lock for its loop.
Interrupt ==
    /\ phase = "serving"
    /\ phase' = "writing"
    /\ exists' = TRUE
    /\ file' = <<>>
    /\ out' = slots
    /\ UNCHANGED <<table, given>>

\* The writer passes a full buffer on when the next record does not fit.
WriteBuffer ==
    /\ phase = "writing"
    /\ Len(out) > Len(file) + PerBuffer
    /\ file' = SubSeq(out, 1, Len(file) + PerBuffer)
    /\ UNCHANGED <<phase, table, exists, out, given>>

\* The loop ends and releases the lock; the last buffer is still in memory.
LoopEnd ==
    /\ phase = "writing"
    /\ Len(out) <= Len(file) + PerBuffer
    /\ phase' = "flushing"
    /\ UNCHANGED <<table, exists, file, out, given>>

\* Fault: save() returns without flushing the writer.
NoFlush ==
    /\ phase = "flushing"
    /\ phase' = "leaving"
    /\ UNCHANGED <<table, exists, file, out, given>>

\* f.flush(): the last buffer reaches the file.
Flush ==
    /\ phase = "flushing"
    /\ file' = out
    /\ phase' = "leaving"
    /\ UNCHANGED <<table, exists, out, given>>

\* main returns after the sessions are saved too; what was given after the loop is void.
Exit ==
    /\ phase = "leaving"
    /\ phase' = "down"
    /\ given' = {g \in given : g[2] < Len(out)}
    /\ UNCHANGED <<table, exists, file, out>>

\* The process is killed; clients start over with the next one.
Crash ==
    /\ Running
    /\ phase' = "down"
    /\ given' = {}
    /\ UNCHANGED <<table, exists, file, out>>

\* server::run: the next process reads the file.
Start ==
    /\ phase = "down"
    /\ phase' = "serving"
    /\ slots' = LoadedTable
    /\ nodes' = Numbering(LoadedTable)
    /\ UNCHANGED <<exists, file, out, given>>

SlotNext ==
    \/ \E n \in NodeIds : Slot(n)
    \/ Interrupt \/ WriteBuffer \/ LoopEnd \/ Flush \/ Exit
    \/ Crash \/ Start

SlotSpec == SlotInit /\ [][SlotNext]_slotVars

(***************************************************************************)
(* Types.                                                                  *)
(***************************************************************************)
SlotTypeOK ==
    /\ phase \in Phases
    /\ slots \in Seq(NodeIds)
    /\ DOMAIN nodes \subseteq NodeIds
    /\ nodes \in [DOMAIN nodes -> Nat]
    /\ exists \in BOOLEAN
    /\ file \in Seq(NodeIds)
    /\ out \in Seq(NodeIds)
    /\ given \subseteq NodeIds \X Nat

\* No node twice in a list of records.
Distinct(records) ==
    \A i, j \in 1..Len(records) : records[i] = records[j] => i = j

(***************************************************************************)
(* The two maps of SlotManager are inverse to each other, whatever the     *)
(* interleaving of workers, saves, crashes and loads: a forward to the     *)
(* slot of a node is a forward to that node.                               *)
(***************************************************************************)
SlotBijection ==
    /\ DOMAIN nodes = {slots[i] : i \in 1..Len(slots)}
    /\ \A i \in 1..Len(slots) : nodes[slots[i]] = i - 1

\* What is or will be in the file has no node twice and is a prefix of what is saved.
FileInvariant ==
    /\ Distinct(out)
    /\ Distinct(file)
    /\ phase \in {"writing", "flushing", "leaving"} =>
         /\ exists
         /\ Len(out) <= Len(slots)
         /\ \A i \in 1..Len(out) : slots[i] = out[i]
    /\ phase = "writing" => Len(out) = Len(slots)
    /\ phase = "leaving" => file = out

\* Inductive: the maps are inverse and the file can be read back into such maps.
SlotInvariant == SlotBijection /\ FileInvariant

(***************************************************************************)
(* While a process runs, a slot is never given to another node: slot()     *)
(* only appends to the table.                                              *)
(***************************************************************************)
SlotsAreStable ==
    [][Running /\ Running' =>
         \A i \in 1..Len(slots) : i <= Len(slots') /\ slots'[i] = slots[i]]_slotVars

(***************************************************************************)
(* A slot that a client was told resolves to the node it was told for, in  *)
(* the same process and, after an orderly shutdown, in the next one.       *)
(***************************************************************************)
GivenSlotsResolve ==
    Running => \A g \in given : g[2] + 1 <= Len(slots) /\ slots[g[2] + 1] = g[1]

\* Inductive: while no process runs, what was given can be read from the file.
GivenInvariant ==
    /\ GivenSlotsResolve
    /\ ~Running => \A g \in given : exists /\ g[2] + 1 <= Len(file) /\ file[g[2] + 1] = g[1]

=============================================================================
