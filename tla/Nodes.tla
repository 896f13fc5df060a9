-------------------------------- MODULE Nodes --------------------------------
(***************************************************************************)
(* The registry of nodes in Redis, its leader, and the commands and tasks   *)
(* published to a node:                                                     *)
(* src/services/command-control/command-control.service.ts.                 *)
(*                                                                          *)
(* Every process start is a new node.  It changes what it knows of itself    *)
(* and then sends its row to Redis, which takes the rows of a node in the    *)
(* order they were sent, later or never.  Leaving and the clean-up of stale  *)
(* nodes work on a hash nobody writes, so that only time removes a row.      *)
(***************************************************************************)
EXTENDS Actors, FiniteSets, Integers, Sequences

CONSTANTS
    Node,        \* identities of nodes, ordered as their names are
    MaxMessages, \* bound: commands and tasks published
    MaxWrites    \* bound: rows of a node on their way to Redis

NodeRow == [isLeader : BOOLEAN, tasksInProgress : Nat]

ASSUME NodesAssumption ==
    /\ Node \subseteq Nat /\ IsFiniteSet(Node)
    /\ MaxMessages \in Nat /\ MaxWrites \in Nat
    /\ None \notin NodeRow

VARIABLES
    nodes,     \* nodes[n]: the process and what it knows of itself (currentNode)
    registry,  \* registry[n]: the row active_nodes:n, None when there is none
    writes,    \* writes[n]: rows sent by n that Redis has not taken yet
    inbox,     \* inbox[n]: published and not yet handled
    task,      \* what a distributeTask under way has read
    sent,      \* number of messages published
    behind,    \* history: running nodes whose last write failed
    lapsed,    \* history: running nodes whose row has expired since they started
    peers      \* history: running nodes listening when n listed nodes to elect a leader

nodeVars == <<nodes, registry, writes, inbox, task, sent, behind, lapsed, peers>>

Commands == {"start", "stop", "restart", "status"}

RowOf(process) == [isLeader |-> process.isLeader, tasksInProgress |-> process.tasksInProgress]

Up == {n \in Node : nodes[n].step \notin {"new", "gone"}}

\* Those whose first row was written: they subscribe to their channels.
Listening == {n \in Up : nodes[n].step # "registers"}

OnList == {n \in Node : registry[n] # None}

NodesInit ==
    /\ nodes = [n \in Node |-> [step |-> "new", isLeader |-> FALSE, tasksInProgress |-> 0, saw |-> {}]]
    /\ registry = [n \in Node |-> None]
    /\ writes = [n \in Node |-> <<>>]
    /\ inbox = [n \in Node |-> <<>>]
    /\ task = None
    /\ sent = 0
    /\ behind = {} /\ lapsed = {}
    /\ peers = [n \in Node |-> {}]

-----------------------------------------------------------------------------
\* registerNode, up to its await.
RegisterAs(n, process) ==
    /\ Len(writes[n]) < MaxWrites
    /\ nodes' = [nodes EXCEPT ![n] = process]
    /\ writes' = [writes EXCEPT ![n] = Append(@, RowOf(process))]

OnModuleInit(n) ==
    /\ nodes[n].step = "new"
    /\ RegisterAs(n, [nodes[n] EXCEPT !.step = "registers"])
    /\ UNCHANGED <<registry, inbox, task, sent, behind, lapsed, peers>>

SendHeartbeat(n) ==
    /\ n \in Listening
    /\ RegisterAs(n, nodes[n])
    /\ UNCHANGED <<registry, inbox, task, sent, behind, lapsed, peers>>

\* Redis takes a row, be the node up or gone; its first one ends the start.
RowWritten(n) ==
    /\ writes[n] # <<>>
    /\ registry' = [registry EXCEPT ![n] = Head(writes[n])]
    /\ writes' = [writes EXCEPT ![n] = Tail(@)]
    /\ behind' = behind \ {n}
    /\ nodes' = IF nodes[n].step = "registers" THEN [nodes EXCEPT ![n].step = "starts"] ELSE nodes
    /\ UNCHANGED <<inbox, task, sent, lapsed, peers>>

\* The old row stays, and nobody waits for the write but the start.
WriteFails(n) ==
    /\ writes[n] # <<>> /\ nodes[n].step # "registers"
    /\ writes' = [writes EXCEPT ![n] = Tail(@)]
    /\ behind' = IF n \in Up THEN behind \cup {n} ELSE behind
    /\ UNCHANGED <<nodes, registry, inbox, task, sent, lapsed, peers>>

\* Twenty seconds without a heartbeat: the node is gone or stalled.
RowExpires(n) ==
    /\ n \in OnList
    /\ registry' = [registry EXCEPT ![n] = None]
    /\ lapsed' = IF n \in Up THEN lapsed \cup {n} ELSE lapsed
    /\ UNCHANGED <<nodes, writes, inbox, task, sent, behind, peers>>

\* A shutdown (unregisterNode), an exit, a crash or a first row that cannot be
\* written; messages to the node are lost.
Leave(n) ==
    /\ nodes' = [nodes EXCEPT ![n].step = "gone", ![n].tasksInProgress = 0, ![n].saw = {}]
    /\ inbox' = [inbox EXCEPT ![n] = <<>>]
    /\ behind' = behind \ {n} /\ lapsed' = lapsed \ {n}
    /\ peers' = [m \in Node |-> IF m = n THEN {} ELSE peers[m] \ {n}]
    /\ UNCHANGED <<registry, writes, task, sent>>

OnModuleDestroy(n) == n \in Up /\ Leave(n)

\* getAllNodes lists the keys and then reads them; electLeader runs once.
ElectListKeys(n) ==
    /\ nodes[n].step = "starts"
    /\ nodes' = [nodes EXCEPT ![n].step = "elects", ![n].saw = OnList]
    /\ peers' = [peers EXCEPT ![n] = Listening]
    /\ UNCHANGED <<registry, writes, inbox, task, sent, behind, lapsed>>

ElectLeader(n) ==
    /\ nodes[n].step = "elects"
    /\ LET seen == nodes[n].saw \cap OnList
       IN RegisterAs(n, [nodes[n] EXCEPT !.step = "runs", !.saw = {},
                                         !.isLeader = (seen = {} \/ (n \in seen /\ \A m \in seen : n <= m))])
    /\ UNCHANGED <<registry, inbox, task, sent, behind, lapsed, peers>>

-----------------------------------------------------------------------------
\* Whoever does not listen misses it.
Publish(n, message) ==
    /\ sent < MaxMessages
    /\ inbox' = IF n \in Listening THEN [inbox EXCEPT ![n] = Append(@, message)] ELSE inbox
    /\ sent' = sent + 1

ExecuteRemoteCommand(n, command) ==
    /\ Publish(n, command)
    /\ UNCHANGED <<nodes, registry, writes, task, behind, lapsed, peers>>

DistributeListKeys ==
    /\ task = None
    /\ task' = OnList
    /\ UNCHANGED <<nodes, registry, writes, inbox, sent, behind, lapsed, peers>>

\* The node with the least tasks; among equals any, as keys have no order.
DistributeTask(n) ==
    /\ task # None
    /\ n \in task \cap OnList
    /\ \A m \in task \cap OnList : registry[n].tasksInProgress <= registry[m].tasksInProgress
    /\ Publish(n, "task")
    /\ task' = None
    /\ UNCHANGED <<nodes, registry, writes, behind, lapsed, peers>>

\* Nothing to choose from: reduce throws.
DistributeFails ==
    /\ task # None /\ task \cap OnList = {}
    /\ task' = None
    /\ UNCHANGED <<nodes, registry, writes, inbox, sent, behind, lapsed, peers>>

HandleCommand(n) ==
    /\ n \in Up /\ inbox[n] # <<>> /\ Head(inbox[n]) \in Commands
    /\ IF Head(inbox[n]) \in {"stop", "restart"}
       THEN Leave(n)
       ELSE /\ inbox' = [inbox EXCEPT ![n] = Tail(@)]
            /\ UNCHANGED <<nodes, registry, writes, task, sent, behind, lapsed, peers>>

HandleTask(n) ==
    /\ n \in Up /\ inbox[n] # <<>> /\ Head(inbox[n]) = "task"
    /\ RegisterAs(n, [nodes[n] EXCEPT !.tasksInProgress = @ + 1])
    /\ inbox' = [inbox EXCEPT ![n] = Tail(@)]
    /\ UNCHANGED <<registry, task, sent, behind, lapsed, peers>>

\* Mutant: the node counts down without registering again.
TaskEndsSilently(n) ==
    /\ n \in Up /\ nodes[n].tasksInProgress > 0
    /\ nodes' = [nodes EXCEPT ![n].tasksInProgress = @ - 1]
    /\ UNCHANGED <<registry, writes, inbox, task, sent, behind, lapsed, peers>>

\* Mutant: the count may go below zero.
TaskEndsUncounted(n) ==
    /\ n \in Up
    /\ RegisterAs(n, [nodes[n] EXCEPT !.tasksInProgress = @ - 1])
    /\ UNCHANGED <<registry, inbox, task, sent, behind, lapsed, peers>>

TaskEnds(n) ==
    /\ n \in Up /\ nodes[n].tasksInProgress > 0
    /\ RegisterAs(n, [nodes[n] EXCEPT !.tasksInProgress = @ - 1])
    /\ UNCHANGED <<registry, inbox, task, sent, behind, lapsed, peers>>

NodesNext ==
    \/ \E n \in Node :
        \/ OnModuleInit(n)
        \/ SendHeartbeat(n)
        \/ RowWritten(n)
        \/ WriteFails(n)
        \/ RowExpires(n)
        \/ OnModuleDestroy(n)
        \/ ElectListKeys(n)
        \/ ElectLeader(n)
        \/ \E command \in Commands : ExecuteRemoteCommand(n, command)
        \/ DistributeTask(n)
        \/ HandleCommand(n)
        \/ HandleTask(n)
        \/ TaskEnds(n)
    \/ DistributeListKeys
    \/ DistributeFails

-----------------------------------------------------------------------------
(* The types of the processes, their rows and messages. *)
NodesTypeOK ==
    /\ nodes \in [Node -> [step : {"new", "registers", "starts", "elects", "runs", "gone"},
                           isLeader : BOOLEAN, tasksInProgress : Nat, saw : SUBSET Node]]
    /\ registry \in [Node -> NodeRow \cup {None}]
    /\ writes \in [Node -> Seq(NodeRow)]
    /\ inbox \in [Node -> Seq(Commands \cup {"task"})]
    /\ task = None \/ task \subseteq Node
    /\ sent \in 0..MaxMessages
    /\ behind \cup lapsed \subseteq Node
    /\ peers \in [Node -> SUBSET Node]

(* A node becomes leader beside a running one with a smaller name only if    *)
(* that one had yet to register when the leader listed the nodes, or its row *)
(* expired under it.  Once the writes of a running node are over, its row,   *)
(* while there is one, tells its tasks and its leadership, unless the last   *)
(* of them failed, however tasks, elections and heartbeats mix.              *)
LeadersStartedApart ==
    /\ \A n, m \in Up : n < m /\ nodes[n].isLeader /\ nodes[m].isLeader
                        => n \notin peers[m] \/ n \in lapsed
    /\ \A n \in Up \cap OnList : writes[n] = <<>> /\ n \notin behind => registry[n] = RowOf(nodes[n])
=============================================================================
