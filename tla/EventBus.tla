------------------------------ MODULE EventBus ------------------------------
(***************************************************************************)
(* The event emitter that publishes to Redis what it emits and emits what   *)
(* it hears: src/services/event-emitter.module.ts, one per node.            *)
(*                                                                          *)
(* Redis delivers a published event to every subscriber there is at that    *)
(* moment, the publisher among them; who is not subscribed misses it.  The  *)
(* flag isFromRedis is true exactly while an event from Redis is emitted,   *)
(* which is synchronous.                                                    *)
(***************************************************************************)
EXTENDS Naturals

CONSTANTS
    Nodes,     \* processes of the service
    Events,    \* events emitted by their requests
    MaxPublish \* bound: nothing is published more often

VARIABLES
    subscribed,  \* nodes whose subscriber is connected and subscribed
    origin,      \* origin[e]: the nodes that emitted e for a request (at most one)
    inbox,       \* inbox[n][e]: messages from Redis that node n has not handled
    handled,     \* handled[n][e]: how often the listeners of node n ran for e
    published    \* published[e]: how often e was published

busVars == <<subscribed, origin, inbox, handled, published>>

BusInit ==
    /\ subscribed = {}
    /\ origin = [e \in Events |-> {}]
    /\ inbox = [n \in Nodes |-> [e \in Events |-> 0]]
    /\ handled = [n \in Nodes |-> [e \in Events |-> 0]]
    /\ published = [e \in Events |-> 0]

-----------------------------------------------------------------------------
\* Mutant: onAny publishes whatever is emitted.
EmitAlways(n, e, isFromRedis) ==
    /\ handled' = [handled EXCEPT ![n][e] = @ + 1]
    /\ published' = [published EXCEPT ![e] = @ + 1]
    /\ inbox' = [m \in Nodes |-> [inbox[m] EXCEPT ![e] =
         @ + (IF m \in subscribed THEN 1 ELSE 0) - (IF isFromRedis /\ m = n THEN 1 ELSE 0)]]

\* The listeners of the node run, and onAny publishes unless the event came
\* from Redis.
Emit(n, e, isFromRedis) ==
    /\ handled' = [handled EXCEPT ![n][e] = @ + 1]
    /\ published' = [published EXCEPT ![e] = @ + IF isFromRedis THEN 0 ELSE 1]
    /\ inbox' = [m \in Nodes |-> [inbox[m] EXCEPT ![e] =
         IF isFromRedis THEN (IF m = n THEN @ - 1 ELSE @)
         ELSE (IF m \in subscribed THEN @ + 1 ELSE @)]]

\* A request of node n emits e.
EmitLocally(n, e) ==
    /\ origin[e] = {}
    /\ published[e] < MaxPublish
    /\ origin' = [origin EXCEPT ![e] = {n}]
    /\ Emit(n, e, FALSE)
    /\ UNCHANGED subscribed

\* subClient.on('message')
ReceiveFromRedis(n, e) ==
    /\ inbox[n][e] > 0
    /\ published[e] < MaxPublish
    /\ Emit(n, e, TRUE)
    /\ UNCHANGED <<subscribed, origin>>

\* subClient.on('ready'), the first time and after each reconnection.
Subscribed(n) ==
    /\ n \notin subscribed
    /\ subscribed' = subscribed \cup {n}
    /\ UNCHANGED <<origin, inbox, handled, published>>

\* The connection breaks: what Redis had not sent to this node is lost.
ConnectionLost(n) ==
    /\ n \in subscribed
    /\ subscribed' = subscribed \ {n}
    /\ \E left \in [Events -> 0 .. MaxPublish] :
         /\ \A e \in Events : left[e] <= inbox[n][e]
         /\ inbox' = [inbox EXCEPT ![n] = left]
    /\ UNCHANGED <<origin, handled, published>>

BusNext ==
    \E n \in Nodes :
        \/ \E e \in Events : EmitLocally(n, e) \/ ReceiveFromRedis(n, e)
        \/ Subscribed(n)
        \/ ConnectionLost(n)

-----------------------------------------------------------------------------
(* The types of the inboxes and of the counters. *)
BusTypeOK ==
    /\ subscribed \subseteq Nodes
    /\ origin \in [Events -> SUBSET Nodes]
    /\ inbox \in [Nodes -> [Events -> Nat]]
    /\ handled \in [Nodes -> [Events -> Nat]]
    /\ published \in [Events -> Nat]

(* An event never echoes: whatever the nodes hear and lose, its listeners    *)
(* run once where it was emitted, and once more on any node that heard it    *)
(* from Redis, the emitting node included.                                   *)
NoEcho ==
    \A e \in Events, n \in Nodes :
        handled[n][e] + inbox[n][e] <= 1 + (IF n \in origin[e] THEN 1 ELSE 0)
=============================================================================
