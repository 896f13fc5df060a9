--------------------------- MODULE MessagingProofs ---------------------------
(***************************************************************************)
(* Theorems about the components of messaging, each about the specification *)
(* of that component by itself and for any number of users, requests,       *)
(* messages, groups, sockets, browsers and nodes.  Composed shows that the  *)
(* specification of the Messaging run behaves as each of them.              *)
(***************************************************************************)
EXTENDS MCMessaging, TLAPS

DMSpec == DMInit /\ [][DMNext]_dmVars

GroupSpec == GroupInit /\ [][GroupNext]_groupVars

PushSpec == PushInit /\ [][PushNext]_pushVars

BusSpec == BusInit /\ [][BusNext]_busVars

(* Every behaviour the Messaging run explores is one of each component, most *)
(* of them standing still.                                                   *)
THEOREM Composed == MCSpec => DMSpec /\ GroupSpec /\ PushSpec /\ BusSpec
<1>1. MCInit => DMInit /\ GroupInit /\ PushInit /\ BusInit
  BY DEF MCInit
<1>2. [MCNext]_allVars => [DMNext]_dmVars
  BY DEF MCNext, allVars, dmVars
<1>3. [MCNext]_allVars => [GroupNext]_groupVars
  BY DEF MCNext, allVars, groupVars
<1>4. [MCNext]_allVars => [PushNext]_pushVars
  BY DEF MCNext, allVars, pushVars
<1>5. [MCNext]_allVars => [BusNext]_busVars
  BY DEF MCNext, allVars, busVars
<1> QED
  BY <1>1, <1>2, <1>3, <1>4, <1>5, PTL DEF MCSpec, DMSpec, GroupSpec, PushSpec, BusSpec

-----------------------------------------------------------------------------
(* The event bus.                                                            *)

Extra(n, e) == IF n \in origin[e] THEN 1 ELSE 0

\* What a node ran and is about to run; nothing before the event was emitted.
BusInv ==
    /\ BusTypeOK
    /\ \A e \in Events, n \in Nodes :
         /\ handled[n][e] + inbox[n][e] <= 1 + Extra(n, e)
         /\ origin[e] = {} => handled[n][e] = 0 /\ inbox[n][e] = 0

\* The counters of the other events, and those of this one at every node.
LEMMA EmitCounts ==
  ASSUME BusTypeOK, NEW n \in Nodes, NEW e \in Events, NEW isFromRedis \in BOOLEAN,
         isFromRedis => inbox[n][e] > 0, Emit(n, e, isFromRedis)
  PROVE  /\ inbox' \in [Nodes -> [Events -> Nat]] /\ handled' \in [Nodes -> [Events -> Nat]]
         /\ published' \in [Events -> Nat]
         /\ \A m \in Nodes : handled'[m][e] = handled[m][e] + (IF m = n THEN 1 ELSE 0)
         /\ isFromRedis => \A m \in Nodes : inbox'[m][e] = inbox[m][e] - (IF m = n THEN 1 ELSE 0)
         /\ ~isFromRedis => \A m \in Nodes : inbox'[m][e] \in {inbox[m][e], inbox[m][e] + 1}
         /\ \A m \in Nodes, f \in Events \ {e} :
              inbox'[m][f] = inbox[m][f] /\ handled'[m][f] = handled[m][f]
<1>1. /\ inbox \in [Nodes -> [Events -> Nat]] /\ handled \in [Nodes -> [Events -> Nat]]
      /\ published \in [Events -> Nat]
  BY DEF BusTypeOK
<1>2. published' \in [Events -> Nat]
  BY <1>1 DEF Emit
<1>3. handled' \in [Nodes -> [Events -> Nat]]
  <2>1. [handled[n] EXCEPT ![e] = @ + 1] \in [Events -> Nat]
    BY <1>1
  <2> QED
    BY <1>1, <2>1 DEF Emit
<1>4. /\ \A m \in Nodes : handled'[m][e] = handled[m][e] + (IF m = n THEN 1 ELSE 0)
      /\ \A m \in Nodes, f \in Events \ {e} : handled'[m][f] = handled[m][f]
  BY <1>1 DEF Emit
<1>5. /\ \A m \in Nodes :
           inbox'[m] = [inbox[m] EXCEPT ![e] =
             IF isFromRedis THEN (IF m = n THEN @ - 1 ELSE @)
             ELSE (IF m \in subscribed THEN @ + 1 ELSE @)]
      /\ inbox' \in [Nodes -> {inbox'[m] : m \in Nodes}]
  BY DEF Emit
<1>6. ASSUME NEW m \in Nodes
      PROVE  /\ inbox'[m] \in [Events -> Nat]
             /\ inbox'[m][e] = IF isFromRedis THEN (IF m = n THEN inbox[m][e] - 1 ELSE inbox[m][e])
                               ELSE (IF m \in subscribed THEN inbox[m][e] + 1 ELSE inbox[m][e])
             /\ \A f \in Events \ {e} : inbox'[m][f] = inbox[m][f]
  <2>1. inbox[m] \in [Events -> Nat] /\ inbox[m][e] \in Nat
    BY <1>1
  <2> DEFINE next == IF isFromRedis THEN (IF m = n THEN inbox[m][e] - 1 ELSE inbox[m][e])
                     ELSE (IF m \in subscribed THEN inbox[m][e] + 1 ELSE inbox[m][e])
  <2>2. next \in Nat
    BY <2>1
  <2>3. inbox'[m] = [inbox[m] EXCEPT ![e] = next]
    BY <1>5
  <2> HIDE DEF next
  <2>4. inbox'[m] \in [Events -> Nat] /\ inbox'[m][e] = next
        /\ \A f \in Events \ {e} : inbox'[m][f] = inbox[m][f]
    BY <2>1, <2>2, <2>3
  <2> QED
    BY <2>4 DEF next
<1>7. inbox' \in [Nodes -> [Events -> Nat]]
  BY <1>5, <1>6
<1>8. \A m \in Nodes : inbox[m][e] \in Nat
  BY <1>1
<1> QED
  BY <1>2, <1>3, <1>4, <1>6, <1>7, <1>8

LEMMA NextBusInv == ASSUME BusInv, [BusNext]_busVars PROVE BusInv'
<1>0. BusTypeOK /\ \A n \in Nodes, e \in Events : inbox[n][e] \in Nat /\ handled[n][e] \in Nat
  BY DEF BusInv, BusTypeOK
<1>1. ASSUME NEW n \in Nodes, NEW e \in Events, EmitLocally(n, e) PROVE BusInv'
  <2>1. origin' = [origin EXCEPT ![e] = {n}] /\ UNCHANGED subscribed /\ Emit(n, e, FALSE)
        /\ origin[e] = {}
    BY <1>1 DEF EmitLocally
  <2>2. BusTypeOK'
    BY <1>0, <2>1, EmitCounts DEF BusTypeOK
  <2>5. /\ \A m \in Nodes : handled'[m][e] = handled[m][e] + (IF m = n THEN 1 ELSE 0)
        /\ \A m \in Nodes : inbox'[m][e] \in {inbox[m][e], inbox[m][e] + 1}
        /\ \A m \in Nodes, f \in Events \ {e} :
             inbox'[m][f] = inbox[m][f] /\ handled'[m][f] = handled[m][f]
    BY <1>0, <2>1, EmitCounts
  <2>3. origin'[e] = {n} /\ \A f \in Events \ {e} : origin'[f] = origin[f]
    BY <1>0, <2>1 DEF BusTypeOK
  <2>4. ASSUME NEW m \in Nodes, NEW f \in Events
        PROVE  /\ handled'[m][f] + inbox'[m][f] <= 1 + Extra(m, f)'
               /\ origin'[f] = {} => handled'[m][f] = 0 /\ inbox'[m][f] = 0
    <3>1. CASE f = e
      <4>1. handled[m][e] = 0 /\ inbox[m][e] = 0
        BY <2>1 DEF BusInv
      <4>2. handled'[m][e] = (IF m = n THEN 1 ELSE 0) /\ inbox'[m][e] \in {0, 1}
        BY <2>5, <4>1
      <4>3. Extra(m, e)' = IF m = n THEN 1 ELSE 0
        BY <2>3 DEF Extra
      <4> QED
        BY <2>3, <3>1, <4>2, <4>3
    <3>2. CASE f # e
      <4>1. inbox'[m][f] = inbox[m][f] /\ handled'[m][f] = handled[m][f]
        BY <2>5, <3>2
      <4> QED
        BY <2>3, <3>2, <4>1 DEF BusInv, Extra
    <3> QED
      BY <3>1, <3>2
  <2> QED
    BY <2>2, <2>4 DEF BusInv
<1>2. ASSUME NEW n \in Nodes, NEW e \in Events, ReceiveFromRedis(n, e) PROVE BusInv'
  <2>1. UNCHANGED <<origin, subscribed>> /\ Emit(n, e, TRUE) /\ inbox[n][e] > 0
    BY <1>2 DEF ReceiveFromRedis
  <2>2. BusTypeOK'
    BY <1>0, <2>1, EmitCounts DEF BusTypeOK
  <2>6. /\ \A m \in Nodes : handled'[m][e] = handled[m][e] + (IF m = n THEN 1 ELSE 0)
        /\ \A m \in Nodes : inbox'[m][e] = inbox[m][e] - (IF m = n THEN 1 ELSE 0)
        /\ \A m \in Nodes, f \in Events \ {e} :
             inbox'[m][f] = inbox[m][f] /\ handled'[m][f] = handled[m][f]
    BY <1>0, <2>1, EmitCounts
  <2>3. origin[e] # {}
    BY <2>1 DEF BusInv
  <2>4. ASSUME NEW m \in Nodes, NEW f \in Events
        PROVE  /\ handled'[m][f] + inbox'[m][f] = handled[m][f] + inbox[m][f]
               /\ f # e => handled'[m][f] = handled[m][f] /\ inbox'[m][f] = inbox[m][f]
    <3>1. CASE f = e
      <4>1. /\ handled'[m][e] = handled[m][e] + (IF m = n THEN 1 ELSE 0)
            /\ inbox'[m][e] = inbox[m][e] - (IF m = n THEN 1 ELSE 0)
        BY <2>6
      <4> QED
        BY <1>0, <3>1, <4>1
    <3>2. CASE f # e
      BY <1>0, <2>6, <3>2
    <3> QED
      BY <3>1, <3>2
  <2>5. \A m \in Nodes, f \in Events : Extra(m, f)' = Extra(m, f)
    BY <2>1 DEF Extra
  <2> QED
    BY <2>1, <2>2, <2>3, <2>4, <2>5 DEF BusInv
<1>3. ASSUME NEW n \in Nodes, Subscribed(n) PROVE BusInv'
  BY <1>3 DEF Subscribed, BusInv, BusTypeOK, Extra
<1>4. ASSUME NEW n \in Nodes, ConnectionLost(n) PROVE BusInv'
  <2>1. PICK left \in [Events -> 0 .. MaxPublish] :
          /\ \A e \in Events : left[e] <= inbox[n][e]
          /\ inbox' = [inbox EXCEPT ![n] = left]
    BY <1>4 DEF ConnectionLost
  <2>2. left \in [Events -> Nat] /\ \A e \in Events : left[e] \in Nat
    BY <2>1
  <2>3. inbox' \in [Nodes -> [Events -> Nat]]
        /\ \A m \in Nodes, e \in Events : inbox'[m][e] = IF m = n THEN left[e] ELSE inbox[m][e]
    BY <1>0, <2>1, <2>2 DEF BusTypeOK
  <2>4. \A m \in Nodes, e \in Events : inbox'[m][e] \in Nat /\ inbox'[m][e] <= inbox[m][e]
    BY <1>0, <2>1, <2>2, <2>3
  <2>5. UNCHANGED <<origin, handled, published>> /\ subscribed' = subscribed \ {n}
    BY <1>4 DEF ConnectionLost
  <2>6. ASSUME NEW m \in Nodes, NEW e \in Events
        PROVE  /\ handled'[m][e] + inbox'[m][e] <= 1 + Extra(m, e)'
               /\ origin'[e] = {} => handled'[m][e] = 0 /\ inbox'[m][e] = 0
    <3>1. Extra(m, e)' = Extra(m, e) /\ Extra(m, e) \in Nat
      BY <2>5 DEF Extra
    <3> QED
      BY <1>0, <2>4, <2>5, <3>1 DEF BusInv
  <2> QED
    BY <1>0, <2>3, <2>5, <2>6 DEF BusInv, BusTypeOK
<1>5. CASE UNCHANGED busVars
  BY <1>5 DEF busVars, BusInv, BusTypeOK, Extra
<1> QED
  BY <1>1, <1>2, <1>3, <1>4, <1>5 DEF BusNext

(* Whatever the nodes publish, hear, lose and subscribe again, an event      *)
(* never echoes: its listeners run once where it was emitted and once more   *)
(* on each node that heard it from Redis.                                    *)
THEOREM EventsDoNotEcho == BusSpec => []NoEcho
<1>1. BusInit => BusInv
  BY DEF BusInit, BusInv, BusTypeOK, Extra
<1>2. BusInv /\ [BusNext]_busVars => BusInv'
  BY NextBusInv
<1>3. BusInv => NoEcho
  BY DEF BusInv, NoEcho, Extra
<1> QED
  BY <1>1, <1>2, <1>3, PTL DEF BusSpec

-----------------------------------------------------------------------------
(* Push subscriptions.                                                       *)

Subscribing(r) == push[r].step \in SubscribeSteps

PushTypeInv ==
    /\ PushTypeOK
    /\ \A r \in Requests : Subscribing(r) => push[r].user \in Users /\ push[r].endpoint \in Endpoints

\* An endpoint that no two requests ever subscribed at once: what the one
\* that does may rely on, though others delete rows at any moment.
PushInv ==
    \A e \in Endpoints \ contested :
        /\ \A u, v \in Owners(e) : u = v
        /\ \A q, r \in Requests :
             Subscribing(q) /\ push[q].endpoint = e /\ Subscribing(r) /\ push[r].endpoint = e => q = r
        /\ \A r \in Requests :
             push[r].endpoint = e =>
               /\ PushAt(r, "transfer.delete") => Owners(e) \subseteq {push[r].owner}
               /\ PushAt(r, "save") => Owners(e) = {}

\* r moves, the other requests do not.
PushMoves(r) ==
    /\ push'[r] \in PushRequest
    /\ push' \in [Requests -> PushRequest]
    /\ \A q \in Requests \ {r} : push'[q] = push[q]

\* Whatever does not subscribe only deletes.
Deletes(r) ==
    /\ PushMoves(r) /\ push'[r].step \notin SubscribeSteps
    /\ subscription' \subseteq subscription
    /\ UNCHANGED contested

LEMMA PushMovesTo ==
  ASSUME PushTypeOK, NEW r \in Requests, NEW x \in PushRequest, push' = [push EXCEPT ![r] = x]
  PROVE  PushMoves(r) /\ push'[r] = x
  BY DEF PushMoves, PushTypeOK

LEMMA PushIdleTyped == PushIdle \in PushRequest /\ PushIdle.step = "idle"
  BY DEF PushIdle, PushRequest, PushSteps

LEMMA OthersDelete ==
  ASSUME PushTypeOK, NEW r \in Requests,
         \/ \E e \in Endpoints : Unsubscribe(r, e)
         \/ \E u \in Users : NotifyFind(r, u)
         \/ UpdateSubscription(r) \/ UnsubscribeDelete(r) \/ NotifyOne(r) \/ NotifyDelete(r)
  PROVE  Deletes(r)
<1>1. PICK x : push' = [push EXCEPT ![r] = x]
               /\ x \in PushRequest /\ x.step \notin SubscribeSteps
  <2>0. push[r] \in PushRequest
    BY DEF PushTypeOK
  <2>1. ASSUME NEW e \in Endpoints, Unsubscribe(r, e)
        PROVE  \E x \in PushRequest : push' = [push EXCEPT ![r] = x] /\ x.step \notin SubscribeSteps
    <3>1. PICK v \in Owners(e) :
            push' = [push EXCEPT ![r] = [PushIdle EXCEPT !.step = "unsubscribe.delete",
                                                         !.owner = v, !.endpoint = e]]
      BY <2>1 DEF Unsubscribe
    <3> DEFINE x == [PushIdle EXCEPT !.step = "unsubscribe.delete", !.owner = v, !.endpoint = e]
    <3>2. x \in PushRequest /\ x.step \notin SubscribeSteps
      BY DEF PushIdle, PushRequest, PushSteps, SubscribeSteps, Owners
    <3> QED
      BY <3>1, <3>2
  <2>2. ASSUME NEW u \in Users, NotifyFind(r, u)
        PROVE  \E x \in PushRequest : push' = [push EXCEPT ![r] = x] /\ x.step \notin SubscribeSteps
    <3> DEFINE endpoints == {e \in Endpoints : <<u, e>> \in subscription}
               x == [PushIdle EXCEPT !.step = "notify", !.owner = u, !.todo = endpoints]
    <3>1. push' = [push EXCEPT ![r] = x]
      BY <2>2 DEF NotifyFind
    <3>2. x \in PushRequest /\ x.step \notin SubscribeSteps
      BY DEF PushIdle, PushRequest, PushSteps, SubscribeSteps
    <3> QED
      BY <3>1, <3>2
  <2>3. CASE UpdateSubscription(r) \/ UnsubscribeDelete(r)
    <3>1. push' = [push EXCEPT ![r] = PushIdle]
      BY <2>3 DEF UpdateSubscription, UnsubscribeDelete, PushFinish
    <3> QED
      BY <3>1, PushIdleTyped DEF SubscribeSteps
  <2>4. CASE NotifyOne(r)
    <3>1. PICK e \in push[r].todo :
            \/ push' = [push EXCEPT ![r] = PushIdle]
            \/ push' = [push EXCEPT ![r] = [push[r] EXCEPT !.todo = push[r].todo \ {e}]]
            \/ push' = [push EXCEPT ![r] = [push[r] EXCEPT !.step = "notify.delete", !.endpoint = e,
                                                           !.todo = push[r].todo \ {e}]]
      BY <2>0, <2>4 DEF NotifyOne
    <3> DEFINE x == [push[r] EXCEPT !.todo = push[r].todo \ {e}]
               y == [push[r] EXCEPT !.step = "notify.delete", !.endpoint = e,
                                    !.todo = push[r].todo \ {e}]
    <3>2. x \in PushRequest /\ x.step \notin SubscribeSteps
      BY <2>0, <2>4 DEF NotifyOne, PushAt, PushRequest, SubscribeSteps
    <3>3. y \in PushRequest /\ y.step \notin SubscribeSteps
      BY <2>0 DEF PushRequest, PushSteps, SubscribeSteps
    <3>4. PushIdle.step \notin SubscribeSteps
      BY PushIdleTyped DEF SubscribeSteps
    <3> QED
      BY <3>1, <3>2, <3>3, <3>4, PushIdleTyped
  <2>5. CASE NotifyDelete(r)
    <3> DEFINE x == [push[r] EXCEPT !.step = "notify", !.endpoint = None]
    <3>1. \/ push' = [push EXCEPT ![r] = PushIdle]
          \/ push' = [push EXCEPT ![r] = x]
      BY <2>0, <2>5 DEF NotifyDelete
    <3>2. x \in PushRequest /\ x.step \notin SubscribeSteps
      BY <2>0 DEF PushRequest, PushSteps, SubscribeSteps
    <3>3. PushIdle.step \notin SubscribeSteps
      BY PushIdleTyped DEF SubscribeSteps
    <3> QED
      BY <3>1, <3>2, <3>3, PushIdleTyped
  <2> QED
    BY <2>1, <2>2, <2>3, <2>4, <2>5
<1>2. subscription' \subseteq subscription /\ UNCHANGED contested
  BY DEF Unsubscribe, NotifyFind, UpdateSubscription, UnsubscribeDelete, NotifyOne, NotifyDelete
<1>3. PushMoves(r) /\ push'[r] = x
  BY <1>1, PushMovesTo
<1> QED
  BY <1>1, <1>2, <1>3 DEF Deletes

\* What a subscription begins with.
LEMMA SubscribeBegins ==
  ASSUME PushTypeOK, NEW r \in Requests, NEW u \in Users, NEW e \in Endpoints, Subscribe(r, u, e)
  PROVE  /\ PushMoves(r) /\ ~Subscribing(r)
         /\ push'[r].user = u /\ push'[r].endpoint = e
         /\ \/ push'[r].step = "save" /\ Owners(e) = {}
            \/ push'[r].step = "update"
            \/ push'[r].step = "transfer.delete" /\ push'[r].owner \in Owners(e)
         /\ contested' \in {contested, contested \cup {e}}
         /\ (\E q \in Requests : Subscribing(q) /\ push[q].endpoint = e) => e \in contested'
         /\ UNCHANGED subscription
<1> DEFINE x(step, v) == [PushIdle EXCEPT !.step = step, !.user = u, !.owner = v, !.endpoint = e]
<1>1. ASSUME NEW step \in SubscribeSteps, NEW v \in Users \cup {None}, push' = [push EXCEPT ![r] = x(step, v)]
      PROVE  PushMoves(r) /\ push'[r].step = step /\ push'[r].owner = v
             /\ push'[r].user = u /\ push'[r].endpoint = e
  <2>1. /\ x(step, v) \in PushRequest /\ x(step, v).step = step /\ x(step, v).owner = v
        /\ x(step, v).user = u /\ x(step, v).endpoint = e
    BY DEF PushIdle, PushRequest, PushSteps
  <2> HIDE DEF x
  <2>2. PushMoves(r) /\ push'[r] = x(step, v)
    BY <1>1, <2>1, PushMovesTo
  <2> QED
    BY <2>1, <2>2
<1>2. PICK step \in SubscribeSteps, v \in Users \cup {None} :
        /\ push' = [push EXCEPT ![r] = x(step, v)]
        /\ \/ step = "save" /\ Owners(e) = {}
           \/ step = "update"
           \/ step = "transfer.delete" /\ v \in Owners(e)
  BY DEF Subscribe, SubscribeSteps, Owners
<1> HIDE DEF x
<1>3. ~Subscribing(r)
  BY DEF Subscribe, PushAt, Subscribing, SubscribeSteps
<1>4. /\ contested' \in {contested, contested \cup {e}}
      /\ (\E q \in Requests : Subscribing(q) /\ push[q].endpoint = e) => e \in contested'
      /\ UNCHANGED subscription
  BY DEF Subscribe, Subscribing
<1> QED
  BY <1>1, <1>2, <1>3, <1>4

LEMMA NextPushInv ==
  ASSUME EndpointAssumption, PushTypeInv, PushInv, [PushNext]_pushVars
  PROVE  PushTypeInv' /\ PushInv'
<1>0. PushTypeOK /\ subscription \subseteq Users \X Endpoints /\ contested \subseteq Endpoints
  BY DEF PushTypeInv, PushTypeOK
<1>1. ASSUME NEW r \in Requests, Deletes(r) PROVE PushTypeInv' /\ PushInv'
  <2>1. \A e \in Endpoints : Owners(e)' \subseteq Owners(e)
    BY <1>1 DEF Deletes, Owners
  <2>2. ~Subscribing(r)' /\ \A q \in Requests \ {r} : push'[q] = push[q]
    BY <1>1 DEF Deletes, PushMoves, Subscribing
  <2>3. PushTypeInv'
    BY <1>0, <1>1, <2>2 DEF Deletes, PushMoves, PushTypeInv, PushTypeOK, Subscribing
  <2>4. PushInv'
    <3> SUFFICES ASSUME NEW e \in Endpoints \ contested'
                 PROVE  /\ \A u, v \in Owners(e)' : u = v
                        /\ \A p, q \in Requests :
                             Subscribing(p)' /\ push'[p].endpoint = e
                             /\ Subscribing(q)' /\ push'[q].endpoint = e => p = q
                        /\ \A q \in Requests :
                             push'[q].endpoint = e =>
                               /\ PushAt(q, "transfer.delete")' => Owners(e)' \subseteq {push'[q].owner}
                               /\ PushAt(q, "save")' => Owners(e)' = {}
      BY DEF PushInv
    <3>1. e \in Endpoints \ contested
      BY <1>1 DEF Deletes
    <3>2. \A u, v \in Owners(e)' : u = v
      BY <2>1, <3>1 DEF PushInv
    <3>3. \A p, q \in Requests : Subscribing(p)' /\ push'[p].endpoint = e
                                 /\ Subscribing(q)' /\ push'[q].endpoint = e => p = q
      BY <2>2, <3>1 DEF PushInv, Subscribing
    <3>4. ASSUME NEW q \in Requests, push'[q].endpoint = e
          PROVE  /\ PushAt(q, "transfer.delete")' => Owners(e)' \subseteq {push'[q].owner}
                 /\ PushAt(q, "save")' => Owners(e)' = {}
      <4>1. CASE q = r
        BY <2>2, <4>1 DEF Subscribing, PushAt, SubscribeSteps
      <4>2. CASE q # r
        BY <2>1, <2>2, <3>1, <3>4, <4>2 DEF PushInv, PushAt
      <4> QED
        BY <4>1, <4>2
    <3> QED
      BY <3>2, <3>3, <3>4
  <2> QED
    BY <2>3, <2>4
<1>2. ASSUME NEW r \in Requests, NEW u \in Users, NEW e \in Endpoints, Subscribe(r, u, e)
      PROVE  PushTypeInv' /\ PushInv'
  <2>1. /\ PushMoves(r) /\ ~Subscribing(r)
        /\ push'[r].user = u /\ push'[r].endpoint = e
        /\ \/ push'[r].step = "save" /\ Owners(e) = {}
           \/ push'[r].step = "update"
           \/ push'[r].step = "transfer.delete" /\ push'[r].owner \in Owners(e)
        /\ contested' \in {contested, contested \cup {e}}
        /\ (\E q \in Requests : Subscribing(q) /\ push[q].endpoint = e) => e \in contested'
        /\ UNCHANGED subscription
    BY <1>0, <1>2, SubscribeBegins
  <2>2. PushTypeInv'
    BY <1>0, <2>1 DEF PushMoves, PushTypeInv, PushTypeOK, Subscribing
  <2>3. \A f : Owners(f)' = Owners(f)
    BY <2>1 DEF Owners
  <2>4. ASSUME NEW f \in Endpoints \ contested'
        PROVE  /\ \A v, w \in Owners(f)' : v = w
               /\ \A p, q \in Requests :
                    Subscribing(p)' /\ push'[p].endpoint = f
                    /\ Subscribing(q)' /\ push'[q].endpoint = f => p = q
               /\ \A q \in Requests :
                    push'[q].endpoint = f =>
                      /\ PushAt(q, "transfer.delete")' => Owners(f)' \subseteq {push'[q].owner}
                      /\ PushAt(q, "save")' => Owners(f)' = {}
    <3>1. f \in Endpoints \ contested /\ \A q \in Requests \ {r} : push'[q] = push[q]
      BY <2>1 DEF PushMoves
    <3>2. \A v, w \in Owners(f) : v = w
      BY <3>1 DEF PushInv
    <3>3. CASE f = e
      <4>1. \A q \in Requests : ~(Subscribing(q) /\ push[q].endpoint = e)
        BY <2>1, <3>3
      <4>2. ASSUME NEW q \in Requests \ {r}, push'[q].endpoint = e PROVE ~Subscribing(q)'
        BY <3>1, <4>1, <4>2 DEF Subscribing
      <4>3. PushAt(r, "transfer.delete")' => Owners(e) \subseteq {push'[r].owner}
        BY <2>1, <3>2, <3>3 DEF PushAt
      <4>4. PushAt(r, "save")' => Owners(e) = {}
        BY <2>1 DEF PushAt
      <4>5. ASSUME NEW q \in Requests \ {r}, push'[q].endpoint = e
            PROVE  ~PushAt(q, "transfer.delete")' /\ ~PushAt(q, "save")'
        BY <4>2, <4>5 DEF PushAt, Subscribing, SubscribeSteps
      <4> QED
        BY <2>3, <3>2, <3>3, <4>2, <4>3, <4>4, <4>5
    <3>4. CASE f # e
      <4>1. push'[r].endpoint # f
        BY <2>1, <3>4
      <4>2. \A p, q \in Requests : Subscribing(p)' /\ push'[p].endpoint = f
                                   /\ Subscribing(q)' /\ push'[q].endpoint = f => p = q
        BY <3>1, <4>1 DEF PushInv, Subscribing
      <4>3. ASSUME NEW q \in Requests, push'[q].endpoint = f
            PROVE  /\ PushAt(q, "transfer.delete")' => Owners(f) \subseteq {push'[q].owner}
                   /\ PushAt(q, "save")' => Owners(f) = {}
        BY <3>1, <4>1, <4>3 DEF PushInv, PushAt
      <4> QED
        BY <2>3, <3>2, <4>2, <4>3
    <3> QED
      BY <3>3, <3>4
  <2> QED
    BY <2>2, <2>4 DEF PushInv
<1>3. ASSUME NEW r \in Requests, TransferDelete(r) PROVE PushTypeInv' /\ PushInv'
  <2> DEFINE x == [push[r] EXCEPT !.step = "save"]
  <2>1. /\ push[r].step = "transfer.delete" /\ push[r] \in PushRequest
        /\ push[r].user \in Users /\ push[r].endpoint \in Endpoints
    BY <1>0, <1>3 DEF TransferDelete, PushAt, PushTypeInv, PushTypeOK, Subscribing, SubscribeSteps
  <2>2. /\ x \in PushRequest /\ x.step = "save" /\ x.owner = push[r].owner
        /\ x.user = push[r].user /\ x.endpoint = push[r].endpoint
    BY <2>1 DEF PushRequest, PushSteps, SubscribeSteps
  <2>3. push' = [push EXCEPT ![r] = x]
    BY <1>3 DEF TransferDelete
  <2> HIDE DEF x
  <2>4. PushMoves(r) /\ push'[r] = x
    BY <1>0, <2>2, <2>3, PushMovesTo
  <2>5. UNCHANGED contested /\ subscription' = subscription \ {<<push[r].owner, push[r].endpoint>>}
    BY <1>3 DEF TransferDelete, Row
  <2>6. \A q \in Requests : (Subscribing(q)' <=> Subscribing(q)) /\ push'[q].endpoint = push[q].endpoint
                            /\ push'[q].user = push[q].user /\ push'[q].owner = push[q].owner
    BY <2>1, <2>2, <2>4 DEF PushMoves, Subscribing, SubscribeSteps
  <2>7. PushTypeInv'
    BY <1>0, <2>4, <2>5, <2>6 DEF PushMoves, PushTypeInv, PushTypeOK
  <2>8. \A e \in Endpoints : Owners(e)' \subseteq Owners(e)
    BY <2>5 DEF Owners
  <2>9. ASSUME NEW e \in Endpoints \ contested'
        PROVE  /\ \A v, w \in Owners(e)' : v = w
               /\ \A p, q \in Requests :
                    Subscribing(p)' /\ push'[p].endpoint = e
                    /\ Subscribing(q)' /\ push'[q].endpoint = e => p = q
               /\ \A q \in Requests :
                    push'[q].endpoint = e =>
                      /\ PushAt(q, "transfer.delete")' => Owners(e)' \subseteq {push'[q].owner}
                      /\ PushAt(q, "save")' => Owners(e)' = {}
    <3>1. e \in Endpoints \ contested
      BY <2>5
    <3>2. \A v, w \in Owners(e)' : v = w
      BY <2>8, <3>1 DEF PushInv
    <3>3. \A p, q \in Requests : Subscribing(p)' /\ push'[p].endpoint = e
                                 /\ Subscribing(q)' /\ push'[q].endpoint = e => p = q
      BY <2>6, <3>1 DEF PushInv
    <3>4. ASSUME NEW q \in Requests, push'[q].endpoint = e
          PROVE  /\ PushAt(q, "transfer.delete")' => Owners(e)' \subseteq {push'[q].owner}
                 /\ PushAt(q, "save")' => Owners(e)' = {}
      <4>1. CASE q = r
        <5>1. push[r].endpoint = e
          BY <2>6, <3>4, <4>1
        <5>2. Owners(e) \subseteq {push[r].owner}
          BY <2>1, <3>1, <5>1 DEF PushInv, PushAt
        <5>3. Owners(e)' = {}
          BY <2>5, <2>8, <5>1, <5>2 DEF Owners
        <5> QED
          BY <5>3
      <4>2. CASE q # r
        <5>1. push'[q] = push[q]
          BY <2>4, <4>2 DEF PushMoves
        <5> QED
          BY <2>8, <3>1, <3>4, <5>1 DEF PushInv, PushAt
      <4> QED
        BY <4>1, <4>2
    <3> QED
      BY <3>2, <3>3, <3>4
  <2> QED
    BY <2>7, <2>9 DEF PushInv
<1>4. ASSUME NEW r \in Requests, SaveSubscription(r) PROVE PushTypeInv' /\ PushInv'
  <2>1. /\ push[r].step = "save" /\ push[r].user \in Users /\ push[r].endpoint \in Endpoints
    BY <1>0, <1>4 DEF SaveSubscription, PushAt, PushTypeInv, Subscribing, SubscribeSteps
  <2>2. PushMoves(r) /\ push'[r] = PushIdle /\ ~Subscribing(r)'
    BY <1>0, <1>4, PushMovesTo, PushIdleTyped DEF SaveSubscription, PushFinish, Subscribing, SubscribeSteps
  <2>3. UNCHANGED contested /\ subscription' = subscription \cup {<<push[r].user, push[r].endpoint>>}
    BY <1>4 DEF SaveSubscription, Row
  <2>4. PushTypeInv'
    <3>1. subscription' \subseteq Users \X Endpoints
      BY <1>0, <2>1, <2>3
    <3> QED
      BY <1>0, <2>2, <2>3, <3>1 DEF PushMoves, PushTypeInv, PushTypeOK, Subscribing
  <2>5. ASSUME NEW e \in Endpoints \ contested'
        PROVE  /\ \A v, w \in Owners(e)' : v = w
               /\ \A p, q \in Requests :
                    Subscribing(p)' /\ push'[p].endpoint = e
                    /\ Subscribing(q)' /\ push'[q].endpoint = e => p = q
               /\ \A q \in Requests :
                    push'[q].endpoint = e =>
                      /\ PushAt(q, "transfer.delete")' => Owners(e)' \subseteq {push'[q].owner}
                      /\ PushAt(q, "save")' => Owners(e)' = {}
    <3>1. e \in Endpoints \ contested /\ \A q \in Requests \ {r} : push'[q] = push[q]
      BY <2>2, <2>3 DEF PushMoves
    <3>2. \A p, q \in Requests : Subscribing(p)' /\ push'[p].endpoint = e
                                 /\ Subscribing(q)' /\ push'[q].endpoint = e => p = q
      BY <2>2, <3>1 DEF PushInv, Subscribing
    <3>3. CASE push[r].endpoint = e
      <4>1. Owners(e) = {}
        BY <2>1, <3>1, <3>3 DEF PushInv, PushAt
      <4>2. Owners(e)' \subseteq {push[r].user}
        BY <2>3, <4>1 DEF Owners
      <4>3. ASSUME NEW q \in Requests, push'[q].endpoint = e
            PROVE  ~PushAt(q, "transfer.delete")' /\ ~PushAt(q, "save")'
        <5>1. CASE q = r
          BY <2>2, <5>1 DEF Subscribing, SubscribeSteps, PushAt
        <5>2. CASE q # r
          <6>1. Subscribing(q) => q = r
            BY <2>1, <3>1, <3>3, <4>3, <5>2 DEF PushInv, Subscribing, SubscribeSteps
          <6> QED
            BY <3>1, <5>2, <6>1 DEF Subscribing, SubscribeSteps, PushAt
        <5> QED
          BY <5>1, <5>2
      <4> QED
        BY <3>2, <4>2, <4>3
    <3>4. CASE push[r].endpoint # e
      <4>1. Owners(e)' = Owners(e)
        BY <2>3, <3>4 DEF Owners
      <4>2. ASSUME NEW q \in Requests, push'[q].endpoint = e
            PROVE  /\ PushAt(q, "transfer.delete")' => Owners(e) \subseteq {push'[q].owner}
                   /\ PushAt(q, "save")' => Owners(e) = {}
        <5>1. CASE q = r
          BY <2>2, <5>1 DEF Subscribing, SubscribeSteps, PushAt
        <5>2. CASE q # r
          BY <3>1, <4>2, <5>2 DEF PushInv, PushAt
        <5> QED
          BY <5>1, <5>2
      <4>3. \A v, w \in Owners(e) : v = w
        BY <3>1 DEF PushInv
      <4> QED
        BY <3>2, <4>1, <4>2, <4>3
    <3> QED
      BY <3>3, <3>4
  <2> QED
    BY <2>4, <2>5 DEF PushInv
<1>5. CASE UNCHANGED pushVars
  BY <1>5 DEF pushVars, PushTypeInv, PushTypeOK, PushInv, Subscribing, Owners, PushAt
<1> QED
  BY <1>0, <1>1, <1>2, <1>3, <1>4, <1>5, OthersDelete DEF PushNext

LEMMA InitPushInv == ASSUME PushInit PROVE PushTypeInv /\ PushInv
<1>1. PushTypeInv
  BY PushIdleTyped DEF PushInit, PushTypeInv, PushTypeOK, Subscribing, SubscribeSteps
<1>2. \A r \in Requests : push[r].step = "idle"
  BY PushIdleTyped DEF PushInit
<1>3. PushInv
  BY <1>2 DEF PushInit, PushInv, Subscribing, SubscribeSteps, Owners, PushAt
<1> QED
  BY <1>1, <1>3

(* Whatever is unsubscribed or found stale meanwhile, a browser is notified  *)
(* for one user only, unless two subscriptions of it overlapped.             *)
THEOREM BrowsersHaveOneUser == PushSpec => []EndpointHasOneUser
<1>1. PushInit => PushTypeInv /\ PushInv
  BY InitPushInv
<1>2. PushTypeInv /\ PushInv /\ [PushNext]_pushVars => (PushTypeInv /\ PushInv)'
  BY NextPushInv, EndpointAssumption
<1>3. PushInv => EndpointHasOneUser
  BY DEF PushInv, EndpointHasOneUser
<1> QED
  BY <1>1, <1>2, <1>3, PTL DEF PushSpec

-----------------------------------------------------------------------------
(* Direct messages.                                                          *)

\* Whoever is at work has a user; a send, the message it creates for that user.
DMTypeInv ==
    /\ DMTypeOK
    /\ \A r \in Requests : ~DMAt(r, "idle") => dm[r].user \in Users
    /\ \A r \in Requests : DMAt(r, "send") =>
         \A m \in dm[r].found : message[m].from = dm[r].user

Own(u) == {m \in Messages : StoredMessage(m) /\ message[m].from = u}

\* An uncrossed list under construction: no send of the user runs, and none is
\* missing.  An uncrossed list in the cache: whatever it misses belongs to a
\* send that has still to invalidate it.
ThreadsInv ==
    /\ \A r \in Requests : DMAt(r, "list.fill") /\ ~dm[r].crossed =>
         ~Sending(dm[r].user) /\ Own(dm[r].user) \subseteq dm[r].found
    /\ \A u \in Users : threads[u] # None /\ ~threads[u].crossed =>
         /\ \A r \in Requests : DMAt(r, "send") /\ dm[r].user = u => "invalidate" \in dm[r].todo
         /\ \A m \in Own(u) : m \in threads[u].seen
              \/ \E r \in Requests : DMAt(r, "send") /\ dm[r].user = u /\ m \in dm[r].found

DMMoves(r) ==
    /\ dm' \in [Requests -> DMRequest]
    /\ \A q \in Requests \ {r} : dm'[q] = dm[q]

LEMMA DMMovesTo ==
  ASSUME DMTypeOK, NEW r \in Requests, NEW x \in DMRequest, dm' = [dm EXCEPT ![r] = x]
  PROVE  DMMoves(r) /\ dm'[r] = x
  BY DEF DMMoves, DMTypeOK

LEMMA DMIdleTyped == DMIdle \in DMRequest /\ DMIdle.step = "idle"
  BY DEF DMIdle, DMRequest, DMSteps

MessageRow == [status : {"unused", "sending", "stored", "deleted"},
               from : Users \cup {None}, to : Users \cup {None}]

\* Messages that are deleted keep their sender, and none becomes stored.
MessagesShrink ==
    /\ message' \in [Messages -> MessageRow]
    /\ \A m \in Messages : /\ message'[m].from = message[m].from
                           /\ StoredMessage(m)' => StoredMessage(m)

\* Requests that neither send nor build a list.
Quiet(r) ==
    /\ DMMoves(r)
    /\ dm[r].step \notin {"send", "list.fill"} /\ dm'[r].step \notin {"send", "list.fill"}
    /\ dm'[r].step # "idle" => dm'[r].user \in Users
    /\ MessagesShrink
    /\ read' \subseteq Messages /\ deletion' \in [Messages -> SUBSET Users]
    /\ UNCHANGED threads

LEMMA SameMessagesShrink == ASSUME DMTypeOK, UNCHANGED message PROVE MessagesShrink
  BY DEF MessagesShrink, DMTypeOK, MessageRow, StoredMessage

\* deleteMany of some of the messages
LEMMA GoneMessagesShrink ==
  ASSUME DMTypeOK, NEW S, message' = [m \in Messages |-> IF m \in S THEN Gone(m) ELSE message[m]]
  PROVE  MessagesShrink
<1>1. ASSUME NEW m \in Messages
      PROVE  /\ message'[m] \in MessageRow /\ message'[m].from = message[m].from
             /\ StoredMessage(m)' => StoredMessage(m)
  <2>1. message[m] \in MessageRow
    BY DEF DMTypeOK, MessageRow
  <2>2. Gone(m) \in MessageRow /\ Gone(m).from = message[m].from /\ Gone(m).status = "deleted"
    BY <2>1 DEF Gone, MessageRow
  <2>3. message'[m] = Gone(m) \/ message'[m] = message[m]
    OBVIOUS
  <2> QED
    BY <2>1, <2>2, <2>3 DEF StoredMessage
<1>2. message' \in [Messages -> {message'[m] : m \in Messages}]
  OBVIOUS
<1> QED
  BY <1>1, <1>2 DEF MessagesShrink

LEMMA OpenConversationQuiet ==
  ASSUME DMTypeInv, NEW r \in Requests, NEW u \in Users, NEW v \in Users,
         OpenConversation(r, u, v) \/ EraseFindMessages(r, u, v)
  PROVE  Quiet(r)
<1>0. DMTypeOK /\ UNCHANGED <<message, read, deletion, threads>> /\ DMAt(r, "idle")
  BY DEF DMTypeInv, OpenConversation, EraseFindMessages
<1>1. PICK step \in {"open.mark", "erase.mark"}, found \in SUBSET Messages :
        dm' = [dm EXCEPT ![r] = [DMIdle EXCEPT !.step = step, !.user = u, !.peer = v, !.found = found]]
  BY DEF OpenConversation, EraseFindMessages, Conversation
<1> DEFINE x == [DMIdle EXCEPT !.step = step, !.user = u, !.peer = v, !.found = found]
<1>2. x \in DMRequest /\ x.step = step /\ x.user = u
  BY DEF DMIdle, DMRequest, DMSteps
<1> HIDE DEF x
<1>3. DMMoves(r) /\ dm'[r] = x
  BY <1>0, <1>1, <1>2, DMMovesTo DEF x
<1>4. MessagesShrink
  BY <1>0, SameMessagesShrink
<1> QED
  BY <1>0, <1>2, <1>3, <1>4 DEF Quiet, DMAt, DMTypeOK

LEMMA DeleteFindQuiet ==
  ASSUME DMTypeInv, NEW r \in Requests, NEW u \in Users, NEW m \in Messages,
         DeleteFindMessage(r, u, m)
  PROVE  Quiet(r)
<1>0. DMTypeOK /\ UNCHANGED <<message, read, deletion, threads>> /\ DMAt(r, "idle")
  BY DEF DMTypeInv, DeleteFindMessage
<1> DEFINE x == [DMIdle EXCEPT !.step = "delete.reads", !.user = u, !.found = {m}]
<1>1. x \in DMRequest /\ x.step = "delete.reads" /\ x.user = u
  BY DEF DMIdle, DMRequest, DMSteps
<1>2. dm' = [dm EXCEPT ![r] = x]
  BY DEF DeleteFindMessage
<1> HIDE DEF x
<1>3. DMMoves(r) /\ dm'[r] = x
  BY <1>0, <1>1, <1>2, DMMovesTo
<1>4. MessagesShrink
  BY <1>0, SameMessagesShrink
<1> QED
  BY <1>0, <1>1, <1>3, <1>4 DEF Quiet, DMAt, DMTypeOK

\* A request that goes on with what it knows, or ends.
LEMMA GoesOn ==
  ASSUME DMTypeInv, NEW r \in Requests, dm[r].step \notin {"idle", "send", "list.fill"},
         NEW step \in DMSteps \ {"idle", "send", "list.fill"},
         DMFinish(r) \/ dm' = [dm EXCEPT ![r].step = step]
  PROVE  /\ DMMoves(r) /\ dm'[r].step \notin {"send", "list.fill"}
         /\ dm'[r].step # "idle" => dm'[r].user \in Users
<1>0. DMTypeOK /\ dm[r] \in DMRequest /\ dm[r].user \in Users
  BY DEF DMTypeInv, DMTypeOK, DMAt
<1>1. CASE DMFinish(r)
  <2>1. DMMoves(r) /\ dm'[r] = DMIdle
    BY <1>0, <1>1, DMIdleTyped, DMMovesTo DEF DMFinish
  <2> QED
    BY <2>1, DMIdleTyped
<1>2. CASE dm' = [dm EXCEPT ![r].step = step]
  <2> DEFINE x == [dm[r] EXCEPT !.step = step]
  <2>1. x \in DMRequest /\ x.step = step /\ x.user = dm[r].user
    BY <1>0 DEF DMRequest
  <2>2. dm' = [dm EXCEPT ![r] = x]
    BY <1>2
  <2> HIDE DEF x
  <2>3. DMMoves(r) /\ dm'[r] = x
    BY <1>0, <2>1, <2>2, DMMovesTo
  <2> QED
    BY <1>0, <2>1, <2>3
<1> QED
  BY <1>1, <1>2

LEMMA OpenMarkQuiet ==
  ASSUME DMTypeInv, NEW r \in Requests, OpenMark(r)
  PROVE  Quiet(r)
<1>1. /\ dm[r].step = "open.mark" /\ DMFinish(r) /\ UNCHANGED <<message, deletion, threads>>
      /\ DMTypeOK /\ dm[r] \in DMRequest
  BY DEF OpenMark, DMAt, DMTypeInv, DMTypeOK
<1>2. read' \subseteq Messages
  BY <1>1 DEF OpenMark, DMTypeOK, DMRequest
<1>3. MessagesShrink
  BY <1>1, SameMessagesShrink
<1>4. "open.mark" \in DMSteps \ {"idle", "send", "list.fill"}
  BY DEF DMSteps
<1> QED
  BY <1>1, <1>2, <1>3, <1>4, GoesOn DEF Quiet, DMTypeOK

LEMMA DeleteReadsQuiet ==
  ASSUME DMTypeInv, NEW r \in Requests, DeleteReads(r)
  PROVE  Quiet(r)
<1>1. /\ dm[r].step \in {"delete.reads", "delete.again"} /\ UNCHANGED <<message, deletion, threads>>
      /\ read' \subseteq read /\ DMTypeOK /\ dm[r] \in DMRequest
  BY DEF DeleteReads, DMTypeInv, DMTypeOK
<1>2. PICK step \in DMSteps \ {"idle", "send", "list.fill"} : dm' = [dm EXCEPT ![r].step = step]
  BY <1>1 DEF DeleteReads, DMSteps, DMTypeOK
<1>3. MessagesShrink
  BY <1>1, SameMessagesShrink
<1>4. dm[r].step \notin {"idle", "send", "list.fill"}
  BY <1>1
<1> QED
  BY <1>1, <1>2, <1>3, <1>4, GoesOn DEF Quiet, DMTypeOK

LEMMA DeleteRowQuiet ==
  ASSUME DMTypeInv, NEW r \in Requests, DeleteRow(r)
  PROVE  Quiet(r)
<1>1. /\ dm[r].step = "delete.row" /\ DMFinish(r) /\ UNCHANGED <<read, deletion, threads>>
      /\ DMTypeOK /\ dm[r] \in DMRequest
  BY DEF DeleteRow, DMAt, DMTypeInv, DMTypeOK
<1>2. MessagesShrink
  <2> DEFINE S == {m \in dm[r].found : ~Referenced(m)}
  <2>1. message' = [m \in Messages |-> IF m \in S THEN Gone(m) ELSE message[m]]
    BY DEF DeleteRow
  <2> HIDE DEF S
  <2> QED
    BY <1>1, <2>1, GoneMessagesShrink
<1>3. "delete.row" \in DMSteps \ {"idle", "send", "list.fill"}
  BY DEF DMSteps
<1> QED
  BY <1>1, <1>2, <1>3, GoesOn DEF Quiet, DMTypeOK

LEMMA EraseMarkQuiet ==
  ASSUME DMTypeInv, NEW r \in Requests, EraseMark(r)
  PROVE  Quiet(r)
<1>1. /\ dm[r].step = "erase.mark" /\ UNCHANGED <<message, read, threads>>
      /\ DMFinish(r) \/ dm' = [dm EXCEPT ![r].step = "erase.rows"]
      /\ DMTypeOK /\ dm[r] \in DMRequest /\ dm[r].user \in Users
  BY DEF EraseMark, DMAt, DMTypeInv, DMTypeOK
<1>2. deletion' \in [Messages -> SUBSET Users]
  BY <1>1 DEF EraseMark, DMTypeOK
<1>3. MessagesShrink
  BY <1>1, SameMessagesShrink
<1>4. "erase.rows" \in DMSteps \ {"idle", "send", "list.fill"}
  BY DEF DMSteps
<1> QED
  BY <1>1, <1>2, <1>3, <1>4, GoesOn DEF Quiet, DMTypeOK

LEMMA EraseRowsQuiet ==
  ASSUME DMTypeInv, NEW r \in Requests, EraseRows(r)
  PROVE  Quiet(r)
<1>1. /\ dm[r].step = "erase.rows" /\ DMFinish(r) /\ UNCHANGED <<read, deletion, threads>>
      /\ DMTypeOK /\ dm[r] \in DMRequest
  BY DEF EraseRows, DMAt, DMTypeInv, DMTypeOK
<1>2. MessagesShrink
  <2> DEFINE S == {m \in dm[r].found : StoredMessage(m)
                                       /\ deletion[m] \subseteq {dm[r].user, dm[r].peer}}
  <2>1. UNCHANGED message \/ message' = [m \in Messages |-> IF m \in S THEN Gone(m) ELSE message[m]]
    BY DEF EraseRows
  <2> HIDE DEF S
  <2> QED
    BY <1>1, <2>1, GoneMessagesShrink, SameMessagesShrink
<1>3. "erase.rows" \in DMSteps \ {"idle", "send", "list.fill"}
  BY DEF DMSteps
<1> QED
  BY <1>1, <1>2, <1>3, GoesOn DEF Quiet, DMTypeOK

LEMMA QuietKeeps ==
  ASSUME DMTypeInv, ThreadsInv, NEW r \in Requests, Quiet(r)
  PROVE  DMTypeInv' /\ ThreadsInv'
<1>1. DMTypeOK'
  BY DEF Quiet, DMMoves, MessagesShrink, DMTypeInv, DMTypeOK, MessageRow
<1>2. \A q \in Requests : /\ DMAt(q, "send")' => DMAt(q, "send") /\ dm'[q] = dm[q]
                          /\ DMAt(q, "send") => DMAt(q, "send")' /\ dm'[q] = dm[q]
                          /\ DMAt(q, "list.fill")' => DMAt(q, "list.fill") /\ dm'[q] = dm[q]
  BY DEF Quiet, DMMoves, DMAt
<1>3. \A q \in Requests : ~DMAt(q, "idle")' => dm'[q].user \in Users
  BY DEF Quiet, DMMoves, DMAt, DMTypeInv
<1>4. \A m \in Messages : message'[m].from = message[m].from
  BY DEF Quiet, MessagesShrink
<1>5. ASSUME NEW q \in Requests, DMAt(q, "send")', NEW m \in dm'[q].found
      PROVE  message'[m].from = dm'[q].user
  <2>1. m \in Messages
    BY <1>1, <1>5 DEF DMTypeOK, DMRequest
  <2> QED
    BY <1>2, <1>4, <1>5, <2>1 DEF DMTypeInv
<1>6. DMTypeInv'
  BY <1>1, <1>3, <1>5 DEF DMTypeInv
<1>7. \A u : Own(u)' \subseteq Own(u) /\ (Sending(u)' => Sending(u))
  BY <1>2 DEF Own, Quiet, MessagesShrink, Sending
<1>8. UNCHANGED threads
  BY DEF Quiet
<1>9. ASSUME NEW q \in Requests, DMAt(q, "list.fill")', ~dm'[q].crossed
      PROVE  ~Sending(dm[q].user)' /\ Own(dm[q].user)' \subseteq dm'[q].found
  <2>1. DMAt(q, "list.fill") /\ ~dm[q].crossed /\ dm'[q] = dm[q]
    BY <1>2, <1>9
  <2>2. PICK u : u = dm[q].user
    OBVIOUS
  <2>3. ~Sending(u) /\ Own(u) \subseteq dm[q].found
    BY <2>1, <2>2 DEF ThreadsInv
  <2>4. ~Sending(u)' /\ Own(u)' \subseteq dm'[q].found
    BY <1>7, <2>1, <2>3
  <2> QED
    BY <2>1, <2>2, <2>4
<1>10. ASSUME NEW u \in Users, threads'[u] # None, ~threads'[u].crossed
       PROVE  /\ \A q \in Requests : DMAt(q, "send")' /\ dm'[q].user = u => "invalidate" \in dm'[q].todo
              /\ \A m \in Own(u)' : m \in threads'[u].seen
                   \/ \E q \in Requests : DMAt(q, "send")' /\ dm'[q].user = u /\ m \in dm'[q].found
  <2>1. /\ \A q \in Requests : DMAt(q, "send") /\ dm[q].user = u => "invalidate" \in dm[q].todo
        /\ \A m \in Own(u) : m \in threads[u].seen
             \/ \E q \in Requests : DMAt(q, "send") /\ dm[q].user = u /\ m \in dm[q].found
    BY <1>8, <1>10 DEF ThreadsInv
  <2> QED
    BY <1>2, <1>7, <1>8, <2>1
<1>11. ThreadsInv'
  BY <1>9, <1>10 DEF ThreadsInv
<1> QED
  BY <1>6, <1>11

\* A send begins: the lists being built for its user are crossed.
LEMMA SendMessageKeeps ==
  ASSUME MessageAssumption, DMTypeInv, ThreadsInv, NEW r \in Requests, NEW u \in Users,
         NEW v \in Users, NEW m \in Messages, SendMessage(r, u, v, m)
  PROVE  DMTypeInv' /\ ThreadsInv'
<1>0. /\ DMTypeOK /\ DMAt(r, "idle") /\ UNCHANGED <<read, deletion, threads>>
      /\ message[m] = NoMessage
      /\ message' = [message EXCEPT ![m] = [status |-> "sending", from |-> u, to |-> v]]
  BY DEF DMTypeInv, SendMessage
<1> DEFINE x == [DMIdle EXCEPT !.step = "send", !.user = u, !.peer = v, !.found = {m},
                               !.todo = {"invalidate", "create"}]
           y(q) == [dm[q] EXCEPT !.crossed = TRUE]
<1>1. /\ x \in DMRequest /\ x.step = "send" /\ x.user = u /\ x.found = {m}
      /\ x.todo = {"invalidate", "create"}
  BY DEF DMIdle, DMRequest, DMSteps
<1>2. \A q \in Requests : /\ y(q) \in DMRequest /\ y(q).step = dm[q].step /\ y(q).user = dm[q].user
                          /\ y(q).found = dm[q].found /\ y(q).todo = dm[q].todo /\ y(q).crossed
  BY <1>0 DEF DMTypeOK, DMRequest
<1>3. dm' = [q \in Requests |->
               IF q = r THEN x
               ELSE IF DMAt(q, "list.fill") /\ dm[q].user = u THEN y(q) ELSE dm[q]]
  BY DEF SendMessage
<1> HIDE DEF x, y
<1>4. dm' \in [Requests -> DMRequest]
  BY <1>0, <1>1, <1>2, <1>3 DEF DMTypeOK
<1>5. dm'[r] = x
  BY <1>3
<1>6. ASSUME NEW q \in Requests \ {r}
      PROVE  /\ dm'[q].step = dm[q].step /\ dm'[q].user = dm[q].user
             /\ dm'[q].found = dm[q].found /\ dm'[q].todo = dm[q].todo
             /\ dm[q].crossed => dm'[q].crossed
             /\ DMAt(q, "list.fill") /\ dm[q].user = u => dm'[q].crossed
  <2>1. dm'[q] = IF DMAt(q, "list.fill") /\ dm[q].user = u THEN y(q) ELSE dm[q]
    BY <1>3
  <2> QED
    BY <1>2, <2>1
<1>7. /\ message' \in [Messages -> MessageRow]
      /\ message'[m].from = u /\ message'[m].status = "sending"
      /\ \A n \in Messages \ {m} : message'[n] = message[n]
  <2>1. [status |-> "sending", from |-> u, to |-> v] \in MessageRow
    BY DEF MessageRow
  <2> QED
    BY <1>0, <2>1 DEF DMTypeOK, MessageRow
<1>8. DMTypeOK'
  BY <1>0, <1>4, <1>7 DEF DMTypeOK, MessageRow
<1>9. ASSUME NEW q \in Requests \ {r}, DMAt(q, "send")' PROVE m \notin dm'[q].found
  <2>1. DMAt(q, "send") /\ dm[q].user \in Users
    BY <1>6, <1>9 DEF DMAt, DMTypeInv
  <2>2. message[m].from = None
    BY <1>0 DEF NoMessage
  <2> QED
    BY <1>6, <2>1, <2>2 DEF DMTypeInv, MessageAssumption
<1>10. DMTypeInv'
  <2>1. ASSUME NEW q \in Requests, ~DMAt(q, "idle")' PROVE dm'[q].user \in Users
    <3>1. CASE q = r
      BY <1>1, <1>5, <3>1
    <3>2. CASE q # r
      BY <1>6, <2>1, <3>2 DEF DMTypeInv, DMAt
    <3> QED
      BY <3>1, <3>2
  <2>2. ASSUME NEW q \in Requests, DMAt(q, "send")', NEW n \in dm'[q].found
        PROVE  message'[n].from = dm'[q].user
    <3>1. CASE q = r
      BY <1>1, <1>5, <1>7, <2>2, <3>1
    <3>2. CASE q # r
      <4>1. n \in Messages /\ n # m
        BY <1>8, <1>9, <2>2, <3>2 DEF DMTypeOK, DMRequest
      <4>2. DMAt(q, "send") /\ dm'[q].user = dm[q].user /\ n \in dm[q].found
        BY <1>6, <2>2, <3>2 DEF DMAt
      <4> QED
        BY <1>7, <4>1, <4>2 DEF DMTypeInv
    <3> QED
      BY <3>1, <3>2
  <2> QED
    BY <1>8, <2>1, <2>2 DEF DMTypeInv
<1>11. \A w : Own(w)' \subseteq Own(w)
  BY <1>7 DEF Own, StoredMessage
<1>12. ASSUME NEW q \in Requests, DMAt(q, "list.fill")', ~dm'[q].crossed, NEW w, w = dm[q].user
       PROVE  ~Sending(w)' /\ Own(w)' \subseteq dm'[q].found /\ dm'[q].user = w
  <2>1. q # r
    BY <1>1, <1>5, <1>12 DEF DMAt
  <2>2. /\ DMAt(q, "list.fill") /\ ~dm[q].crossed /\ w # u
        /\ dm'[q].found = dm[q].found /\ dm'[q].user = w
    BY <1>6, <1>12, <2>1 DEF DMAt
  <2>3. ~Sending(w) /\ Own(w) \subseteq dm[q].found
    BY <1>12, <2>2 DEF ThreadsInv
  <2>4. ~Sending(w)'
    <3>1. SUFFICES ASSUME NEW p \in Requests, DMAt(p, "send")', dm'[p].user = w PROVE FALSE
      BY DEF Sending
    <3>2. p # r
      BY <1>1, <1>5, <2>2, <3>1
    <3>3. DMAt(p, "send") /\ dm[p].user = w
      BY <1>6, <3>1, <3>2 DEF DMAt
    <3> QED
      BY <2>3, <3>3 DEF Sending
  <2> QED
    BY <1>11, <2>2, <2>3, <2>4
<1>13. ASSUME NEW w \in Users, threads'[w] # None, ~threads'[w].crossed
       PROVE  /\ \A q \in Requests : DMAt(q, "send")' /\ dm'[q].user = w => "invalidate" \in dm'[q].todo
              /\ \A n \in Own(w)' : n \in threads'[w].seen
                   \/ \E q \in Requests : DMAt(q, "send")' /\ dm'[q].user = w /\ n \in dm'[q].found
  <2>1. /\ \A q \in Requests : DMAt(q, "send") /\ dm[q].user = w => "invalidate" \in dm[q].todo
        /\ \A n \in Own(w) : n \in threads[w].seen
             \/ \E q \in Requests : DMAt(q, "send") /\ dm[q].user = w /\ n \in dm[q].found
    BY <1>0, <1>13 DEF ThreadsInv
  <2>2. ASSUME NEW q \in Requests, DMAt(q, "send")', dm'[q].user = w
        PROVE  "invalidate" \in dm'[q].todo
    <3>1. CASE q = r
      BY <1>1, <1>5, <3>1
    <3>2. CASE q # r
      BY <1>6, <2>1, <2>2, <3>2 DEF DMAt
    <3> QED
      BY <3>1, <3>2
  <2>3. ASSUME NEW n \in Own(w)', n \notin threads[w].seen
        PROVE  \E q \in Requests : DMAt(q, "send")' /\ dm'[q].user = w /\ n \in dm'[q].found
    <3>1. PICK q \in Requests : DMAt(q, "send") /\ dm[q].user = w /\ n \in dm[q].found
      BY <1>11, <2>1, <2>3
    <3>2. q # r
      BY <1>0, <3>1 DEF DMAt
    <3> QED
      BY <1>6, <3>1, <3>2 DEF DMAt
  <2> QED
    BY <1>0, <2>2, <2>3
<1>14. ThreadsInv'
  BY <1>12, <1>13 DEF ThreadsInv
<1> QED
  BY <1>10, <1>14

\* One of the two answers of a send has arrived.
LEMMA AnsweredMoves ==
  ASSUME DMTypeInv, NEW r \in Requests, NEW query \in {"invalidate", "create"}, DMAt(r, "send"),
         query \in dm[r].todo, Answered(r, query)
  PROVE  /\ DMMoves(r)
         /\ \/ dm[r].todo = {query} /\ dm'[r] = DMIdle
            \/ /\ dm'[r].step = "send" /\ dm'[r].user = dm[r].user /\ dm'[r].found = dm[r].found
               /\ dm'[r].todo = dm[r].todo \ {query}
         /\ ~DMAt(r, "idle")' => dm'[r].user = dm[r].user /\ dm'[r].step = "send"
<1> DEFINE x == [dm[r] EXCEPT !.todo = dm[r].todo \ {query}]
<1>0. DMTypeOK /\ dm[r] \in DMRequest
  BY DEF DMTypeInv, DMTypeOK
<1>1. /\ x \in DMRequest /\ x.step = "send" /\ x.user = dm[r].user /\ x.found = dm[r].found
      /\ x.todo = dm[r].todo \ {query}
  BY <1>0 DEF DMRequest, DMAt
<1>2. (dm[r].todo = {query} /\ dm' = [dm EXCEPT ![r] = DMIdle]) \/ dm' = [dm EXCEPT ![r] = x]
  BY DEF Answered
<1> HIDE DEF x
<1>3. CASE dm[r].todo = {query} /\ dm' = [dm EXCEPT ![r] = DMIdle]
  <2>1. DMMoves(r) /\ dm'[r] = DMIdle
    BY <1>0, <1>3, DMIdleTyped, DMMovesTo
  <2> QED
    BY <1>3, <2>1, DMIdleTyped DEF DMAt
<1>4. CASE dm' = [dm EXCEPT ![r] = x]
  <2>1. DMMoves(r) /\ dm'[r] = x
    BY <1>0, <1>1, <1>4, DMMovesTo
  <2> QED
    BY <1>1, <2>1
<1> QED
  BY <1>2, <1>3, <1>4

\* What an answer leaves of the typing.
LEMMA AnsweredTyped ==
  ASSUME DMTypeInv, NEW r \in Requests, NEW query \in {"invalidate", "create"}, DMAt(r, "send"),
         query \in dm[r].todo, Answered(r, query), message' \in [Messages -> MessageRow],
         \A m \in Messages : message'[m].from = message[m].from,
         threads' \in [Users -> ThreadList \cup {None}], UNCHANGED <<read, deletion>>
  PROVE  /\ DMTypeInv'
         /\ \A q \in Requests : DMAt(q, "send")' =>
              /\ DMAt(q, "send") /\ dm'[q].user = dm[q].user /\ dm'[q].found = dm[q].found
              /\ dm'[q].todo = IF q = r THEN dm[q].todo \ {query} ELSE dm[q].todo
         /\ \A q \in Requests : DMAt(q, "list.fill")' => DMAt(q, "list.fill") /\ dm'[q] = dm[q]
<1>1. /\ DMMoves(r)
      /\ \/ dm[r].todo = {query} /\ dm'[r] = DMIdle
         \/ /\ dm'[r].step = "send" /\ dm'[r].user = dm[r].user /\ dm'[r].found = dm[r].found
            /\ dm'[r].todo = dm[r].todo \ {query}
      /\ ~DMAt(r, "idle")' => dm'[r].user = dm[r].user /\ dm'[r].step = "send"
  BY AnsweredMoves
<1>2. ASSUME NEW q \in Requests, DMAt(q, "send")'
      PROVE  /\ DMAt(q, "send") /\ dm'[q].user = dm[q].user /\ dm'[q].found = dm[q].found
             /\ dm'[q].todo = IF q = r THEN dm[q].todo \ {query} ELSE dm[q].todo
  <2>1. CASE q = r
    BY <1>1, <1>2, <2>1, DMIdleTyped DEF DMAt
  <2>2. CASE q # r
    BY <1>1, <1>2, <2>2 DEF DMAt, DMMoves
  <2> QED
    BY <2>1, <2>2
<1>3. ASSUME NEW q \in Requests, DMAt(q, "list.fill")' PROVE DMAt(q, "list.fill") /\ dm'[q] = dm[q]
  <2>1. q # r
    BY <1>1, <1>3 DEF DMAt
  <2> QED
    BY <1>1, <1>3, <2>1 DEF DMAt, DMMoves
<1>4. DMTypeOK'
  BY <1>1 DEF DMMoves, DMTypeInv, DMTypeOK, MessageRow
<1>5. ASSUME NEW q \in Requests, ~DMAt(q, "idle")' PROVE dm'[q].user \in Users
  <2>1. CASE q = r
    BY <1>1, <1>5, <2>1 DEF DMTypeInv, DMAt
  <2>2. CASE q # r
    BY <1>1, <1>5, <2>2 DEF DMTypeInv, DMAt, DMMoves
  <2> QED
    BY <2>1, <2>2
<1>6. ASSUME NEW q \in Requests, DMAt(q, "send")', NEW m \in dm'[q].found
      PROVE  message'[m].from = dm'[q].user
  <2>1. m \in Messages /\ DMAt(q, "send") /\ m \in dm[q].found /\ dm'[q].user = dm[q].user
    BY <1>2, <1>6 DEF DMTypeInv, DMTypeOK, DMRequest
  <2> QED
    BY <2>1 DEF DMTypeInv
<1>7. DMTypeInv'
  BY <1>4, <1>5, <1>6 DEF DMTypeInv
<1> QED
  BY <1>2, <1>3, <1>7

LEMMA SendInvalidateKeeps ==
  ASSUME DMTypeInv, ThreadsInv, NEW r \in Requests, SendInvalidate(r)
  PROVE  DMTypeInv' /\ ThreadsInv'
<1>0. /\ DMAt(r, "send") /\ "invalidate" \in dm[r].todo /\ Answered(r, "invalidate")
      /\ UNCHANGED <<message, read, deletion>> /\ threads' = [threads EXCEPT ![dm[r].user] = None]
      /\ DMTypeOK
  BY DEF SendInvalidate, DMTypeInv
<1>1. /\ message' \in [Messages -> MessageRow] /\ threads' \in [Users -> ThreadList \cup {None}]
      /\ \A u \in Users : threads'[u] = IF u = dm[r].user THEN None ELSE threads[u]
  BY <1>0 DEF DMTypeOK, MessageRow
<1>2. /\ DMTypeInv'
      /\ \A q \in Requests : DMAt(q, "send")' =>
           /\ DMAt(q, "send") /\ dm'[q].user = dm[q].user /\ dm'[q].found = dm[q].found
           /\ dm'[q].todo = IF q = r THEN dm[q].todo \ {"invalidate"} ELSE dm[q].todo
      /\ \A q \in Requests : DMAt(q, "list.fill")' => DMAt(q, "list.fill") /\ dm'[q] = dm[q]
  BY <1>0, <1>1, AnsweredTyped
<1>3. \A u : Own(u)' = Own(u) /\ (Sending(u)' => Sending(u))
  BY <1>0, <1>2 DEF Own, StoredMessage, Sending
<1>4. ASSUME NEW q \in Requests, DMAt(q, "list.fill")', ~dm'[q].crossed, NEW u, u = dm[q].user
      PROVE  ~Sending(u)' /\ Own(u)' \subseteq dm'[q].found /\ dm'[q].user = u
  <2>1. ~Sending(u) /\ Own(u) \subseteq dm[q].found
    BY <1>2, <1>4 DEF ThreadsInv
  <2> QED
    BY <1>2, <1>3, <1>4, <2>1
<1>5. ASSUME NEW u \in Users, threads'[u] # None, ~threads'[u].crossed
      PROVE  /\ \A q \in Requests : DMAt(q, "send")' /\ dm'[q].user = u => "invalidate" \in dm'[q].todo
             /\ \A m \in Own(u)' : m \in threads'[u].seen
                  \/ \E q \in Requests : DMAt(q, "send")' /\ dm'[q].user = u /\ m \in dm'[q].found
  <2>1. u # dm[r].user /\ threads'[u] = threads[u]
    BY <1>1, <1>5
  <2>2. /\ \A q \in Requests : DMAt(q, "send") /\ dm[q].user = u => "invalidate" \in dm[q].todo
        /\ \A m \in Own(u) : m \in threads[u].seen
             \/ \E q \in Requests : DMAt(q, "send") /\ dm[q].user = u /\ m \in dm[q].found
    BY <1>5, <2>1 DEF ThreadsInv
  <2>3. \A q \in Requests : DMAt(q, "send")' /\ dm'[q].user = u => "invalidate" \in dm'[q].todo
    BY <1>2, <2>1, <2>2
  <2>4. \A q \in Requests \ {r} : dm'[q] = dm[q]
    BY <1>0, AnsweredMoves DEF DMMoves
  <2>5. ASSUME NEW m \in Own(u)', m \notin threads[u].seen
        PROVE  \E q \in Requests : DMAt(q, "send")' /\ dm'[q].user = u /\ m \in dm'[q].found
    <3>1. PICK q \in Requests : DMAt(q, "send") /\ dm[q].user = u /\ m \in dm[q].found
      BY <1>3, <2>2, <2>5
    <3> QED
      BY <2>1, <2>4, <3>1 DEF DMAt
  <2> QED
    BY <2>1, <2>3, <2>5
<1>6. ThreadsInv'
  BY <1>4, <1>5 DEF ThreadsInv
<1> QED
  BY <1>2, <1>6

\* The row of a message is written while its send has still to invalidate the
\* list, or after it has: then no uncrossed list is cached.
LEMMA SendCreateKeeps ==
  ASSUME DMTypeInv, ThreadsInv, NEW r \in Requests, SendCreate(r)
  PROVE  DMTypeInv' /\ ThreadsInv'
<1>0. /\ DMAt(r, "send") /\ "create" \in dm[r].todo /\ Answered(r, "create")
      /\ UNCHANGED <<read, deletion, threads>> /\ DMTypeOK
      /\ message' = [m \in Messages |-> IF m \in dm[r].found
                       THEN [message[m] EXCEPT !.status = "stored"] ELSE message[m]]
  BY DEF SendCreate, DMTypeInv
<1>1. ASSUME NEW m \in Messages
      PROVE  /\ message'[m] \in MessageRow /\ message'[m].from = message[m].from
             /\ m \notin dm[r].found => message'[m] = message[m]
  <2>1. message[m] \in MessageRow
    BY <1>0 DEF DMTypeOK, MessageRow
  <2> DEFINE x == [message[m] EXCEPT !.status = "stored"]
  <2>2. x \in MessageRow /\ x.from = message[m].from
    BY <2>1 DEF MessageRow
  <2>3. message'[m] = IF m \in dm[r].found THEN x ELSE message[m]
    BY <1>0
  <2> HIDE DEF x
  <2> QED
    BY <2>1, <2>2, <2>3
<1>2. message' \in [Messages -> MessageRow] /\ threads' \in [Users -> ThreadList \cup {None}]
  <2>1. message' \in [Messages -> {message'[m] : m \in Messages}]
    BY <1>0
  <2> QED
    BY <1>0, <1>1, <2>1 DEF DMTypeOK
<1>3. /\ DMTypeInv'
      /\ \A q \in Requests : DMAt(q, "send")' =>
           /\ DMAt(q, "send") /\ dm'[q].user = dm[q].user /\ dm'[q].found = dm[q].found
           /\ dm'[q].todo = IF q = r THEN dm[q].todo \ {"create"} ELSE dm[q].todo
      /\ \A q \in Requests : DMAt(q, "list.fill")' => DMAt(q, "list.fill") /\ dm'[q] = dm[q]
  BY <1>0, <1>1, <1>2, AnsweredTyped
<1>4. /\ \A u : Own(u)' \subseteq Own(u) \cup dm[r].found
      /\ \A u : u # dm[r].user => Own(u)' \subseteq Own(u)
      /\ \A u : Sending(u)' => Sending(u)
  <2>1. \A u : Own(u)' \subseteq Own(u) \cup dm[r].found
    BY <1>1 DEF Own, StoredMessage
  <2>2. \A m \in Messages : m \in dm[r].found => message'[m].from = dm[r].user
    BY <1>0, <1>1 DEF DMTypeInv
  <2>3. \A u : u # dm[r].user => Own(u)' \subseteq Own(u)
    BY <2>1, <2>2 DEF Own
  <2>4. \A u : Sending(u)' => Sending(u)
    BY <1>3 DEF Sending
  <2> QED
    BY <2>1, <2>3, <2>4
<1>5. ASSUME NEW q \in Requests, DMAt(q, "list.fill")', ~dm'[q].crossed, NEW u, u = dm[q].user
      PROVE  ~Sending(u)' /\ Own(u)' \subseteq dm'[q].found /\ dm'[q].user = u
  <2>1. ~Sending(u) /\ Own(u) \subseteq dm[q].found
    BY <1>3, <1>5 DEF ThreadsInv
  <2>2. u # dm[r].user
    BY <1>0, <2>1 DEF Sending
  <2> QED
    BY <1>3, <1>4, <1>5, <2>1, <2>2
<1>6. ASSUME NEW u \in Users, threads'[u] # None, ~threads'[u].crossed
      PROVE  /\ \A q \in Requests : DMAt(q, "send")' /\ dm'[q].user = u => "invalidate" \in dm'[q].todo
             /\ \A m \in Own(u)' : m \in threads'[u].seen
                  \/ \E q \in Requests : DMAt(q, "send")' /\ dm'[q].user = u /\ m \in dm'[q].found
  <2>1. /\ \A q \in Requests : DMAt(q, "send") /\ dm[q].user = u => "invalidate" \in dm[q].todo
        /\ \A m \in Own(u) : m \in threads[u].seen
             \/ \E q \in Requests : DMAt(q, "send") /\ dm[q].user = u /\ m \in dm[q].found
    BY <1>0, <1>6 DEF ThreadsInv
  <2>2. \A q \in Requests : DMAt(q, "send")' /\ dm'[q].user = u => "invalidate" \in dm'[q].todo
    BY <1>3, <2>1
  <2>3. DMMoves(r) /\ (\/ dm[r].todo = {"create"} /\ dm'[r] = DMIdle
                       \/ /\ dm'[r].step = "send" /\ dm'[r].user = dm[r].user
                          /\ dm'[r].found = dm[r].found)
    BY <1>0, AnsweredMoves
  <2>4. dm[r].user = u => DMAt(r, "send")' /\ dm'[r].user = u /\ dm'[r].found = dm[r].found
    BY <1>0, <2>1, <2>3 DEF DMAt
  <2>5. ASSUME NEW m \in Own(u)', m \notin threads[u].seen
        PROVE  \E q \in Requests : DMAt(q, "send")' /\ dm'[q].user = u /\ m \in dm'[q].found
    <3>1. CASE m \in Own(u)
      <4>1. PICK q \in Requests : DMAt(q, "send") /\ dm[q].user = u /\ m \in dm[q].found
        BY <2>1, <2>5, <3>1
      <4> QED
        BY <2>3, <2>4, <4>1 DEF DMAt, DMMoves
    <3>2. CASE m \notin Own(u)
      <4>1. m \in dm[r].found /\ dm[r].user = u
        BY <1>4, <2>5, <3>2
      <4> QED
        BY <2>4, <4>1
    <3> QED
      BY <3>1, <3>2
  <2> QED
    BY <1>0, <2>2, <2>5
<1>7. ThreadsInv'
  BY <1>5, <1>6 DEF ThreadsInv
<1> QED
  BY <1>3, <1>7

LEMMA ListReadKeeps ==
  ASSUME DMTypeInv, ThreadsInv, NEW r \in Requests, NEW u \in Users, ListRead(r, u)
  PROVE  DMTypeInv' /\ ThreadsInv'
<1> DEFINE found == {m \in Messages : StoredMessage(m) /\ u \in {message[m].from, message[m].to}}
           x == [DMIdle EXCEPT !.step = "list.fill", !.user = u, !.found = found,
                               !.crossed = Sending(u)]
<1>0. DMTypeOK /\ DMAt(r, "idle") /\ UNCHANGED <<message, read, deletion, threads>>
  BY DEF DMTypeInv, ListRead
<1>1. Sending(u) \in BOOLEAN /\ found \subseteq Messages /\ Own(u) \subseteq found
  BY DEF Sending, Own
<1> HIDE DEF found
<1>2. /\ x \in DMRequest /\ x.step = "list.fill" /\ x.user = u /\ x.found = found
      /\ x.crossed = Sending(u)
  BY <1>1 DEF DMIdle, DMRequest, DMSteps
<1>3. dm' = [dm EXCEPT ![r] = x]
  BY DEF ListRead, found
<1> HIDE DEF x
<1>4. DMMoves(r) /\ dm'[r] = x
  BY <1>0, <1>2, <1>3, DMMovesTo
<1>5. \A q \in Requests : /\ DMAt(q, "send")' => DMAt(q, "send") /\ dm'[q] = dm[q]
                          /\ DMAt(q, "send") => DMAt(q, "send")' /\ dm'[q] = dm[q]
                          /\ DMAt(q, "list.fill")' /\ q # r => DMAt(q, "list.fill") /\ dm'[q] = dm[q]
  BY <1>0, <1>2, <1>4 DEF DMMoves, DMAt
<1>6. \A w : Own(w)' = Own(w) /\ (Sending(w)' => Sending(w))
  BY <1>0, <1>5 DEF Own, StoredMessage, Sending
<1>7. DMTypeInv'
  <2>1. DMTypeOK'
    BY <1>0, <1>4 DEF DMMoves, DMTypeOK
  <2>2. \A q \in Requests : ~DMAt(q, "idle")' => dm'[q].user \in Users
    BY <1>2, <1>4 DEF DMMoves, DMAt, DMTypeInv
  <2> QED
    BY <1>0, <1>5, <2>1, <2>2 DEF DMTypeInv
<1>8. ASSUME NEW q \in Requests, DMAt(q, "list.fill")', ~dm'[q].crossed, NEW w, w = dm'[q].user
      PROVE  ~Sending(w)' /\ Own(w)' \subseteq dm'[q].found
  <2>1. CASE q = r
    BY <1>1, <1>2, <1>4, <1>6, <1>8, <2>1
  <2>2. CASE q # r
    BY <1>5, <1>6, <1>8, <2>2 DEF ThreadsInv
  <2> QED
    BY <2>1, <2>2
<1>9. ASSUME NEW w \in Users, threads'[w] # None, ~threads'[w].crossed
      PROVE  /\ \A q \in Requests : DMAt(q, "send")' /\ dm'[q].user = w => "invalidate" \in dm'[q].todo
             /\ \A m \in Own(w)' : m \in threads'[w].seen
                  \/ \E q \in Requests : DMAt(q, "send")' /\ dm'[q].user = w /\ m \in dm'[q].found
  <2>1. /\ \A q \in Requests : DMAt(q, "send") /\ dm[q].user = w => "invalidate" \in dm[q].todo
        /\ \A m \in Own(w) : m \in threads[w].seen
             \/ \E q \in Requests : DMAt(q, "send") /\ dm[q].user = w /\ m \in dm[q].found
    BY <1>0, <1>9 DEF ThreadsInv
  <2> QED
    BY <1>0, <1>5, <1>6, <2>1
<1>10. ThreadsInv'
  BY <1>8, <1>9 DEF ThreadsInv
<1> QED
  BY <1>7, <1>10

LEMMA ListFillKeeps ==
  ASSUME DMTypeInv, ThreadsInv, NEW r \in Requests, ListFill(r)
  PROVE  DMTypeInv' /\ ThreadsInv'
<1> DEFINE list == [seen |-> dm[r].found, crossed |-> dm[r].crossed]
<1>0. /\ DMTypeOK /\ DMAt(r, "list.fill") /\ DMFinish(r) /\ UNCHANGED <<message, read, deletion>>
      /\ threads' = [threads EXCEPT ![dm[r].user] = list]
      /\ dm[r] \in DMRequest /\ dm[r].user \in Users
  BY DEF DMTypeInv, DMTypeOK, ListFill, DMAt
<1>1. list \in ThreadList /\ list.seen = dm[r].found /\ list.crossed = dm[r].crossed
  BY <1>0 DEF ThreadList, DMRequest
<1> HIDE DEF list
<1>2. DMMoves(r) /\ dm'[r] = DMIdle /\ dm'[r].step = "idle"
  BY <1>0, DMMovesTo, DMIdleTyped DEF DMFinish
<1>3. threads' \in [Users -> ThreadList \cup {None}]
      /\ \A w \in Users : threads'[w] = IF w = dm[r].user THEN list ELSE threads[w]
  BY <1>0, <1>1 DEF DMTypeOK
<1>4. \A q \in Requests : /\ DMAt(q, "send")' => DMAt(q, "send") /\ dm'[q] = dm[q]
                          /\ DMAt(q, "send") => DMAt(q, "send")' /\ dm'[q] = dm[q]
                          /\ DMAt(q, "list.fill")' => DMAt(q, "list.fill") /\ dm'[q] = dm[q]
  BY <1>0, <1>2 DEF DMMoves, DMAt
<1>5. \A w : Own(w)' = Own(w) /\ (Sending(w)' => Sending(w))
  BY <1>0, <1>4 DEF Own, StoredMessage, Sending
<1>6. DMTypeInv'
  <2>1. DMTypeOK'
    BY <1>0, <1>2, <1>3 DEF DMMoves, DMTypeOK
  <2>2. \A q \in Requests : ~DMAt(q, "idle")' => dm'[q].user \in Users
    BY <1>2 DEF DMMoves, DMAt, DMTypeInv
  <2> QED
    BY <1>0, <1>4, <2>1, <2>2 DEF DMTypeInv
<1>7. ASSUME NEW q \in Requests, DMAt(q, "list.fill")', ~dm'[q].crossed, NEW w, w = dm'[q].user
      PROVE  ~Sending(w)' /\ Own(w)' \subseteq dm'[q].found
  BY <1>4, <1>5, <1>7 DEF ThreadsInv
<1>8. ASSUME NEW w \in Users, threads'[w] # None, ~threads'[w].crossed
      PROVE  /\ \A q \in Requests : DMAt(q, "send")' /\ dm'[q].user = w => "invalidate" \in dm'[q].todo
             /\ \A m \in Own(w)' : m \in threads'[w].seen
                  \/ \E q \in Requests : DMAt(q, "send")' /\ dm'[q].user = w /\ m \in dm'[q].found
  <2>1. CASE w = dm[r].user
    <3>1. ~Sending(w) /\ Own(w) \subseteq dm[r].found
      BY <1>0, <1>1, <1>3, <1>8, <2>1 DEF ThreadsInv
    <3>2. \A q \in Requests : ~(DMAt(q, "send")' /\ dm'[q].user = w)
      BY <1>4, <3>1 DEF Sending
    <3> QED
      BY <1>1, <1>3, <1>5, <2>1, <3>1, <3>2
  <2>2. CASE w # dm[r].user
    <3>1. threads'[w] = threads[w]
      BY <1>3, <2>2
    <3>2. /\ \A q \in Requests : DMAt(q, "send") /\ dm[q].user = w => "invalidate" \in dm[q].todo
          /\ \A m \in Own(w) : m \in threads[w].seen
               \/ \E q \in Requests : DMAt(q, "send") /\ dm[q].user = w /\ m \in dm[q].found
      BY <1>8, <3>1 DEF ThreadsInv
    <3> QED
      BY <1>4, <1>5, <3>1, <3>2
  <2> QED
    BY <2>1, <2>2
<1>9. ThreadsInv'
  BY <1>7, <1>8 DEF ThreadsInv
<1> QED
  BY <1>6, <1>9

LEMMA NextDMInv ==
  ASSUME ActorsAssumption, MessageAssumption, DMTypeInv, ThreadsInv, [DMNext]_dmVars
  PROVE  DMTypeInv' /\ ThreadsInv'
<1>1. CASE UNCHANGED dmVars
  BY <1>1 DEF dmVars, DMTypeInv, DMTypeOK, ThreadsInv, DMAt, Own, StoredMessage, Sending
<1>2. ASSUME NEW u \in Users, ThreadsExpire(u) PROVE DMTypeInv' /\ ThreadsInv'
  <2>1. UNCHANGED <<message, read, deletion, dm>> /\ DMTypeOK
        /\ threads' = [threads EXCEPT ![u] = None]
    BY <1>2 DEF ThreadsExpire, DMTypeInv
  <2>2. threads' \in [Users -> ThreadList \cup {None}]
        /\ \A w \in Users : threads'[w] = IF w = u THEN None ELSE threads[w]
    BY <2>1 DEF DMTypeOK
  <2>3. DMTypeInv'
    BY <2>1, <2>2 DEF DMTypeInv, DMTypeOK, DMAt
  <2>4. ThreadsInv'
    BY <2>1, <2>2 DEF ThreadsInv, DMAt, Own, StoredMessage, Sending
  <2> QED
    BY <2>3, <2>4
<1>3. ASSUME NEW r \in Requests,
             \/ \E u \in Users, m \in Messages : DeleteFindMessage(r, u, m)
             \/ \E u, v \in Users : OpenConversation(r, u, v) \/ EraseFindMessages(r, u, v)
             \/ OpenMark(r) \/ DeleteReads(r) \/ DeleteRow(r) \/ EraseMark(r) \/ EraseRows(r)
      PROVE  DMTypeInv' /\ ThreadsInv'
  <2>1. Quiet(r)
    BY <1>3, DeleteFindQuiet, OpenConversationQuiet, OpenMarkQuiet, DeleteReadsQuiet,
       DeleteRowQuiet, EraseMarkQuiet, EraseRowsQuiet
  <2> QED
    BY <2>1, QuietKeeps
<1>4. ASSUME NEW r \in Requests,
             \/ \E u, v \in Users, m \in Messages : SendMessage(r, u, v, m)
             \/ \E u \in Readers : ListRead(r, u)
             \/ SendInvalidate(r) \/ SendCreate(r) \/ ListFill(r)
      PROVE  DMTypeInv' /\ ThreadsInv'
  BY <1>4, SendMessageKeeps, SendInvalidateKeeps, SendCreateKeeps, ListReadKeeps, ListFillKeeps
     DEF ActorsAssumption
<1> QED
  BY <1>1, <1>2, <1>3, <1>4 DEF DMNext

LEMMA InitDMInv == ASSUME DMInit PROVE DMTypeInv /\ ThreadsInv
<1>1. \A r \in Requests : dm[r] = DMIdle /\ dm[r].step = "idle"
  BY DMIdleTyped DEF DMInit
<1>2. NoMessage \in MessageRow
  BY DEF NoMessage, MessageRow
<1>3. DMTypeOK
  BY <1>2, DMIdleTyped DEF DMInit, DMTypeOK, MessageRow
<1>4. DMTypeInv
  BY <1>1, <1>3 DEF DMTypeInv, DMAt
<1>5. ThreadsInv
  BY <1>1 DEF DMInit, ThreadsInv, DMAt
<1> QED
  BY <1>4, <1>5

(* Once a send has been answered, the cached list of the sender shows the    *)
(* message: however the invalidation, the row and the lists being built      *)
(* interleave, only a list that a send of the same user crossed misses it.   *)
THEOREM SendersSeeTheirMessages == DMSpec => []SenderSeesOwnMessages
<1>1. DMInit => DMTypeInv /\ ThreadsInv
  BY InitDMInv
<1>2. DMTypeInv /\ ThreadsInv /\ [DMNext]_dmVars => (DMTypeInv /\ ThreadsInv)'
  BY NextDMInv, ActorsAssumption, MessageAssumption
<1>3. ThreadsInv => SenderSeesOwnMessages
  <2> SUFFICES ASSUME ThreadsInv, NEW u \in Users, threads[u] # None, ~Sending(u),
                      ~threads[u].crossed
               PROVE  Own(u) \subseteq threads[u].seen
    BY DEF SenderSeesOwnMessages, Own
  <2> QED
    BY DEF ThreadsInv, Sending
<1> QED
  BY <1>1, <1>2, <1>3, PTL DEF DMSpec

-----------------------------------------------------------------------------
(* Groups and rooms.                                                         *)

\* What a request has at hand, by its step.
GroupShape(q) ==
    /\ q.step \notin {"idle", "groups.fill"} => q.group \in Groups
    /\ q.step \notin {"idle", "page.fill"} => q.user \in Users

GroupTypeInv ==
    /\ GroupTypeOK
    /\ \A r \in Requests : GroupShape(grp[r])
    /\ \A s \in Sockets : socket[s].state # "closed" => socket[s].user \in Users

\* The users a request is removing.
Leaving(q) == IF q.step \in {"remove.delete", "remove.admin", "remove.clear"} THEN q.users ELSE {}

\* An uncrossed list under construction: nobody removes the user, and the
\* groups are the user's.  One in the cache: the groups are still, or a removal
\* has yet to clear it.
ListInv ==
    /\ \A r \in Requests : GroupAt(r, "groups.fill") /\ ~grp[r].crossed =>
         ~Removing(grp[r].user) /\ \A g \in grp[r].groups : Member(g, grp[r].user)
    /\ \A u \in Users : groupList[u] # None /\ ~groupList[u].crossed =>
         \A g \in groupList[u].groups : Member(g, u) \/ Removing(u)

\* The rooms a socket is in, or is about to join.
RoomInv ==
    /\ \A s \in Sockets : socket[s].state = "closed" => \A g \in Groups : s \notin room[g]
    /\ \A s \in Sockets : socket[s].state = "reading" =>
         \A g \in socket[s].groups : Member(g, socket[s].user) \/ g \in socket[s].lost
    /\ RoomsFollowMembership

GroupMoves(r) ==
    /\ grp' \in [Requests -> GroupRequest]
    /\ \A q \in Requests \ {r} : grp'[q] = grp[q]

RolesTyped == role' \in [Groups -> [Users -> {"none", "MEMBER", "ADMIN"}]]

ListsTyped == groupList' \in [Users -> GroupList \cup {None}]

\* Requests that remove nobody and build no list of groups: roles are only
\* given, and lists only dropped.
Plain(r) ==
    /\ GroupMoves(r) /\ GroupShape(grp'[r])
    /\ grp'[r].step # "groups.fill"
    /\ Leaving(grp'[r]) \subseteq Leaving(grp[r])
    /\ \A u \in Leaving(grp[r]) \ Leaving(grp'[r]) : groupList'[u] = None
    /\ RolesTyped /\ \A g \in Groups, u \in Users : Member(g, u) => Member(g, u)'
    /\ ListsTyped /\ \A u \in Users : groupList'[u] \in {groupList[u], None}
    /\ posts' \in [Groups -> Nat] /\ page' \in [Groups -> Nat \cup {None}]
    /\ UNCHANGED <<socket, room>>

LEMMA GroupMovesTo ==
  ASSUME GroupTypeOK, NEW r \in Requests, NEW x \in GroupRequest, grp' = [grp EXCEPT ![r] = x]
  PROVE  GroupMoves(r) /\ grp'[r] = x
  BY DEF GroupMoves, GroupTypeOK

LEMMA GroupIdleTyped ==
  /\ GroupIdle \in GroupRequest /\ GroupIdle.step = "idle"
  /\ GroupShape(GroupIdle) /\ Leaving(GroupIdle) = {}
  BY DEF GroupIdle, GroupRequest, GroupSteps, GroupShape, Leaving

LEMMA RemovingLeaving ==
  /\ \A u : Removing(u) <=> \E r \in Requests : u \in Leaving(grp[r])
  /\ \A u : Removing(u)' <=> \E r \in Requests : u \in Leaving(grp'[r])
  BY DEF Removing, Leaving

\* A request that starts, having found what it needs.
LEMMA StartsPlain ==
  ASSUME GroupAssumption, GroupTypeInv, NEW r \in Requests, NEW x \in GroupRequest,
         GroupAt(r, "idle"), UNCHANGED <<role, groupList, posts, page, socket, room>>,
         x.step \in {"create.admin", "add.create", "post.create", "page.fill"},
         x.group \in Groups, x.user \in Users \/ x.step = "page.fill",
         grp' = [grp EXCEPT ![r] = x]
  PROVE  Plain(r)
<1>1. GroupMoves(r) /\ grp'[r] = x
  BY GroupMovesTo DEF GroupTypeInv
<1>2. GroupShape(x) /\ Leaving(x) = {} /\ x.step # "groups.fill"
  BY DEF GroupShape, Leaving
<1>3. Leaving(grp[r]) = {}
  BY DEF Leaving, GroupAt
<1>4. RolesTyped /\ ListsTyped /\ posts' \in [Groups -> Nat] /\ page' \in [Groups -> Nat \cup {None}]
  BY DEF GroupTypeInv, GroupTypeOK, RolesTyped, ListsTyped
<1> QED
  BY <1>1, <1>2, <1>3, <1>4 DEF Plain, Member

LEMMA StepsTyped ==
  ASSUME GroupTypeOK, NEW r \in Requests, NEW x \in GroupRequest, GroupShape(x),
         grp' = [grp EXCEPT ![r] = x], x.step # "groups.fill",
         Leaving(x) \subseteq Leaving(grp[r]),
         \A u \in Leaving(grp[r]) \ Leaving(x) : groupList'[u] = None,
         RolesTyped, \A g \in Groups, u \in Users : Member(g, u) => Member(g, u)',
         ListsTyped, \A u \in Users : groupList'[u] \in {groupList[u], None},
         posts' \in [Groups -> Nat], page' \in [Groups -> Nat \cup {None}],
         UNCHANGED <<socket, room>>
  PROVE  Plain(r)
<1>1. GroupMoves(r) /\ grp'[r] = x
  BY GroupMovesTo
<1> QED
  BY <1>1 DEF Plain

LEMMA StartGroupPlain ==
  ASSUME GroupAssumption, GroupTypeInv, NEW r \in Requests, NEW g \in Groups, NEW u \in Users,
         NEW us \in SUBSET Users,
         CreateGroup(r, g, u, us) \/ AddFindAdmin(r, g, u, us)
         \/ PostFindMember(r, g, u) \/ PageRead(r, g, u)
  PROVE  Plain(r)
<1>1. CASE CreateGroup(r, g, u, us)
  <2> DEFINE x == [GroupIdle EXCEPT !.step = "create.admin", !.group = g, !.user = u, !.users = us \ {u}]
  <2>2. x \in GroupRequest /\ x.step = "create.admin" /\ x.group = g /\ x.user = u
    BY DEF GroupIdle, GroupRequest, GroupSteps
  <2>3. /\ grp' = [grp EXCEPT ![r] = x] /\ GroupAt(r, "idle")
        /\ UNCHANGED <<role, groupList, posts, page, socket, room>>
    BY <1>1 DEF CreateGroup
  <2> HIDE DEF x
  <2> QED
    BY <2>2, <2>3, StartsPlain
<1>2. CASE AddFindAdmin(r, g, u, us)
  <2> DEFINE x == [GroupIdle EXCEPT !.step = "add.create", !.group = g, !.user = u, !.users = us]
  <2>2. x \in GroupRequest /\ x.step = "add.create" /\ x.group = g /\ x.user = u
    BY DEF GroupIdle, GroupRequest, GroupSteps
  <2>3. /\ grp' = [grp EXCEPT ![r] = x] /\ GroupAt(r, "idle")
        /\ UNCHANGED <<role, groupList, posts, page, socket, room>>
    BY <1>2 DEF AddFindAdmin
  <2> HIDE DEF x
  <2> QED
    BY <2>2, <2>3, StartsPlain
<1>3. CASE PostFindMember(r, g, u)
  <2> DEFINE x == [GroupIdle EXCEPT !.step = "post.create", !.group = g, !.user = u]
  <2>2. x \in GroupRequest /\ x.step = "post.create" /\ x.group = g /\ x.user = u
    BY DEF GroupIdle, GroupRequest, GroupSteps
  <2>3. /\ grp' = [grp EXCEPT ![r] = x] /\ GroupAt(r, "idle")
        /\ UNCHANGED <<role, groupList, posts, page, socket, room>>
    BY <1>3 DEF PostFindMember
  <2> HIDE DEF x
  <2> QED
    BY <2>2, <2>3, StartsPlain
<1>4. CASE PageRead(r, g, u)
  <2> DEFINE x == [GroupIdle EXCEPT !.step = "page.fill", !.group = g, !.posts = posts[g]]
  <2>1. posts[g] \in Nat
    BY DEF GroupTypeInv, GroupTypeOK
  <2>2. x \in GroupRequest /\ x.step = "page.fill" /\ x.group = g
    BY <2>1 DEF GroupIdle, GroupRequest, GroupSteps
  <2>3. /\ grp' = [grp EXCEPT ![r] = x] /\ GroupAt(r, "idle")
        /\ UNCHANGED <<role, groupList, posts, page, socket, room>>
    BY <1>4 DEF PageRead
  <2> HIDE DEF x
  <2> QED
    BY <2>2, <2>3, StartsPlain
<1> QED
  BY <1>1, <1>2, <1>3, <1>4

LEMMA JoinPlain ==
  ASSUME GroupAssumption, GroupTypeInv, NEW r \in Requests,
         CreateAdmin(r) \/ CreateMembers(r) \/ AddCreate(r)
  PROVE  Plain(r)
<1>0. /\ GroupTypeOK /\ GroupShape(grp[r]) /\ grp[r] \in GroupRequest
      /\ grp[r].step \in {"create.admin", "create.members", "add.create"}
      /\ UNCHANGED <<groupList, posts, page, socket, room>>
  BY DEF GroupTypeInv, GroupTypeOK, CreateAdmin, CreateMembers, AddCreate, GroupAt
<1>1. grp[r].group \in Groups /\ grp[r].user \in Users /\ Leaving(grp[r]) = {}
  BY <1>0 DEF GroupShape, Leaving
<1>2. RolesTyped /\ \A g \in Groups, u \in Users : Member(g, u) => Member(g, u)'
  <2>1. CASE CreateAdmin(r)
    BY <1>0, <1>1, <2>1 DEF CreateAdmin, RolesTyped, GroupTypeOK, Member
  <2>2. ASSUME JoinAll(grp[r].group, grp[r].users)
        PROVE  RolesTyped /\ \A g \in Groups, u \in Users : Member(g, u) => Member(g, u)'
    <3> DEFINE roles == [u \in Users |-> IF u \in grp[r].users /\ ~Member(grp[r].group, u)
                                         THEN "MEMBER" ELSE role[grp[r].group][u]]
    <3>1. /\ roles \in [Users -> {"none", "MEMBER", "ADMIN"}]
          /\ \A u \in Users : Member(grp[r].group, u) => roles[u] # "none"
      BY <1>0, <1>1 DEF GroupTypeOK, Member
    <3>2. role' = [role EXCEPT ![grp[r].group] = roles]
      BY <2>2 DEF JoinAll
    <3> HIDE DEF roles
    <3> QED
      BY <1>0, <1>1, <3>1, <3>2 DEF RolesTyped, GroupTypeOK, Member
  <2> QED
    BY <2>1, <2>2 DEF CreateMembers, AddCreate
<1>3. PICK x \in GroupRequest :
        grp' = [grp EXCEPT ![r] = x] /\ GroupShape(x) /\ x.step # "groups.fill" /\ Leaving(x) = {}
  <2>1. ASSUME NEW step \in {"create.members", "add.clear"}, grp' = [grp EXCEPT ![r].step = step]
        PROVE  \E x \in GroupRequest :
                 grp' = [grp EXCEPT ![r] = x] /\ GroupShape(x) /\ x.step # "groups.fill"
                 /\ Leaving(x) = {}
    <3> DEFINE x == [grp[r] EXCEPT !.step = step]
    <3>1. x \in GroupRequest /\ x.step = step /\ x.group = grp[r].group /\ x.user = grp[r].user
      BY <1>0 DEF GroupRequest, GroupSteps
    <3>2. grp' = [grp EXCEPT ![r] = x]
      BY <2>1
    <3> HIDE DEF x
    <3> QED
      BY <1>1, <3>1, <3>2 DEF GroupShape, Leaving
  <2>2. CASE GroupFinish(r)
    BY <2>2, GroupIdleTyped DEF GroupFinish
  <2> QED
    BY <2>1, <2>2 DEF CreateAdmin, CreateMembers, AddCreate
<1>4. ListsTyped /\ posts' \in [Groups -> Nat] /\ page' \in [Groups -> Nat \cup {None}]
  BY <1>0 DEF GroupTypeOK, ListsTyped
<1> QED
  BY <1>0, <1>1, <1>2, <1>3, <1>4, StepsTyped

LEMMA ClearPlain ==
  ASSUME GroupAssumption, GroupTypeInv, NEW r \in Requests, ClearAdmin(r) \/ RemoveClear(r)
  PROVE  Plain(r)
<1>0. /\ GroupTypeOK /\ GroupShape(grp[r]) /\ grp[r] \in GroupRequest
      /\ grp[r].step \in {"add.clear", "remove.admin", "remove.clear"}
      /\ UNCHANGED <<role, posts, page, socket, room>>
  BY DEF GroupTypeInv, GroupTypeOK, ClearAdmin, RemoveClear, GroupAt, GroupMembersAdded
<1>1. grp[r].group \in Groups /\ grp[r].user \in Users /\ grp[r].users \subseteq Users
  BY <1>0 DEF GroupShape, GroupRequest
<1>2. /\ RolesTyped /\ \A g \in Groups, u \in Users : Member(g, u) => Member(g, u)'
      /\ posts' \in [Groups -> Nat] /\ page' \in [Groups -> Nat \cup {None}]
  BY <1>0 DEF RolesTyped, GroupTypeOK, Member
<1>3. ListsTyped /\ \A u \in Users : groupList'[u] \in {groupList[u], None}
  BY <1>0, <1>1 DEF ClearAdmin, RemoveClear, ListsTyped, GroupTypeOK
<1>4. PICK x \in GroupRequest :
        /\ grp' = [grp EXCEPT ![r] = x] /\ GroupShape(x) /\ x.step # "groups.fill"
        /\ Leaving(x) \subseteq Leaving(grp[r])
        /\ \A u \in Leaving(grp[r]) \ Leaving(x) : groupList'[u] = None
  <2>1. CASE ClearAdmin(r) /\ grp[r].step = "add.clear"
    <3>1. grp' = [grp EXCEPT ![r] = GroupIdle] /\ Leaving(grp[r]) = {}
      BY <2>1 DEF ClearAdmin, GroupAt, Leaving
    <3> QED
      BY <3>1, GroupIdleTyped
  <2>2. CASE ClearAdmin(r) /\ grp[r].step = "remove.admin"
    <3> DEFINE x == [grp[r] EXCEPT !.step = "remove.clear"]
    <3>1. /\ x \in GroupRequest /\ x.step = "remove.clear" /\ x.group = grp[r].group
          /\ x.user = grp[r].user /\ x.users = grp[r].users
      BY <1>0 DEF GroupRequest, GroupSteps
    <3>2. grp' = [grp EXCEPT ![r] = x]
      BY <2>2 DEF ClearAdmin, GroupAt
    <3> HIDE DEF x
    <3> QED
      BY <1>1, <2>2, <3>1, <3>2 DEF GroupShape, Leaving
  <2>3. CASE RemoveClear(r) /\ grp[r].users = {}
    <3>1. grp' = [grp EXCEPT ![r] = GroupIdle] /\ Leaving(grp[r]) = {}
      BY <2>3 DEF RemoveClear, GroupFinish, Leaving
    <3> QED
      BY <3>1, GroupIdleTyped
  <2>4. CASE RemoveClear(r) /\ grp[r].users # {}
    <3>1. PICK u \in grp[r].users : /\ groupList' = [groupList EXCEPT ![u] = None]
                                    /\ grp' = [grp EXCEPT ![r].users = @ \ {u}]
      BY <2>4 DEF RemoveClear
    <3> DEFINE x == [grp[r] EXCEPT !.users = @ \ {u}]
    <3>2. /\ x \in GroupRequest /\ x.step = grp[r].step /\ x.group = grp[r].group
          /\ x.user = grp[r].user /\ x.users = grp[r].users \ {u}
      BY <1>0 DEF GroupRequest
    <3>3. grp' = [grp EXCEPT ![r] = x] /\ grp[r].step = "remove.clear"
      BY <2>4, <3>1 DEF RemoveClear, GroupAt
    <3> HIDE DEF x
    <3>4. groupList'[u] = None
      BY <1>0, <1>1, <3>1 DEF GroupTypeOK
    <3> QED
      BY <1>1, <3>2, <3>3, <3>4 DEF GroupShape, Leaving
  <2> QED
    BY <1>0, <2>1, <2>2, <2>3, <2>4 DEF ClearAdmin
<1> QED
  BY <1>0, <1>2, <1>3, <1>4, StepsTyped

LEMMA PostPlain ==
  ASSUME GroupAssumption, GroupTypeInv, NEW r \in Requests, PostCreate(r) \/ PageFill(r)
  PROVE  Plain(r)
<1>0. /\ GroupTypeOK /\ GroupShape(grp[r]) /\ grp[r] \in GroupRequest
      /\ grp[r].step \in {"post.create", "page.fill"}
      /\ UNCHANGED <<role, groupList, socket, room>> /\ grp' = [grp EXCEPT ![r] = GroupIdle]
  BY DEF GroupTypeInv, GroupTypeOK, PostCreate, PageFill, GroupAt, GroupFinish
<1>1. grp[r].group \in Groups /\ Leaving(grp[r]) = {} /\ grp[r].posts \in Nat
  BY <1>0 DEF GroupShape, Leaving, GroupRequest
<1>2. posts' \in [Groups -> Nat] /\ page' \in [Groups -> Nat \cup {None}]
  <2>1. posts \in [Groups -> Nat] /\ page \in [Groups -> Nat \cup {None}]
    BY <1>0 DEF GroupTypeOK
  <2>2. CASE PostCreate(r)
    <3>1. posts' = [posts EXCEPT ![grp[r].group] = posts[grp[r].group] + 1] /\ UNCHANGED page
      BY <2>2 DEF PostCreate
    <3> QED
      BY <1>1, <2>1, <3>1
  <2>3. CASE PageFill(r)
    <3>1. page' = [page EXCEPT ![grp[r].group] = grp[r].posts] /\ UNCHANGED posts
      BY <2>3 DEF PageFill
    <3> QED
      BY <1>1, <2>1, <3>1
  <2> QED
    BY <2>2, <2>3
<1>3. RolesTyped /\ ListsTyped /\ \A g \in Groups, u \in Users : Member(g, u) => Member(g, u)'
  BY <1>0 DEF RolesTyped, ListsTyped, GroupTypeOK, Member
<1> QED
  BY <1>0, <1>1, <1>2, <1>3, GroupIdleTyped, StepsTyped

GroupInv == GroupTypeInv /\ ListInv /\ RoomInv

\* Rooms and sockets stay, and who was a member still is.
LEMMA RoomsKeep ==
  ASSUME GroupTypeInv, RoomInv, UNCHANGED <<socket, room>>,
         \A g \in Groups, u \in Users : Member(g, u) => Member(g, u)'
  PROVE  RoomInv'
<1>1. \A s \in Sockets : socket[s].state # "closed" => socket[s].user \in Users
  BY DEF GroupTypeInv
<1>2. ASSUME NEW g \in Groups, NEW s \in Sockets, socket[s].state # "closed",
             Member(g, socket[s].user) \/ g \in socket[s].lost
      PROVE  Member(g, socket[s].user)' \/ g \in socket'[s].lost
  <2>1. PICK u \in Users : u = socket[s].user
    BY <1>1, <1>2
  <2>2. Member(g, u) => Member(g, u)'
    BY <2>1
  <2> QED
    BY <1>2, <2>1, <2>2 DEF Member
<1>3. \A g \in Groups : \A s \in room[g] : s \in Sockets /\ socket[s].state # "closed"
  BY DEF GroupTypeInv, GroupTypeOK, RoomInv
<1>4. RoomsFollowMembership'
  BY <1>2, <1>3 DEF RoomInv, RoomsFollowMembership, Told
<1>5. \A s \in Sockets : socket[s].groups \subseteq Groups
  BY DEF GroupTypeInv, GroupTypeOK, SocketRow
<1>6. \A s \in Sockets : socket'[s].state = "reading" =>
        \A g \in socket'[s].groups : Member(g, socket[s].user)' \/ g \in socket'[s].lost
  BY <1>2, <1>5 DEF RoomInv
<1>7. \A s \in Sockets : socket'[s].state = "closed" => \A g \in Groups : s \notin room'[g]
  BY DEF RoomInv
<1> QED
  BY <1>4, <1>6, <1>7 DEF RoomInv, Member

LEMMA PlainKeeps == ASSUME GroupInv, NEW r \in Requests, Plain(r) PROVE GroupInv'
<1>0. GroupTypeInv /\ ListInv /\ RoomInv /\ GroupTypeOK
  BY DEF GroupInv, GroupTypeInv
<1>1. GroupTypeInv'
  <2>1. GroupTypeOK'
    BY <1>0 DEF Plain, GroupMoves, RolesTyped, ListsTyped, GroupTypeOK
  <2>2. \A q \in Requests : GroupShape(grp'[q])
    BY <1>0 DEF Plain, GroupMoves, GroupTypeInv
  <2> QED
    BY <1>0, <2>1, <2>2 DEF Plain, GroupTypeInv, GroupShape
<1>2. ASSUME NEW u, Removing(u)' PROVE Removing(u)
  BY <1>2, RemovingLeaving DEF Plain, GroupMoves
<1>3. ASSUME NEW u \in Users, Removing(u), ~Removing(u)' PROVE groupList'[u] = None
  <2>1. PICK q \in Requests : u \in Leaving(grp[q])
    BY <1>3, RemovingLeaving
  <2>2. u \notin Leaving(grp'[q])
    BY <1>3, RemovingLeaving
  <2> QED
    BY <2>1, <2>2 DEF Plain, GroupMoves
<1>4. \A g \in Groups, u \in Users : Member(g, u) => Member(g, u)'
  BY DEF Plain
<1>5. ASSUME NEW q \in Requests, GroupAt(q, "groups.fill")', ~grp'[q].crossed, NEW u, u = grp'[q].user
      PROVE  ~Removing(u)' /\ \A g \in grp'[q].groups : Member(g, u)'
  <2>1. q # r /\ grp'[q] = grp[q]
    BY <1>5 DEF Plain, GroupMoves, GroupAt
  <2>2. ~Removing(u) /\ (\A g \in grp[q].groups : Member(g, u))
        /\ grp[q].groups \subseteq Groups /\ u \in Users
    BY <1>0, <1>5, <2>1 DEF ListInv, GroupAt, GroupTypeInv, GroupTypeOK, GroupShape, GroupRequest
  <2> QED
    BY <1>2, <1>4, <2>1, <2>2
<1>6. ASSUME NEW u \in Users, groupList'[u] # None, ~groupList'[u].crossed, NEW g \in groupList'[u].groups
      PROVE  Member(g, u)' \/ Removing(u)'
  <2>1. groupList'[u] = groupList[u]
    BY <1>6 DEF Plain
  <2>2. g \in Groups
    BY <1>0, <1>6, <2>1 DEF GroupTypeOK, GroupList
  <2>3. Member(g, u) \/ Removing(u)
    BY <1>0, <1>6, <2>1 DEF ListInv
  <2> QED
    BY <1>3, <1>4, <1>6, <2>2, <2>3
<1>7. ListInv'
  BY <1>5, <1>6 DEF ListInv
<1>8. RoomInv'
  BY <1>0, <1>4, RoomsKeep DEF Plain
<1> QED
  BY <1>1, <1>7, <1>8 DEF GroupInv

LEMMA GroupsReadKeeps ==
  ASSUME GroupInv, NEW r \in Requests, NEW u \in Users, GroupsRead(r, u)
  PROVE  GroupInv'
<1> DEFINE x == [GroupIdle EXCEPT !.step = "groups.fill", !.user = u, !.groups = GroupsOf(u),
                                  !.crossed = Removing(u)]
<1>0. /\ GroupTypeInv /\ ListInv /\ RoomInv /\ GroupTypeOK /\ GroupAt(r, "idle")
      /\ UNCHANGED <<role, groupList, posts, page, socket, room>>
  BY DEF GroupInv, GroupTypeInv, GroupsRead
<1>1. Removing(u) \in BOOLEAN /\ GroupsOf(u) \subseteq Groups
  BY DEF Removing, GroupsOf
<1>2. /\ x \in GroupRequest /\ x.step = "groups.fill" /\ x.user = u /\ x.groups = GroupsOf(u)
      /\ x.crossed = Removing(u)
  BY <1>1 DEF GroupIdle, GroupRequest, GroupSteps
<1>3. grp' = [grp EXCEPT ![r] = x]
  BY DEF GroupsRead
<1> HIDE DEF x
<1>4. GroupMoves(r) /\ grp'[r] = x
  BY <1>0, <1>2, <1>3, GroupMovesTo
<1>5. Leaving(x) = {} /\ Leaving(grp[r]) = {} /\ GroupShape(x)
  BY <1>0, <1>2 DEF Leaving, GroupAt, GroupShape
<1>6. \A w : Removing(w)' <=> Removing(w)
  BY <1>4, <1>5, RemovingLeaving DEF GroupMoves
<1>7. GroupTypeInv'
  <2>1. GroupTypeOK'
    BY <1>0, <1>4 DEF GroupMoves, GroupTypeOK
  <2>2. \A q \in Requests : GroupShape(grp'[q])
    BY <1>0, <1>4, <1>5 DEF GroupMoves, GroupTypeInv
  <2> QED
    BY <1>0, <2>1, <2>2 DEF GroupTypeInv, GroupShape
<1>8. \A g, w : Member(g, w)' <=> Member(g, w)
  BY <1>0 DEF Member
<1>9. ASSUME NEW q \in Requests, GroupAt(q, "groups.fill")', ~grp'[q].crossed, NEW w, w = grp'[q].user
      PROVE  ~Removing(w)' /\ \A g \in grp'[q].groups : Member(g, w)'
  <2>1. CASE q = r
    BY <1>2, <1>4, <1>6, <1>8, <1>9, <2>1 DEF GroupsOf
  <2>2. CASE q # r
    <3>1. grp'[q] = grp[q]
      BY <1>4, <2>2 DEF GroupMoves
    <3> QED
      BY <1>0, <1>6, <1>8, <1>9, <3>1 DEF ListInv, GroupAt
  <2> QED
    BY <2>1, <2>2
<1>10. ListInv'
  <2>1. \A w \in Users : groupList'[w] # None /\ ~groupList'[w].crossed =>
          \A g \in groupList'[w].groups : Member(g, w)' \/ Removing(w)'
    BY <1>0, <1>6, <1>8 DEF ListInv
  <2> QED
    BY <1>9, <2>1 DEF ListInv
<1>11. RoomInv'
  BY <1>0, <1>8, RoomsKeep
<1> QED
  BY <1>7, <1>10, <1>11 DEF GroupInv

LEMMA GroupsFillKeeps ==
  ASSUME GroupInv, NEW r \in Requests, GroupsFill(r)
  PROVE  GroupInv'
<1> DEFINE list == [groups |-> grp[r].groups, crossed |-> grp[r].crossed]
<1>0. /\ GroupTypeInv /\ ListInv /\ RoomInv /\ GroupTypeOK /\ GroupAt(r, "groups.fill")
      /\ UNCHANGED <<role, posts, page, socket, room>> /\ GroupFinish(r)
      /\ groupList' = [groupList EXCEPT ![grp[r].user] = list]
      /\ grp[r] \in GroupRequest /\ grp[r].user \in Users
  BY DEF GroupInv, GroupTypeInv, GroupTypeOK, GroupsFill, GroupShape, GroupAt
<1>1. list \in GroupList /\ list.groups = grp[r].groups /\ list.crossed = grp[r].crossed
  BY <1>0 DEF GroupList, GroupRequest
<1> HIDE DEF list
<1>2. GroupMoves(r) /\ grp'[r] = GroupIdle
  BY <1>0, GroupMovesTo, GroupIdleTyped DEF GroupFinish
<1>3. groupList' \in [Users -> GroupList \cup {None}]
      /\ \A w \in Users : groupList'[w] = IF w = grp[r].user THEN list ELSE groupList[w]
  BY <1>0, <1>1 DEF GroupTypeOK
<1>4. Leaving(grp[r]) = {}
  BY <1>0 DEF Leaving, GroupAt
<1>5. \A w : Removing(w)' <=> Removing(w)
  BY <1>2, <1>4, GroupIdleTyped, RemovingLeaving DEF GroupMoves
<1>6. GroupTypeInv'
  <2>1. GroupTypeOK'
    BY <1>0, <1>2, <1>3 DEF GroupMoves, GroupTypeOK
  <2>2. \A q \in Requests : GroupShape(grp'[q])
    BY <1>0, <1>2, GroupIdleTyped DEF GroupMoves, GroupTypeInv
  <2> QED
    BY <1>0, <2>1, <2>2 DEF GroupTypeInv, GroupShape
<1>7. \A g, w : Member(g, w)' <=> Member(g, w)
  BY <1>0 DEF Member
<1>8. ASSUME NEW q \in Requests, GroupAt(q, "groups.fill")', ~grp'[q].crossed, NEW w, w = grp'[q].user
      PROVE  ~Removing(w)' /\ \A g \in grp'[q].groups : Member(g, w)'
  <2>1. q # r
    BY <1>2, <1>8, GroupIdleTyped DEF GroupAt
  <2>2. grp'[q] = grp[q]
    BY <1>2, <2>1 DEF GroupMoves
  <2> QED
    BY <1>0, <1>5, <1>7, <1>8, <2>2 DEF ListInv, GroupAt
<1>9. ASSUME NEW w \in Users, groupList'[w] # None, ~groupList'[w].crossed, NEW g \in groupList'[w].groups
      PROVE  Member(g, w)' \/ Removing(w)'
  <2>1. CASE w = grp[r].user
    BY <1>0, <1>1, <1>3, <1>7, <1>9, <2>1 DEF ListInv
  <2>2. CASE w # grp[r].user
    BY <1>0, <1>3, <1>5, <1>7, <1>9, <2>2 DEF ListInv
  <2> QED
    BY <2>1, <2>2
<1>10. ListInv'
  BY <1>8, <1>9 DEF ListInv
<1>11. RoomInv'
  BY <1>0, <1>7, RoomsKeep
<1> QED
  BY <1>6, <1>10, <1>11 DEF GroupInv

\* A removal begins: the lists being built for its users are crossed.
LEMMA RemoveFindAdminKeeps ==
  ASSUME GroupInv, NEW r \in Requests, NEW g \in Groups, NEW u \in Users, NEW us \in SUBSET Users,
         RemoveFindAdmin(r, g, u, us)
  PROVE  GroupInv'
<1> DEFINE x == [GroupIdle EXCEPT !.step = "remove.delete", !.group = g, !.user = u, !.users = us]
           y(q) == [grp[q] EXCEPT !.crossed = TRUE]
<1>0. /\ GroupTypeInv /\ ListInv /\ RoomInv /\ GroupTypeOK /\ GroupAt(r, "idle")
      /\ UNCHANGED <<role, groupList, posts, page, socket, room>>
  BY DEF GroupInv, GroupTypeInv, RemoveFindAdmin
<1>1. x \in GroupRequest /\ x.step = "remove.delete" /\ x.group = g /\ x.user = u /\ x.users = us
  BY DEF GroupIdle, GroupRequest, GroupSteps
<1>2. \A q \in Requests : /\ y(q) \in GroupRequest /\ y(q).step = grp[q].step
                          /\ y(q).user = grp[q].user /\ y(q).users = grp[q].users
                          /\ y(q).group = grp[q].group /\ y(q).groups = grp[q].groups /\ y(q).crossed
  BY <1>0 DEF GroupTypeOK, GroupRequest
<1>3. grp' = [q \in Requests |->
                IF q = r THEN x
                ELSE IF GroupAt(q, "groups.fill") /\ grp[q].user \in us THEN y(q) ELSE grp[q]]
  BY DEF RemoveFindAdmin
<1> HIDE DEF x, y
<1>4. grp' \in [Requests -> GroupRequest] /\ grp'[r] = x
  BY <1>0, <1>1, <1>2, <1>3 DEF GroupTypeOK
<1>5. ASSUME NEW q \in Requests \ {r}
      PROVE  /\ grp'[q].step = grp[q].step /\ grp'[q].user = grp[q].user
             /\ grp'[q].users = grp[q].users /\ grp'[q].group = grp[q].group
             /\ grp'[q].groups = grp[q].groups /\ (grp[q].crossed => grp'[q].crossed)
             /\ GroupAt(q, "groups.fill") /\ grp[q].user \in us => grp'[q].crossed
  <2>1. grp'[q] = IF GroupAt(q, "groups.fill") /\ grp[q].user \in us THEN y(q) ELSE grp[q]
    BY <1>3
  <2> QED
    BY <1>2, <2>1
<1>6. /\ Leaving(grp'[r]) = us /\ Leaving(grp[r]) = {}
      /\ \A q \in Requests \ {r} : Leaving(grp'[q]) = Leaving(grp[q])
  BY <1>0, <1>1, <1>4, <1>5 DEF Leaving, GroupAt
<1>7. \A w : Removing(w)' <=> Removing(w) \/ w \in us
  BY <1>6, RemovingLeaving
<1>8. GroupTypeInv'
  <2>1. GroupTypeOK'
    BY <1>0, <1>4 DEF GroupTypeOK
  <2>2. \A q \in Requests : GroupShape(grp'[q])
    BY <1>0, <1>1, <1>4, <1>5 DEF GroupTypeInv, GroupShape
  <2> QED
    BY <1>0, <2>1, <2>2 DEF GroupTypeInv, GroupShape
<1>9. \A h, w : Member(h, w)' <=> Member(h, w)
  BY <1>0 DEF Member
<1>10. ASSUME NEW q \in Requests, GroupAt(q, "groups.fill")', ~grp'[q].crossed, NEW w, w = grp'[q].user
       PROVE  ~Removing(w)' /\ \A h \in grp'[q].groups : Member(h, w)'
  <2>1. q # r
    BY <1>1, <1>4, <1>10 DEF GroupAt
  <2>2. /\ GroupAt(q, "groups.fill") /\ ~grp[q].crossed /\ w = grp[q].user /\ w \notin us
        /\ grp'[q].groups = grp[q].groups
    BY <1>5, <1>10, <2>1 DEF GroupAt
  <2> QED
    BY <1>0, <1>7, <1>9, <2>2 DEF ListInv
<1>11. ListInv'
  <2>1. \A w \in Users : groupList'[w] # None /\ ~groupList'[w].crossed =>
          \A h \in groupList'[w].groups : Member(h, w)' \/ Removing(w)'
    BY <1>0, <1>7, <1>9 DEF ListInv
  <2> QED
    BY <1>10, <2>1 DEF ListInv
<1>12. RoomInv'
  BY <1>0, <1>9, RoomsKeep
<1> QED
  BY <1>8, <1>11, <1>12 DEF GroupInv

\* The members leave the group; their sockets, and the lists, know of it.
LEMMA RemoveDeleteKeeps ==
  ASSUME GroupInv, NEW r \in Requests, RemoveDelete(r)
  PROVE  GroupInv'
<1> DEFINE g == grp[r].group
           out == {u \in grp[r].users : role[g][u] = "MEMBER"}
           x == [grp[r] EXCEPT !.step = "remove.admin"]
           roles == [u \in Users |-> IF u \in out THEN "none" ELSE role[g][u]]
           row(s) == [socket[s] EXCEPT !.lost = @ \cup {g}]
<1>0. /\ GroupTypeInv /\ ListInv /\ RoomInv /\ GroupTypeOK /\ grp[r].step = "remove.delete"
      /\ UNCHANGED <<groupList, posts, page, room>> /\ grp[r] \in GroupRequest
      /\ grp[r].group \in Groups /\ grp[r].user \in Users /\ grp[r].users \subseteq Users
  BY DEF GroupInv, GroupTypeInv, GroupTypeOK, RemoveDelete, GroupAt, GroupShape, GroupRequest
<1>1. /\ x \in GroupRequest /\ x.step = "remove.admin" /\ x.group = g /\ x.user = grp[r].user
      /\ x.users = grp[r].users
  BY <1>0 DEF GroupRequest, GroupSteps
<1>2. /\ roles \in [Users -> {"none", "MEMBER", "ADMIN"}]
      /\ \A u \in Users : u \notin out => roles[u] = role[g][u]
  BY <1>0 DEF GroupTypeOK
<1>3. \A s \in Sockets : /\ row(s) \in SocketRow /\ row(s).state = socket[s].state
                         /\ row(s).user = socket[s].user /\ row(s).groups = socket[s].groups
                         /\ row(s).lost = socket[s].lost \cup {g}
  BY <1>0 DEF GroupTypeOK, SocketRow
<1>4. /\ grp' = [grp EXCEPT ![r] = x]
      /\ role' = [role EXCEPT ![g] = roles]
      /\ socket' = [s \in Sockets |-> IF socket[s].user \in out THEN row(s) ELSE socket[s]]
  BY DEF RemoveDelete
<1>5. out \subseteq grp[r].users /\ g \in Groups
  BY <1>0
<1> HIDE DEF x, roles, row, out, g
<1>6. GroupMoves(r) /\ grp'[r] = x
  BY <1>0, <1>1, <1>4, GroupMovesTo
<1>7. RolesTyped /\ \A h \in Groups, u \in Users : Member(h, u) => Member(h, u)' \/ (h = g /\ u \in out)
  BY <1>0, <1>2, <1>4, <1>5 DEF RolesTyped, GroupTypeOK, Member
<1>8. /\ socket' \in [Sockets -> SocketRow]
      /\ \A s \in Sockets : /\ socket'[s].state = socket[s].state /\ socket'[s].user = socket[s].user
                            /\ socket'[s].groups = socket[s].groups
                            /\ socket[s].lost \subseteq socket'[s].lost
                            /\ socket[s].user \in out => g \in socket'[s].lost
  BY <1>0, <1>3, <1>4 DEF GroupTypeOK
<1>9. Leaving(x) = grp[r].users /\ Leaving(grp[r]) = grp[r].users /\ GroupShape(x)
  BY <1>0, <1>1, <1>5 DEF Leaving, GroupShape
<1>10. (\A w : Removing(w)' <=> Removing(w)) /\ \A w \in out : Removing(w)
  <2>1. \A q \in Requests : Leaving(grp'[q]) = Leaving(grp[q])
    BY <1>6, <1>9 DEF GroupMoves
  <2> QED
    BY <1>5, <1>9, <2>1, RemovingLeaving
<1>11. GroupTypeInv'
  <2>1. GroupTypeOK'
    BY <1>0, <1>6, <1>7, <1>8 DEF GroupMoves, RolesTyped, GroupTypeOK
  <2>2. \A q \in Requests : GroupShape(grp'[q])
    BY <1>0, <1>6, <1>9 DEF GroupMoves, GroupTypeInv
  <2> QED
    BY <1>0, <1>8, <2>1, <2>2 DEF GroupTypeInv, GroupShape
<1>12. ASSUME NEW q \in Requests, GroupAt(q, "groups.fill")', ~grp'[q].crossed, NEW w, w = grp'[q].user
       PROVE  ~Removing(w)' /\ \A h \in grp'[q].groups : Member(h, w)'
  <2>1. q # r
    BY <1>1, <1>6, <1>12 DEF GroupAt
  <2>2. grp'[q] = grp[q]
    BY <1>6, <2>1 DEF GroupMoves
  <2>3. ~Removing(w) /\ (\A h \in grp[q].groups : Member(h, w))
        /\ grp[q].groups \subseteq Groups /\ w \in Users
    BY <1>0, <1>12, <2>2 DEF ListInv, GroupAt, GroupTypeInv, GroupTypeOK, GroupShape, GroupRequest
  <2> QED
    BY <1>7, <1>10, <2>2, <2>3
<1>13. ASSUME NEW w \in Users, groupList'[w] # None, ~groupList'[w].crossed, NEW h \in groupList'[w].groups
       PROVE  Member(h, w)' \/ Removing(w)'
  <2>1. h \in Groups
    BY <1>0, <1>13 DEF GroupTypeOK, GroupList
  <2>2. Member(h, w) \/ Removing(w)
    BY <1>0, <1>13 DEF ListInv
  <2> QED
    BY <1>7, <1>10, <2>1, <2>2
<1>14. ListInv'
  BY <1>12, <1>13 DEF ListInv
<1>15. ASSUME NEW s \in Sockets, NEW h \in Groups, socket[s].state # "closed",
              Member(h, socket[s].user) \/ h \in socket[s].lost
       PROVE  Member(h, socket[s].user)' \/ h \in socket'[s].lost
  <2>1. PICK w \in Users : w = socket[s].user
    BY <1>0, <1>15 DEF GroupTypeInv
  <2>2. Member(h, w) => Member(h, w)' \/ (h = g /\ w \in out)
    BY <1>7, <2>1
  <2>3. Member(h, w)' => Member(h, socket[s].user)'
    BY <1>8, <2>1 DEF Member
  <2> QED
    BY <1>8, <1>15, <2>1, <2>2, <2>3
<1>16. RoomInv'
  <2>1. \A h \in Groups : \A s \in room[h] : s \in Sockets /\ socket[s].state # "closed"
    BY <1>0 DEF GroupTypeOK, RoomInv
  <2>2. \A h \in Groups : \A s \in room'[h] : Member(h, socket[s].user)' \/ h \in socket'[s].lost
    BY <1>0, <1>15, <2>1 DEF RoomInv, RoomsFollowMembership, Told
  <2>3. \A s \in Sockets : socket[s].groups \subseteq Groups
    BY <1>0 DEF GroupTypeOK, SocketRow
  <2>4. \A s \in Sockets : socket'[s].state = "reading" =>
          \A h \in socket'[s].groups : Member(h, socket[s].user)' \/ h \in socket'[s].lost
    BY <1>0, <1>8, <1>15, <2>3 DEF RoomInv
  <2>5. \A s \in Sockets : socket'[s].state = "closed" => \A h \in Groups : s \notin room'[h]
    BY <1>0, <1>8 DEF RoomInv
  <2> QED
    BY <2>2, <2>4, <2>5 DEF RoomInv, RoomsFollowMembership, Told, Member
<1> QED
  BY <1>11, <1>14, <1>16 DEF GroupInv

\* A list expires, or a page does: nothing else is touched.
LEMMA ExpireKeeps ==
  ASSUME GroupInv, (\E g \in Groups : PageExpire(g)) \/ (\E u \in Users : ListExpire(u))
  PROVE  GroupInv'
<1>0. /\ GroupTypeInv /\ ListInv /\ RoomInv /\ GroupTypeOK
      /\ UNCHANGED <<role, posts, socket, room, grp>>
  BY DEF GroupInv, GroupTypeInv, PageExpire, ListExpire
<1>1. ListsTyped /\ page' \in [Groups -> Nat \cup {None}]
      /\ \A u \in Users : groupList'[u] \in {groupList[u], None}
  BY <1>0 DEF PageExpire, ListExpire, ListsTyped, GroupTypeOK
<1>2. GroupTypeInv'
  BY <1>0, <1>1 DEF GroupTypeInv, GroupTypeOK, ListsTyped, GroupShape
<1>3. (\A u : Removing(u)' <=> Removing(u)) /\ \A g, u : Member(g, u)' <=> Member(g, u)
  BY <1>0 DEF Removing, Member
<1>4. ListInv'
  <2>1. \A q \in Requests : GroupAt(q, "groups.fill")' /\ ~grp'[q].crossed =>
          ~Removing(grp[q].user) /\ \A g \in grp'[q].groups : Member(g, grp[q].user)
    BY <1>0 DEF ListInv, GroupAt
  <2>2. \A u \in Users : groupList'[u] # None /\ ~groupList'[u].crossed =>
          \A g \in groupList'[u].groups : Member(g, u)' \/ Removing(u)'
    BY <1>0, <1>1, <1>3 DEF ListInv
  <2> QED
    BY <1>0, <1>3, <2>1, <2>2 DEF ListInv, Removing, Member
<1>5. RoomInv'
  BY <1>0, <1>3, RoomsKeep
<1> QED
  BY <1>2, <1>4, <1>5 DEF GroupInv

\* Sockets come and go without the requests.
LEMMA SocketsKeep ==
  ASSUME GroupInv, UNCHANGED <<role, groupList, posts, page, grp>>,
         socket' \in [Sockets -> SocketRow], room' \in [Groups -> SUBSET Sockets],
         \A s \in Sockets : socket'[s].state # "closed" => socket'[s].user \in Users,
         RoomInv'
  PROVE  GroupInv'
<1>1. GroupTypeInv'
  BY DEF GroupInv, GroupTypeInv, GroupTypeOK, GroupShape
<1>2. ListInv'
  BY DEF GroupInv, ListInv, GroupAt, Removing, Member
<1> QED
  BY <1>1, <1>2 DEF GroupInv

LEMMA ConnectKeeps ==
  ASSUME GroupInv, NEW s \in Sockets, NEW u \in Users, Connect(s, u)
  PROVE  GroupInv'
<1> DEFINE x == [NoSocket EXCEPT !.state = "reading", !.user = u, !.groups = GroupsOf(u)]
<1>0. /\ GroupTypeInv /\ RoomInv /\ GroupTypeOK /\ socket[s].state = "closed"
      /\ UNCHANGED <<role, groupList, posts, page, grp, room>> /\ socket' = [socket EXCEPT ![s] = x]
  BY DEF GroupInv, GroupTypeInv, Connect
<1>1. x \in SocketRow /\ x.state = "reading" /\ x.user = u /\ x.groups = GroupsOf(u)
  BY DEF NoSocket, SocketRow, GroupsOf
<1> HIDE DEF x
<1>2. /\ socket' \in [Sockets -> SocketRow] /\ socket'[s] = x
      /\ \A t \in Sockets \ {s} : socket'[t] = socket[t]
  BY <1>0, <1>1 DEF GroupTypeOK
<1>3. \A g \in Groups : s \notin room[g] /\ room[g] \subseteq Sockets
  BY <1>0 DEF RoomInv, GroupTypeOK
<1>4. RoomInv'
  <2>1. \A g \in Groups : \A t \in room'[g] : role'[g][socket'[t].user] # "none" \/ g \in socket'[t].lost
    BY <1>0, <1>2, <1>3 DEF RoomInv, RoomsFollowMembership, Told, Member
  <2>2. \A t \in Sockets : socket'[t].state = "reading" =>
          \A g \in socket'[t].groups : role'[g][socket'[t].user] # "none" \/ g \in socket'[t].lost
    BY <1>0, <1>1, <1>2 DEF RoomInv, Member, GroupsOf
  <2>3. \A t \in Sockets : socket'[t].state = "closed" => \A g \in Groups : t \notin room'[g]
    BY <1>0, <1>1, <1>2 DEF RoomInv
  <2> QED
    BY <2>1, <2>2, <2>3 DEF RoomInv, RoomsFollowMembership, Told, Member
<1>5. \A t \in Sockets : socket'[t].state # "closed" => socket'[t].user \in Users
  BY <1>0, <1>1, <1>2 DEF GroupTypeInv
<1>6. room' \in [Groups -> SUBSET Sockets]
  BY <1>0 DEF GroupTypeOK
<1> QED
  BY <1>0, <1>2, <1>4, <1>5, <1>6, SocketsKeep

LEMMA SubscribeKeeps ==
  ASSUME GroupInv, NEW s \in Sockets, SubscribeToGroups(s)
  PROVE  GroupInv'
<1> DEFINE x == [socket[s] EXCEPT !.state = "open", !.groups = {}]
<1>0. /\ GroupTypeInv /\ RoomInv /\ GroupTypeOK /\ socket[s].state = "reading"
      /\ UNCHANGED <<role, groupList, posts, page, grp>>
      /\ socket[s] \in SocketRow /\ socket[s].user \in Users
  BY DEF GroupInv, GroupTypeInv, GroupTypeOK, SubscribeToGroups
<1>1. socket' = [socket EXCEPT ![s] = x]
  BY <1>0 DEF SubscribeToGroups, GroupTypeOK
<1>2. /\ x \in SocketRow /\ x.state = "open" /\ x.user = socket[s].user /\ x.groups = {}
      /\ x.lost = socket[s].lost
  BY <1>0 DEF SocketRow
<1> HIDE DEF x
<1>3. /\ socket' \in [Sockets -> SocketRow] /\ socket'[s] = x
      /\ \A t \in Sockets \ {s} : socket'[t] = socket[t]
  BY <1>0, <1>1, <1>2 DEF GroupTypeOK
<1>4. /\ room' \in [Groups -> SUBSET Sockets]
      /\ \A g \in Groups : \A t \in room'[g] : t \in room[g] \/ (t = s /\ g \in socket[s].groups)
  BY <1>0 DEF SubscribeToGroups, GroupTypeOK
<1>5. \A t \in Sockets : socket'[t].user = socket[t].user /\ socket'[t].lost = socket[t].lost
  BY <1>2, <1>3
<1>6. RoomInv'
  <2>1. ASSUME NEW g \in Groups, NEW t \in room'[g]
        PROVE  role'[g][socket'[t].user] # "none" \/ g \in socket'[t].lost
    <3>1. t \in Sockets
      BY <1>4, <2>1
    <3>2. CASE t \in room[g]
      BY <1>0, <1>5, <3>1, <3>2 DEF RoomInv, RoomsFollowMembership, Told, Member
    <3>3. CASE t = s /\ g \in socket[s].groups
      BY <1>0, <1>5, <3>1, <3>3 DEF RoomInv, Member
    <3> QED
      BY <1>4, <2>1, <3>2, <3>3
  <2>2. ASSUME NEW t \in Sockets, socket'[t].state = "reading", NEW g \in socket'[t].groups
        PROVE  role'[g][socket'[t].user] # "none" \/ g \in socket'[t].lost
    BY <1>0, <1>2, <1>3, <2>2 DEF RoomInv, Member
  <2>3. ASSUME NEW t \in Sockets, socket'[t].state = "closed", NEW g \in Groups PROVE t \notin room'[g]
    BY <1>0, <1>2, <1>3, <1>4, <2>3 DEF RoomInv
  <2> QED
    BY <2>1, <2>2, <2>3 DEF RoomInv, RoomsFollowMembership, Told, Member
<1>7. \A t \in Sockets : socket'[t].state # "closed" => socket'[t].user \in Users
  BY <1>0, <1>2, <1>3 DEF GroupTypeInv
<1> QED
  BY <1>0, <1>3, <1>4, <1>6, <1>7, SocketsKeep

LEMMA DisconnectKeeps ==
  ASSUME GroupInv, NEW s \in Sockets, Disconnect(s)
  PROVE  GroupInv'
<1>0. /\ GroupTypeInv /\ RoomInv /\ GroupTypeOK
      /\ UNCHANGED <<role, groupList, posts, page, grp>> /\ socket' = [socket EXCEPT ![s] = NoSocket]
  BY DEF GroupInv, GroupTypeInv, Disconnect
<1>1. NoSocket \in SocketRow /\ NoSocket.state = "closed"
  BY DEF NoSocket, SocketRow
<1>2. /\ socket' \in [Sockets -> SocketRow] /\ socket'[s] = NoSocket
      /\ \A t \in Sockets \ {s} : socket'[t] = socket[t]
  BY <1>0, <1>1 DEF GroupTypeOK
<1>3. /\ room' \in [Groups -> SUBSET Sockets]
      /\ \A g \in Groups : room'[g] = room[g] \ {s}
  BY <1>0 DEF Disconnect, GroupTypeOK
<1>4. RoomInv'
  <2>1. \A g \in Groups : \A t \in room'[g] : role'[g][socket'[t].user] # "none" \/ g \in socket'[t].lost
    BY <1>0, <1>2, <1>3 DEF RoomInv, RoomsFollowMembership, Told, Member, GroupTypeOK
  <2>2. \A t \in Sockets : socket'[t].state = "reading" =>
          \A g \in socket'[t].groups : role'[g][socket'[t].user] # "none" \/ g \in socket'[t].lost
    BY <1>0, <1>1, <1>2 DEF RoomInv, Member
  <2>3. \A t \in Sockets : socket'[t].state = "closed" => \A g \in Groups : t \notin room'[g]
    BY <1>0, <1>2, <1>3 DEF RoomInv
  <2> QED
    BY <2>1, <2>2, <2>3 DEF RoomInv, RoomsFollowMembership, Told, Member
<1>5. \A t \in Sockets : socket'[t].state # "closed" => socket'[t].user \in Users
  BY <1>0, <1>1, <1>2 DEF GroupTypeInv
<1> QED
  BY <1>0, <1>2, <1>3, <1>4, <1>5, SocketsKeep

LEMMA NextGroupInv ==
  ASSUME ActorsAssumption, GroupAssumption, GroupInv, [GroupNext]_groupVars
  PROVE  GroupInv'
<1>0. GroupTypeInv
  BY DEF GroupInv
<1>1. ASSUME NEW r \in Requests,
             \/ \E g \in Groups, u \in Users, us \in SUBSET Users \ {{}} :
                  CreateGroup(r, g, u, us) \/ AddFindAdmin(r, g, u, us)
             \/ \E g \in Groups, u \in Users : PostFindMember(r, g, u) \/ PageRead(r, g, u)
      PROVE  GroupInv'
  <2>1. Plain(r)
    BY <1>0, <1>1, StartGroupPlain
  <2> QED
    BY <2>1, PlainKeeps
<1>2. ASSUME NEW r \in Requests,
             \/ CreateAdmin(r) \/ CreateMembers(r) \/ AddCreate(r) \/ ClearAdmin(r)
             \/ RemoveClear(r) \/ PostCreate(r) \/ PageFill(r)
      PROVE  GroupInv'
  <2>1. Plain(r)
    BY <1>0, <1>2, JoinPlain, ClearPlain, PostPlain
  <2> QED
    BY <2>1, PlainKeeps
<1>3. ASSUME NEW r \in Requests,
             \/ \E g \in Groups, u \in Users, us \in SUBSET Users \ {{}} : RemoveFindAdmin(r, g, u, us)
             \/ \E u \in Readers : GroupsRead(r, u)
             \/ GroupsFill(r) \/ RemoveDelete(r)
      PROVE  GroupInv'
  BY <1>3, RemoveFindAdminKeeps, GroupsReadKeeps, GroupsFillKeeps, RemoveDeleteKeeps
     DEF ActorsAssumption
<1>4. CASE UNCHANGED groupVars
  <2>1. GroupTypeInv'
    BY <1>0, <1>4 DEF groupVars, GroupTypeInv, GroupTypeOK, GroupShape
  <2>2. ListInv'
    BY <1>4 DEF groupVars, GroupInv, ListInv, GroupAt, Removing, Member
  <2>3. RoomInv'
    BY <1>4 DEF groupVars, GroupInv, RoomInv, RoomsFollowMembership, Told, Member
  <2> QED
    BY <2>1, <2>2, <2>3 DEF GroupInv
<1> QED
  BY <1>1, <1>2, <1>3, <1>4, ExpireKeeps, ConnectKeeps, SubscribeKeeps, DisconnectKeeps DEF GroupNext

LEMMA InitGroupInv == ASSUME GroupAssumption, GroupInit PROVE GroupInv
<1>1. NoSocket \in SocketRow /\ NoSocket.state = "closed"
  BY DEF NoSocket, SocketRow
<1>2. \A s \in Sockets : socket[s].state = "closed"
  BY <1>1 DEF GroupInit
<1>3. \A r \in Requests : grp[r].step = "idle"
  BY GroupIdleTyped DEF GroupInit
<1>4. GroupTypeOK
  BY <1>1, GroupIdleTyped DEF GroupInit, GroupTypeOK
<1>5. GroupTypeInv
  BY <1>2, <1>4, GroupIdleTyped DEF GroupInit, GroupTypeInv
<1>6. ListInv
  BY <1>3 DEF GroupInit, ListInv, GroupAt
<1>7. RoomInv
  BY <1>2 DEF GroupInit, RoomInv, RoomsFollowMembership, Told
<1> QED
  BY <1>5, <1>6, <1>7 DEF GroupInv

LEMMA GroupsInvariant == GroupSpec => []GroupInv
<1>1. GroupInit => GroupInv
  BY InitGroupInv, GroupAssumption
<1>2. GroupInv /\ [GroupNext]_groupVars => GroupInv'
  BY NextGroupInv, ActorsAssumption, GroupAssumption
<1> QED
  BY <1>1, <1>2, PTL DEF GroupSpec

(* The cached list of a removed user does not show the group once the        *)
(* removal has cleared it, unless the list was being built meanwhile.        *)
THEOREM RemovedUsersLoseTheGroup == GroupSpec => []RemovedLeavesTheList
<1>1. GroupInv => RemovedLeavesTheList
  BY DEF GroupInv, ListInv, RemovedLeavesTheList
<1> QED
  BY <1>1, GroupsInvariant, PTL

(* Whoever joins, is removed, connects and disconnects: the sockets told of  *)
(* the messages of a group are of members, or of users removed since they    *)
(* connected.                                                                *)
THEOREM RoomsOfMembers == GroupSpec => []RoomsFollowMembership
<1>1. GroupInv => RoomsFollowMembership
  BY DEF GroupInv, RoomInv
<1> QED
  BY <1>1, GroupsInvariant, PTL

-----------------------------------------------------------------------------
(* The tables, caches, sockets, inboxes and requests of all components have  *)
(* their types in the specification of the Messaging run.                    *)
THEOREM TypesCorrect == MCSpec => []TypesOK
<1>1. DMSpec => []DMTypeOK
  <2>1. DMInit => DMTypeInv /\ ThreadsInv
    BY InitDMInv
  <2>2. DMTypeInv /\ ThreadsInv /\ [DMNext]_dmVars => (DMTypeInv /\ ThreadsInv)'
    BY NextDMInv, ActorsAssumption, MessageAssumption
  <2>3. DMTypeInv => DMTypeOK
    BY DEF DMTypeInv
  <2> QED
    BY <2>1, <2>2, <2>3, PTL DEF DMSpec
<1>2. GroupSpec => []GroupTypeOK
  <2>1. GroupInv => GroupTypeOK
    BY DEF GroupInv, GroupTypeInv
  <2> QED
    BY <2>1, GroupsInvariant, PTL
<1>3. PushSpec => []PushTypeOK
  <2>1. PushInit => PushTypeInv /\ PushInv
    BY InitPushInv
  <2>2. PushTypeInv /\ PushInv /\ [PushNext]_pushVars => (PushTypeInv /\ PushInv)'
    BY NextPushInv, EndpointAssumption
  <2>3. PushTypeInv => PushTypeOK
    BY DEF PushTypeInv
  <2> QED
    BY <2>1, <2>2, <2>3, PTL DEF PushSpec
<1>4. BusSpec => []BusTypeOK
  <2>1. BusInit => BusInv
    BY DEF BusInit, BusInv, BusTypeOK, Extra
  <2>2. BusInv /\ [BusNext]_busVars => BusInv'
    BY NextBusInv
  <2>3. BusInv => BusTypeOK
    BY DEF BusInv
  <2> QED
    BY <2>1, <2>2, <2>3, PTL DEF BusSpec
<1>5. DMTypeOK /\ GroupTypeOK /\ PushTypeOK /\ BusTypeOK => TypesOK
  BY DEF TypesOK
<1> QED
  BY <1>1, <1>2, <1>3, <1>4, <1>5, Composed, PTL
=============================================================================
