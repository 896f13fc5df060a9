-------------------------- MODULE PushSubscriptions --------------------------
(***************************************************************************)
(* Web-push subscriptions: subscribe, unsubscribe and the notifications of  *)
(* sendMessage in src/messaging/messaging.controller.ts.                    *)
(*                                                                          *)
(* A browser has one endpoint, whoever is logged in there.  PushSubscription*)
(* has no unique index: subscribe looks the endpoint up, whose-ever it is,  *)
(* and decides by that row whether to update, to save, or to delete the     *)
(* other user's rows first.                                                 *)
(***************************************************************************)
EXTENDS Actors

CONSTANT Endpoints  \* browsers

ASSUME EndpointAssumption == None \notin Users \cup Endpoints

VARIABLES
    subscription,  \* the pairs <<u, e>> with a row (or several)
    push,          \* push[r]: step and locals of request r
    contested      \* history: endpoints two subscribe requests handled at once

pushVars == <<subscription, push, contested>>

SubscribeSteps == {"update", "transfer.delete", "save"}

PushSteps == SubscribeSteps \cup {"idle", "unsubscribe.delete", "notify", "notify.delete"}

PushRequest == [step : PushSteps, user : Users \cup {None}, owner : Users \cup {None},
                endpoint : Endpoints \cup {None}, todo : SUBSET Endpoints]

PushIdle == [step |-> "idle", user |-> None, owner |-> None, endpoint |-> None, todo |-> {}]

PushInit ==
    /\ subscription = {}
    /\ push = [r \in Requests |-> PushIdle]
    /\ contested = {}

-----------------------------------------------------------------------------
PushAt(r, step) == push[r].step = step

PushFinish(r) == push' = [push EXCEPT ![r] = PushIdle]

Row(r, u) == <<u, push[r].endpoint>>

Owners(e) == {u \in Users : <<u, e>> \in subscription}

\* findSubscriptionByEndpoint returns some row of the endpoint, or none.
Subscribe(r, u, e) ==
    LET Begin(step, v) ==
          push' = [push EXCEPT ![r] = [PushIdle EXCEPT !.step = step, !.user = u,
                                                       !.owner = v, !.endpoint = e]]
    IN /\ PushAt(r, "idle")
       /\ \/ Owners(e) = {} /\ Begin("save", None)
          \/ \E v \in Owners(e) : v = u /\ Begin("update", u)
          \/ \E v \in Owners(e) : v # u /\ Begin("transfer.delete", v)
       /\ contested' = IF \E q \in Requests : push[q].step \in SubscribeSteps /\ push[q].endpoint = e
                       THEN contested \cup {e} ELSE contested
       /\ UNCHANGED subscription

\* Mutant: the rows of the previous user are left.
TransferKeep(r) ==
    /\ PushAt(r, "transfer.delete")
    /\ push' = [push EXCEPT ![r].step = "save"]
    /\ UNCHANGED <<subscription, contested>>

TransferDelete(r) ==
    /\ PushAt(r, "transfer.delete")
    /\ subscription' = subscription \ {Row(r, push[r].owner)}
    /\ push' = [push EXCEPT ![r].step = "save"]
    /\ UNCHANGED contested

SaveSubscription(r) ==
    /\ PushAt(r, "save")
    /\ subscription' = subscription \cup {Row(r, push[r].user)}
    /\ PushFinish(r)
    /\ UNCHANGED contested

\* New keys for the caller's row, if it is still there.
UpdateSubscription(r) ==
    /\ PushAt(r, "update")
    /\ PushFinish(r)
    /\ UNCHANGED <<subscription, contested>>

-----------------------------------------------------------------------------
\* Whoever unsubscribes the endpoint, the rows of the user found go.
Unsubscribe(r, e) ==
    /\ PushAt(r, "idle")
    /\ \E v \in Owners(e) :
         push' = [push EXCEPT ![r] = [PushIdle EXCEPT !.step = "unsubscribe.delete",
                                                      !.owner = v, !.endpoint = e]]
    /\ UNCHANGED <<subscription, contested>>

\* deleteMany of the owner's rows: the end of an unsubscription.
UnsubscribeDelete(r) ==
    /\ PushAt(r, "unsubscribe.delete")
    /\ subscription' = subscription \ {Row(r, push[r].owner)}
    /\ PushFinish(r)
    /\ UNCHANGED contested

-----------------------------------------------------------------------------
\* sendMessage notifies the recipient's endpoints before the message is sent.
NotifyFind(r, u) ==
    LET endpoints == {e \in Endpoints : <<u, e>> \in subscription}
    IN /\ PushAt(r, "idle")
       /\ endpoints # {}
       /\ push' = [push EXCEPT ![r] = [PushIdle EXCEPT !.step = "notify", !.owner = u,
                                                       !.todo = endpoints]]
       /\ UNCHANGED <<subscription, contested>>

\* One endpoint after another: delivered or failed, or, by 404 or 410, stale.
NotifyOne(r) ==
    /\ PushAt(r, "notify")
    /\ \E e \in push[r].todo :
         \/ push' = [push EXCEPT ![r] = IF push[r].todo = {e} THEN PushIdle
                                        ELSE [push[r] EXCEPT !.todo = @ \ {e}]]
         \/ push' = [push EXCEPT ![r] = [push[r] EXCEPT !.step = "notify.delete", !.endpoint = e,
                                                        !.todo = @ \ {e}]]
    /\ UNCHANGED <<subscription, contested>>

\* The stale row goes, and with it one saved since.
NotifyDelete(r) ==
    /\ PushAt(r, "notify.delete")
    /\ subscription' = subscription \ {Row(r, push[r].owner)}
    /\ push' = [push EXCEPT ![r] = IF @.todo = {} THEN PushIdle
                                   ELSE [@ EXCEPT !.step = "notify", !.endpoint = None]]
    /\ UNCHANGED contested

PushNext ==
    \E r \in Requests :
        \/ \E u \in Users, e \in Endpoints : Subscribe(r, u, e)
        \/ \E e \in Endpoints : Unsubscribe(r, e)
        \/ \E u \in Users : NotifyFind(r, u)
        \/ TransferDelete(r)
        \/ SaveSubscription(r)
        \/ UpdateSubscription(r)
        \/ UnsubscribeDelete(r)
        \/ NotifyOne(r)
        \/ NotifyDelete(r)

-----------------------------------------------------------------------------
(* The types of the rows and of the requests. *)
PushTypeOK ==
    /\ subscription \subseteq Users \X Endpoints
    /\ push \in [Requests -> PushRequest]
    /\ contested \subseteq Endpoints

(* The notifications of one user do not reach a browser another user has     *)
(* taken over: an endpoint has rows of one user only, whatever is unsub-     *)
(* scribed or found stale meanwhile, unless two subscriptions overlapped.    *)
EndpointHasOneUser ==
    \A e \in Endpoints \ contested : \A u, v \in Owners(e) : u = v
=============================================================================
