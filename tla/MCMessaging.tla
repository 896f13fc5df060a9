----------------------------- MODULE MCMessaging -----------------------------
(***************************************************************************)
(* The messaging components for TLC.  They share no state, so one run       *)
(* explores each of them by itself: `component` is chosen initially.        *)
(***************************************************************************)
EXTENDS DirectMessages, GroupRooms, PushSubscriptions, EventBus, TLC

VARIABLE component

allVars == <<dmVars, groupVars, pushVars, busVars, component>>

MCInit ==
    /\ DMInit /\ GroupInit /\ PushInit /\ BusInit
    /\ component \in {"direct", "groups", "push", "bus"}

MCNext ==
    /\ UNCHANGED component
    /\ \/ component = "direct" /\ DMNext /\ UNCHANGED <<groupVars, pushVars, busVars>>
       \/ component = "groups" /\ GroupNext /\ UNCHANGED <<dmVars, pushVars, busVars>>
       \/ component = "push" /\ PushNext /\ UNCHANGED <<dmVars, groupVars, busVars>>
       \/ component = "bus" /\ BusNext /\ UNCHANGED <<dmVars, groupVars, pushVars>>

MCSpec == MCInit /\ [][MCNext]_allVars

Symmetry ==
    Permutations(Requests) \cup Permutations(Messages) \cup Permutations(Users \ Readers)

(* The types of the messaging tables, caches, sockets, subscriptions, inboxes and requests. *)
TypesOK == DMTypeOK /\ GroupTypeOK /\ PushTypeOK /\ BusTypeOK
=============================================================================
