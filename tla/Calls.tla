------------------------------- MODULE Calls -------------------------------
(***************************************************************************)
(* Voice and video calls: initiateCall, joinCall and leaveCall of           *)
(* src/messaging/messaging.service.ts.                                      *)
(*                                                                          *)
(* A CallSession ends when the last participant leaves; nothing else ends   *)
(* it.  Leaving is three or four queries without a transaction (find the    *)
(* participant, set its leaveTime, count who is left, set the endTime), and *)
(* joining two, so joins and leaves of several users interleave.            *)
(***************************************************************************)
EXTENDS Naturals

CONSTANTS Users, Sessions, Requests, None

ASSUME CallAssumption == None \notin Users \cup Sessions

VARIABLES
    session,      \* session[c]: whether CallSession c exists and has an endTime
    participant,  \* participant[c][u]: the CallParticipant row of u, by its leaveTime
    req,          \* req[r]: step and locals of request r
    broken        \* history: calls of which a request died half-way

vars == <<session, participant, req, broken>>

Steps == {"idle", "initiate.participant", "join.create", "join.update",
          "leave.update", "leave.count", "leave.end"}

Request == [step : Steps, call : Sessions \cup {None}, user : Users \cup {None}]

IdleRequest == [step |-> "idle", call |-> None, user |-> None]

Init ==
    /\ session = [c \in Sessions |-> "absent"]
    /\ participant = [c \in Sessions |-> [u \in Users |-> "absent"]]
    /\ req = [r \in Requests |-> IdleRequest]
    /\ broken = {}

-----------------------------------------------------------------------------
At(r, step) == req[r].step = step

Start(r, step, c, u) ==
    /\ At(r, "idle")
    /\ req' = [req EXCEPT ![r] = [step |-> step, call |-> c, user |-> u]]

Goto(r, step) == req' = [req EXCEPT ![r].step = step]

Finish(r) == req' = [req EXCEPT ![r] = IdleRequest]

\* where: { callId, leaveTime: null }
Active(c) == {u \in Users : participant[c][u] = "in"}

SetParticipant(r, state) ==
    participant' = [participant EXCEPT ![req[r].call][req[r].user] = state]

-----------------------------------------------------------------------------
\* The session is created first, its initiator's participant row after it.
InitiateCall(r, u, c) ==
    /\ session[c] = "absent"
    /\ session' = [session EXCEPT ![c] = "open"]
    /\ Start(r, "initiate.participant", c, u)
    /\ UNCHANGED <<participant, broken>>

\* create of a participant row: the unique index on (callId, userId) rejects
\* the second row of a user, which ends the request.
CreateParticipant(r) ==
    /\ At(r, "initiate.participant") \/ At(r, "join.create")
    /\ \/ participant[req[r].call][req[r].user] = "absent" /\ SetParticipant(r, "in")
       \/ participant[req[r].call][req[r].user] # "absent" /\ UNCHANGED participant
    /\ Finish(r)
    /\ UNCHANGED <<session, broken>>

\* The call is read with its participants; its endTime is not looked at.
JoinFindCall(r, u, c) ==
    /\ session[c] # "absent"
    /\ \/ participant[c][u] = "absent" /\ Start(r, "join.create", c, u)
       \/ participant[c][u] = "left" /\ Start(r, "join.update", c, u)
    /\ UNCHANGED <<session, participant, broken>>

JoinUpdate(r) ==
    /\ At(r, "join.update")
    /\ SetParticipant(r, "in")
    /\ Finish(r)
    /\ UNCHANGED <<session, broken>>

LeaveFindParticipant(r, u, c) ==
    /\ participant[c][u] = "in"
    /\ Start(r, "leave.update", c, u)
    /\ UNCHANGED <<session, participant, broken>>

\* Mutant: who leaves is deleted instead of given a leaveTime.
LeaveUpdateDeletes(r) ==
    /\ At(r, "leave.update")
    /\ SetParticipant(r, "absent")
    /\ Goto(r, "leave.count")
    /\ UNCHANGED <<session, broken>>

LeaveUpdate(r) ==
    /\ At(r, "leave.update")
    /\ SetParticipant(r, "left")
    /\ Goto(r, "leave.count")
    /\ UNCHANGED <<session, broken>>

\* Mutant: the count has no condition on leaveTime.
LeaveCountAll(r) ==
    /\ At(r, "leave.count")
    /\ IF \A u \in Users : participant[req[r].call][u] = "absent"
       THEN Goto(r, "leave.end") ELSE Finish(r)
    /\ UNCHANGED <<session, participant, broken>>

LeaveCount(r) ==
    /\ At(r, "leave.count")
    /\ IF Active(req[r].call) = {} THEN Goto(r, "leave.end") ELSE Finish(r)
    /\ UNCHANGED <<session, participant, broken>>

LeaveEnd(r) ==
    /\ At(r, "leave.end")
    /\ session' = [session EXCEPT ![req[r].call] = "ended"]
    /\ Finish(r)
    /\ UNCHANGED <<participant, broken>>

\* A query throws, or the process dies: what was written stays.
RequestDies(r) ==
    /\ ~At(r, "idle")
    /\ broken' = broken \cup {req[r].call}
    /\ Finish(r)
    /\ UNCHANGED <<session, participant>>

-----------------------------------------------------------------------------
Continue(r) ==
    \/ CreateParticipant(r)
    \/ JoinUpdate(r)
    \/ LeaveUpdate(r)
    \/ LeaveCount(r)
    \/ LeaveEnd(r)
    \/ RequestDies(r)

Next ==
    \E r \in Requests :
        \/ \E u \in Users, c \in Sessions :
             \/ InitiateCall(r, u, c)
             \/ JoinFindCall(r, u, c)
             \/ LeaveFindParticipant(r, u, c)
        \/ Continue(r)

Spec == Init /\ [][Next]_vars

\* Every awaited query eventually answers or throws.
FairSpec == Spec /\ \A r \in Requests : WF_vars(Continue(r))

-----------------------------------------------------------------------------
Typed ==
    /\ session \in [Sessions -> {"absent", "open", "ended"}]
    /\ participant \in [Sessions -> [Users -> {"absent", "in", "left"}]]
    /\ req \in [Requests -> Request]
    /\ broken \subseteq Sessions

\* The steps of a request that has found a participant row.
Found == {"join.update", "leave.update", "leave.count", "leave.end"}

(* The types of the rows and of the requests; and the row that joinCall or  *)
(* leaveCall has found, and updates by its id, is still there.               *)
TypeOK ==
    /\ Typed
    /\ \A r \in Requests :
          req[r].step \in Found => participant[req[r].call][req[r].user] # "absent"

\* A request that has left c, or is about to put its initiator in, is under way.
Pending(c) ==
    \E r \in Requests :
        /\ req[r].call = c
        /\ req[r].step \in {"initiate.participant", "leave.count", "leave.end"}

(* A deserted call has ended: in whatever order the users left, one of them  *)
(* counted nobody.  It needs that no request of the call died half-way.      *)
DesertedCallHasEnded ==
    \A c \in Sessions \ broken :
        (session[c] # "absent" /\ Active(c) = {} /\ ~Pending(c)) => session[c] = "ended"

(* A call everybody has left ends, or somebody joins it again, or one of its *)
(* requests dies.                                                            *)
DesertedCallEnds ==
    \A c \in Sessions :
        (session[c] = "open" /\ Active(c) = {})
        ~> (session[c] = "ended" \/ Active(c) # {} \/ c \in broken)
=============================================================================
