----------------------------- MODULE CallsProofs -----------------------------
(***************************************************************************)
(* Type correctness of Calls, and that a deserted call has ended.           *)
(***************************************************************************)
EXTENDS Calls, TLAPS

\* A request past its first query knows its call and its user.
RequestShape ==
    \A r \in Requests : ~At(r, "idle") => req[r].call \in Sessions /\ req[r].user \in Users

TypeInv == Typed /\ RequestShape

LEMMA InitTypes == Init => TypeInv
BY CallAssumption DEF Init, TypeInv, Typed, RequestShape, IdleRequest, Request, Steps, At

\* What a step of one request does to the other records of req.
LEMMA StartTypes ==
    ASSUME TypeInv, NEW r \in Requests, NEW u \in Users, NEW c \in Sessions,
           NEW step \in Steps, Start(r, step, c, u)
    PROVE  req' \in [Requests -> Request] /\ RequestShape'
BY DEF TypeInv, Typed, RequestShape, Start, Request, At

LEMMA GotoTypes ==
    ASSUME TypeInv, NEW r \in Requests, NEW step \in Steps, ~At(r, "idle"), Goto(r, step)
    PROVE  req' \in [Requests -> Request] /\ RequestShape'
BY DEF TypeInv, Typed, RequestShape, Goto, Request, At

LEMMA FinishTypes ==
    ASSUME TypeInv, NEW r \in Requests, Finish(r)
    PROVE  req' \in [Requests -> Request] /\ RequestShape'
BY CallAssumption DEF TypeInv, Typed, RequestShape, Finish, IdleRequest, Request, Steps, At

LEMMA ParticipantTypes ==
    ASSUME TypeInv, NEW r \in Requests, ~At(r, "idle"),
           NEW state \in {"absent", "in", "left"}, SetParticipant(r, state)
    PROVE  participant' \in [Sessions -> [Users -> {"absent", "in", "left"}]]
BY DEF TypeInv, Typed, RequestShape, SetParticipant

LEMMA NextTypes == TypeInv /\ [Next]_vars => TypeInv'
<1> SUFFICES ASSUME TypeInv, [Next]_vars PROVE TypeInv'
  OBVIOUS
<1> USE DEF TypeInv
<1>1. ASSUME NEW r \in Requests, NEW u \in Users, NEW c \in Sessions, InitiateCall(r, u, c)
      PROVE  TypeInv'
  BY <1>1, StartTypes DEF InitiateCall, Typed, Steps
<1>2. ASSUME NEW r \in Requests, CreateParticipant(r) PROVE TypeInv'
  BY <1>2, FinishTypes, ParticipantTypes DEF CreateParticipant, Typed, At
<1>3. ASSUME NEW r \in Requests, NEW u \in Users, NEW c \in Sessions, JoinFindCall(r, u, c)
      PROVE  TypeInv'
  BY <1>3, StartTypes DEF JoinFindCall, Typed, Steps
<1>4. ASSUME NEW r \in Requests, JoinUpdate(r) PROVE TypeInv'
  BY <1>4, FinishTypes, ParticipantTypes DEF JoinUpdate, Typed, At
<1>5. ASSUME NEW r \in Requests, NEW u \in Users, NEW c \in Sessions,
             LeaveFindParticipant(r, u, c)
      PROVE  TypeInv'
  BY <1>5, StartTypes DEF LeaveFindParticipant, Typed, Steps
<1>6. ASSUME NEW r \in Requests, LeaveUpdate(r) PROVE TypeInv'
  BY <1>6, GotoTypes, ParticipantTypes DEF LeaveUpdate, Typed, At, Steps
<1>7. ASSUME NEW r \in Requests, LeaveCount(r) PROVE TypeInv'
  BY <1>7, GotoTypes, FinishTypes DEF LeaveCount, Typed, At, Steps
<1>8. ASSUME NEW r \in Requests, LeaveEnd(r) PROVE TypeInv'
  BY <1>8, FinishTypes DEF LeaveEnd, Typed
<1>9. ASSUME NEW r \in Requests, RequestDies(r) PROVE TypeInv'
  BY <1>9, FinishTypes DEF RequestDies, Typed, RequestShape
<1>10. CASE UNCHANGED vars
  BY <1>10 DEF vars, Typed, RequestShape, At
<1> QED
  BY <1>1, <1>2, <1>3, <1>4, <1>5, <1>6, <1>7, <1>8, <1>9, <1>10 DEF Next, Continue

\* The row a request has found is there.
FoundThere ==
    \A r \in Requests :
        req[r].step \in Found => participant[req[r].call][req[r].user] # "absent"

LEMMA NextFound == TypeInv /\ FoundThere /\ [Next]_vars => FoundThere'
<1> SUFFICES ASSUME TypeInv, FoundThere, [Next]_vars PROVE FoundThere'
  OBVIOUS
<1>0. /\ req \in [Requests -> Request]
      /\ participant \in [Sessions -> [Users -> {"absent", "in", "left"}]]
  BY DEF TypeInv, Typed
\* No row is ever taken away.
<1>1. ASSUME NEW c \in Sessions, NEW u \in Users, participant[c][u] # "absent"
      PROVE  participant'[c][u] # "absent"
  <2>1. ASSUME NEW r \in Requests, NEW state \in {"in", "left"}, SetParticipant(r, state)
        PROVE  participant'[c][u] # "absent"
    BY <1>0, <1>1, <2>1 DEF SetParticipant
  <2> QED
    BY <1>1, <2>1 DEF Next, Continue, InitiateCall, CreateParticipant, JoinFindCall, JoinUpdate,
                      LeaveFindParticipant, LeaveUpdate, LeaveCount, LeaveEnd, RequestDies, vars
\* A step brings only its own request past its first query.
<1>2. ASSUME NEW s \in Requests, req'[s].step \in Found, req'[s] # req[s]
      PROVE  participant'[req'[s].call][req'[s].user] # "absent"
  <2>1. CASE \E u \in Users, c \in Sessions : InitiateCall(s, u, c)
    BY <1>0, <1>2, <2>1 DEF InitiateCall, Start, Found
  <2>2. CASE \E u \in Users, c \in Sessions : JoinFindCall(s, u, c)
    BY <1>0, <1>2, <2>2 DEF JoinFindCall, Start, Found
  <2>3. CASE \E u \in Users, c \in Sessions : LeaveFindParticipant(s, u, c)
    BY <1>0, <1>2, <2>3 DEF LeaveFindParticipant, Start, Found
  <2>4. CASE LeaveUpdate(s)
    <3>1. req[s].step \in Found /\ req'[s].call = req[s].call /\ req'[s].user = req[s].user
      BY <1>0, <2>4 DEF LeaveUpdate, Goto, At, Found, Request
    <3>2. req[s].call \in Sessions /\ req[s].user \in Users
      BY <2>4 DEF LeaveUpdate, At, TypeInv, RequestShape
    <3> QED
      BY <1>1, <3>1, <3>2 DEF FoundThere
  <2>5. CASE LeaveCount(s)
    <3>1. Goto(s, "leave.end") /\ participant' = participant
      BY <1>0, <1>2, <2>5 DEF LeaveCount, Finish, IdleRequest, Found
    <3> QED
      BY <1>0, <2>5, <3>1 DEF LeaveCount, Goto, At, Found, Request, FoundThere
  <2>6. CASE Finish(s)
    BY <1>0, <1>2, <2>6 DEF Finish, IdleRequest, Found
  <2>7. ASSUME NEW r \in Requests \ {s}, Continue(r) PROVE FALSE
    BY <1>0, <1>2, <2>7 DEF Continue, CreateParticipant, JoinUpdate, LeaveUpdate, LeaveCount,
                            LeaveEnd, RequestDies, Finish, Goto
  <2>8. ASSUME NEW r \in Requests \ {s}, NEW u \in Users, NEW c \in Sessions,
               InitiateCall(r, u, c) \/ JoinFindCall(r, u, c) \/ LeaveFindParticipant(r, u, c)
        PROVE  FALSE
    BY <1>0, <1>2, <2>8 DEF InitiateCall, JoinFindCall, LeaveFindParticipant, Start
  <2>9. Continue(s) => LeaveUpdate(s) \/ LeaveCount(s) \/ Finish(s)
    BY DEF Continue, CreateParticipant, JoinUpdate, LeaveEnd, RequestDies
  <2>10. ~UNCHANGED vars
    BY <1>2 DEF vars
  <2> QED
    BY <2>1, <2>2, <2>3, <2>4, <2>5, <2>6, <2>7, <2>8, <2>9, <2>10 DEF Next
<1>3. ASSUME NEW s \in Requests, req'[s].step \in Found
      PROVE  participant'[req'[s].call][req'[s].user] # "absent"
  <2>1. CASE req'[s] # req[s]
    BY <1>2, <1>3, <2>1
  <2>2. CASE req'[s] = req[s]
    <3>1. req[s].call \in Sessions /\ req[s].user \in Users
      BY <1>3, <2>2 DEF TypeInv, RequestShape, At, Found
    <3> QED
      BY <1>1, <1>3, <2>2, <3>1 DEF FoundThere
  <2> QED
    BY <2>1, <2>2
<1> QED
  BY <1>3 DEF FoundThere

(* Type correctness of the rows and of the requests of Calls, and that the  *)
(* participant row a request has found is still there when it updates it.    *)
THEOREM TypeCorrect == Spec => []TypeOK
<1>1. Init => TypeInv /\ FoundThere
  BY InitTypes DEF Init, IdleRequest, FoundThere, Found
<1>2. TypeInv /\ FoundThere /\ [Next]_vars => (TypeInv /\ FoundThere)'
  BY NextTypes, NextFound
<1>3. TypeInv /\ FoundThere => TypeOK
  BY DEF TypeInv, FoundThere, TypeOK
<1> QED
  BY <1>1, <1>2, <1>3, PTL DEF Spec

-----------------------------------------------------------------------------
(* A call nobody is in has ended, or a request is about to count who is      *)
(* left, or its initiator has not been put in yet and nobody ever was.       *)

Leaving(c) ==
    \E r \in Requests : req[r].call = c /\ req[r].step \in {"leave.count", "leave.end"}

Starting(c) ==
    /\ \E r \in Requests : req[r].call = c /\ At(r, "initiate.participant")
    /\ \A u \in Users : participant[c][u] = "absent"

Accounted(c) ==
    (session[c] # "absent" /\ Active(c) = {}) => session[c] = "ended" \/ Leaving(c) \/ Starting(c)

\* Nobody is in, and no request concerns, a call that was not created.
Unborn(c) ==
    session[c] = "absent" => /\ \A u \in Users : participant[c][u] = "absent"
                             /\ \A r \in Requests : req[r].call # c

CallInv == /\ \A c \in Sessions : Unborn(c)
           /\ \A c \in Sessions \ broken : Accounted(c)

LEMMA InitCalls == Init => CallInv
BY CallAssumption DEF Init, CallInv, Unborn, Accounted, IdleRequest

\* A step of request r that concerns another call leaves call d accounted for.
LEMMA OtherCall ==
    ASSUME CallInv, NEW r \in Requests, NEW d \in Sessions,
           session'[d] = session[d], participant'[d] = participant[d],
           \A s \in Requests \ {r} : req'[s] = req[s],
           At(r, "idle") \/ req[r].call # d, req'[r].call # d, broken \subseteq broken'
    PROVE  Unborn(d)' /\ (d \notin broken' => Accounted(d)')
<1>1. Leaving(d) => Leaving(d)'
  BY DEF Leaving, At
<1>2. Starting(d) => Starting(d)'
  BY DEF Starting, At
<1> QED
  BY <1>1, <1>2 DEF CallInv, Unborn, Accounted, Active

\* So it remains to look at the call c that the step concerns.
LEMMA OnlyThisCall ==
    ASSUME TypeInv, CallInv, NEW r \in Requests, NEW c \in Sessions,
           \A d \in Sessions \ {c} : session'[d] = session[d] /\ participant'[d] = participant[d],
           \A s \in Requests \ {r} : req'[s] = req[s],
           At(r, "idle") \/ req[r].call = c, req'[r].call \in {c, None}, broken \subseteq broken',
           Unborn(c)', c \notin broken' => Accounted(c)'
    PROVE  CallInv'
<1>1. ASSUME NEW d \in Sessions \ {c} PROVE Unborn(d)' /\ (d \notin broken' => Accounted(d)')
  BY OtherCall, CallAssumption
<1> QED
  BY <1>1 DEF CallInv

LEMMA NextCalls == TypeInv /\ CallInv /\ [Next]_vars => CallInv'
<1> SUFFICES ASSUME TypeInv, CallInv, [Next]_vars PROVE CallInv'
  OBVIOUS
<1>0. /\ req \in [Requests -> Request] /\ session \in [Sessions -> {"absent", "open", "ended"}]
      /\ participant \in [Sessions -> [Users -> {"absent", "in", "left"}]]
  BY DEF TypeInv, Typed
<1>1. ASSUME NEW r \in Requests, NEW u \in Users, NEW c \in Sessions, InitiateCall(r, u, c)
      PROVE  CallInv'
  <2>1. At(r, "idle") /\ At(r, "initiate.participant")' /\ req'[r].call = c
        /\ \A s \in Requests \ {r} : req'[s] = req[s]
    BY <1>0, <1>1 DEF InitiateCall, Start, At
  <2>2. Starting(c)' /\ Unborn(c)'
    BY <1>0, <1>1, <2>1 DEF InitiateCall, CallInv, Unborn, Starting
  <2>3. Accounted(c)'
    BY <2>2 DEF Accounted
  <2> QED
    BY <1>0, <1>1, <2>1, <2>2, <2>3, OnlyThisCall DEF InitiateCall
<1>2. ASSUME NEW r \in Requests, NEW u \in Users, NEW c \in Sessions,
             JoinFindCall(r, u, c) \/ LeaveFindParticipant(r, u, c)
      PROVE  CallInv'
  <2>1. At(r, "idle") /\ req'[r].call = c /\ \A s \in Requests \ {r} : req'[s] = req[s]
    BY <1>0, <1>2 DEF JoinFindCall, LeaveFindParticipant, Start, At
  <2>2. UNCHANGED <<session, participant, broken>> /\ session[c] # "absent"
    BY <1>2 DEF JoinFindCall, LeaveFindParticipant, CallInv, Unborn
  <2>3. (Leaving(c) => Leaving(c)') /\ (Starting(c) => Starting(c)')
    BY <2>1, <2>2 DEF Leaving, Starting, At
  <2>4. Unborn(c)' /\ (c \notin broken' => Accounted(c)')
    BY <2>2, <2>3 DEF CallInv, Unborn, Accounted, Active
  <2> QED
    BY <2>1, <2>2, <2>4, OnlyThisCall
\* From here on the request is under way in the call c.
<1>3. ASSUME NEW r \in Requests, Continue(r) PROVE CallInv'
  <2>1. PICK c \in Sessions, u \in Users :
             req[r].call = c /\ req[r].user = u /\ session[c] # "absent"
    <3>1. ~At(r, "idle")
      BY <1>3 DEF Continue, CreateParticipant, JoinUpdate, LeaveUpdate, LeaveCount, LeaveEnd,
                  RequestDies, At
    <3> QED
      BY <3>1 DEF TypeInv, RequestShape, CallInv, Unborn
  <2>2. /\ \A s \in Requests \ {r} : req'[s] = req[s]
        /\ req'[r].call \in {c, None} /\ broken \subseteq broken'
    <3>1. \/ Finish(r) \/ Goto(r, "leave.count") \/ Goto(r, "leave.end")
      BY <1>3 DEF Continue, CreateParticipant, JoinUpdate, LeaveUpdate, LeaveCount, LeaveEnd,
                  RequestDies
    <3>2. (\A s \in Requests \ {r} : req'[s] = req[s]) /\ req'[r].call \in {c, None}
      BY <1>0, <2>1, <3>1 DEF Finish, Goto, IdleRequest, Request
    <3>3. broken \subseteq broken'
      BY <1>3 DEF Continue, CreateParticipant, JoinUpdate, LeaveUpdate, LeaveCount, LeaveEnd,
                  RequestDies
    <3> QED
      BY <3>2, <3>3
  <2>3. \A d \in Sessions \ {c} : session'[d] = session[d] /\ participant'[d] = participant[d]
    BY <1>0, <1>3, <2>1 DEF Continue, CreateParticipant, JoinUpdate, LeaveUpdate, LeaveCount,
                            LeaveEnd, RequestDies, SetParticipant
  <2>4. session'[c] # "absent"
    BY <1>0, <1>3, <2>1 DEF Continue, CreateParticipant, JoinUpdate, LeaveUpdate, LeaveCount,
                            LeaveEnd, RequestDies
  <2>5. Unborn(c)'
    BY <2>4 DEF Unborn
  <2>6. ASSUME c \notin broken' PROVE Accounted(c)'
    <3>1. CASE CreateParticipant(r) /\ participant[c][u] = "absent"
      BY <1>0, <2>1, <3>1 DEF CreateParticipant, SetParticipant, Accounted, Active
    <3>2. CASE CreateParticipant(r) /\ participant[c][u] # "absent"
      <4>1. Leaving(c) => Leaving(c)'
        BY <2>2, <3>2 DEF Leaving, CreateParticipant, At
      <4>2. ~Starting(c)
        BY <2>1, <3>2 DEF Starting
      <4>3. Accounted(c)
        BY <2>1, <2>2, <2>6 DEF CallInv
      <4> QED
        BY <2>1, <3>2, <4>1, <4>2, <4>3 DEF CreateParticipant, Accounted, Active
    <3>3. CASE JoinUpdate(r)
      BY <1>0, <2>1, <3>3 DEF JoinUpdate, SetParticipant, Accounted, Active
    <3>4. CASE LeaveUpdate(r)
      BY <1>0, <2>1, <3>4 DEF LeaveUpdate, Goto, Accounted, Leaving
    <3>5. CASE LeaveCount(r)
      <4>1. Active(c)' = Active(c)
        BY <3>5 DEF LeaveCount, Active
      <4>2. Active(c) = {} => Leaving(c)'
        BY <1>0, <2>1, <3>5 DEF LeaveCount, Goto, Leaving, Request
      <4> QED
        BY <4>1, <4>2 DEF Accounted
    <3>6. CASE LeaveEnd(r)
      BY <1>0, <2>1, <3>6 DEF LeaveEnd, Accounted
    <3>7. CASE RequestDies(r)
      BY <2>1, <2>6, <3>7 DEF RequestDies
    <3> QED
      BY <1>3, <3>1, <3>2, <3>3, <3>4, <3>5, <3>6, <3>7 DEF Continue
  <2> QED
    BY <2>1, <2>2, <2>3, <2>5, <2>6, OnlyThisCall
<1>4. CASE UNCHANGED vars
  BY <1>4 DEF vars, CallInv, Unborn, Accounted, Active, Leaving, Starting, At
<1> QED
  BY <1>1, <1>2, <1>3, <1>4 DEF Next

(* A call nobody is in has ended, unless a request that has just left it, or *)
(* its initiator's, is under way or died: no order of joins and leaves       *)
(* leaves a call open for ever.                                              *)
THEOREM DesertedCallsEnded == Spec => []DesertedCallHasEnded
<1>1. Init => TypeInv /\ CallInv
  BY InitTypes, InitCalls
<1>2. TypeInv /\ CallInv /\ [Next]_vars => (TypeInv /\ CallInv)'
  BY NextTypes, NextCalls
<1>3. CallInv => DesertedCallHasEnded
  BY DEF CallInv, DesertedCallHasEnded, Accounted, Pending, Leaving, Starting, At
<1> QED
  BY <1>1, <1>2, <1>3, PTL DEF Spec
=============================================================================
