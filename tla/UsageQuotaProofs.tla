-------------------------- MODULE UsageQuotaProofs --------------------------
(***************************************************************************)
(* Theorems about the request quota, for any number of rows and of          *)
(* concurrent requests.                                                     *)
(*                                                                          *)
(* The argument goes in two stages.  NextKinds sorts the fifteen actions by *)
(* what they do to the request and to the rows: a request begins, looks     *)
(* something up, fills a row (creates or resets it), or ends with a write.  *)
(* The inductive invariants are then shown to survive each kind.            *)
(***************************************************************************)
EXTENDS UsageQuota, TLAPS

-----------------------------------------------------------------------------
(* The inductive invariants.                                                 *)

\* What a request knows of its row, by the step it has reached.
KnowsRow(q) ==
    /\ q.step \in {"idle", "role", "find", "create"} => q.row = None
    /\ q.step \in {"reset", "write"} => q.row # None
    /\ q.row # None => usage[q.row] # None

TypeInv ==
    /\ TypeOK
    /\ peak \in Nat
    /\ \A r \in Requests : KnowsRow(req[r])

\* Neither the rows nor what the requests have read of them exceeds the peak.
PeakInv ==
    /\ \A k \in Present : usage[k].used <= peak /\ usage[k].total <= peak
    /\ \A r \in Requests : At(r, "write") => req[r].used <= peak /\ req[r].total <= peak

\* As long as there was no overlap: what the one running request has read is
\* what the rows still say.
FreshRead(q) ==
    /\ q.step = "write" => q.used = usage[q.row].used
    /\ q.step = "create" \/ (q.step = "user" /\ q.row = None) => Present = {}

SerialInv ==
    ~overlap =>
      /\ \A r, s \in Requests : ~At(r, "idle") /\ ~At(s, "idle") => r = s
      /\ \A k, l \in Present : k = l
      /\ \A k \in Present : usage[k].used = granted
      /\ \A r \in Requests : FreshRead(req[r])

-----------------------------------------------------------------------------
(* The kinds of steps.                                                       *)

\* r moves, the other requests do not.
Moves(r) == req'[r] \in Request /\ req' = [req EXCEPT ![r] = req'[r]]

Fits == role' \in Roles /\ month' \in Nat /\ late' \in BOOLEAN

Begins(r) ==
    /\ Moves(r) /\ Fits
    /\ At(r, "idle")
    /\ req'[r].step \in {"role", "find"} /\ req'[r].row = None
    /\ overlap' = (overlap \/ \E s \in Requests : ~At(s, "idle"))
    /\ UNCHANGED <<usage, granted, peak>>

\* A request that reads: where it stands next, and what it knows then.
Looks(r) ==
    /\ Moves(r) /\ Fits
    /\ ~At(r, "idle")
    /\ \/ req'[r].step = "find" /\ req'[r].row = None
       \/ req'[r].step = "user" /\ req'[r].row \in Present
       \/ req'[r].step = "user" /\ req'[r].row = None /\ Present = {}
       \/ /\ req'[r].step = "write" /\ req'[r].row \in Present
          /\ req'[r].used = usage[req'[r].row].used
          /\ req'[r].total = usage[req'[r].row].total
       \/ /\ At(r, "user") /\ req'[r].row = req[r].row
          /\ req'[r].step = IF req[r].row = None THEN "create" ELSE "reset"
    /\ UNCHANGED <<usage, granted, peak, overlap>>

\* A row is created for r, or the one r has found is reset.
Fills(r) ==
    /\ Moves(r) /\ Fits
    /\ req'[r].step = "write" /\ req'[r].row \in Rows
    /\ usage' = [usage EXCEPT ![req'[r].row] = usage'[req'[r].row]]
    /\ usage'[req'[r].row] \in UsageRow
    /\ usage'[req'[r].row].used = 0 /\ usage'[req'[r].row].total = req'[r].total
    /\ req'[r].used = 0
    /\ \/ At(r, "create")
       \/ At(r, "reset") /\ req'[r].row = req[r].row
    /\ granted' = 0
    /\ peak' \in Nat /\ peak <= peak' /\ req'[r].total <= peak'
    /\ UNCHANGED overlap

\* r ends: its row is not written, counts the request, or has a new total.
Ends(r) ==
    /\ Moves(r) /\ Fits
    /\ At(r, "write") /\ req'[r] = IdleRequest
    /\ UNCHANGED overlap
    /\ \/ UNCHANGED <<usage, granted, peak>>
       \/ /\ usage' = [usage EXCEPT ![req[r].row] = usage'[req[r].row]]
          /\ usage'[req[r].row] \in UsageRow
          /\ \/ /\ req[r].used < req[r].total
                /\ usage'[req[r].row].used = req[r].used + 1
                /\ usage'[req[r].row].total = usage[req[r].row].total
                /\ granted' = granted + 1 /\ peak' = peak
             \/ /\ usage'[req[r].row].used = usage[req[r].row].used
                /\ granted' = granted
                /\ peak' \in Nat /\ peak <= peak' /\ usage'[req[r].row].total <= peak'

\* Nothing moves but the time.
Waits == Fits /\ UNCHANGED <<usage, req, granted, peak, overlap>>

LEMMA LimitTyped == ASSUME UsageAssumption PROVE Limit \in Nat
  BY DEF UsageAssumption, Limit

LEMMA ResetTyped == ASSUME month \in Nat PROVE ResetMonth \in Nat
  BY DEF ResetMonth

\* What raising the peak does.
LEMMA Raised ==
  ASSUME peak \in Nat, NEW total \in Nat, Raise(total)
  PROVE  peak' \in Nat /\ peak <= peak' /\ total <= peak'
  BY DEF Raise

\* A request that is given a value of its type moves to it.
LEMMA MovesTo ==
  ASSUME req \in [Requests -> Request], NEW r \in Requests, NEW q \in Request,
         req' = [req EXCEPT ![r] = q]
  PROVE  Moves(r) /\ req'[r] = q
  BY DEF Moves

LEMMA StartBegins ==
  ASSUME TypeInv, NEW r \in Requests, NEW step \in {"role", "find"}, NEW op \in Operations,
         NEW n \in Nat, Start(r, step, op, n), Fits, UNCHANGED <<usage, granted, peak>>
  PROVE  Begins(r)
<1> DEFINE q == [IdleRequest EXCEPT !.step = step, !.op = op, !.amount = n]
<1>1. q \in Request /\ q.step = step /\ q.row = None
  BY DEF IdleRequest, Request, Steps
<1>2. req' = [req EXCEPT ![r] = q] /\ At(r, "idle")
      /\ overlap' = (overlap \/ \E s \in Requests : ~At(s, "idle"))
  BY DEF Start
<1> HIDE DEF q
<1>3. Moves(r) /\ req'[r] = q
  BY <1>1, <1>2, MovesTo DEF TypeInv, TypeOK
<1> QED
  BY <1>1, <1>2, <1>3 DEF Begins

\* What getUserUsage returns is well typed.
LEMMA Returns ==
  ASSUME req \in [Requests -> Request], NEW r \in Requests, NEW k \in Rows, NEW used \in Nat,
         NEW total \in Nat, Return(r, k, used, total)
  PROVE  /\ Moves(r)
         /\ req'[r].step = "write" /\ req'[r].row = k
         /\ req'[r].used = used /\ req'[r].total = total
<1> DEFINE q == [req[r] EXCEPT !.step = "write", !.row = k, !.used = used, !.total = total,
                               !.limit = IF req[r].op = "limits" THEN req[r].limit ELSE 0]
<1>1. q \in Request
  BY DEF Request, Steps
<1>2. q.step = "write" /\ q.row = k /\ q.used = used /\ q.total = total
  BY DEF Request
<1>3. req' = [req EXCEPT ![r] = q]
  BY DEF Return
<1> HIDE DEF q
<1>4. Moves(r) /\ req'[r] = q
  BY <1>1, <1>3, MovesTo
<1> QED
  BY <1>2, <1>4

LEMMA FindUsageLooks ==
  ASSUME UsageAssumption, TypeInv, NEW r \in Requests, FindUsage(r)
  PROVE  Looks(r)
<1>1. Fits /\ ~At(r, "idle") /\ At(r, "find") /\ UNCHANGED <<usage, granted, peak, overlap>>
      /\ req[r].row = None
  BY DEF FindUsage, Fits, TypeInv, TypeOK, At, KnowsRow
<1>2. req \in [Requests -> Request] /\ req[r] \in Request
  BY DEF TypeInv, TypeOK
<1>3. ASSUME NEW k \in Rows, usage[k] # None,
             req' = [req EXCEPT ![r].step = "user", ![r].row = k]
      PROVE  Looks(r)
  <2> DEFINE q == [req[r] EXCEPT !.step = "user", !.row = k]
  <2>1. q \in Request /\ q.step = "user" /\ q.row = k
    BY <1>2 DEF Request, Steps
  <2>2. req' = [req EXCEPT ![r] = q]
    BY <1>2, <1>3
  <2> HIDE DEF q
  <2>3. Moves(r) /\ req'[r] = q
    BY <1>2, <2>1, <2>2, MovesTo
  <2> QED
    BY <1>1, <1>3, <2>1, <2>3 DEF Looks, Present
<1>4. ASSUME Present = {}, req' = [req EXCEPT ![r].step = "user"]
      PROVE  Looks(r)
  <2> DEFINE q == [req[r] EXCEPT !.step = "user"]
  <2>1. q \in Request /\ q.step = "user" /\ q.row = None
    BY <1>1, <1>2 DEF Request, Steps
  <2>2. req' = [req EXCEPT ![r] = q]
    BY <1>2, <1>4
  <2> HIDE DEF q
  <2>3. Moves(r) /\ req'[r] = q
    BY <1>2, <2>1, <2>2, MovesTo
  <2> QED
    BY <1>1, <1>4, <2>1, <2>3 DEF Looks
<1>5. ASSUME NEW k \in Rows, usage[k] # None, Return(r, k, usage[k].used, usage[k].total)
      PROVE  Looks(r)
  <2>1. usage[k] \in UsageRow
    BY <1>5 DEF TypeInv, TypeOK
  <2>2. usage[k].used \in Nat /\ usage[k].total \in Nat
    BY <2>1 DEF UsageRow
  <2>3. /\ Moves(r) /\ req'[r].step = "write" /\ req'[r].row = k
        /\ req'[r].used = usage[k].used /\ req'[r].total = usage[k].total
    BY <1>2, <1>5, <2>2, Returns
  <2> QED
    BY <1>1, <1>5, <2>3 DEF Looks, Present
<1> QED
  BY <1>3, <1>4, <1>5 DEF FindUsage, Present

LEMMA OthersLook ==
  ASSUME UsageAssumption, TypeInv, NEW r \in Requests, LimitsFindUser(r) \/ FindUser(r)
  PROVE  Looks(r)
<1>1. Fits /\ UNCHANGED <<usage, granted, peak, overlap>>
  BY DEF LimitsFindUser, FindUser, Fits, TypeInv, TypeOK
<1>2. req \in [Requests -> Request] /\ req[r] \in Request /\ Limit \in Nat
  BY LimitTyped DEF TypeInv, TypeOK
<1>3. CASE LimitsFindUser(r)
  <2> DEFINE q == [req[r] EXCEPT !.step = "find", !.limit = Limit]
  <2>0. At(r, "role") /\ req[r].row = None
    BY <1>3 DEF LimitsFindUser, TypeInv, KnowsRow, At
  <2>1. q \in Request /\ q.step = "find" /\ q.row = None
    BY <1>2, <2>0 DEF Request, Steps
  <2>2. req' = [req EXCEPT ![r] = q]
    BY <1>2, <1>3 DEF LimitsFindUser
  <2> HIDE DEF q
  <2>3. Moves(r) /\ req'[r] = q
    BY <1>2, <2>1, <2>2, MovesTo
  <2> QED
    BY <1>1, <2>0, <2>1, <2>3 DEF Looks, At
<1>4. CASE FindUser(r)
  <2> DEFINE next == IF req[r].row = None THEN "create" ELSE "reset"
             q == [req[r] EXCEPT !.step = next, !.limit = Limit]
  <2>0. next \in Steps
    BY DEF Steps
  <2>1. q \in Request /\ q.step = next /\ q.row = req[r].row
    BY <1>2, <2>0 DEF Request
  <2>2. req' = [req EXCEPT ![r] = q]
    BY <1>2, <1>4 DEF FindUser
  <2> HIDE DEF q
  <2>3. Moves(r) /\ req'[r] = q
    BY <1>2, <2>1, <2>2, MovesTo
  <2>4. At(r, "user")
    BY <1>4 DEF FindUser
  <2> QED
    BY <1>1, <2>1, <2>3, <2>4 DEF Looks, At
<1> QED
  BY <1>3, <1>4

LEMMA CreateFills ==
  ASSUME UsageAssumption, TypeInv, NEW r \in Requests, CreateUsage(r) \/ ResetUsage(r)
  PROVE  Fits /\ Fills(r)
<1> DEFINE row == [used |-> 0, total |-> req[r].limit, reset |-> ResetMonth]
<1>1. Fits /\ UNCHANGED overlap /\ granted' = 0 /\ Raise(req[r].limit)
  BY DEF CreateUsage, ResetUsage, Fits, TypeInv, TypeOK
<1>2. req \in [Requests -> Request] /\ req[r] \in Request /\ req[r].limit \in Nat
  BY DEF TypeInv, TypeOK, Request
<1>3. row \in UsageRow /\ row.used = 0 /\ row.total = req[r].limit
  BY <1>2, ResetTyped DEF UsageRow, TypeInv, TypeOK
<1>4. PICK k \in Rows :
        /\ usage' = [usage EXCEPT ![k] = row]
        /\ Return(r, k, 0, req[r].limit)
        /\ At(r, "create") \/ (At(r, "reset") /\ k = req[r].row)
  <2>1. CASE CreateUsage(r)
    BY <2>1 DEF CreateUsage
  <2>2. CASE ResetUsage(r)
    <3>1. req[r].row \in Rows
      BY <1>2, <2>2 DEF ResetUsage, At, TypeInv, KnowsRow, Request
    <3> QED
      BY <2>2, <3>1 DEF ResetUsage
  <2> QED
    BY <2>1, <2>2
<1> HIDE DEF row
<1>5. /\ Moves(r) /\ req'[r].step = "write" /\ req'[r].row = k
      /\ req'[r].used = 0 /\ req'[r].total = req[r].limit
  BY <1>2, <1>4, Returns
<1>6. usage'[k] = row
  BY <1>4 DEF TypeInv, TypeOK
<1>7. peak' \in Nat /\ peak <= peak' /\ req[r].limit <= peak'
  BY <1>1, <1>2, Raised DEF TypeInv
<1> QED
  BY <1>1, <1>3, <1>4, <1>5, <1>6, <1>7 DEF Fills

\* A request that finishes is idle.
LEMMA Finishes ==
  ASSUME UsageAssumption, TypeInv, NEW r \in Requests, Finish(r)
  PROVE  Moves(r) /\ req'[r] = IdleRequest
<1>1. IdleRequest \in Request
  BY DEF IdleRequest, Request, Steps
<1> QED
  BY <1>1, MovesTo DEF Finish, TypeInv, TypeOK

LEMMA WriteEnds ==
  ASSUME UsageAssumption, TypeInv, NEW r \in Requests, NEW op, NEW total \in Nat,
         WriteTotal(r, op, total)
  PROVE  Ends(r)
<1>1. At(r, "write") /\ Fits /\ UNCHANGED <<overlap, granted>> /\ Finish(r) /\ Raise(total)
      /\ usage' = [usage EXCEPT ![req[r].row].total = total]
  BY DEF WriteTotal, Fits, TypeInv, TypeOK
<1>2. req[r].row \in Rows /\ usage[req[r].row] \in UsageRow
  BY <1>1 DEF TypeInv, TypeOK, KnowsRow, At, Request
<1> DEFINE row == [usage[req[r].row] EXCEPT !.total = total]
<1>3. row \in UsageRow /\ row.used = usage[req[r].row].used /\ row.total = total
  BY <1>2 DEF UsageRow
<1>4. usage' = [usage EXCEPT ![req[r].row] = row]
  BY <1>1
<1> HIDE DEF row
<1>5. usage'[req[r].row] = row
  BY <1>2, <1>4 DEF TypeInv, TypeOK
<1>6. peak' \in Nat /\ peak <= peak' /\ total <= peak'
  BY <1>1, Raised DEF TypeInv
<1> QED
  BY <1>1, <1>3, <1>4, <1>5, <1>6, Finishes DEF Ends

LEMMA IncrementEnds ==
  ASSUME UsageAssumption, TypeInv, NEW r \in Requests, Increment(r)
  PROVE  Ends(r)
<1>1. At(r, "write") /\ Fits /\ UNCHANGED <<overlap, peak>> /\ Finish(r)
  BY DEF Increment, Fits, TypeInv, TypeOK
<1>2. req[r].row \in Rows /\ usage[req[r].row] \in UsageRow /\ req[r].used \in Nat
  BY <1>1 DEF TypeInv, TypeOK, KnowsRow, At, Request
<1>3. Moves(r) /\ req'[r] = IdleRequest
  BY <1>1, Finishes
<1>4. CASE UNCHANGED <<usage, granted>>
  BY <1>1, <1>3, <1>4 DEF Ends
<1>5. CASE /\ req[r].used < req[r].total
           /\ usage' = [usage EXCEPT ![req[r].row].used = req[r].used + 1]
           /\ granted' = granted + 1
  <2> DEFINE row == [usage[req[r].row] EXCEPT !.used = req[r].used + 1]
  <2>1. row \in UsageRow /\ row.used = req[r].used + 1 /\ row.total = usage[req[r].row].total
    BY <1>2 DEF UsageRow
  <2>2. usage' = [usage EXCEPT ![req[r].row] = row]
    BY <1>5
  <2> HIDE DEF row
  <2>3. usage'[req[r].row] = row
    BY <1>2, <2>2 DEF TypeInv, TypeOK
  <2> QED
    BY <1>1, <1>3, <1>5, <2>1, <2>2, <2>3 DEF Ends
<1> QED
  BY <1>4, <1>5 DEF Increment

\* Every step is of one of the kinds.
LEMMA NextKinds ==
  ASSUME UsageAssumption, TypeInv, [Next]_vars
  PROVE  Waits \/ \E r \in Requests : Begins(r) \/ Looks(r) \/ Fills(r) \/ Ends(r)
<1>1. ASSUME NEW r \in Requests, CheckAndIncrementUsage(r) PROVE Begins(r)
  BY <1>1, StartBegins DEF CheckAndIncrementUsage, Operations, Fits, TypeInv, TypeOK
<1>2. ASSUME NEW r \in Requests, NEW n \in Amounts, AddRequests(r, n) PROVE Begins(r)
  BY <1>2, StartBegins DEF AddRequests, Operations, Fits, TypeInv, TypeOK, UsageAssumption
<1>3. ASSUME NEW r \in Requests, NEW n \in Amounts, RemoveRequests(r, n) PROVE Begins(r)
  BY <1>3, StartBegins DEF RemoveRequests, Operations, Fits, TypeInv, TypeOK, UsageAssumption
<1>4. ASSUME NEW r \in Requests, GetRemainingRequests(r) PROVE Begins(r)
  BY <1>4, StartBegins DEF GetRemainingRequests, Operations, Fits, TypeInv, TypeOK
<1>5. ASSUME NEW r \in Requests, UpgradeUser(r) PROVE Begins(r)
  BY <1>5, StartBegins DEF UpgradeUser, Operations, Fits, Roles, TypeInv, TypeOK
<1>6. ASSUME NEW r \in Requests PROVE req[r].total \in Nat /\ req[r].amount \in Nat /\ req[r].limit \in Nat
  BY DEF TypeInv, TypeOK, Request
<1>7. ASSUME NEW r \in Requests, Add(r) PROVE Ends(r)
  <2>1. req[r].total + req[r].amount \in Nat
    BY <1>6
  <2> QED
    BY <1>7, <2>1, WriteEnds DEF Add
<1>8. ASSUME NEW r \in Requests, Remove(r) PROVE Ends(r)
  <2>1. (IF req[r].amount > req[r].total THEN 0 ELSE req[r].total - req[r].amount) \in Nat
    BY <1>6
  <2> QED
    BY <1>8, <2>1, WriteEnds DEF Remove
<1>9. ASSUME NEW r \in Requests, UpdateUserLimits(r) PROVE Ends(r)
  BY <1>6, <1>9, WriteEnds DEF UpdateUserLimits
<1>10. ASSUME NEW r \in Requests, Remaining(r) PROVE Ends(r)
  <2>1. Moves(r) /\ req'[r] = IdleRequest
    BY <1>10, Finishes DEF Remaining
  <2> QED
    BY <1>10, <2>1 DEF Remaining, Ends, Fits, TypeInv, TypeOK
<1>11. CASE Tick \/ UNCHANGED vars
  <2>1. role' \in Roles /\ late' \in BOOLEAN
    BY <1>11 DEF Tick, vars, TypeInv, TypeOK
  <2>2. month' \in Nat
    <3>1. month' = month \/ month' = month + 1
      BY <1>11 DEF Tick, vars
    <3> QED
      BY <3>1 DEF TypeInv, TypeOK
  <2> QED
    BY <1>11, <2>1, <2>2 DEF Tick, vars, Waits, Fits
<1> QED
  BY <1>1, <1>2, <1>3, <1>4, <1>5, <1>7, <1>8, <1>9, <1>10, <1>11, FindUsageLooks, OthersLook,
     CreateFills, IncrementEnds DEF Next

-----------------------------------------------------------------------------
(* Types.                                                                    *)

\* Rows are filled and written, never removed.
LEMMA RowsStay ==
  ASSUME UsageAssumption, TypeInv, NEW r \in Requests,
         Begins(r) \/ Looks(r) \/ Fills(r) \/ Ends(r)
  PROVE  usage' \in [Rows -> UsageRow \cup {None}] /\ \A k \in Present : usage'[k] # None
<1>1. usage \in [Rows -> UsageRow \cup {None}]
  BY DEF TypeInv, TypeOK
<1>2. CASE UNCHANGED usage
  BY <1>1, <1>2 DEF Present
<1>3. ASSUME NEW k, usage' = [usage EXCEPT ![k] = usage'[k]], usage'[k] \in UsageRow
      PROVE  usage' \in [Rows -> UsageRow \cup {None}] /\ \A l \in Present : usage'[l] # None
  <2>1. PICK row \in UsageRow : usage' = [usage EXCEPT ![k] = row]
    BY <1>3
  <2> QED
    BY <1>1, <2>1 DEF Present, UsageAssumption
<1> QED
  BY <1>2, <1>3 DEF Begins, Looks, Fills, Ends

LEMMA NextTypeInv ==
  ASSUME UsageAssumption, TypeInv, [Next]_vars
  PROVE  TypeInv'
<1>1. ASSUME NEW r \in Requests, Begins(r) \/ Looks(r) \/ Fills(r) \/ Ends(r)
      PROVE  TypeInv'
  <2>1. usage' \in [Rows -> UsageRow \cup {None}] /\ \A k \in Present : usage'[k] # None
    BY <1>1, RowsStay
  <2>2. Moves(r) /\ Fits /\ peak' \in Nat /\ granted' \in Nat /\ overlap' \in BOOLEAN
    <3>1. peak \in Nat /\ granted \in Nat /\ overlap \in BOOLEAN
      BY DEF TypeInv, TypeOK
    <3>2. CASE Begins(r)
      BY <3>1, <3>2 DEF Begins
    <3>3. CASE Looks(r)
      BY <3>1, <3>3 DEF Looks
    <3>4. CASE Fills(r)
      BY <3>1, <3>4 DEF Fills
    <3>5. CASE Ends(r)
      BY <3>1, <3>5 DEF Ends
    <3> QED
      BY <1>1, <3>2, <3>3, <3>4, <3>5
  <2>3. req' \in [Requests -> Request] /\ \A s \in Requests \ {r} : req'[s] = req[s]
    <3>1. PICK q \in Request : req' = [req EXCEPT ![r] = q]
      BY <2>2 DEF Moves
    <3> QED
      BY <3>1 DEF TypeInv, TypeOK
  <2>4. ASSUME NEW s \in Requests \ {r} PROVE KnowsRow(req[s])'
    <3>1. req'[s] = req[s] /\ req[s] \in Request /\ KnowsRow(req[s])
      BY <2>3 DEF TypeInv, TypeOK
    <3>2. req[s].row # None => req[s].row \in Present
      BY <3>1 DEF KnowsRow, Present, Request
    <3> QED
      BY <2>1, <3>1, <3>2 DEF KnowsRow
  <2>5. KnowsRow(req[r])'
    <3>1. KnowsRow(req[r]) /\ req[r] \in Request
      BY DEF TypeInv, TypeOK
    <3>2. CASE Begins(r)
      BY <3>2 DEF Begins, KnowsRow
    <3>3. CASE Looks(r)
      <4>1. req[r].row # None => req[r].row \in Present
        BY <3>1 DEF KnowsRow, Present, Request
      <4> QED
        BY <2>1, <3>1, <3>3, <4>1 DEF Looks, KnowsRow, At, UsageAssumption, Present
    <3>4. CASE Fills(r)
      BY <3>4 DEF Fills, KnowsRow, UsageAssumption
    <3>5. CASE Ends(r)
      BY <3>5 DEF Ends, KnowsRow, IdleRequest
    <3> QED
      BY <1>1, <3>2, <3>3, <3>4, <3>5
  <2> QED
    BY <2>1, <2>2, <2>3, <2>4, <2>5 DEF TypeInv, TypeOK, Fits
<1>2. CASE Waits
  BY <1>2 DEF Waits, Fits, TypeInv, TypeOK, KnowsRow
<1> QED
  BY <1>1, <1>2, NextKinds

\* Initially no row exists and no request runs.
LEMMA InitTypeInv == ASSUME UsageAssumption, Init PROVE TypeInv
<1>1. IdleRequest \in Request
  BY DEF IdleRequest, Request, Steps
<1> QED
  BY <1>1 DEF Init, TypeInv, TypeOK, KnowsRow, IdleRequest, Roles

(* The rows of the quota and the locals of the requests have their types.    *)
THEOREM TypeCorrect == Spec => []TypeOK
<1>1. Init => TypeInv
  BY InitTypeInv, UsageAssumption
<1>2. TypeInv /\ [Next]_vars => TypeInv'
  BY NextTypeInv, UsageAssumption
<1>3. TypeInv => TypeOK
  BY DEF TypeInv
<1> QED
  BY <1>1, <1>2, <1>3, PTL DEF Spec

-----------------------------------------------------------------------------
(* The peak.                                                                 *)

\* What the others have read stays below a peak that only rises.
LEMMA PeakKeeps ==
  ASSUME TypeInv, PeakInv, NEW r \in Requests, Moves(r), peak' \in Nat, peak <= peak',
         \A k \in Rows : usage'[k] # None =>
           \/ usage'[k] = usage[k]
           \/ usage'[k] \in UsageRow /\ usage'[k].used <= peak' /\ usage'[k].total <= peak',
         req'[r].step = "write" => req'[r].used <= peak' /\ req'[r].total <= peak'
  PROVE  PeakInv'
<1>1. ASSUME NEW k \in Present' PROVE usage'[k].used <= peak' /\ usage'[k].total <= peak'
  <2>1. k \in Rows /\ usage'[k] # None /\ peak \in Nat
    BY DEF Present, TypeInv
  <2>2. CASE usage'[k] = usage[k]
    <3>1. usage[k] \in UsageRow /\ usage[k].used <= peak /\ usage[k].total <= peak
      BY <2>1, <2>2 DEF PeakInv, Present, TypeInv, TypeOK
    <3>2. usage[k].used \in Nat /\ usage[k].total \in Nat
      BY <3>1 DEF UsageRow
    <3> QED
      BY <2>1, <2>2, <3>1, <3>2
  <2> QED
    BY <2>1, <2>2
<1>2. ASSUME NEW s \in Requests, At(s, "write")'
      PROVE  req'[s].used <= peak' /\ req'[s].total <= peak'
  <2>1. CASE s = r
    BY <1>2, <2>1 DEF At
  <2>2. CASE s # r
    <3>1. req'[s] = req[s]
      BY <2>2 DEF Moves, TypeInv, TypeOK
    <3>2. req[s].used <= peak /\ req[s].total <= peak /\ req[s] \in Request
      BY <1>2, <3>1 DEF PeakInv, At, TypeInv, TypeOK
    <3>3. req[s].used \in Nat /\ req[s].total \in Nat /\ peak \in Nat
      BY <3>2 DEF Request, TypeInv
    <3> QED
      BY <3>1, <3>2, <3>3
  <2> QED
    BY <2>1, <2>2
<1> QED
  BY <1>1, <1>2 DEF PeakInv

LEMMA NextPeakInv ==
  ASSUME UsageAssumption, TypeInv, PeakInv, [Next]_vars
  PROVE  PeakInv'
<1>0. peak \in Nat /\ usage \in [Rows -> UsageRow \cup {None}]
  BY DEF TypeInv, TypeOK
<1>1. ASSUME NEW r \in Requests, Begins(r) PROVE PeakInv'
  BY <1>0, <1>1, PeakKeeps DEF Begins
<1>2. ASSUME NEW r \in Requests, Looks(r) PROVE PeakInv'
  <2>1. req'[r].step = "write" => req'[r].used <= peak /\ req'[r].total <= peak
    BY <1>2 DEF Looks, PeakInv
  <2> QED
    BY <1>0, <1>2, <2>1, PeakKeeps DEF Looks
<1>3. ASSUME NEW r \in Requests, Fills(r) PROVE PeakInv'
  <2>1. Moves(r) /\ peak' \in Nat /\ peak <= peak' /\ req'[r].used = 0 /\ req'[r].total <= peak'
    BY <1>3 DEF Fills
  <2>2. \A k \in Rows \ {req'[r].row} : usage'[k] = usage[k]
    BY <1>0, <1>3 DEF Fills
  <2>3. /\ usage'[req'[r].row] \in UsageRow
        /\ usage'[req'[r].row].used <= peak' /\ usage'[req'[r].row].total <= peak'
    BY <1>3, <2>1 DEF Fills
  <2> QED
    BY <2>1, <2>2, <2>3, PeakKeeps
<1>4. ASSUME NEW r \in Requests, Ends(r) PROVE PeakInv'
  <2>1. At(r, "write") /\ Moves(r) /\ req'[r].step # "write"
    BY <1>4 DEF Ends, IdleRequest
  <2>2. CASE UNCHANGED <<usage, granted, peak>>
    BY <1>0, <2>1, <2>2, PeakKeeps
  <2>3. CASE ~UNCHANGED <<usage, granted, peak>>
    <3>1. PICK k : k = req[r].row
      OBVIOUS
    <3>2. k \in Present
      BY <2>1, <3>1 DEF At, TypeInv, TypeOK, KnowsRow, Present, Request
    <3>3. usage[k] \in UsageRow /\ usage[k].used <= peak /\ usage[k].total <= peak
      BY <1>0, <3>2 DEF Present, PeakInv
    <3>4. usage[k].used \in Nat /\ usage[k].total \in Nat /\ req[r].used \in Nat /\ req[r].total \in Nat
      BY <3>3 DEF UsageRow, TypeInv, TypeOK, Request
    <3>5. req[r].total <= peak
      BY <2>1 DEF PeakInv
    <3>6. usage' = [usage EXCEPT ![k] = usage'[k]] /\ usage'[k] \in UsageRow
      BY <1>4, <2>3, <3>1 DEF Ends
    <3>7. peak' \in Nat /\ peak <= peak' /\ usage'[k].used <= peak' /\ usage'[k].total <= peak'
      <4>1. CASE /\ req[r].used < req[r].total
                 /\ usage'[k].used = req[r].used + 1
                 /\ usage'[k].total = usage[k].total
                 /\ peak' = peak
        BY <1>0, <3>3, <3>4, <3>5, <4>1
      <4>2. CASE /\ usage'[k].used = usage[k].used
                 /\ peak' \in Nat /\ peak <= peak' /\ usage'[k].total <= peak'
        BY <1>0, <3>3, <3>4, <4>2
      <4> QED
        BY <1>4, <2>3, <3>1, <4>1, <4>2 DEF Ends
    <3>8. \A l \in Rows \ {k} : usage'[l] = usage[l]
      BY <1>0, <3>6
    <3> QED
      BY <2>1, <3>6, <3>7, <3>8, PeakKeeps
  <2> QED
    BY <2>2, <2>3
<1>5. CASE Waits
  BY <1>5 DEF Waits, PeakInv, Present, At
<1> QED
  BY <1>1, <1>2, <1>3, <1>4, <1>5, NextKinds

(* However the requests of a user interleave, no row counts more requests    *)
(* than some allowance of the user permitted.                                *)
THEOREM NeverAbovePeak == Spec => []UsedWithinPeak
<1>1. Init => TypeInv /\ PeakInv
  <2>1. Init => PeakInv
    BY DEF Init, PeakInv, Present, At, IdleRequest
  <2> QED
    BY <2>1, InitTypeInv, UsageAssumption
<1>2. TypeInv /\ PeakInv /\ [Next]_vars => (TypeInv /\ PeakInv)'
  BY NextTypeInv, NextPeakInv, UsageAssumption
<1>3. PeakInv => UsedWithinPeak
  BY DEF PeakInv, UsedWithinPeak
<1> QED
  BY <1>1, <1>2, <1>3, PTL DEF Spec

-----------------------------------------------------------------------------
(* Requests that do not overlap.                                             *)

LEMMA NextSerialInv ==
  ASSUME UsageAssumption, TypeInv, SerialInv, [Next]_vars
  PROVE  SerialInv'
<1> SUFFICES ASSUME ~overlap' PROVE SerialInv'
  BY DEF SerialInv
<1>0. usage \in [Rows -> UsageRow \cup {None}] /\ req \in [Requests -> Request]
      /\ granted \in Nat
  BY DEF TypeInv, TypeOK
\* The running request is the only one: the others are idle before and after.
<1>1. ASSUME NEW r \in Requests, Begins(r) \/ Looks(r) \/ Fills(r) \/ Ends(r)
      PROVE  /\ ~overlap /\ Moves(r)
             /\ \A s \in Requests \ {r} : At(s, "idle") /\ req'[s] = req[s]
             /\ \A q, s \in Requests : ~At(q, "idle")' /\ ~At(s, "idle")' => q = s
             /\ \A k, l \in Present : k = l
             /\ \A k \in Present : usage[k].used = granted
             /\ FreshRead(req[r])
  <2>1. ~overlap /\ Moves(r)
    <3>1. CASE Begins(r)
      BY <3>1 DEF Begins
    <3>2. CASE Looks(r)
      BY <3>2 DEF Looks
    <3>3. CASE Fills(r)
      BY <3>3 DEF Fills
    <3>4. CASE Ends(r)
      BY <3>4 DEF Ends
    <3> QED
      BY <1>1, <3>1, <3>2, <3>3, <3>4
  <2>2. /\ \A q, s \in Requests : ~At(q, "idle") /\ ~At(s, "idle") => q = s
        /\ \A k, l \in Present : k = l
        /\ \A k \in Present : usage[k].used = granted
        /\ FreshRead(req[r])
    BY <2>1 DEF SerialInv
  <2>3. \A s \in Requests \ {r} : req'[s] = req[s]
    BY <1>0, <2>1 DEF Moves
  <2>4. \A s \in Requests \ {r} : At(s, "idle")
    <3>1. CASE Begins(r)
      BY <3>1 DEF Begins
    <3>2. CASE ~At(r, "idle")
      BY <2>2, <3>2
    <3>3. Looks(r) \/ Fills(r) \/ Ends(r) => ~At(r, "idle")
      BY DEF Looks, Fills, Ends, At
    <3> QED
      BY <1>1, <3>1, <3>2, <3>3
  <2>5. \A q, s \in Requests : ~At(q, "idle")' /\ ~At(s, "idle")' => q = s
    BY <2>3, <2>4 DEF At
  <2> QED
    BY <2>1, <2>2, <2>3, <2>4, <2>5
<1>2. ASSUME NEW r \in Requests, Begins(r) \/ Looks(r) \/ Fills(r) \/ Ends(r),
             FreshRead(req[r])',
             \A k, l \in Present' : k = l, \A k \in Present' : usage'[k].used = granted'
      PROVE  SerialInv'
  <2>1. ASSUME NEW s \in Requests \ {r} PROVE FreshRead(req[s])'
    <3>1. req'[s].step = "idle"
      BY <1>1, <1>2 DEF At
    <3> QED
      BY <3>1 DEF FreshRead
  <2> QED
    BY <1>1, <1>2, <2>1 DEF SerialInv
<1>3. ASSUME NEW r \in Requests, Begins(r) PROVE SerialInv'
  <2>1. FreshRead(req[r])'
    BY <1>3 DEF Begins, FreshRead
  <2>2. Present' = Present /\ UNCHANGED <<usage, granted>>
    BY <1>3 DEF Begins, Present
  <2> QED
    BY <1>1, <1>2, <1>3, <2>1, <2>2
<1>4. ASSUME NEW r \in Requests, Looks(r) PROVE SerialInv'
  <2>1. Present' = Present /\ UNCHANGED <<usage, granted>>
    BY <1>4 DEF Looks, Present
  <2>2. FreshRead(req[r])
    BY <1>1, <1>4
  <2>3. FreshRead(req[r])'
    <3>1. req'[r].step = "write" => req'[r].used = usage[req'[r].row].used
      BY <1>4 DEF Looks
    <3>2. req'[r].step = "user" /\ req'[r].row = None => Present = {}
      BY <1>4 DEF Looks, Present, UsageAssumption
    <3>3. req'[r].step = "create" => Present = {}
      BY <1>4, <2>2 DEF Looks, FreshRead, At
    <3> QED
      BY <2>1, <3>1, <3>2, <3>3 DEF FreshRead
  <2> QED
    BY <1>1, <1>2, <1>4, <2>1, <2>3
<1>5. ASSUME NEW r \in Requests, Fills(r) PROVE SerialInv'
  <2>1. PICK k \in Rows : k = req'[r].row
    BY <1>5 DEF Fills
  <2>2. Present' \subseteq {k}
    <3>1. Present \subseteq {k}
      <4>1. CASE At(r, "create")
        BY <1>1, <1>5, <4>1 DEF FreshRead, At
      <4>2. CASE At(r, "reset") /\ k = req[r].row
        <5>1. k \in Present
          BY <4>2 DEF TypeInv, KnowsRow, At, Present
        <5> QED
          BY <1>1, <1>5, <5>1
      <4> QED
        BY <1>5, <2>1, <4>1, <4>2 DEF Fills
    <3>2. \A l \in Rows \ {k} : usage'[l] = usage[l]
      BY <1>0, <1>5, <2>1 DEF Fills
    <3> QED
      BY <3>1, <3>2 DEF Present
  <2>3. usage'[k].used = 0 /\ granted' = 0 /\ req'[r].step = "write" /\ req'[r].used = 0
    BY <1>5, <2>1 DEF Fills
  <2>4. FreshRead(req[r])'
    BY <2>1, <2>3 DEF FreshRead
  <2> QED
    BY <1>1, <1>2, <1>5, <2>2, <2>3, <2>4
<1>6. ASSUME NEW r \in Requests, Ends(r) PROVE SerialInv'
  <2>1. PICK k : k = req[r].row
    OBVIOUS
  <2>2. At(r, "write") /\ k \in Present
    BY <1>0, <1>6, <2>1 DEF Ends, At, TypeInv, KnowsRow, Present, Request
  <2>3. Present = {k} /\ usage[k].used = granted /\ req[r].used = granted
    BY <1>1, <1>6, <2>1, <2>2 DEF FreshRead, At
  <2>4. FreshRead(req[r])'
    BY <1>6 DEF Ends, IdleRequest, FreshRead
  <2>5. \A l \in Rows \ {k} : usage'[l] = usage[l]
    BY <1>0, <1>6, <2>1 DEF Ends
  <2>6. Present' \subseteq {k}
    BY <2>3, <2>5 DEF Present
  <2>7. usage'[k].used = granted'
    BY <1>6, <2>1, <2>3 DEF Ends
  <2> QED
    BY <1>1, <1>2, <1>6, <2>4, <2>6, <2>7
<1>7. CASE Waits
  BY <1>7 DEF Waits, SerialInv, Present, At, FreshRead
<1> QED
  BY <1>3, <1>4, <1>5, <1>6, <1>7, NextKinds

(* As long as the requests of a user came one after the other, the user has  *)
(* one row, and it counts every request granted since the last reset.        *)
THEOREM SerialCount == Spec => []SerialRequestsAreCounted
<1>1. Init => TypeInv /\ SerialInv
  <2>1. Init => SerialInv
    BY DEF Init, SerialInv, Present, At, FreshRead, IdleRequest
  <2> QED
    BY <2>1, InitTypeInv, UsageAssumption
<1>2. TypeInv /\ SerialInv /\ [Next]_vars => (TypeInv /\ SerialInv)'
  BY NextTypeInv, NextSerialInv, UsageAssumption
<1>3. SerialInv => SerialRequestsAreCounted
  BY DEF SerialInv, SerialRequestsAreCounted
<1> QED
  BY <1>1, <1>2, <1>3, PTL DEF Spec
=============================================================================
