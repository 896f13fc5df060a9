----------------------------- MODULE UsageQuota -----------------------------
(***************************************************************************)
(* The monthly request quota of a user: UsageService of                     *)
(* src/intelligence/usage/usage.service.ts, called by the chat and search   *)
(* streams and by the administrators' UsageController.                      *)
(*                                                                          *)
(* Every operation starts with getUserUsage, which finds, creates or resets *)
(* the user's row of UserSearchUsage, and ends with a write computed from   *)
(* what that returned.  The reads and the writes are separate queries.      *)
(* One user is modelled: rows of different users share nothing.             *)
(***************************************************************************)
EXTENDS Integers

CONSTANTS
    Rows,         \* identities of UserSearchUsage rows (bounds them)
    Requests,     \* concurrent requests that concern the user
    UserLimit,    \* USAGE_LIMITS[Role.USER]
    PremiumLimit, \* USAGE_LIMITS[Role.PREMIUM]
    Amounts,      \* bound: the amounts administrators add and remove
    MaxTotal,     \* bound: no allowance is raised beyond this
    Overflowing,  \* months whose last days the next month does not have
    MaxMonth,     \* bound: time stops in this month
    None

VARIABLES
    usage,   \* usage[k]: row k, or None
    role,    \* User.role
    month,   \* the current month, counted from 0
    late,    \* whether today's date is one the next month may not have
    req,     \* req[r]: step and locals of request r
    granted, \* history: requests granted since a row was created or reset
    peak,    \* history: the largest allowance any row ever had
    overlap  \* history: whether two requests ever ran at the same time

vars == <<usage, role, month, late, req, granted, peak, overlap>>

Roles == {"USER", "PREMIUM"}

Operations == {"increment", "add", "remove", "limits", "remaining"}

UsageRow == [used : Nat, total : Nat, reset : Nat]

ASSUME UsageAssumption ==
    /\ UserLimit \in Nat /\ PremiumLimit \in Nat /\ MaxTotal \in Nat /\ MaxMonth \in Nat
    /\ Amounts \subseteq Nat
    /\ None \notin Rows \cup UsageRow

Steps == {"idle", "role", "find", "user", "create", "reset", "write"}

\* row, used and total are what getUserUsage returned; limit is that of the
\* role the request has read.
Request == [step : Steps, op : Operations \cup {None}, amount : Nat, limit : Nat,
            row : Rows \cup {None}, used : Nat, total : Nat]

IdleRequest == [step |-> "idle", op |-> None, amount |-> 0, limit |-> 0, row |-> None,
                used |-> 0, total |-> 0]

Init ==
    /\ usage = [k \in Rows |-> None]
    /\ role = "USER"
    /\ month = 0
    /\ late = FALSE
    /\ req = [r \in Requests |-> IdleRequest]
    /\ granted = 0
    /\ peak = 0
    /\ overlap = FALSE

-----------------------------------------------------------------------------
Limit == IF role = "PREMIUM" THEN PremiumLimit ELSE UserLimit

\* setMonth(getMonth() + 1) keeps the day of the month and runs over into the
\* month after if the next one is too short; setDate(1) comes after that.
ResetMonth == IF late /\ month \in Overflowing THEN month + 2 ELSE month + 1

Raise(total) == peak' = IF total > peak THEN total ELSE peak

At(r, step) == req[r].step = step

Finish(r) == req' = [req EXCEPT ![r] = IdleRequest]

Start(r, step, op, n) ==
    /\ At(r, "idle")
    /\ req' = [req EXCEPT ![r] = [IdleRequest EXCEPT !.step = step, !.op = op, !.amount = n]]
    /\ overlap' = (overlap \/ \E s \in Requests : ~At(s, "idle"))

\* What getUserUsage returns to r: row k with this content.  Its own limit is
\* forgotten; only updateUserLimits has one to write later.
Return(r, k, used, total) ==
    req' = [req EXCEPT ![r] =
              [req[r] EXCEPT !.step = "write", !.row = k, !.used = used, !.total = total,
                             !.limit = IF req[r].op = "limits" THEN req[r].limit ELSE 0]]

-----------------------------------------------------------------------------
CheckAndIncrementUsage(r) ==
    /\ Start(r, "find", "increment", 0)
    /\ UNCHANGED <<usage, role, month, late, granted, peak>>

AddRequests(r, n) ==
    /\ Start(r, "find", "add", n)
    /\ UNCHANGED <<usage, role, month, late, granted, peak>>

RemoveRequests(r, n) ==
    /\ Start(r, "find", "remove", n)
    /\ UNCHANGED <<usage, role, month, late, granted, peak>>

GetRemainingRequests(r) ==
    /\ Start(r, "find", "remaining", 0)
    /\ UNCHANGED <<usage, role, month, late, granted, peak>>

\* UsageController.upgradeUser writes the role and calls updateUserLimits.
UpgradeUser(r) ==
    /\ Start(r, "role", "limits", 0)
    /\ role' = "PREMIUM"
    /\ UNCHANGED <<usage, month, late, granted, peak>>

\* updateUserLimits reads the user before anything else.
LimitsFindUser(r) ==
    /\ At(r, "role")
    /\ req' = [req EXCEPT ![r].step = "find", ![r].limit = Limit]
    /\ UNCHANGED <<usage, role, month, late, granted, peak, overlap>>

\* findFirst without an order: any of the user's rows.  If there is none, or it
\* is due, the user is read next.
FindUsage(r) ==
    /\ At(r, "find")
    /\ LET found == {k \in Rows : usage[k] # None}
       IN \/ \E k \in found :
               IF month >= usage[k].reset
               THEN req' = [req EXCEPT ![r].step = "user", ![r].row = k]
               ELSE Return(r, k, usage[k].used, usage[k].total)
          \/ found = {} /\ req' = [req EXCEPT ![r].step = "user"]
    /\ UNCHANGED <<usage, role, month, late, granted, peak, overlap>>

\* The limit of the row to create or to reset.
FindUser(r) ==
    /\ At(r, "user")
    /\ req' = [req EXCEPT ![r].step = IF req[r].row = None THEN "create" ELSE "reset",
                          ![r].limit = Limit]
    /\ UNCHANGED <<usage, role, month, late, granted, peak, overlap>>

CreateUsage(r) ==
    /\ At(r, "create")
    /\ \E k \in Rows :
         /\ usage[k] = None
         /\ usage' = [usage EXCEPT ![k] =
                        [used |-> 0, total |-> req[r].limit, reset |-> ResetMonth]]
         /\ Return(r, k, 0, req[r].limit)
    /\ granted' = 0
    /\ Raise(req[r].limit)
    /\ UNCHANGED <<role, month, late, overlap>>

\* Mutant: the reset moves the date and the limit but not the counter.
ResetUsageKeep(r) ==
    /\ At(r, "reset")
    /\ LET row == usage[req[r].row]
       IN /\ usage' = [usage EXCEPT ![req[r].row] =
                         [used |-> row.used, total |-> req[r].limit, reset |-> ResetMonth]]
          /\ Return(r, req[r].row, row.used, req[r].limit)
    /\ granted' = 0
    /\ Raise(req[r].limit)
    /\ UNCHANGED <<role, month, late, overlap>>

ResetUsage(r) ==
    /\ At(r, "reset")
    /\ usage' = [usage EXCEPT ![req[r].row] =
                   [used |-> 0, total |-> req[r].limit, reset |-> ResetMonth]]
    /\ Return(r, req[r].row, 0, req[r].limit)
    /\ granted' = 0
    /\ Raise(req[r].limit)
    /\ UNCHANGED <<role, month, late, overlap>>

\* Mutant: the limit itself is still granted.
IncrementAtLimit(r) ==
    /\ At(r, "write") /\ req[r].op = "increment"
    /\ \/ /\ req[r].used <= req[r].total
          /\ usage' = [usage EXCEPT ![req[r].row].used = req[r].used + 1]
          /\ granted' = granted + 1
       \/ /\ req[r].used > req[r].total
          /\ UNCHANGED <<usage, granted>>
    /\ Finish(r)
    /\ UNCHANGED <<role, month, late, peak, overlap>>

\* The last query of each operation.  Over the limit, an increment ends
\* without one and the caller is refused.
Increment(r) ==
    /\ At(r, "write") /\ req[r].op = "increment"
    /\ \/ /\ req[r].used < req[r].total
          /\ usage' = [usage EXCEPT ![req[r].row].used = req[r].used + 1]
          /\ granted' = granted + 1
       \/ /\ req[r].used >= req[r].total
          /\ UNCHANGED <<usage, granted>>
    /\ Finish(r)
    /\ UNCHANGED <<role, month, late, peak, overlap>>

WriteTotal(r, op, total) ==
    /\ At(r, "write") /\ req[r].op = op
    /\ total <= MaxTotal
    /\ usage' = [usage EXCEPT ![req[r].row].total = total]
    /\ Raise(total)
    /\ Finish(r)
    /\ UNCHANGED <<role, month, late, granted, overlap>>

Add(r) == WriteTotal(r, "add", req[r].total + req[r].amount)

\* Mutant: no Math.max.
RemoveBelow(r) == WriteTotal(r, "remove", req[r].total - req[r].amount)

\* Math.max(0, total - amount)
Remove(r) ==
    WriteTotal(r, "remove",
               IF req[r].amount > req[r].total THEN 0 ELSE req[r].total - req[r].amount)

\* updateUserLimits: the limit of the role that was read (roles only rise).
UpdateUserLimits(r) == WriteTotal(r, "limits", req[r].limit)

Remaining(r) ==
    /\ At(r, "write") /\ req[r].op = "remaining"
    /\ Finish(r)
    /\ UNCHANGED <<usage, role, month, late, granted, peak, overlap>>

-----------------------------------------------------------------------------
\* A month has days that every month has, and may end with others.
Tick ==
    /\ \/ ~late /\ late' = TRUE /\ month' = month
       \/ late /\ month < MaxMonth /\ late' = FALSE /\ month' = month + 1
    /\ UNCHANGED <<usage, role, req, granted, peak, overlap>>

Next ==
    \/ \E r \in Requests :
         \/ CheckAndIncrementUsage(r)
         \/ \E n \in Amounts : AddRequests(r, n) \/ RemoveRequests(r, n)
         \/ GetRemainingRequests(r)
         \/ UpgradeUser(r)
         \/ LimitsFindUser(r)
         \/ FindUsage(r)
         \/ FindUser(r)
         \/ CreateUsage(r)
         \/ ResetUsage(r)
         \/ Increment(r)
         \/ Add(r)
         \/ Remove(r)
         \/ UpdateUserLimits(r)
         \/ Remaining(r)
    \/ Tick

Spec == Init /\ [][Next]_vars

-----------------------------------------------------------------------------
Present == {k \in Rows : usage[k] # None}

(* The types of the rows and of the requests. *)
TypeOK ==
    /\ usage \in [Rows -> UsageRow \cup {None}]
    /\ role \in Roles
    /\ month \in Nat
    /\ late \in BOOLEAN
    /\ req \in [Requests -> Request]
    /\ granted \in Nat
    /\ overlap \in BOOLEAN

(* As long as the requests of a user came one after the other, the user has  *)
(* one row, and it counts every request granted since the last reset.        *)
SerialRequestsAreCounted ==
    ~overlap => /\ \A k, l \in Present : k = l
                /\ \A k \in Present : usage[k].used = granted

(* However the increments, resets and changes of the allowance interleave,   *)
(* no row counts more requests than some allowance of the user permitted:    *)
(* every write of `used` is at most one above a value read below a total.    *)
UsedWithinPeak ==
    \A k \in Present : usage[k].used <= peak

-----------------------------------------------------------------------------
(* What the documentation says and the code does not do. *)

(* usage.service.ts, checkAndIncrementUsage: "Check if a user has message    *)
(* usage remaining and increment if available" -- between two resets no more *)
(* requests are granted than the largest allowance the user ever had.        *)
GrantsWithinAllowance == granted <= peak

(* usage.service.ts, getUserUsage: "Set reset date to first day of next      *)
(* month".                                                                   *)
ResetsNextMonth ==
    \A k \in Present : usage[k].reset <= month + 1
=============================================================================
