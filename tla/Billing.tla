------------------------------- MODULE Billing -------------------------------
(***************************************************************************)
(* Applications of the developer interface and what their requests cost:    *)
(* src/intelligence/intelligence.service.ts and, for agents,                *)
(* AgentService.recordAgentUsage (AgentExecution has the run it ends).      *)
(*                                                                          *)
(* A request asks a model two or three times; after each answer the price   *)
(* is looked up and, in one transaction, a usage row created and the        *)
(* balance decremented.  Whether the balance suffices is never asked.  The  *)
(* key is looked at only then, so an unknown one costs nobody.  One answer  *)
(* is one unit of tokens here; names and instructions are data.             *)
(***************************************************************************)
EXTENDS Actors, Integers

CONSTANTS
    Applications,  \* identities of Application rows (bounds them)
    Models,        \* models of instructions
    Selector,      \* the model a selection is priced as (GeminiFast)
    AgentModel,    \* the model agents are priced as
    Prices,        \* prices of an answer
    MaxUsages      \* bound: usage rows of an application

ASSUME BillingAssumption ==
    /\ {Selector, AgentModel} \subseteq Models
    /\ Prices \subseteq Nat /\ MaxUsages \in Nat
    /\ None \notin Int

VARIABLES
    balance,  \* balance[a]: that of the Application row, or None
    usages,   \* usages[a]: its ApplicationUsage rows, their number and cost
    price,    \* price[m]: that of the row found for model m, or None
    bill      \* bill[r]: step and locals of request r

billVars == <<balance, usages, price, bill>>

NoUsage == [number |-> 0, cost |-> 0]

\* `left`: answers still to ask for; `charged`: those charged so far.
NoBill == [step |-> "idle", app |-> None, model |-> None, left |-> 0, cost |-> 0, charged |-> 0]

BillInit ==
    /\ balance = [a \in Applications |-> None]
    /\ usages = [a \in Applications |-> NoUsage]
    /\ price = [m \in Models |-> None]
    /\ bill = [r \in Requests |-> NoBill]

-----------------------------------------------------------------------------
(* Applications and prices *)

CreateApplication(a) ==
    /\ balance[a] = None
    /\ balance' = [balance EXCEPT ![a] = 0]
    /\ UNCHANGED <<usages, price, bill>>

\* Usage rows refer to the application and keep it.
DeleteApplication(a) ==
    /\ balance[a] # None
    /\ usages[a].number = 0
    /\ balance' = [balance EXCEPT ![a] = None]
    /\ UNCHANGED <<usages, price, bill>>

\* createModel, updateModel and, for the agents' model, whose row must be
\* active, deleteModel and bulkAddModels.
SetPrice(m, p) ==
    /\ price' = [price EXCEPT ![m] = p]
    /\ UNCHANGED <<balance, usages, bill>>

\* getBillingInfo
TotalBalance(a) == IF balance[a] = None THEN 0 ELSE balance[a]

-----------------------------------------------------------------------------
(* Requests *)

BillAt(r, step) == bill[r].step = step

Step(r, step) == [bill EXCEPT ![r].step = step]

Failed(r) == [bill EXCEPT ![r] = [NoBill EXCEPT !.step = "failed"]]

\* The application is looked up by its key, which may be anyone's or nobody's.
ProcessDevInstruction(r, a, m) ==
    /\ bill[r].step \in {"idle", "answered", "failed"}
    /\ bill' = [bill EXCEPT ![r] = [NoBill EXCEPT !.step = "ask", !.app = a, !.model = m, !.left = 2]]
    /\ UNCHANGED <<balance, usages, price>>

\* The key is checked first, and one more answer selects the instruction.
ProcessDevInstructionBeta(r, a, m) ==
    /\ bill[r].step \in {"idle", "answered", "failed"}
    /\ balance[a] # None
    /\ bill' = [bill EXCEPT ![r] = [NoBill EXCEPT !.step = "ask", !.app = a, !.model = m, !.left = 3]]
    /\ UNCHANGED <<balance, usages, price>>

GenerateContent(r) ==
    /\ BillAt(r, "ask")
    /\ bill' \in {Step(r, "price"), Failed(r)}
    /\ UNCHANGED <<balance, usages, price>>

\* The selection, asked of another model, is priced as Selector.  A model
\* without a price makes the request fail after its answer.
CalculateCost(r) ==
    LET m == IF bill[r].left = 3 THEN Selector ELSE bill[r].model
    IN /\ BillAt(r, "price")
       /\ bill' = IF price[m] = None THEN Failed(r)
                  ELSE [Step(r, "charge") EXCEPT ![r].cost = price[m]]
       /\ UNCHANGED <<balance, usages, price>>

Charged(a, cost) ==
    /\ usages[a].number < MaxUsages
    /\ usages' = [usages EXCEPT ![a] = [number |-> @.number + 1, cost |-> @.cost + cost]]
    /\ balance' = [balance EXCEPT ![a] = @ - cost]

\* After the last charge the answer is returned, valid JSON or not; after the
\* selection, which may name no instruction, the request goes on.
Proceed(r) ==
    LET now == [bill EXCEPT ![r].charged = @ + 1, ![r].left = @ - 1, ![r].cost = 0,
                            ![r].step = IF bill[r].left = 1 THEN "answered" ELSE "ask"]
    IN bill' \in IF bill[r].left = 3 THEN {now, Failed(r)} ELSE {now}

\* Mutant: the balance is decremented by a query of its own.
UpdateUsageAndBalanceApart(r) ==
    LET a == bill[r].app
    IN /\ BillAt(r, "charge")
       /\ balance[a] # None
       /\ \/ Charged(a, bill[r].cost) /\ Proceed(r)
          \/ /\ usages[a].number < MaxUsages
             /\ usages' = [usages EXCEPT ![a] = [number |-> @.number + 1, cost |-> @.cost + bill[r].cost]]
             /\ bill' = Failed(r)
             /\ UNCHANGED balance
       /\ UNCHANGED price

\* Any failure, an application that is gone among them, leaves both tables.
UpdateUsageAndBalance(r) ==
    /\ BillAt(r, "charge")
    /\ \/ balance[bill[r].app] # None /\ Charged(bill[r].app, bill[r].cost) /\ Proceed(r)
       \/ bill' = Failed(r) /\ UNCHANGED <<balance, usages>>
    /\ UNCHANGED price

\* Nothing without a price.
RecordAgentUsage(a) ==
    /\ balance[a] # None
    /\ price[AgentModel] # None
    /\ Charged(a, price[AgentModel])
    /\ UNCHANGED <<price, bill>>

BillNext ==
    \/ \E a \in Applications : CreateApplication(a) \/ DeleteApplication(a) \/ RecordAgentUsage(a)
    \/ \E m \in Models, p \in Prices \cup {None} : SetPrice(m, p)
    \/ \E r \in Requests :
         \/ \E a \in Applications, m \in Models :
              ProcessDevInstruction(r, a, m) \/ ProcessDevInstructionBeta(r, a, m)
         \/ GenerateContent(r)
         \/ CalculateCost(r)
         \/ UpdateUsageAndBalance(r)

-----------------------------------------------------------------------------
(* The types of the rows and requests. *)
BillTypeOK ==
    /\ balance \in [Applications -> Int \cup {None}]
    /\ usages \in [Applications -> [number : 0 .. MaxUsages, cost : Nat]]
    /\ price \in [Models -> Prices \cup {None}]
    /\ bill \in [Requests -> [step : {"idle", "ask", "price", "charge", "answered", "failed"},
                              app : Applications \cup {None}, model : Models \cup {None},
                              left : 0 .. 3, cost : Nat, charged : 0 .. 3]]

(* However requests, agents, price changes and failures interleave, the      *)
(* billing information of an application is the cost of its usage rows,      *)
(* which outlive any attempt to delete it, and a request gets its answer     *)
(* only when each answer of a model it took was charged.                     *)
BalanceIsUsage ==
    /\ \A a \in Applications :
         /\ TotalBalance(a) = -usages[a].cost
         /\ usages[a].number > 0 => balance[a] # None
    /\ \A r \in Requests :
         /\ bill[r].step \in {"ask", "price", "charge"} => bill[r].charged + bill[r].left \in {2, 3}
         /\ BillAt(r, "answered") => bill[r].charged >= 2 /\ usages[bill[r].app].number >= bill[r].charged
=============================================================================
