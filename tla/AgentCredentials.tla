-------------------------- MODULE AgentCredentials --------------------------
(***************************************************************************)
(* The credentials and variables of one workflow agent:                     *)
(* src/intelligence/agent/agent.service.ts and                              *)
(* services/credential-manager.service.ts.  A credential is a name with a   *)
(* value, encrypted on the way in and decrypted on the way out; storing one  *)
(* replaces whichever has its name.  Of variables only the names count: a   *)
(* name that is taken is refused.                                           *)
(***************************************************************************)
EXTENDS Actors, FiniteSets, Naturals

CONSTANTS
    Rows,       \* identities of AgentCredential and AgentVariable rows
    PartNames,  \* their names, unique among the rows of one kind
    Values      \* values of credentials

Credentials == [name : PartNames, value : Values]

ASSUME PartsAssumption == None \notin Rows \cup PartNames \cup Credentials

VARIABLES
    agentRow,    \* whether the Agent row exists
    credential,  \* credential[c]: name and value of the row, None when there is none
    variable,    \* variable[v]: name of the row, None when there is none
    change,      \* change[r]: what request r does to a row
    wanted,      \* history: credentials the owner's finished requests leave
    lost,        \* history: those whose update failed half-way
    overwritten  \* history: those that were there when one was stored under their name

partVars == <<agentRow, credential, variable, change, wanted, lost, overwritten>>

Kept(rows) == {rows[x] : x \in Rows} \ {None}

\* part: the name of a variable, or a credential, that the request stores.
NoChange == [step |-> "idle", does |-> None, row |-> None, old |-> None, part |-> None]

PartsInit ==
    /\ agentRow = TRUE
    /\ credential = [c \in Rows |-> None]
    /\ variable = [v \in Rows |-> None]
    /\ change = [r \in Requests |-> NoChange]
    /\ wanted = {} /\ lost = {} /\ overwritten = {}

-----------------------------------------------------------------------------
ChangeAt(r, step) == change[r].step = step

ChangeGoes(r, step) == change' = [change EXCEPT ![r].step = step]

ChangeEnds(r) == change' = [change EXCEPT ![r] = NoChange]

\* verifyAgentOwnership; the requests that name a row look for it next.
VerifyAgentOwnership(r, does, row, part) ==
    /\ ChangeAt(r, "idle")
    /\ agentRow
    /\ change' = [change EXCEPT ![r] = [NoChange EXCEPT
         !.step = IF row = None THEN "store" ELSE "exists", !.does = does, !.row = row, !.part = part]]
    /\ UNCHANGED <<agentRow, credential, variable, wanted, lost, overwritten>>

AddCredential(r, new) == VerifyAgentOwnership(r, "add", None, new)

UpdateCredential(r, c, new) == VerifyAgentOwnership(r, "update", c, new)

DeleteCredential(r, c) == VerifyAgentOwnership(r, "delete", c, None)

AddVariable(r, name) == VerifyAgentOwnership(r, "add variable", None, name)

UpdateVariable(r, v, name) == VerifyAgentOwnership(r, "update variable", v, name)

DeleteVariable(r, v) == VerifyAgentOwnership(r, "delete variable", v, None)

OnVariable(r) == change[r].does \in {"add variable", "update variable", "delete variable"}

VerifyExists(r) ==
    /\ ChangeAt(r, "exists")
    /\ LET rows == IF OnVariable(r) THEN variable ELSE credential
       IN IF rows[change[r].row] = None THEN ChangeEnds(r)
          ELSE ChangeGoes(r, IF OnVariable(r) THEN "store" ELSE "delete")
    /\ UNCHANGED <<agentRow, credential, variable, wanted, lost, overwritten>>

\* Fails when another request was faster.  An update has yet to store.
DeleteCredentialRow(r) ==
    /\ ChangeAt(r, "delete")
    /\ LET c == change[r].row
       IN IF credential[c] = None
          THEN ChangeEnds(r) /\ UNCHANGED <<credential, wanted>>
          ELSE /\ credential' = [credential EXCEPT ![c] = None]
               /\ IF change[r].does = "update"
                  THEN /\ change' = [change EXCEPT ![r].step = "store", ![r].old = credential[c]]
                       /\ UNCHANGED wanted
                  ELSE ChangeEnds(r) /\ wanted' = wanted \ {credential[c]}
    /\ UNCHANGED <<agentRow, variable, lost, overwritten>>

\* The rows with this name: at most one.
Holding(name) == {c \in Rows : credential[c] # None /\ credential[c].name = name}

\* What a request that has stored leaves the owner with.
Stored(r) ==
    LET new == change[r].part
    IN /\ wanted' = (wanted \ {change[r].old}) \cup {new}
       /\ lost' = lost \ {new}
       /\ overwritten' = (overwritten \cup {credential[c] : c \in Holding(new.name)}) \ {new}
       /\ ChangeEnds(r)

\* Mutant: an existing row is written, a missing one is not created.
StoreCredentialUpdates(r) ==
    LET new == change[r].part
    IN /\ ChangeAt(r, "store") /\ ~OnVariable(r)
       /\ agentRow
       /\ credential' = [c \in Rows |-> IF c \in Holding(new.name) THEN new ELSE credential[c]]
       /\ Stored(r)
       /\ UNCHANGED <<agentRow, variable>>

\* upsert by name: the row with that name is written, or a new one if there is none.
StoreCredential(r) ==
    LET new == change[r].part
    IN /\ ChangeAt(r, "store") /\ ~OnVariable(r)
       /\ agentRow
       /\ \E c \in Rows :
            /\ c \in Holding(new.name) \/ (Holding(new.name) = {} /\ credential[c] = None)
            /\ credential' = [credential EXCEPT ![c] = new]
       /\ Stored(r)
       /\ UNCHANGED <<agentRow, variable>>

\* The agent is gone, the update came without a name or without a value, or the
\* query fails; an update has deleted by now.
StoreFails(r) ==
    /\ ChangeAt(r, "store") /\ ~OnVariable(r)
    /\ lost' = IF change[r].does = "update" THEN lost \cup {change[r].old} ELSE lost
    /\ ChangeEnds(r)
    /\ UNCHANGED <<agentRow, credential, variable, wanted, overwritten>>

\* Fails on a name that is taken, and on a row or an agent that is gone.
WriteVariable(r) ==
    LET v == change[r].row
        name == change[r].part
    IN \/ /\ change[r].does = "add variable" /\ agentRow /\ name \notin Kept(variable)
          /\ \E w \in {w \in Rows : variable[w] = None} : variable' = [variable EXCEPT ![w] = name]
       \/ /\ change[r].does = "update variable" /\ variable[v] # None
          /\ name \notin Kept([variable EXCEPT ![v] = None])
          /\ variable' = [variable EXCEPT ![v] = name]
       \/ /\ change[r].does = "delete variable" /\ variable[v] # None
          /\ variable' = [variable EXCEPT ![v] = None]

StoreVariable(r) ==
    /\ ChangeAt(r, "store") /\ OnVariable(r)
    /\ WriteVariable(r) \/ UNCHANGED variable
    /\ ChangeEnds(r)
    /\ UNCHANGED <<agentRow, credential, wanted, lost, overwritten>>

\* deleteAgent, in one transaction.
DeleteAgent ==
    /\ agentRow
    /\ agentRow' = FALSE
    /\ credential' = [c \in Rows |-> None]
    /\ variable' = [v \in Rows |-> None]
    /\ wanted' = {} /\ lost' = {} /\ overwritten' = {}
    /\ UNCHANGED change

PartsNext ==
    \/ \E r \in Requests :
        \/ \E new \in Credentials :
            AddCredential(r, new) \/ \E c \in Rows : UpdateCredential(r, c, new)
        \/ \E name \in PartNames :
            AddVariable(r, name) \/ \E v \in Rows : UpdateVariable(r, v, name)
        \/ \E x \in Rows : DeleteCredential(r, x) \/ DeleteVariable(r, x)
        \/ VerifyExists(r)
        \/ DeleteCredentialRow(r)
        \/ StoreCredential(r)
        \/ StoreFails(r)
        \/ StoreVariable(r)
    \/ DeleteAgent

-----------------------------------------------------------------------------
(* The types of the rows and requests. *)
PartsTypeOK ==
    /\ agentRow \in BOOLEAN
    /\ credential \in [Rows -> Credentials \cup {None}]
    /\ variable \in [Rows -> PartNames \cup {None}]
    /\ change \in [Requests -> [
         step : {"idle", "exists", "delete", "store"},
         does : {"add", "update", "delete", "add variable", "update variable", "delete variable", None},
         row : Rows \cup {None}, old : Credentials \cup {None},
         part : PartNames \cup Credentials \cup {None}]]
    /\ wanted \cup lost \cup overwritten \subseteq Credentials

(* Every credential the owner's requests leave is there with its value,      *)
(* unless an update of it is between its deletion and its creation or failed *)
(* in between, or another was stored under its name.  Names are unique, and  *)
(* no part outlives the agent, whatever requests overlap.                    *)
CredentialsAreKept ==
    LET gap == {change[r].old : r \in {r \in Requests : ChangeAt(r, "store")}}
    IN /\ wanted \subseteq Kept(credential) \cup gap \cup lost \cup overwritten
       /\ \A x, y \in Rows :
            /\ credential[x] # None /\ credential[y] # None /\ x # y
               => credential[x].name # credential[y].name
            /\ variable[x] = variable[y] /\ x # y => variable[x] = None
       /\ ~agentRow => Kept(credential) \cup Kept(variable) = {}
=============================================================================
