-------------------------- MODULE ChatInstructions --------------------------
(***************************************************************************)
(* The instructions of one user for the chat: createChatUserInstruction and *)
(* its companions in src/intelligence/intelligence.service.ts.              *)
(***************************************************************************)
EXTENDS Actors, FiniteSets, Naturals

CONSTANTS
    Jobs,            \* identities of UserInstruction rows
    MaxInstructions  \* instructions a user may have (20 in the code)

ASSUME InstructionsAssumption == MaxInstructions \in Nat \ {0}

VARIABLES
    instructions,  \* the user's rows
    edit,          \* edit[r]: step of request r and the row it has found
    atOnce         \* history: the most creations that were under way together

instructionVars == <<instructions, edit, atOnce>>

NoEdit == [step |-> "idle", job |-> None]

InstructionsInit ==
    /\ instructions = {}
    /\ edit = [r \in Requests |-> NoEdit]
    /\ atOnce = 0

-----------------------------------------------------------------------------
EditAt(r, step) == edit[r].step = step

Creating == {r \in Requests : EditAt(r, "create")}

EditFinish(r) == edit' = [edit EXCEPT ![r] = NoEdit]

\* Mutant: the limit itself still passes.
CreateChatUserInstructionOne(r) ==
    /\ EditAt(r, "idle")
    /\ Cardinality(instructions) <= MaxInstructions
    /\ edit' = [edit EXCEPT ![r].step = "create"]
    /\ LET now == Cardinality(Creating) + 1 IN atOnce' = IF now > atOnce THEN now ELSE atOnce
    /\ UNCHANGED instructions

CreateChatUserInstruction(r) ==
    /\ EditAt(r, "idle")
    /\ Cardinality(instructions) < MaxInstructions
    /\ edit' = [edit EXCEPT ![r].step = "create"]
    /\ LET now == Cardinality(Creating) + 1 IN atOnce' = IF now > atOnce THEN now ELSE atOnce
    /\ UNCHANGED instructions

InstructionCreate(r) ==
    /\ EditAt(r, "create")
    /\ \E job \in Jobs \ instructions : instructions' = instructions \cup {job}
    /\ EditFinish(r)
    /\ UNCHANGED atOnce

UpdateChatUserInstruction(r, job) ==
    /\ EditAt(r, "idle")
    /\ job \in instructions
    /\ edit' = [edit EXCEPT ![r] = [step |-> "update", job |-> job]]
    /\ UNCHANGED <<instructions, atOnce>>

DeleteChatUserInstruction(r, job) ==
    /\ EditAt(r, "idle")
    /\ job \in instructions
    /\ edit' = [edit EXCEPT ![r] = [step |-> "delete", job |-> job]]
    /\ UNCHANGED <<instructions, atOnce>>

\* Both fail when the row is gone meanwhile; the text of a job is left out.
InstructionWrite(r) ==
    /\ edit[r].step \in {"update", "delete"}
    /\ instructions' = IF EditAt(r, "delete") THEN instructions \ {edit[r].job} ELSE instructions
    /\ EditFinish(r)
    /\ UNCHANGED atOnce

InstructionsNext ==
    \E r \in Requests :
        \/ CreateChatUserInstruction(r)
        \/ InstructionCreate(r)
        \/ \E job \in Jobs : UpdateChatUserInstruction(r, job) \/ DeleteChatUserInstruction(r, job)
        \/ InstructionWrite(r)

-----------------------------------------------------------------------------
(* The types of the rows and edits. *)
InstructionsTypeOK ==
    /\ instructions \subseteq Jobs
    /\ edit \in [Requests -> [step : {"idle", "create", "update", "delete"}, job : Jobs \cup {None}]]
    /\ atOnce \in Nat

(* The limit is checked before the row is created: it is exceeded, if at all,*)
(* by fewer instructions than were being created at the same time.           *)
InstructionsLimited ==
    Cardinality(instructions) + Cardinality(Creating) < MaxInstructions + (IF atOnce = 0 THEN 1 ELSE atOnce)
=============================================================================
