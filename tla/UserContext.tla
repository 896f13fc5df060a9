---------------------------- MODULE UserContext ----------------------------
(***************************************************************************)
(* What the chat knows about one user: memories and the title of a thread,  *)
(* in src/intelligence/intelligence.service.ts.                             *)
(*                                                                          *)
(* A turn reads the memories and the instructions (ChatInstructions) into   *)
(* its prompt.  Two tasks that nobody waits for go on behind it: one names  *)
(* the thread, the other has a model extract memories and stores them.      *)
(* Meanwhile the user may clear the memories or rename the thread.          *)
(* The messages of the turn are in ChatThreads.                             *)
(***************************************************************************)
EXTENDS Actors

CONSTANT Keys   \* keys of memories

ASSUME ContextAssumption == None \notin {"generated", "chosen"}

VARIABLES
    memory,     \* keys of the user's UserMemory rows
    title,      \* title of the thread: None, "generated" or "chosen"
    turn,       \* turn[r]: a turn and its background tasks
    surprised,  \* history: the thread was named while a title was generated
    learned     \* history: keys extractions have added since the last clear

contextVars == <<memory, title, turn, surprised, learned>>

TurnSteps == {"idle", "read", "answer", "extract", "store"}

\* `prompt`: the memories in it; `naming`: a title is being generated; `add`,
\* `remove`: what the extraction still has to store; `old`: the memories were
\* cleared since they were read.
NoTurn == [step |-> "idle", prompt |-> {}, naming |-> FALSE, add |-> {}, remove |-> {}, old |-> FALSE]

ContextInit ==
    /\ memory = {}
    /\ title = None
    /\ turn = [r \in Requests |-> NoTurn]
    /\ surprised = FALSE
    /\ learned = {}

-----------------------------------------------------------------------------
TurnAt(r, step) == turn[r].step = step

\* The turn as far as it is not over: a title may still be generated.
Rest(r, step) == [NoTurn EXCEPT !.step = step, !.naming = turn[r].naming]

\* Mutant: the check for a title is left out.
TitleMissingAlways == TRUE

TitleMissing == title = None

\* chatGetUserMemories, then the title in the background.
ChatGetUserMemories(r) ==
    /\ turn[r] = NoTurn
    /\ turn' = [turn EXCEPT ![r] = [NoTurn EXCEPT !.step = "read", !.prompt = memory,
                                                  !.naming = TitleMissing]]
    /\ UNCHANGED <<memory, title, surprised, learned>>

\* The other parts of the context are there.
CreateUserChattingPrompt(r) ==
    /\ TurnAt(r, "read")
    /\ turn' = [turn EXCEPT ![r].step = "answer"]
    /\ UNCHANGED <<memory, title, surprised, learned>>

\* The stream is read and the extraction scheduled, unless an error comes
\* first or the client stops reading.
ScheduleExtraction(r) ==
    /\ TurnAt(r, "answer")
    /\ \E next \in {"extract", "idle"} : turn' = [turn EXCEPT ![r] = Rest(r, next)]
    /\ UNCHANGED <<memory, title, surprised, learned>>

\* The title is written over whatever it has become; or the model fails.
ChatGetThreadTitle(r) ==
    /\ turn[r].naming
    /\ turn' = [turn EXCEPT ![r].naming = FALSE]
    /\ title' \in {title, "generated"}
    /\ UNCHANGED <<memory, surprised, learned>>

\* An empty name lets a later turn generate one again.
RenameChatThread ==
    /\ title' \in {None, "chosen"}
    /\ surprised' = \E r \in Requests : turn[r].naming
    /\ UNCHANGED <<memory, turn, learned>>

-----------------------------------------------------------------------------
(* Memories *)

\* The extraction as long as it has something to store.
Storing(r, add, remove) ==
    IF add = {} /\ remove = {} THEN Rest(r, "idle")
    ELSE [Rest(r, "store") EXCEPT !.add = add, !.remove = remove]

\* The model names keys to add and keys to remove, which may overlap.  Too
\* short a message and an unreadable answer are an empty one.
ExtractAndSaveMemory(r) ==
    /\ TurnAt(r, "extract")
    /\ \E add, remove \in SUBSET Keys : turn' = [turn EXCEPT ![r] = Storing(r, add, remove)]
    /\ UNCHANGED <<memory, title, surprised, learned>>

\* Promise.all: the deleteMany and the transaction of upserts run in any
\* order, and either may fail.
RemoveMemories(r) ==
    /\ turn[r].remove # {}
    /\ memory' \in {memory, memory \ turn[r].remove}
    /\ turn' = [turn EXCEPT ![r] = Storing(r, turn[r].add, {})]
    /\ UNCHANGED <<title, surprised, learned>>

UpsertMemories(r) ==
    /\ turn[r].add # {}
    /\ memory' \in {memory, memory \cup turn[r].add}
    /\ learned' = learned \cup turn[r].add
    /\ turn' = [turn EXCEPT ![r] = Storing(r, {}, turn[r].remove)]
    /\ UNCHANGED <<title, surprised>>

DeleteChatMemory ==
    /\ memory' = {}
    /\ learned' = {}
    /\ turn' = [r \in Requests |-> [turn[r] EXCEPT !.old = turn[r].step \in {"read", "answer"}]]
    /\ UNCHANGED <<title, surprised>>

ContextNext ==
    \/ DeleteChatMemory
    \/ RenameChatThread
    \/ \E r \in Requests :
         \/ ChatGetUserMemories(r)
         \/ CreateUserChattingPrompt(r)
         \/ ScheduleExtraction(r)
         \/ ChatGetThreadTitle(r)
         \/ ExtractAndSaveMemory(r)
         \/ RemoveMemories(r)
         \/ UpsertMemories(r)

-----------------------------------------------------------------------------
(* The types of the rows and turns. *)
ContextTypeOK ==
    /\ memory \subseteq Keys
    /\ title \in {None, "generated", "chosen"}
    /\ turn \in [Requests -> [step : TurnSteps, prompt : SUBSET Keys, naming : BOOLEAN,
                              add : SUBSET Keys, remove : SUBSET Keys, old : BOOLEAN]]
    /\ surprised \in BOOLEAN
    /\ learned \subseteq Keys

(* Memories the user cleared come back, in the table or in the prompt of a   *)
(* turn begun since, only when an extraction adds them again; and a title    *)
(* the user chose is generated over only by a task already running then.     *)
ContextFollowsUser ==
    /\ memory \subseteq learned
    /\ \A r \in Requests :
         /\ turn[r].prompt \subseteq learned \/ turn[r].old
         /\ title = "chosen" /\ turn[r].naming => surprised
=============================================================================
