---------------------------- MODULE ChatThreads ----------------------------
(***************************************************************************)
(* The chat threads of a user: the turns and the editing of threads in     *)
(* IntelligenceService, src/intelligence/intelligence.service.ts.           *)
(*                                                                          *)
(* A turn stores a question and an answer, ordered by createdAt.  The three *)
(* ways to chat differ in when they store them and in who waits for that:   *)
(* processChatStream leaves both inserts to themselves.  Meanwhile the user *)
(* edits, retries, copies or deletes the thread from a list of messages     *)
(* that was read before.  Contents, titles and memories are left out: they  *)
(* go into prompts and lists, and no operation here depends on them.        *)
(***************************************************************************)
EXTENDS Naturals, Functions

CONSTANTS
    Threads,   \* identities of AIThread rows (bounds them)
    Messages,  \* identities of AIThreadMessage rows (bounds them)
    Requests,  \* requests of the user that are served at the same time
    Changers,  \* bound: those of them that may be more than a turn
    Second,    \* the 1000 ms between a question and its answer, in clock steps
    MaxTime,   \* bound: the clock stops here
    MaxTurn,   \* bound: number of turns
    None

ASSUME ChatAssumption ==
    /\ Second \in Nat \ {0} /\ MaxTime \in Nat /\ MaxTurn \in Nat
    /\ None \notin Threads \cup Messages
    /\ Changers \subseteq Requests

VARIABLES
    thread,    \* thread[t]: state of the AIThread row
    message,   \* message[m]: row of AIThreadMessage and its insert
    clock,     \* the time createdAt is taken from
    turns,     \* the number of turns begun
    req,       \* req[r]: step and locals of request r
    lost,      \* history: turns whose question could not be stored
    before,    \* history: <<i, j>> when turn i was over before turn j began
    raced      \* history: threads on which a turn overlapped a change

vars == <<thread, message, clock, turns, req, lost, before, raced>>

\* A copy is hidden until it has messages: the lists leave empty threads out.
ThreadStates == {"absent", "hidden", "present", "deleted"}

\* An insert that nobody waits for is "insert" until the database took it.
Row == [chat : Threads, turn : Nat, role : {"user", "model"}, at : Nat,
        status : {"insert", "stored"}]

\* An identity not used yet, and one whose row was deleted or never stored.
NoRow(status) == [chat |-> None, turn |-> 0, role |-> None, at |-> 0, status |-> status]
Free == NoRow("free")
Gone == NoRow("gone")

Steps == {"idle", "stream.ask", "stream.answer", "plain", "plainStream", "saving",
          "edit", "retry", "clear", "remove", "copy", "copy.rows", "branch"}

\* listed: the messages the request has read and will delete; copied: the rows it
\* has read and will store again.
Request == [step : Steps, chat : Threads \cup {None}, turn : Nat,
            edited : Messages \cup {None}, listed : SUBSET Messages,
            copied : SUBSET Row, target : Threads \cup {None}]

IdleRequest == [step |-> "idle", chat |-> None, turn |-> 0, edited |-> None,
                listed |-> {}, copied |-> {}, target |-> None]

Init ==
    /\ thread = [t \in Threads |-> "absent"]
    /\ message = [m \in Messages |-> Free]
    /\ clock = 0
    /\ turns = 0
    /\ req = [r \in Requests |-> IdleRequest]
    /\ lost = {}
    /\ before = {}
    /\ raced = {}

-----------------------------------------------------------------------------
At(r, step) == req[r].step = step

Finish(r) == req' = [req EXCEPT ![r] = IdleRequest]

Rows(t, status) ==
    {m \in Messages : message[m].chat = t /\ message[m].status = status}

Turning == {"stream.ask", "stream.answer", "plain", "plainStream", "saving"}

Changing == {"edit", "retry", "clear", "remove", "copy", "copy.rows"}

Serving(t, steps) == \E r \in Requests : req[r].chat = t /\ req[r].step \in steps

\* Turn i has been answered, and the times of its rows have come.
Over(i) ==
    /\ \A r \in Requests : req[r].turn # i
    /\ \A m \in Messages : message[m].turn = i => message[m].at < clock

Race(t, condition) == raced' = IF condition THEN raced \cup {t} ELSE raced

\* The database stores a message only in a thread that exists.
Settled(row) ==
    IF thread[row.chat] \in {"present", "hidden"} THEN [row EXCEPT !.status = "stored"] ELSE Gone

\* The table without the messages in S.
Without(S) ==
    [m \in Messages |-> IF m \in S /\ message[m].status = "stored" THEN Gone ELSE message[m]]

\* A row of r's turn.
NewRow(r, role, at, status) ==
    [chat |-> req[r].chat, turn |-> req[r].turn, role |-> role, at |-> at, status |-> status]

\* Mutant: question and answer get the same createdAt.
AnswerTimeSame(now) == now

AnswerTime(now) == now + Second

-----------------------------------------------------------------------------
(* Turns. *)

\* Past the quota, where it is checked, a thread is created unless the client named one,
\* which may have been deleted since.
BeginTurn(r, t, step) ==
    /\ At(r, "idle") /\ turns < MaxTurn
    /\ thread[t] # "hidden"
    /\ thread' = [thread EXCEPT ![t] = IF thread[t] = "absent" THEN "present" ELSE thread[t]]
    /\ turns' = turns + 1
    /\ req' = [req EXCEPT ![r].step = step, ![r].chat = t, ![r].turn = turns + 1]
    /\ before' = before \cup {<<i, turns + 1>> : i \in {j \in 1..turns : Over(j)}}
    /\ Race(t, Serving(t, Changing))
    /\ UNCHANGED <<message, clock, lost>>

ProcessChatStream(r, t) == BeginTurn(r, t, "stream.ask")

ProcessChatPlain(r, t) == BeginTurn(r, t, "plain")

ProcessChatPlainStream(r, t) == BeginTurn(r, t, "plainStream")

\* The insert of one row is sent and left to itself.
SendRow(r, role) ==
    /\ \E m \in Messages :
         /\ message[m] = Free
         /\ message' = [message EXCEPT ![m] = NewRow(r, role, clock, "insert")]
    /\ UNCHANGED <<thread, turns, lost, before, raced>>

\* History and context are there: the question is sent off and generation begins,
\* which takes time.
StreamAsk(r) ==
    /\ At(r, "stream.ask") /\ clock < MaxTime
    /\ SendRow(r, "user")
    /\ req' = [req EXCEPT ![r].step = "stream.answer"]
    /\ clock' = clock + 1

\* The provider's stream has ended, and with it that of the client.
StreamAnswer(r) ==
    /\ At(r, "stream.answer")
    /\ SendRow(r, "model")
    /\ Finish(r)
    /\ UNCHANGED clock

\* Both rows of a turn whose answer is complete.
Question(r) == NewRow(r, "user", clock, "insert")

Answer(r) == NewRow(r, "model", AnswerTime(clock), "insert")

SendTurn(question, answer) ==
    /\ \E m, n \in Messages :
         /\ m # n /\ message[m] = Free /\ message[n] = Free
         /\ message' = [message EXCEPT ![m] = question, ![n] = answer]
    /\ UNCHANGED <<thread, clock, turns, lost, before, raced>>

\* createMany: both or none.
PlainAnswer(r) ==
    /\ At(r, "plain")
    /\ SendTurn(Settled(Question(r)), Settled(Answer(r)))
    /\ Finish(r)

\* Promise.all of two inserts, which the stream waits for.
PlainStreamAnswer(r) ==
    /\ At(r, "plainStream")
    /\ SendTurn(Question(r), Answer(r))
    /\ req' = [req EXCEPT ![r].step = "saving"]

PlainStreamEnd(r) ==
    /\ At(r, "saving")
    /\ \A m \in Rows(req[r].chat, "insert") : message[m].turn # req[r].turn
    /\ Finish(r)
    /\ UNCHANGED <<thread, message, clock, turns, lost, before, raced>>

Settle(m, row) ==
    /\ message[m].status = "insert"
    /\ message' = [message EXCEPT ![m] = row]
    /\ lost' = IF row = Gone /\ message[m].role = "user" THEN lost \cup {message[m].turn} ELSE lost
    /\ UNCHANGED <<thread, clock, turns, req, before, raced>>

Insert(m) == Settle(m, Settled(message[m]))

\* Logged, and forgotten.
InsertFails(m) == Settle(m, Gone)

-----------------------------------------------------------------------------
(* Editing, retrying, copying and deleting threads. *)

Begin(r, t, step, listed, edited, copied) ==
    /\ At(r, "idle") /\ thread[t] = "present"
    /\ req' = [req EXCEPT ![r].step = step, ![r].chat = t, ![r].listed = listed,
                          ![r].edited = edited, ![r].copied = copied]
    /\ Race(t, Serving(t, Turning) \/ Rows(t, "insert") # {})
    /\ UNCHANGED <<thread, message, clock, turns, lost, before>>

\* Mutant: the list is ordered by createdAt: 'desc'.
ListedAfterDescending(n, m) == message[n].at < message[m].at

ListedAfter(n, m) == message[n].at > message[m].at

\* The messages listed after m: orderBy createdAt: 'asc', which leaves the order
\* of messages with the same time open.
Tails(m) ==
    LET others == Rows(message[m].chat, "stored") \ {m}
        same == {n \in others : message[n].at = message[m].at}
    IN  {{n \in others : ListedAfter(n, m)} \cup tied : tied \in SUBSET same}

\* The reads of thread, message and list fail if the message is not in the list.
EditThreadMessage(r, t, m) ==
    /\ m \in Rows(t, "stored")
    /\ \E tail \in Tails(m) : Begin(r, t, "edit", tail, m, {})

RetryFromMessage(r, t, m) ==
    /\ m \in Rows(t, "stored")
    /\ \E tail \in Tails(m) : Begin(r, t, "retry", tail \cup {m}, None, {})

\* A transaction, which fails if the edited message is gone.
EditCommit(r) ==
    /\ At(r, "edit")
    /\ message' = IF message[req[r].edited].status = "stored" THEN Without(req[r].listed)
                  ELSE message
    /\ Finish(r)
    /\ UNCHANGED <<thread, clock, turns, lost, before, raced>>

RetryDelete(r) ==
    /\ At(r, "retry")
    /\ message' = Without(req[r].listed)
    /\ Finish(r)
    /\ UNCHANGED <<thread, clock, turns, lost, before, raced>>

\* Mutant: what the thread's findFirst found is not looked at.
DeleteChatThreadUnfound(r, t) ==
    /\ At(r, "idle")
    /\ req' = [req EXCEPT ![r].step = "clear", ![r].chat = t]
    /\ Race(t, Serving(t, Turning) \/ Rows(t, "insert") # {})
    /\ UNCHANGED <<thread, message, clock, turns, lost, before>>

DeleteChatThread(r, t) == Begin(r, t, "clear", {}, None, {})

ClearThread(r) ==
    /\ At(r, "clear")
    /\ message' = Without(Rows(req[r].chat, "stored"))
    /\ req' = [req EXCEPT ![r].step = "remove"]
    /\ UNCHANGED <<thread, clock, turns, lost, before, raced>>

\* The foreign key of the messages rejects it when one was stored meanwhile.
RemoveThread(r) ==
    /\ At(r, "remove")
    /\ thread' = IF Rows(req[r].chat, "stored") = {} THEN [thread EXCEPT ![req[r].chat] = "deleted"]
                 ELSE thread
    /\ Finish(r)
    /\ UNCHANGED <<message, clock, turns, lost, before, raced>>

DuplicateChatThread(r, t) ==
    Begin(r, t, "copy", {}, None, {message[m] : m \in Rows(t, "stored")})

\* The new thread; without messages that is all.
CreateCopy(r) ==
    /\ At(r, "copy")
    /\ \E t \in Threads :
         /\ thread[t] = "absent"
         /\ IF req[r].copied = {}
            THEN /\ thread' = [thread EXCEPT ![t] = "present"]
                 /\ Finish(r)
            ELSE /\ thread' = [thread EXCEPT ![t] = "hidden"]
                 /\ req' = [req EXCEPT ![r].step = "copy.rows", ![r].target = t]
    /\ UNCHANGED <<message, clock, turns, lost, before, raced>>

CopyChat(r) == req[r].target

\* createMany of the rows that were read, with their times; then the user sees it.
CopyRows(r) ==
    /\ At(r, "copy.rows")
    /\ \E new \in Injection(req[r].copied, {m \in Messages : message[m] = Free}) :
         message' = [m \in Messages |->
             IF \E row \in req[r].copied : new[row] = m
             THEN [Inverse(new, req[r].copied, Messages)[m] EXCEPT !.chat = CopyChat(r)]
             ELSE message[m]]
    /\ thread' = [thread EXCEPT ![req[r].target] = "present"]
    /\ Race(req[r].target, req[r].chat \in raced)
    /\ Finish(r)
    /\ UNCHANGED <<clock, turns, lost, before>>

\* The rows to copy name a field userId that the table has not: createMany is
\* rejected and the new thread stays empty.
BranchThreadFromMessage(r, t, m) ==
    m \in Rows(t, "stored") /\ Begin(r, t, "branch", {}, None, {})

CreateBranch(r) ==
    /\ At(r, "branch")
    /\ \E t \in Threads : thread[t] = "absent" /\ thread' = [thread EXCEPT ![t] = "hidden"]
    /\ Finish(r)
    /\ UNCHANGED <<message, clock, turns, lost, before, raced>>

-----------------------------------------------------------------------------
\* A query or the provider fails, or the process dies.
Fail(r) ==
    /\ ~At(r, "idle")
    /\ Finish(r)
    /\ UNCHANGED <<thread, message, clock, turns, lost, before, raced>>

\* Time that passes is seen only when a row bears a time that has yet to pass.
Tick ==
    /\ clock < MaxTime
    /\ \E m \in Messages : message[m].status \in {"insert", "stored"} /\ message[m].at >= clock
    /\ clock' = clock + 1
    /\ UNCHANGED <<thread, message, turns, req, lost, before, raced>>

Chat(r, t) == ProcessChatStream(r, t) \/ ProcessChatPlain(r, t) \/ ProcessChatPlainStream(r, t)

Change(r, t) ==
    \/ \E m \in Messages : \/ EditThreadMessage(r, t, m) \/ RetryFromMessage(r, t, m)
                           \/ BranchThreadFromMessage(r, t, m)
    \/ DeleteChatThread(r, t)
    \/ DuplicateChatThread(r, t)

Continue(r) ==
    \/ StreamAsk(r) \/ StreamAnswer(r)
    \/ PlainAnswer(r)
    \/ PlainStreamAnswer(r) \/ PlainStreamEnd(r)
    \/ EditCommit(r) \/ RetryDelete(r)
    \/ ClearThread(r) \/ RemoveThread(r)
    \/ CreateCopy(r) \/ CopyRows(r) \/ CreateBranch(r)
    \/ Fail(r)

Next ==
    \/ \E r \in Requests, t \in Threads : Chat(r, t)
    \/ \E r \in Changers, t \in Threads : Change(r, t)
    \/ \E r \in Requests : Continue(r)
    \/ \E m \in Messages : Insert(m) \/ InsertFails(m)
    \/ Tick

Spec == Init /\ [][Next]_vars

-----------------------------------------------------------------------------
Typed ==
    /\ thread \in [Threads -> ThreadStates]
    /\ message \in [Messages -> Row \cup {Free, Gone}]
    /\ clock \in 0..MaxTime
    /\ turns \in 0..MaxTurn
    /\ req \in [Requests -> Request]
    /\ lost \subseteq 1..MaxTurn
    /\ before \subseteq (1..MaxTurn) \X (1..MaxTurn)
    /\ raced \subseteq Threads

\* The thread has been shown to the user, who may have deleted it.
Open(t) == thread[t] \in {"present", "deleted"}

(* The types of the rows and of the requests; and every message, stored or   *)
(* not yet, and every request under way are of a thread that was found or    *)
(* made, never of one that is still being copied.                            *)
TypeOK ==
    /\ Typed
    /\ \A m \in Messages : message[m].status \in {"insert", "stored"} => Open(message[m].chat)
    /\ \A r \in Requests : ~At(r, "idle") => Open(req[r].chat)

(* A thread, and every copy of it, reads as the conversation it was: each    *)
(* question before its answer, and a turn that was over before the rows of   *)
(* a turn that began after it, whichever way each turn stored its rows.      *)
ConversationInOrder ==
    \A t \in Threads : \A m, n \in Rows(t, "stored") :
        \/ <<message[m].turn, message[n].turn>> \in before
        \/ message[m].turn = message[n].turn /\ message[m].role = "user" /\ message[n].role = "model"
        => message[m].at < message[n].at

(* Whatever is edited, retried, copied or deleted, in whatever order, and    *)
(* whatever fails, an answer stays in a thread only together with its        *)
(* question, unless a change overlapped a turn of the thread (nothing waits  *)
(* for the other there) or the question could not be stored.                 *)
AnswersKeepTheirQuestion ==
    \A t \in Threads \ raced : \A n \in Rows(t, "stored") :
        message[n].role = "model" =>
            \/ message[n].turn \in lost
            \/ \E m \in Rows(t, "stored") \cup Rows(t, "insert") :
                  message[m].turn = message[n].turn /\ message[m].role = "user"
=============================================================================
