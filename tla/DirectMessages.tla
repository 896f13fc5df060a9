--------------------------- MODULE DirectMessages ---------------------------
(***************************************************************************)
(* Messages between two users: src/messaging/messaging.service.ts.          *)
(*                                                                          *)
(* The list of a user's conversations is cached for ten minutes and the     *)
(* tables Message, MessageRead and MessageDeletion are written by requests  *)
(* of several queries each, none in a transaction.  The two child tables    *)
(* refer to Message with ON DELETE RESTRICT; MessageRead has no unique      *)
(* index.  A page of a conversation is the whole conversation here.         *)
(***************************************************************************)
EXTENDS Actors

CONSTANT Messages  \* identities of Message rows (bounds the rows)

ASSUME MessageAssumption == None \notin Users \cup Messages

VARIABLES
    message,   \* message[m]: sender, receiver and whether the row is stored
    read,      \* messages with a MessageRead row, always the receiver's
    deletion,  \* deletion[m]: the users with a MessageDeletion row
    threads,   \* threads[u]: cached `conversationThreads:u`, or None
    dm         \* dm[r]: step and locals of request r

dmVars == <<message, read, deletion, threads, dm>>

DMSteps == {"idle", "send", "list.fill", "open.mark", "delete.reads", "delete.again",
            "delete.row", "erase.mark", "erase.rows"}

\* `todo`: the queries a send has started and nobody awaited in order.
DMRequest == [step : DMSteps, user : Users \cup {None}, peer : Users \cup {None},
              found : SUBSET Messages, todo : SUBSET {"invalidate", "create"},
              crossed : BOOLEAN]

DMIdle == [step |-> "idle", user |-> None, peer |-> None, found |-> {}, todo |-> {},
           crossed |-> FALSE]

NoMessage == [status |-> "unused", from |-> None, to |-> None]

\* What the cache holds: the messages the list was built from.  `crossed` is
\* no part of it: a send of the same user was under way while it was built.
ThreadList == [seen : SUBSET Messages, crossed : BOOLEAN]

DMInit ==
    /\ message = [m \in Messages |-> NoMessage]
    /\ read = {}
    /\ deletion = [m \in Messages |-> {}]
    /\ threads = [u \in Users |-> None]
    /\ dm = [r \in Requests |-> DMIdle]

-----------------------------------------------------------------------------
DMAt(r, step) == dm[r].step = step

DMFinish(r) == dm' = [dm EXCEPT ![r] = DMIdle]

StoredMessage(m) == message[m].status = "stored"

Conversation(u, v) ==
    {m \in Messages : StoredMessage(m) /\ {message[m].from, message[m].to} = {u, v}}

\* A row of a child table forbids deleting the message.
Referenced(m) == m \in read \/ deletion[m] # {}

Gone(m) == [message[m] EXCEPT !.status = "deleted"]

Sending(u) == \E r \in Requests : DMAt(r, "send") /\ dm[r].user = u

-----------------------------------------------------------------------------
(* sendMessage *)

\* The receiver is found and told by 'message.sent' to refresh; only then are
\* the invalidation and, as the handler returns, the create sent.
SendMessage(r, u, v, m) ==
    /\ DMAt(r, "idle")
    /\ u # v
    /\ message[m] = NoMessage
    /\ message' = [message EXCEPT ![m] = [status |-> "sending", from |-> u, to |-> v]]
    /\ dm' = [q \in Requests |->
                IF q = r THEN [DMIdle EXCEPT !.step = "send", !.user = u, !.peer = v,
                                 !.found = {m}, !.todo = {"invalidate", "create"}]
                ELSE IF DMAt(q, "list.fill") /\ dm[q].user = u
                     THEN [dm[q] EXCEPT !.crossed = TRUE] ELSE dm[q]]
    /\ UNCHANGED <<read, deletion, threads>>

\* The two answers arrive in either order; nobody waits for the first.
Answered(r, query) ==
    dm' = [dm EXCEPT ![r] = IF dm[r].todo = {query} THEN DMIdle
                            ELSE [dm[r] EXCEPT !.todo = @ \ {query}]]

\* Mutant: nothing is deleted from the cache.
SendInvalidateNothing(r) ==
    /\ DMAt(r, "send") /\ "invalidate" \in dm[r].todo
    /\ Answered(r, "invalidate")
    /\ UNCHANGED <<message, read, deletion, threads>>

\* The sender's list only: the receiver's stays.
SendInvalidate(r) ==
    /\ DMAt(r, "send") /\ "invalidate" \in dm[r].todo
    /\ threads' = [threads EXCEPT ![dm[r].user] = None]
    /\ Answered(r, "invalidate")
    /\ UNCHANGED <<message, read, deletion>>

SendCreate(r) ==
    /\ DMAt(r, "send") /\ "create" \in dm[r].todo
    /\ message' = [m \in Messages |-> IF m \in dm[r].found
                     THEN [message[m] EXCEPT !.status = "stored"] ELSE message[m]]
    /\ Answered(r, "create")
    /\ UNCHANGED <<read, deletion, threads>>

-----------------------------------------------------------------------------
(* getConversationThreads, after a miss; a hit returns the cached list. *)

ListRead(r, u) ==
    /\ DMAt(r, "idle")
    /\ threads[u] = None
    /\ dm' = [dm EXCEPT ![r] = [DMIdle EXCEPT !.step = "list.fill", !.user = u,
                !.found = {m \in Messages : StoredMessage(m) /\ u \in {message[m].from, message[m].to}},
                !.crossed = Sending(u)]]
    /\ UNCHANGED <<message, read, deletion, threads>>

\* One query per other user later, the list is cached.
ListFill(r) ==
    /\ DMAt(r, "list.fill")
    /\ threads' = [threads EXCEPT ![dm[r].user] = [seen |-> dm[r].found, crossed |-> dm[r].crossed]]
    /\ DMFinish(r)
    /\ UNCHANGED <<message, read, deletion>>

\* The time to live of the store.
ThreadsExpire(u) ==
    /\ threads[u] # None
    /\ threads' = [threads EXCEPT ![u] = None]
    /\ UNCHANGED <<message, read, deletion, dm>>

-----------------------------------------------------------------------------
(* getMessagesForConversation: it marks what it found unread. *)

OpenConversation(r, u, v) ==
    LET unread == {m \in Conversation(u, v) :
                     message[m].to = u /\ u \notin deletion[m] /\ m \notin read}
    IN /\ DMAt(r, "idle")
       /\ u # v
       /\ unread # {}
       /\ dm' = [dm EXCEPT ![r] = [DMIdle EXCEPT !.step = "open.mark", !.user = u, !.peer = v,
                                                 !.found = unread]]
       /\ UNCHANGED <<message, read, deletion, threads>>

\* createMany is one statement: it throws when one of the messages is gone.
\* skipDuplicates has no unique index to act on: the row may be there twice.
OpenMark(r) ==
    /\ DMAt(r, "open.mark")
    /\ read' = IF \A m \in dm[r].found : StoredMessage(m)
               THEN read \cup dm[r].found ELSE read
    /\ DMFinish(r)
    /\ UNCHANGED <<message, deletion, threads>>

-----------------------------------------------------------------------------
(* deleteMessage, by its sender *)

DeleteFindMessage(r, u, m) ==
    /\ DMAt(r, "idle")
    /\ StoredMessage(m) /\ message[m].from = u
    /\ dm' = [dm EXCEPT ![r] = [DMIdle EXCEPT !.step = "delete.reads", !.user = u, !.found = {m}]]
    /\ UNCHANGED <<message, read, deletion, threads>>

\* The read rows are deleted twice, the deletion rows never.
DeleteReads(r) ==
    /\ dm[r].step \in {"delete.reads", "delete.again"}
    /\ read' = read \ dm[r].found
    /\ dm' = [dm EXCEPT ![r].step = IF @ = "delete.reads" THEN "delete.again" ELSE "delete.row"]
    /\ UNCHANGED <<message, deletion, threads>>

\* Refused, and answered with an error, while a row refers to the message.
DeleteRow(r) ==
    /\ DMAt(r, "delete.row")
    /\ message' = [m \in Messages |-> IF m \in dm[r].found /\ ~Referenced(m)
                     THEN Gone(m) ELSE message[m]]
    /\ DMFinish(r)
    /\ UNCHANGED <<read, deletion, threads>>

-----------------------------------------------------------------------------
(* deleteConversation *)

EraseFindMessages(r, u, v) ==
    /\ DMAt(r, "idle")
    /\ u # v
    /\ Conversation(u, v) # {}
    /\ dm' = [dm EXCEPT ![r] = [DMIdle EXCEPT !.step = "erase.mark", !.user = u, !.peer = v,
                                              !.found = Conversation(u, v)]]
    /\ UNCHANGED <<message, read, deletion, threads>>

\* The unique index on (messageId, userId) makes this idempotent; a message
\* deleted meanwhile makes it throw.
EraseMark(r) ==
    /\ DMAt(r, "erase.mark")
    /\ \/ /\ \A m \in dm[r].found : StoredMessage(m)
          /\ deletion' = [m \in Messages |-> IF m \in dm[r].found
                            THEN deletion[m] \cup {dm[r].user} ELSE deletion[m]]
          /\ dm' = [dm EXCEPT ![r].step = "erase.rows"]
       \/ /\ \E m \in dm[r].found : ~StoredMessage(m)
          /\ DMFinish(r)
          /\ UNCHANGED deletion
    /\ UNCHANGED <<message, read, threads>>

\* deleteMany of those whose deletion rows are `every` one of the two users':
\* all of them.  One statement, rejected as a whole if any is referenced.
EraseRows(r) ==
    LET selected == {m \in dm[r].found : StoredMessage(m)
                                         /\ deletion[m] \subseteq {dm[r].user, dm[r].peer}}
    IN /\ DMAt(r, "erase.rows")
       /\ message' = IF \E m \in selected : Referenced(m) THEN message
                     ELSE [m \in Messages |-> IF m \in selected THEN Gone(m) ELSE message[m]]
       /\ DMFinish(r)
       /\ UNCHANGED <<read, deletion, threads>>

-----------------------------------------------------------------------------
DMNext ==
    \/ \E r \in Requests :
         \/ \E u, v \in Users, m \in Messages : SendMessage(r, u, v, m)
         \/ \E u \in Users, m \in Messages : DeleteFindMessage(r, u, m)
         \/ \E u, v \in Users : OpenConversation(r, u, v) \/ EraseFindMessages(r, u, v)
         \/ \E u \in Readers : ListRead(r, u)
         \/ SendInvalidate(r)
         \/ SendCreate(r)
         \/ ListFill(r)
         \/ OpenMark(r)
         \/ DeleteReads(r)
         \/ DeleteRow(r)
         \/ EraseMark(r)
         \/ EraseRows(r)
    \/ \E u \in Users : ThreadsExpire(u)

-----------------------------------------------------------------------------
(* The types of the rows, the cached lists and the requests. *)
DMTypeOK ==
    /\ message \in [Messages -> [status : {"unused", "sending", "stored", "deleted"},
                                 from : Users \cup {None}, to : Users \cup {None}]]
    /\ read \subseteq Messages
    /\ deletion \in [Messages -> SUBSET Users]
    /\ threads \in [Users -> ThreadList \cup {None}]
    /\ dm \in [Requests -> DMRequest]

(* Once a send has been answered, the sender's own list shows the message,   *)
(* although the cache is invalidated before or while the row is written:     *)
(* only a list that was being built during a send of the same user misses it.*)
SenderSeesOwnMessages ==
    \A u \in Users :
        (threads[u] # None /\ ~Sending(u)) =>
            \/ threads[u].crossed
            \/ {m \in Messages : StoredMessage(m) /\ message[m].from = u} \subseteq threads[u].seen

=============================================================================
