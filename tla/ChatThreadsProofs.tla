------------------------- MODULE ChatThreadsProofs -------------------------
(***************************************************************************)
(* Theorems about the chat threads, for any number of threads, messages,    *)
(* turns and concurrent requests.                                           *)
(*                                                                          *)
(* NextKinds sorts the actions by what they do to the rows: a turn or a     *)
(* change begins, a turn sends rows, a request ends and may delete, a copy  *)
(* is stored, an insert settles, time passes.  OrderInv adds to the order   *)
(* what a turn finds of itself and of the turns before it; all steps but    *)
(* the sending of rows are Quiet: they add nothing to what was told.        *)
(* KeepInv adds that, where no change met a turn, whatever a request has    *)
(* read to delete or to copy goes by whole turns.                           *)
(***************************************************************************)
EXTENDS ChatThreads, TLAPS

-----------------------------------------------------------------------------
(* The types, and what a request knows at its step.                          *)

Filled == {m \in Messages : message[m].status \in {"insert", "stored"}}

\* A request with locals q, while the threads are th and n turns have begun.
Shape(q, th, n) ==
    /\ q.step = "idle" => q = IdleRequest
    /\ q.step # "idle" => q.chat \in Threads /\ th[q.chat] \in {"present", "deleted"}
    /\ q.step \in Turning => q.turn \in 1..n
    /\ q.step \notin Turning => q.turn = 0
    /\ q.step = "edit" => q.edited \in Messages
    /\ q.step = "copy.rows" => q.target \in Threads /\ th[q.target] = "hidden"
    /\ \A x \in q.copied : x.turn \in 1..n /\ x.status = "stored"

\* Requests have turns of their own, and copies threads of their own.
RequestsInv ==
    /\ \A r \in Requests : Shape(req[r], thread, turns)
    /\ \A r, s \in Requests :
          r # s => /\ req[r].turn = 0 \/ req[r].turn # req[s].turn
                   /\ At(r, "copy.rows") /\ At(s, "copy.rows") => req[r].target # req[s].target

\* Rows are of turns that have begun and of threads that were made.
RowsInv ==
    \A m \in Filled : message[m].turn \in 1..turns /\ Open(message[m].chat)

TypeInv ==
    /\ Typed
    /\ RequestsInv
    /\ RowsInv
    /\ before \subseteq (1..turns) \X (1..turns)

-----------------------------------------------------------------------------
(* Lemmas about rows and requests.                                           *)

\* Only rows are filled.
LEMMA FilledRow ==
  ASSUME Typed, NEW m \in Messages
  PROVE  /\ m \in Filled <=> message[m] \in Row
         /\ m \in Filled => message[m] # Free /\ message[m] # Gone
  BY DEF Typed, Filled, Row, Free, Gone, NoRow

\* r moves, the other requests do not.
Moves(r) == req'[r] \in Request /\ req' = [req EXCEPT ![r] = req'[r]]

\* A request that is given a value of its type moves to it.
LEMMA MovesTo ==
  ASSUME req \in [Requests -> Request], NEW r \in Requests, NEW q \in Request,
         req' = [req EXCEPT ![r] = q]
  PROVE  Moves(r) /\ req'[r] = q
  BY DEF Moves

LEMMA IdleTyped ==
  IdleRequest \in Request /\ \A th, n : Shape(IdleRequest, th, n)
  BY DEF IdleRequest, Request, Steps, Shape, Turning

\* A request that ends is idle.
LEMMA Finishes ==
  ASSUME req \in [Requests -> Request], NEW r \in Requests, Finish(r)
  PROVE  Moves(r) /\ req'[r] = IdleRequest
  BY MovesTo, IdleTyped DEF Finish

\* What a thread may become while requests run.
ThreadsGrow ==
    /\ thread' \in [Threads -> ThreadStates]
    /\ turns' \in 0..MaxTurn /\ turns <= turns'
    /\ \A t \in Threads : Open(t) => thread'[t] \in {"present", "deleted"}

\* The requests keep their shapes when one of them moves.
LEMMA MovesKeep ==
  ASSUME ChatAssumption, TypeInv, NEW r \in Requests, Moves(r), ThreadsGrow,
         Shape(req'[r], thread', turns'),
         req'[r].turn = 0 \/ req'[r].turn = req[r].turn \/ req'[r].turn > turns,
         \A s \in Requests \ {r} : At(s, "copy.rows") =>
            /\ thread'[req[s].target] = "hidden"
            /\ req'[r].step = "copy.rows" => req'[r].target # req[s].target
  PROVE  RequestsInv'
<1>1. \A s \in Requests \ {r} : req'[s] = req[s]
  BY DEF Moves, TypeInv, Typed
<1>2. turns \in Nat /\ turns' \in Nat /\ turns <= turns'
  BY DEF TypeInv, Typed, ThreadsGrow, ChatAssumption
<1>3. ASSUME NEW s \in Requests
      PROVE  Shape(req'[s], thread', turns')
  <2>1. CASE s = r
    BY <2>1
  <2>2. CASE s # r
    <3>1. req'[s] = req[s] /\ Shape(req[s], thread, turns)
      BY <1>1, <2>2 DEF TypeInv, RequestsInv
    <3>2. req[s].step = "copy.rows" => thread'[req[s].target] = "hidden"
      BY <2>2 DEF At
    <3>3. req[s].chat \in Threads /\ thread[req[s].chat] \in {"present", "deleted"}
          => thread'[req[s].chat] \in {"present", "deleted"}
      BY DEF ThreadsGrow, Open
    <3>4. \A i \in 1..turns : i \in 1..turns'
      BY <1>2
    <3> QED
      BY <3>1, <3>2, <3>3, <3>4 DEF Shape
  <2> QED
    BY <2>1, <2>2
<1>4. \A s \in Requests : req[s].turn \in 0..turns
  BY <1>2 DEF TypeInv, RequestsInv, Shape
<1>5. ASSUME NEW s \in Requests, NEW u \in Requests, s # u
      PROVE  /\ req'[s].turn = 0 \/ req'[s].turn # req'[u].turn
             /\ (req'[s].step = "copy.rows" /\ req'[u].step = "copy.rows")
                => req'[s].target # req'[u].target
  <2>1. CASE s = r
    BY <1>1, <1>2, <1>4, <1>5, <2>1 DEF TypeInv, RequestsInv, At
  <2>2. CASE u = r
    BY <1>1, <1>2, <1>4, <1>5, <2>2 DEF TypeInv, RequestsInv, At
  <2>3. CASE s # r /\ u # r
    BY <1>1, <1>5, <2>3 DEF TypeInv, RequestsInv, At
  <2> QED
    BY <2>1, <2>2, <2>3
<1> QED
  BY <1>3, <1>5 DEF RequestsInv, At

-----------------------------------------------------------------------------
(* The kinds of steps.                                                       *)

HiddenStay == \A t \in Threads : thread[t] = "hidden" => thread'[t] = "hidden"

BeginsTurn(r) ==
    /\ Moves(r) /\ At(r, "idle")
    /\ req'[r].step \in {"stream.ask", "plain", "plainStream"}
    /\ req'[r].turn = turns + 1 /\ req'[r].listed = {} /\ req'[r].copied = {}
    /\ req'[r].chat \in Threads /\ thread'[req'[r].chat] \in {"present", "deleted"}
    /\ ThreadsGrow /\ HiddenStay
    /\ turns' = turns + 1
    /\ before' = before \cup {<<i, turns + 1>> : i \in {j \in 1..turns : Over(j)}}
    /\ raced \subseteq raced' /\ raced' \subseteq Threads
    /\ Serving(req'[r].chat, Changing) => req'[r].chat \in raced'
    /\ UNCHANGED <<message, clock, lost>>

\* The messages listed end the thread: those after some time and some of that time.
EndsThread(S, t) ==
    /\ S \subseteq Rows(t, "stored")
    /\ \E time \in Nat : /\ \A m \in S : message[m].at >= time
                         /\ \A m \in Rows(t, "stored") : message[m].at > time => m \in S

BeginsChange(r) ==
    /\ Moves(r) /\ At(r, "idle")
    /\ req'[r].step \in {"edit", "retry", "clear", "copy", "branch"}
    /\ req'[r].chat \in Threads /\ thread[req'[r].chat] = "present"
    /\ req'[r].turn = 0
    /\ req'[r].step = "edit" => req'[r].edited \in Messages
    /\ req'[r].listed # {} => EndsThread(req'[r].listed, req'[r].chat)
    /\ req'[r].step \notin {"edit", "retry"} => req'[r].listed = {}
    /\ \/ req'[r].copied = {}
       \/ req'[r].copied = {message[m] : m \in Rows(req'[r].chat, "stored")}
    /\ raced \subseteq raced' /\ raced' \subseteq Threads
    /\ \/ req'[r].chat \in raced'
       \/ ~Serving(req'[r].chat, Turning) /\ Rows(req'[r].chat, "insert") = {}
    /\ UNCHANGED <<thread, message, clock, turns, lost, before>>

\* A row of the turn of r.
TurnRow(r, row) == row \in Row /\ row.chat = req[r].chat /\ row.turn = req[r].turn

Sends(r) ==
    /\ Moves(r)
    /\ message' = [m \in Messages |-> message'[m]]
    /\ \A m \in Messages :
          \/ message'[m] = message[m]
          \/ message[m] = Free /\ message'[m] = Gone
          \/ /\ message[m] = Free /\ TurnRow(r, message'[m])
             /\ \/ At(r, "stream.ask") /\ message'[m].role = "user" /\ message'[m].at = clock
                \/ At(r, "stream.answer") /\ message'[m].role = "model" /\ message'[m].at = clock
                \/ /\ req[r].step \in {"plain", "plainStream"}
                   /\ \E n \in Messages :
                        /\ TurnRow(r, message'[n])
                        /\ message'[n].role = "user" /\ message'[n].at = clock
                   /\ \/ message'[m].role = "user" /\ message'[m].at = clock
                      \/ message'[m].role = "model" /\ message'[m].at = clock + Second
    /\ \/ /\ At(r, "stream.ask")
          /\ req'[r] = [req[r] EXCEPT !.step = "stream.answer"]
          /\ clock' = clock + 1 /\ clock' \in 0..MaxTime
          /\ \E m \in Messages : TurnRow(r, message'[m]) /\ message'[m].role = "user"
       \/ /\ req[r].step \in {"stream.answer", "plain"}
          /\ req'[r] = IdleRequest
          /\ clock' = clock
       \/ /\ At(r, "plainStream")
          /\ req'[r] = [req[r] EXCEPT !.step = "saving"]
          /\ clock' = clock
    /\ UNCHANGED <<thread, turns, lost, before, raced>>

Ends(r) ==
    /\ Moves(r) /\ ~At(r, "idle")
    /\ \/ req'[r] = IdleRequest
       \/ At(r, "clear") /\ req'[r] = [req[r] EXCEPT !.step = "remove"]
       \/ /\ At(r, "copy")
          /\ \E t \in Threads :
               /\ thread[t] = "absent" /\ thread'[t] = "hidden"
               /\ req'[r] = [req[r] EXCEPT !.step = "copy.rows", !.target = t]
    /\ ThreadsGrow /\ HiddenStay
    /\ \/ message' = message
       \/ At(r, "edit") /\ message' = Without(req[r].listed)
       \/ At(r, "retry") /\ message' = Without(req[r].listed)
       \/ At(r, "clear") /\ message' = Without(Rows(req[r].chat, "stored"))
    /\ UNCHANGED <<clock, turns, lost, before, raced>>

\* The rows that were read are stored again, each once, in the new thread.
Copies(r) ==
    /\ Moves(r) /\ At(r, "copy.rows") /\ req'[r] = IdleRequest
    /\ message' = [m \in Messages |-> message'[m]]
    /\ \A m \in Messages :
          \/ message'[m] = message[m]
          \/ /\ message[m] = Free
             /\ \E x \in req[r].copied : message'[m] = [x EXCEPT !.chat = req[r].target]
    /\ \A x \in req[r].copied : \E m \in Messages : message'[m] = [x EXCEPT !.chat = req[r].target]
    /\ thread' = [thread EXCEPT ![req[r].target] = "present"]
    /\ raced \subseteq raced' /\ raced' \subseteq Threads
    /\ req[r].chat \in raced => req[r].target \in raced'
    /\ UNCHANGED <<clock, turns, lost, before>>

Settles(m) ==
    /\ message[m].status = "insert"
    /\ message' = [message EXCEPT ![m] = message'[m]]
    /\ \/ message'[m] = [message[m] EXCEPT !.status = "stored"] /\ UNCHANGED lost
       \/ /\ message'[m] = Gone
          /\ lost' = IF message[m].role = "user" THEN lost \cup {message[m].turn} ELSE lost
    /\ UNCHANGED <<thread, clock, turns, req, before, raced>>

Ticks == clock' \in 0..MaxTime /\ clock <= clock' /\ UNCHANGED <<thread, message, turns, req, lost, before, raced>>

-----------------------------------------------------------------------------
(* Every step is of one of these kinds.                                      *)

LEMMA TurnKind ==
  ASSUME ChatAssumption, TypeInv, NEW r \in Requests, NEW t \in Threads,
         NEW step \in {"stream.ask", "plain", "plainStream"}, BeginTurn(r, t, step)
  PROVE  BeginsTurn(r)
<1> DEFINE q == [IdleRequest EXCEPT !.step = step, !.chat = t, !.turn = turns + 1]
<1>1. turns \in Nat /\ turns + 1 \in Nat /\ turns + 1 \in 0..MaxTurn
  BY DEF BeginTurn, TypeInv, Typed, ChatAssumption
<1>2. req[r] = IdleRequest
  BY DEF BeginTurn, At, TypeInv, RequestsInv, Shape
<1>3. /\ q \in Request /\ q.step = step /\ q.chat = t /\ q.turn = turns + 1
      /\ q.listed = {} /\ q.copied = {}
  <2> DEFINE k == turns + 1
  <2>1. k \in Nat /\ q = [IdleRequest EXCEPT !.step = step, !.chat = t, !.turn = k] /\ k = turns + 1
    BY <1>1
  <2> HIDE DEF k, q
  <2> QED
    BY <2>1 DEF IdleRequest, Request, Steps
<1>4. req' = [req EXCEPT ![r] = q]
  BY <1>2 DEF BeginTurn, TypeInv, Typed
<1> HIDE DEF q
<1>5. Moves(r) /\ req'[r] = q
  BY <1>3, <1>4, MovesTo DEF TypeInv, Typed
<1>6. /\ thread' \in [Threads -> ThreadStates]
      /\ \A u \in Threads : Open(u) \/ thread[u] = "hidden" => thread'[u] = thread[u]
      /\ thread'[t] \in {"present", "deleted"}
  BY DEF BeginTurn, TypeInv, Typed, Open, ThreadStates
<1>7. ThreadsGrow /\ HiddenStay
  BY <1>1, <1>6 DEF ThreadsGrow, HiddenStay, Open, BeginTurn
<1>8. /\ raced \subseteq raced' /\ raced' \subseteq Threads
      /\ Serving(t, Changing) => t \in raced'
  BY DEF BeginTurn, Race, TypeInv, Typed
<1> QED
  BY <1>3, <1>5, <1>6, <1>7, <1>8 DEF BeginsTurn, BeginTurn

LEMMA ChangeKind ==
  ASSUME TypeInv, NEW r \in Requests, NEW t \in Threads,
         NEW step \in {"edit", "retry", "clear", "copy", "branch"},
         NEW listed \in SUBSET Messages, NEW edited \in Messages \cup {None},
         NEW copied, copied = {} \/ copied = {message[m] : m \in Rows(t, "stored")},
         step = "edit" => edited \in Messages,
         listed = {} \/ EndsThread(listed, t), step \notin {"edit", "retry"} => listed = {},
         Begin(r, t, step, listed, edited, copied)
  PROVE  BeginsChange(r)
<1> DEFINE q == [IdleRequest EXCEPT !.step = step, !.chat = t, !.listed = listed,
                                    !.edited = edited, !.copied = copied]
<1>1. copied \subseteq Row
  <2>1. \A m \in Rows(t, "stored") : message[m] \in Row
    BY FilledRow DEF TypeInv, Rows, Filled
  <2> QED
    BY <2>1
<1>2. req[r] = IdleRequest
  BY DEF Begin, At, TypeInv, RequestsInv, Shape
<1>3. /\ q \in Request /\ q.step = step /\ q.chat = t /\ q.turn = 0
      /\ q.listed = listed /\ q.edited = edited /\ q.copied = copied
  BY <1>1 DEF IdleRequest, Request, Steps
<1>4. req' = [req EXCEPT ![r] = q]
  BY <1>2 DEF Begin, TypeInv, Typed
<1> HIDE DEF q
<1>5. Moves(r) /\ req'[r] = q
  BY <1>3, <1>4, MovesTo DEF TypeInv, Typed
<1>6. /\ raced \subseteq raced' /\ raced' \subseteq Threads
      /\ Serving(t, Turning) \/ Rows(t, "insert") # {} => t \in raced'
  BY DEF Begin, Race, TypeInv, Typed
<1> QED
  BY <1>3, <1>5, <1>6 DEF BeginsChange, Begin

\* The messages that the code lists after m, with or without m, end the thread.
LEMMA TailsEnd ==
  ASSUME TypeInv, NEW t \in Threads, NEW m \in Rows(t, "stored"), NEW tail \in Tails(m)
  PROVE  EndsThread(tail, t) /\ EndsThread(tail \cup {m}, t)
<1>1. m \in Messages /\ message[m].chat = t /\ message[m].at \in Nat
  BY FilledRow DEF Rows, Filled, TypeInv, Row
<1>2. /\ tail \subseteq Rows(t, "stored")
      /\ \A n \in Rows(t, "stored") : n # m /\ message[n].at > message[m].at => n \in tail
      /\ \A n \in tail : message[n].at >= message[m].at
  <2>1. \A n \in Rows(t, "stored") : message[n].at \in Nat
    BY FilledRow DEF Rows, Filled, TypeInv, Row
  <2> QED
    BY <1>1, <2>1 DEF Tails, ListedAfter
<1>3. ~(message[m].at > message[m].at) /\ message[m].at >= message[m].at
  BY <1>1
<1>4. \A S \in {tail, tail \cup {m}} :
         /\ S \subseteq Rows(t, "stored")
         /\ \A n \in S : message[n].at >= message[m].at
         /\ \A n \in Rows(t, "stored") : message[n].at > message[m].at => n \in S
  BY <1>2, <1>3
<1> QED
  BY <1>1, <1>4 DEF EndsThread

LEMMA ChangeKinds ==
  ASSUME ChatAssumption, TypeInv, NEW r \in Requests, NEW t \in Threads, Change(r, t)
  PROVE  BeginsChange(r)
<1>1. ASSUME NEW m \in Messages, EditThreadMessage(r, t, m)
      PROVE  BeginsChange(r)
  <2>1. PICK tail \in Tails(m) : m \in Rows(t, "stored") /\ Begin(r, t, "edit", tail, m, {})
    BY <1>1 DEF EditThreadMessage
  <2>2. EndsThread(tail, t) /\ tail \subseteq Messages
    BY <2>1, TailsEnd DEF EndsThread, Rows
  <2> QED
    BY <2>1, <2>2, ChangeKind
<1>2. ASSUME NEW m \in Messages, RetryFromMessage(r, t, m)
      PROVE  BeginsChange(r)
  <2>1. PICK tail \in Tails(m) :
           m \in Rows(t, "stored") /\ Begin(r, t, "retry", tail \cup {m}, None, {})
    BY <1>2 DEF RetryFromMessage
  <2>2. EndsThread(tail \cup {m}, t) /\ tail \cup {m} \subseteq Messages
    BY <2>1, TailsEnd DEF EndsThread, Rows
  <2> QED
    BY <2>1, <2>2, ChangeKind
<1>3. ASSUME NEW m \in Messages, BranchThreadFromMessage(r, t, m)
      PROVE  BeginsChange(r)
  BY <1>3, ChangeKind DEF BranchThreadFromMessage
<1>4. CASE DeleteChatThread(r, t)
  BY <1>4, ChangeKind DEF DeleteChatThread
<1>5. CASE DuplicateChatThread(r, t)
  BY <1>5, ChangeKind DEF DuplicateChatThread
<1> QED
  BY <1>1, <1>2, <1>3, <1>4, <1>5 DEF Change

\* The rows that a turn stores.
LEMMA NewRowTyped ==
  ASSUME TypeInv, NEW r \in Requests, ~At(r, "idle"), NEW ro \in {"user", "model"},
         NEW at \in Nat, NEW st \in {"insert", "stored"}
  PROVE  LET row == NewRow(r, ro, at, st)
         IN  TurnRow(r, row) /\ row.role = ro /\ row.at = at /\ row.status = st
             /\ [row EXCEPT !.status = "stored"] = NewRow(r, ro, at, "stored")
<1>1. req[r].chat \in Threads /\ req[r].turn \in Nat
  BY DEF TypeInv, Typed, RequestsInv, Shape, Request, At
<1> QED
  BY <1>1 DEF NewRow, TurnRow, Row

LEMMA Stays ==
  ASSUME TypeInv, NEW r \in Requests, ~At(r, "idle"), NEW step \in Steps,
         req' = [req EXCEPT ![r].step = step]
  PROVE  Moves(r) /\ req'[r] = [req[r] EXCEPT !.step = step]
<1> DEFINE q == [req[r] EXCEPT !.step = step]
<1>1. q \in Request
  BY DEF TypeInv, Typed, Request
<1>2. req' = [req EXCEPT ![r] = q]
  BY DEF TypeInv, Typed
<1> HIDE DEF q
<1>3. Moves(r) /\ req'[r] = q
  BY <1>1, <1>2, MovesTo DEF TypeInv, Typed
<1> QED
  BY <1>3 DEF q

LEMMA StreamAskSends ==
  ASSUME ChatAssumption, TypeInv, NEW r \in Requests, StreamAsk(r)
  PROVE  Sends(r)
<1>1. PICK m \in Messages :
         message[m] = Free /\ message' = [message EXCEPT ![m] = NewRow(r, "user", clock, "insert")]
  BY DEF StreamAsk, SendRow
<1>2. clock \in Nat /\ clock + 1 \in 0..MaxTime
  BY DEF StreamAsk, TypeInv, Typed, ChatAssumption
<1> DEFINE row == NewRow(r, "user", clock, "insert")
<1>3. TurnRow(r, row) /\ row.role = "user" /\ row.at = clock
  BY <1>2, NewRowTyped DEF StreamAsk, At
<1>4. Moves(r) /\ req'[r] = [req[r] EXCEPT !.step = "stream.answer"]
  BY Stays DEF StreamAsk, At, Steps
<1> HIDE DEF row
<1>5. message' = [message EXCEPT ![m] = row]
  BY <1>1 DEF row
<1>6. /\ message' = [n \in Messages |-> message'[n]] /\ message'[m] = row
      /\ \A n \in Messages : n # m => message'[n] = message[n]
  BY <1>5 DEF TypeInv, Typed
<1>7. At(r, "stream.ask") /\ clock' = clock + 1
      /\ UNCHANGED <<thread, turns, lost, before, raced>>
  BY DEF StreamAsk, SendRow
<1>8. clock' \in 0..MaxTime
  BY <1>2, <1>7
<1>9. \A n \in Messages :
         \/ message'[n] = message[n]
         \/ message[n] = Free /\ TurnRow(r, message'[n]) /\ message'[n].role = "user"
            /\ message'[n].at = clock
  BY <1>1, <1>3, <1>6
<1>10. \E n \in Messages : TurnRow(r, message'[n]) /\ message'[n].role = "user"
  BY <1>3, <1>6
<1> QED
  BY <1>4, <1>6, <1>7, <1>8, <1>9, <1>10 DEF Sends

LEMMA StreamAnswerSends ==
  ASSUME ChatAssumption, TypeInv, NEW r \in Requests, StreamAnswer(r)
  PROVE  Sends(r)
<1>1. PICK m \in Messages :
         message[m] = Free /\ message' = [message EXCEPT ![m] = NewRow(r, "model", clock, "insert")]
  BY DEF StreamAnswer, SendRow
<1>2. clock \in Nat
  BY DEF TypeInv, Typed, ChatAssumption
<1> DEFINE row == NewRow(r, "model", clock, "insert")
<1>3. TurnRow(r, row) /\ row.role = "model" /\ row.at = clock
  BY <1>2, NewRowTyped DEF StreamAnswer, At
<1>4. Moves(r) /\ req'[r] = IdleRequest
  BY Finishes DEF StreamAnswer, TypeInv, Typed
<1> HIDE DEF row
<1>5. message' = [message EXCEPT ![m] = row]
  BY <1>1 DEF row
<1>6. /\ message' = [n \in Messages |-> message'[n]] /\ message'[m] = row
      /\ \A n \in Messages : n # m => message'[n] = message[n]
  BY <1>5 DEF TypeInv, Typed
<1>7. At(r, "stream.answer") /\ UNCHANGED <<thread, clock, turns, lost, before, raced>>
  BY DEF StreamAnswer, SendRow
<1>8. \A n \in Messages :
         \/ message'[n] = message[n]
         \/ message[n] = Free /\ TurnRow(r, message'[n]) /\ message'[n].role = "model"
            /\ message'[n].at = clock
  BY <1>1, <1>3, <1>6
<1> QED
  BY <1>4, <1>6, <1>7, <1>8 DEF Sends, At

LEMMA SendTurnSends ==
  ASSUME ChatAssumption, TypeInv, NEW r \in Requests, req[r].step \in {"plain", "plainStream"},
         NEW x, NEW y, SendTurn(x, y),
         \/ /\ x = Gone /\ y = Gone
         \/ /\ TurnRow(r, x) /\ x.role = "user" /\ x.at = clock
            /\ TurnRow(r, y) /\ y.role = "model" /\ y.at = clock + Second,
         Moves(r),
         \/ At(r, "plain") /\ req'[r] = IdleRequest
         \/ At(r, "plainStream") /\ req'[r] = [req[r] EXCEPT !.step = "saving"]
  PROVE  Sends(r)
<1>1. PICK m \in Messages, n \in Messages :
         /\ m # n /\ message[m] = Free /\ message[n] = Free
         /\ message' = [message EXCEPT ![m] = x, ![n] = y]
  BY DEF SendTurn
<1>2. /\ message' = [k \in Messages |-> message'[k]] /\ message'[m] = x /\ message'[n] = y
      /\ \A k \in Messages : k # m /\ k # n => message'[k] = message[k]
  BY <1>1 DEF TypeInv, Typed
<1>3. UNCHANGED <<thread, clock, turns, lost, before, raced>>
  BY DEF SendTurn
<1>4. ASSUME NEW k \in Messages
      PROVE  \/ message'[k] = message[k]
             \/ message[k] = Free /\ message'[k] = Gone
             \/ /\ message[k] = Free /\ TurnRow(r, message'[k])
                /\ \E i \in Messages :
                        /\ TurnRow(r, message'[i])
                        /\ message'[i].role = "user" /\ message'[i].at = clock
                /\ \/ message'[k].role = "user" /\ message'[k].at = clock
                   \/ message'[k].role = "model" /\ message'[k].at = clock + Second
  BY <1>1, <1>2
<1> QED
  BY <1>2, <1>3, <1>4 DEF Sends, At

LEMMA PlainAnswerSends ==
  ASSUME ChatAssumption, TypeInv, NEW r \in Requests, PlainAnswer(r)
  PROVE  Sends(r)
<1> DEFINE x == Settled(Question(r))
           y == Settled(Answer(r))
<1>1. clock \in Nat /\ clock + Second \in Nat
  BY DEF TypeInv, Typed, ChatAssumption
<1>2. At(r, "plain") /\ ~At(r, "idle") /\ SendTurn(x, y) /\ Moves(r) /\ req'[r] = IdleRequest
  BY Finishes DEF PlainAnswer, TypeInv, Typed, At
<1>3. Question(r).chat = Answer(r).chat
  BY DEF Question, Answer, NewRow
<1>4. \/ x = Gone /\ y = Gone
      \/ x = NewRow(r, "user", clock, "stored") /\ y = NewRow(r, "model", clock + Second, "stored")
  BY <1>1, <1>2, <1>3, NewRowTyped DEF Settled, Question, Answer, AnswerTime
<1>5. \/ x = Gone /\ y = Gone
      \/ /\ TurnRow(r, x) /\ x.role = "user" /\ x.at = clock
         /\ TurnRow(r, y) /\ y.role = "model" /\ y.at = clock + Second
  BY <1>1, <1>2, <1>4, NewRowTyped
<1> HIDE DEF x, y
<1> QED
  BY <1>2, <1>5, SendTurnSends DEF At

LEMMA PlainStreamAnswerSends ==
  ASSUME ChatAssumption, TypeInv, NEW r \in Requests, PlainStreamAnswer(r)
  PROVE  Sends(r)
<1> DEFINE x == Question(r)
           y == Answer(r)
<1>1. clock \in Nat /\ clock + Second \in Nat
  BY DEF TypeInv, Typed, ChatAssumption
<1>2. /\ At(r, "plainStream") /\ ~At(r, "idle") /\ SendTurn(x, y)
      /\ Moves(r) /\ req'[r] = [req[r] EXCEPT !.step = "saving"]
  BY Stays DEF PlainStreamAnswer, At, Steps
<1>3. /\ TurnRow(r, x) /\ x.role = "user" /\ x.at = clock
      /\ TurnRow(r, y) /\ y.role = "model" /\ y.at = clock + Second
  BY <1>1, <1>2, NewRowTyped DEF Question, Answer, AnswerTime
<1> HIDE DEF x, y
<1> QED
  BY <1>2, <1>3, SendTurnSends DEF At

\* A request that ends and leaves the threads alone.
LEMMA FinishEnds ==
  ASSUME TypeInv, NEW r \in Requests, ~At(r, "idle"), Finish(r),
         ThreadsGrow, HiddenStay,
         \/ message' = message
         \/ At(r, "edit") /\ message' = Without(req[r].listed)
         \/ At(r, "retry") /\ message' = Without(req[r].listed),
         UNCHANGED <<clock, turns, lost, before, raced>>
  PROVE  Ends(r)
<1>1. Moves(r) /\ req'[r] = IdleRequest
  BY Finishes DEF TypeInv, Typed
<1> QED
  BY <1>1 DEF Ends

LEMMA ThreadsStay ==
  ASSUME ChatAssumption, TypeInv, UNCHANGED <<thread, turns>>
  PROVE  ThreadsGrow /\ HiddenStay
<1>1. turns \in Nat /\ turns' = turns
  BY DEF TypeInv, Typed, ChatAssumption
<1> QED
  BY <1>1 DEF ThreadsGrow, HiddenStay, Open, TypeInv, Typed

LEMMA ThreadMoves ==
  ASSUME ChatAssumption, TypeInv, NEW t \in Threads, NEW state \in ThreadStates,
         thread[t] # "hidden", Open(t) => state \in {"present", "deleted"},
         thread' = [thread EXCEPT ![t] = state], turns' = turns
  PROVE  ThreadsGrow /\ HiddenStay
<1>1. turns \in Nat /\ turns' = turns
  BY DEF TypeInv, Typed, ChatAssumption
<1> QED
  BY <1>1 DEF ThreadsGrow, HiddenStay, Open, TypeInv, Typed, ThreadStates

LEMMA RemoveEnds ==
  ASSUME ChatAssumption, TypeInv, NEW r \in Requests, RemoveThread(r)
  PROVE  Ends(r)
<1>1. req[r].chat \in Threads /\ Open(req[r].chat)
  BY DEF RemoveThread, At, TypeInv, RequestsInv, Shape, Open
<1>2. thread' = thread \/ thread' = [thread EXCEPT ![req[r].chat] = "deleted"]
  BY DEF RemoveThread
<1>3. ThreadsGrow /\ HiddenStay
  <2>1. CASE thread' = thread
    BY <2>1, ThreadsStay DEF RemoveThread
  <2>2. CASE thread' = [thread EXCEPT ![req[r].chat] = "deleted"]
    BY <1>1, <2>2, ThreadMoves DEF RemoveThread, Open, ThreadStates
  <2> QED
    BY <1>2, <2>1, <2>2
<1> QED
  BY <1>3, FinishEnds DEF RemoveThread, At

LEMMA ClearEnds ==
  ASSUME ChatAssumption, TypeInv, NEW r \in Requests, ClearThread(r)
  PROVE  Ends(r)
<1>1. Moves(r) /\ req'[r] = [req[r] EXCEPT !.step = "remove"]
  BY Stays DEF ClearThread, At, Steps
<1>2. ThreadsGrow /\ HiddenStay
  BY ThreadsStay DEF ClearThread
<1> QED
  BY <1>1, <1>2 DEF Ends, ClearThread, At

LEMMA CreateCopyEnds ==
  ASSUME ChatAssumption, TypeInv, NEW r \in Requests, CreateCopy(r)
  PROVE  Ends(r)
<1>1. PICK t \in Threads :
         /\ thread[t] = "absent"
         /\ \/ thread' = [thread EXCEPT ![t] = "present"] /\ Finish(r)
            \/ /\ thread' = [thread EXCEPT ![t] = "hidden"]
               /\ req' = [req EXCEPT ![r].step = "copy.rows", ![r].target = t]
  BY DEF CreateCopy
<1>2. ThreadsGrow /\ HiddenStay
  <2>1. CASE thread' = [thread EXCEPT ![t] = "present"]
    BY <1>1, <2>1, ThreadMoves DEF CreateCopy, Open, ThreadStates
  <2>2. CASE thread' = [thread EXCEPT ![t] = "hidden"]
    BY <1>1, <2>2, ThreadMoves DEF CreateCopy, Open, ThreadStates
  <2> QED
    BY <1>1, <2>1, <2>2
<1>3. CASE Finish(r)
  BY <1>2, <1>3, FinishEnds DEF CreateCopy, At
<1>4. CASE /\ thread' = [thread EXCEPT ![t] = "hidden"]
           /\ req' = [req EXCEPT ![r].step = "copy.rows", ![r].target = t]
  <2> DEFINE q == [req[r] EXCEPT !.step = "copy.rows", !.target = t]
  <2>1. q \in Request
    <3>1. req[r] \in Request
      BY DEF TypeInv, Typed
    <3> QED
      BY <3>1 DEF Request, Steps
  <2>2. req' = [req EXCEPT ![r] = q]
    BY <1>4 DEF TypeInv, Typed
  <2> HIDE DEF q
  <2>3. Moves(r) /\ req'[r] = q
    BY <2>1, <2>2, MovesTo DEF TypeInv, Typed
  <2>4. thread'[t] = "hidden"
    BY <1>4 DEF TypeInv, Typed
  <2> QED
    BY <1>1, <1>2, <2>3, <2>4 DEF Ends, CreateCopy, At, q
<1> QED
  BY <1>1, <1>3, <1>4

LEMMA EndKinds ==
  ASSUME ChatAssumption, TypeInv, NEW r \in Requests,
         \/ PlainStreamEnd(r) \/ EditCommit(r) \/ RetryDelete(r) \/ CreateBranch(r) \/ Fail(r)
  PROVE  Ends(r)
<1>1. CASE PlainStreamEnd(r)
  BY <1>1, FinishEnds, ThreadsStay DEF PlainStreamEnd, At
<1>2. CASE EditCommit(r)
  BY <1>2, FinishEnds, ThreadsStay DEF EditCommit, At
<1>3. CASE RetryDelete(r)
  BY <1>3, FinishEnds, ThreadsStay DEF RetryDelete, At
<1>4. CASE CreateBranch(r)
  <2>1. PICK t \in Threads : thread[t] = "absent" /\ thread' = [thread EXCEPT ![t] = "hidden"]
    BY <1>4 DEF CreateBranch
  <2>2. ThreadsGrow /\ HiddenStay
    BY <1>4, <2>1, ThreadMoves DEF CreateBranch, Open, ThreadStates
  <2> QED
    BY <1>4, <2>2, FinishEnds DEF CreateBranch, At
<1>5. CASE Fail(r)
  BY <1>5, FinishEnds, ThreadsStay DEF Fail, At
<1> QED
  BY <1>1, <1>2, <1>3, <1>4, <1>5

LEMMA CopyKind ==
  ASSUME TypeInv, NEW r \in Requests, CopyRows(r)
  PROVE  Copies(r)
<1> DEFINE free == {m \in Messages : message[m] = Free}
           copied == req[r].copied
<1>1. PICK new \in Injection(copied, free) :
         message' = [m \in Messages |->
             IF \E row \in copied : new[row] = m
             THEN [Inverse(new, copied, Messages)[m] EXCEPT !.chat = CopyChat(r)]
             ELSE message[m]]
  BY DEF CopyRows
<1>2. new \in [copied -> free] /\ \A x, y \in copied : new[x] = new[y] => x = y
  BY DEF Injection, IsInjective
<1>3. \A x \in copied : Inverse(new, copied, Messages)[new[x]] = x
  <2> TAKE x \in copied
  <2>1. new[x] \in Messages /\ new[x] \in Range(new)
    BY <1>2 DEF Range
  <2>2. Inverse(new, copied, Messages)[new[x]]
          = CHOOSE y \in copied : new[x] \in Range(new) => new[y] = new[x]
    BY <2>1 DEF Inverse
  <2> QED
    BY <1>2, <2>1, <2>2
<1>4. \A x \in copied : new[x] \in Messages /\ message[new[x]] = Free
                        /\ message'[new[x]] = [x EXCEPT !.chat = req[r].target]
  BY <1>1, <1>2, <1>3 DEF CopyChat
<1>5. \A m \in Messages : (\A x \in copied : new[x] # m) => message'[m] = message[m]
  BY <1>1
<1>6. Moves(r) /\ req'[r] = IdleRequest
  BY Finishes DEF CopyRows, TypeInv, Typed
<1>7. message' = [m \in Messages |-> message'[m]]
  BY <1>1
<1>8. /\ At(r, "copy.rows") /\ thread' = [thread EXCEPT ![req[r].target] = "present"]
      /\ raced \subseteq raced' /\ raced' \subseteq Threads
      /\ req[r].chat \in raced => req[r].target \in raced'
      /\ UNCHANGED <<clock, turns, lost, before>>
  BY DEF CopyRows, Race, TypeInv, Typed, RequestsInv, Shape, At
<1> HIDE DEF free
<1>9. \A m \in Messages :
         \/ message'[m] = message[m]
         \/ message[m] = Free /\ \E x \in copied : message'[m] = [x EXCEPT !.chat = req[r].target]
  BY <1>4, <1>5
<1> QED
  BY <1>4, <1>6, <1>7, <1>8, <1>9 DEF Copies

LEMMA SettleKind ==
  ASSUME TypeInv, NEW m \in Messages, Insert(m) \/ InsertFails(m)
  PROVE  Settles(m)
<1>1. message[m].status = "insert" /\ message[m] \in Row
  BY FilledRow DEF Insert, InsertFails, Settle, TypeInv, Filled
<1>2. [message[m] EXCEPT !.status = "stored"] # Gone
  BY <1>1 DEF Row, Gone, NoRow
<1>3. PICK row \in {[message[m] EXCEPT !.status = "stored"], Gone} : Settle(m, row)
  BY DEF Insert, InsertFails, Settled
<1>4. message'[m] = row /\ message' = [message EXCEPT ![m] = message'[m]]
  BY <1>3 DEF Settle, TypeInv, Typed
<1> QED
  BY <1>1, <1>2, <1>3, <1>4 DEF Settle, Settles

LEMMA NextKinds ==
  ASSUME ChatAssumption, TypeInv, Next
  PROVE  \/ \E r \in Requests : BeginsTurn(r) \/ BeginsChange(r) \/ Sends(r) \/ Ends(r) \/ Copies(r)
         \/ \E m \in Messages : Settles(m)
         \/ Ticks
<1>1. ASSUME NEW r \in Requests, NEW t \in Threads, Chat(r, t)
      PROVE  BeginsTurn(r)
  BY <1>1, TurnKind DEF Chat, ProcessChatStream, ProcessChatPlain, ProcessChatPlainStream
<1>2. ASSUME NEW r \in Changers, NEW t \in Threads, Change(r, t)
      PROVE  r \in Requests /\ BeginsChange(r)
  BY <1>2, ChangeKinds DEF ChatAssumption
<1>3. ASSUME NEW r \in Requests, Continue(r)
      PROVE  Sends(r) \/ Ends(r) \/ Copies(r)
  BY <1>3, StreamAskSends, StreamAnswerSends, PlainAnswerSends, PlainStreamAnswerSends,
     RemoveEnds, ClearEnds, CreateCopyEnds, EndKinds, CopyKind DEF Continue
<1>4. ASSUME NEW m \in Messages, Insert(m) \/ InsertFails(m)
      PROVE  Settles(m)
  BY <1>4, SettleKind
<1>5. ASSUME Tick
      PROVE  Ticks
  <2>1. clock \in Nat /\ clock + 1 \in 0..MaxTime /\ clock' = clock + 1
    BY <1>5 DEF Tick, TypeInv, Typed, ChatAssumption
  <2>2. clock <= clock' /\ clock' \in 0..MaxTime
    BY <2>1
  <2> QED
    BY <1>5, <2>2 DEF Tick, Ticks
<1> QED
  BY <1>1, <1>2, <1>3, <1>4, <1>5 DEF Next

-----------------------------------------------------------------------------
(* The types are kept.                                                       *)

\* Nothing fills a row but the turns that have begun, and nothing but open threads.
LEMMA RowsKeep ==
  ASSUME ChatAssumption, TypeInv, turns <= turns', turns' \in Nat,
         \A t \in Threads : Open(t) => thread'[t] \in {"present", "deleted"},
         message' = [m \in Messages |-> message'[m]],
         \A m \in Messages :
            \/ message'[m] = message[m]
            \/ message'[m] = Gone
            \/ /\ message'[m] \in Row /\ message'[m].turn \in 1..turns
               /\ thread'[message'[m].chat] \in {"present", "deleted"}
  PROVE  message' \in [Messages -> Row \cup {Free, Gone}] /\ RowsInv'
<1>1. message' \in [Messages -> Row \cup {Free, Gone}]
  BY DEF TypeInv, Typed
<1>2. turns \in Nat
  BY DEF TypeInv, Typed, ChatAssumption
<1>3. ASSUME NEW m \in Messages, message'[m].status \in {"insert", "stored"}
      PROVE  message'[m].turn \in 1..turns' /\ thread'[message'[m].chat] \in {"present", "deleted"}
  <2>1. CASE message'[m] = message[m]
    <3>1. m \in Filled /\ message[m] \in Row
      BY <1>3, <2>1, FilledRow DEF Filled, TypeInv
    <3>2. message[m].turn \in 1..turns /\ Open(message[m].chat) /\ message[m].chat \in Threads
      BY <3>1 DEF TypeInv, RowsInv, Row
    <3> QED
      BY <1>2, <2>1, <3>2
  <2>2. CASE message'[m] = Gone
    BY <1>3, <2>2 DEF Gone, NoRow
  <2>3. CASE /\ message'[m] \in Row /\ message'[m].turn \in 1..turns
             /\ thread'[message'[m].chat] \in {"present", "deleted"}
    BY <1>2, <2>3
  <2> QED
    BY <2>1, <2>2, <2>3
<1> QED
  BY <1>1, <1>3 DEF RowsInv, Filled, Open

\* How the parts come together.
LEMMA TypeParts ==
  ASSUME ChatAssumption, TypeInv, RequestsInv', RowsInv', ThreadsGrow,
         message' \in [Messages -> Row \cup {Free, Gone}], clock' \in 0..MaxTime,
         req' \in [Requests -> Request], lost' \subseteq 1..MaxTurn,
         before' \subseteq (1..turns') \X (1..turns'), raced' \subseteq Threads
  PROVE  TypeInv'
<1>1. turns' \in 0..MaxTurn /\ thread' \in [Threads -> ThreadStates]
  BY DEF ThreadsGrow
<1>2. before' \subseteq (1..MaxTurn) \X (1..MaxTurn)
  <2>1. \A i \in 1..turns' : i \in 1..MaxTurn
    BY <1>1 DEF ChatAssumption
  <2> QED
    BY <2>1
<1> QED
  BY <1>1, <1>2 DEF TypeInv, Typed

LEMMA TurnTypes ==
  ASSUME ChatAssumption, TypeInv, NEW r \in Requests, BeginsTurn(r)
  PROVE  TypeInv'
<1>1. turns \in Nat /\ turns' = turns + 1 /\ turns' \in Nat /\ turns <= turns'
  BY DEF BeginsTurn, TypeInv, Typed, ChatAssumption
<1>2. Shape(req'[r], thread', turns')
  BY <1>1 DEF BeginsTurn, Shape, Turning
<1>3. \A s \in Requests : At(s, "copy.rows") => thread'[req[s].target] = "hidden"
  BY DEF BeginsTurn, HiddenStay, At, TypeInv, RequestsInv, Shape
<1>4. req'[r].turn > turns /\ req'[r].step # "copy.rows"
  BY <1>1 DEF BeginsTurn
<1>5. RequestsInv'
  BY <1>2, <1>3, <1>4, MovesKeep DEF BeginsTurn
<1>6. message' = message /\ message' = [m \in Messages |-> message'[m]]
  BY DEF BeginsTurn, TypeInv, Typed
<1>7. message' \in [Messages -> Row \cup {Free, Gone}] /\ RowsInv'
  BY <1>1, <1>6, RowsKeep DEF BeginsTurn, ThreadsGrow
<1>8. before' \subseteq (1..turns') \X (1..turns')
  <2>1. \A i \in 1..turns : i \in 1..turns'
    BY <1>1
  <2>2. turns + 1 \in 1..turns'
    BY <1>1
  <2> QED
    BY <2>1, <2>2 DEF BeginsTurn, TypeInv
<1> QED
  BY <1>5, <1>7, <1>8, TypeParts DEF BeginsTurn, Moves, TypeInv, Typed

LEMMA ChangeTypes ==
  ASSUME ChatAssumption, TypeInv, NEW r \in Requests, BeginsChange(r)
  PROVE  TypeInv'
<1>1. turns \in Nat /\ turns' = turns /\ ThreadsGrow /\ HiddenStay
  BY ThreadsStay DEF BeginsChange, TypeInv, Typed, ChatAssumption
<1>2. \A x \in req'[r].copied : x.turn \in 1..turns /\ x.status = "stored"
  BY DEF BeginsChange, Rows, Filled, TypeInv, RowsInv
<1>3. Shape(req'[r], thread', turns')
  BY <1>1, <1>2 DEF BeginsChange, Shape, Turning
<1>4. \A s \in Requests : At(s, "copy.rows") => thread'[req[s].target] = "hidden"
  BY DEF BeginsChange, At, TypeInv, RequestsInv, Shape
<1>5. RequestsInv'
  BY <1>1, <1>3, <1>4, MovesKeep DEF BeginsChange
<1>6. message' = message /\ message' = [m \in Messages |-> message'[m]]
  BY DEF BeginsChange, TypeInv, Typed
<1>7. message' \in [Messages -> Row \cup {Free, Gone}] /\ RowsInv'
  BY <1>1, <1>6, RowsKeep DEF ThreadsGrow
<1> QED
  BY <1>1, <1>5, <1>7, TypeParts DEF BeginsChange, Moves, TypeInv, Typed

LEMMA SendTypes ==
  ASSUME ChatAssumption, TypeInv, NEW r \in Requests, Sends(r)
  PROVE  TypeInv'
<1>1. turns \in Nat /\ turns' = turns /\ ThreadsGrow /\ HiddenStay /\ thread' = thread
  BY ThreadsStay DEF Sends, TypeInv, Typed, ChatAssumption
<1>2. req[r].step \in Turning
  BY DEF Sends, Turning, At
<1>3. req[r].turn \in 1..turns /\ req[r].chat \in Threads /\ Open(req[r].chat)
  BY <1>2 DEF TypeInv, RequestsInv, Shape, Turning, Open
<1>4. req'[r].turn = 0 \/ req'[r].turn = req[r].turn
  BY DEF Sends, IdleRequest, TypeInv, Typed, Request
<1>5. Shape(req'[r], thread', turns') /\ req'[r].step # "copy.rows"
  <2>1. CASE req'[r] = IdleRequest
    BY <2>1, IdleTyped DEF IdleRequest
  <2>2. CASE req'[r] = [req[r] EXCEPT !.step = "stream.answer"]
    BY <1>1, <1>2, <2>2 DEF Shape, Turning, TypeInv, Typed, RequestsInv, Request
  <2>3. CASE req'[r] = [req[r] EXCEPT !.step = "saving"]
    BY <1>1, <1>2, <2>3 DEF Shape, Turning, TypeInv, Typed, RequestsInv, Request
  <2> QED
    BY <2>1, <2>2, <2>3 DEF Sends
<1>6. \A s \in Requests : At(s, "copy.rows") => thread'[req[s].target] = "hidden"
  BY <1>1 DEF At, TypeInv, RequestsInv, Shape
<1>7. RequestsInv'
  BY <1>1, <1>4, <1>5, <1>6, MovesKeep DEF Sends
<1>8. \A m \in Messages :
         \/ message'[m] = message[m]
         \/ message'[m] = Gone
         \/ /\ message'[m] \in Row /\ message'[m].turn \in 1..turns
            /\ thread'[message'[m].chat] \in {"present", "deleted"}
  BY <1>1, <1>3 DEF Sends, TurnRow, Open
<1>9. message' = [m \in Messages |-> message'[m]]
  BY DEF Sends
<1>10. message' \in [Messages -> Row \cup {Free, Gone}] /\ RowsInv'
  BY <1>1, <1>8, <1>9, RowsKeep DEF ThreadsGrow
<1>11. clock' \in 0..MaxTime /\ req' \in [Requests -> Request]
  BY DEF Sends, Moves, TypeInv, Typed
<1> QED
  BY <1>1, <1>7, <1>10, <1>11, TypeParts DEF Sends, TypeInv, Typed

\* What an end does to the messages.
LEMMA EndsFade ==
  ASSUME TypeInv, NEW r \in Requests, Ends(r)
  PROVE  /\ message' = [m \in Messages |-> message'[m]]
         /\ \A m \in Messages : \/ message'[m] = message[m]
                                \/ message[m].status = "stored" /\ message'[m] = Gone
<1>1. message = [m \in Messages |-> message[m]]
  BY DEF TypeInv, Typed
<1> QED
  BY <1>1 DEF Ends, Without

LEMMA EndTypes ==
  ASSUME ChatAssumption, TypeInv, NEW r \in Requests, Ends(r)
  PROVE  TypeInv'
<1>1. turns \in Nat /\ turns' = turns /\ ThreadsGrow /\ HiddenStay
  <2>1. turns \in Nat
    BY DEF TypeInv, Typed, ChatAssumption
  <2> QED
    BY <2>1 DEF Ends
<1>2. req[r] \in Request /\ Shape(req[r], thread, turns) /\ req[r].step # "idle"
  BY DEF Ends, At, TypeInv, Typed, RequestsInv
<1>3. \A t \in Threads : thread[t] \in {"present", "deleted"} => thread'[t] \in {"present", "deleted"}
  BY <1>1 DEF ThreadsGrow, Open
<1>4. /\ Shape(req'[r], thread', turns')
      /\ req'[r].turn = 0 \/ req'[r].turn = req[r].turn
      /\ req'[r].step = "copy.rows" => thread[req'[r].target] = "absent"
  <2>1. CASE req'[r] = IdleRequest
    BY <2>1, IdleTyped DEF IdleRequest
  <2>2. CASE At(r, "clear") /\ req'[r] = [req[r] EXCEPT !.step = "remove"]
    BY <1>1, <1>2, <1>3, <2>2 DEF Shape, Turning, At, Request
  <2>3. ASSUME NEW t \in Threads, At(r, "copy"), thread[t] = "absent", thread'[t] = "hidden",
               req'[r] = [req[r] EXCEPT !.step = "copy.rows", !.target = t]
        PROVE  /\ Shape(req'[r], thread', turns') /\ req'[r].turn = req[r].turn
               /\ thread[req'[r].target] = "absent"
    BY <1>1, <1>2, <1>3, <2>3 DEF Shape, Turning, At, Request
  <2> QED
    BY <2>1, <2>2, <2>3 DEF Ends
<1>5. \A s \in Requests : At(s, "copy.rows") => /\ thread'[req[s].target] = "hidden"
                                                /\ thread[req[s].target] = "hidden"
  BY <1>1 DEF HiddenStay, At, TypeInv, RequestsInv, Shape
<1>6. RequestsInv'
  BY <1>1, <1>4, <1>5, MovesKeep DEF Ends
<1>7. message' \in [Messages -> Row \cup {Free, Gone}] /\ RowsInv'
  BY <1>1, EndsFade, RowsKeep DEF ThreadsGrow
<1> QED
  BY <1>1, <1>6, <1>7, TypeParts DEF Ends, Moves, TypeInv, Typed

\* The rows of a copy.
LEMMA CopiedRow ==
  ASSUME TypeInv, NEW r \in Requests, At(r, "copy.rows"), NEW x \in req[r].copied
  PROVE  LET row == [x EXCEPT !.chat = req[r].target]
         IN  /\ row \in Row /\ row.chat = req[r].target /\ row.turn = x.turn
             /\ row.role = x.role /\ row.at = x.at /\ row.status = "stored"
<1>1. req[r].target \in Threads /\ x \in Row /\ x.status = "stored"
  BY DEF At, TypeInv, Typed, RequestsInv, Shape, Request
<1> QED
  BY <1>1 DEF Row

LEMMA CopyTypes ==
  ASSUME ChatAssumption, TypeInv, NEW r \in Requests, Copies(r)
  PROVE  TypeInv'
<1>1. req[r].target \in Threads /\ thread[req[r].target] = "hidden"
  BY DEF Copies, At, TypeInv, RequestsInv, Shape
<1>2. turns \in Nat /\ turns' = turns /\ ThreadsGrow
  BY <1>1 DEF Copies, ThreadsGrow, TypeInv, Typed, ChatAssumption, ThreadStates, Open
<1>3. Shape(req'[r], thread', turns') /\ req'[r].turn = 0 /\ req'[r].step # "copy.rows"
  <2>1. req'[r] = IdleRequest
    BY DEF Copies
  <2>2. IdleRequest.turn = 0 /\ IdleRequest.step # "copy.rows"
    BY DEF IdleRequest
  <2> QED
    BY <2>1, <2>2, IdleTyped
<1>4. \A s \in Requests \ {r} : At(s, "copy.rows") => thread'[req[s].target] = "hidden"
  <2> TAKE s \in Requests \ {r}
  <2>1. At(s, "copy.rows") => /\ req[s].target # req[r].target
                              /\ req[s].target \in Threads /\ thread[req[s].target] = "hidden"
    BY DEF Copies, At, TypeInv, RequestsInv, Shape
  <2> QED
    BY <2>1 DEF Copies, TypeInv, Typed
<1>5. RequestsInv'
  BY <1>2, <1>3, <1>4, MovesKeep DEF Copies
<1>6. ASSUME NEW m \in Messages
      PROVE  \/ message'[m] = message[m]
             \/ /\ message'[m] \in Row /\ message'[m].turn \in 1..turns
                /\ thread'[message'[m].chat] \in {"present", "deleted"}
  <2>1. CASE message'[m] = message[m]
    BY <2>1
  <2>2. ASSUME NEW x \in req[r].copied, message'[m] = [x EXCEPT !.chat = req[r].target]
        PROVE  /\ message'[m] \in Row /\ message'[m].turn \in 1..turns
               /\ thread'[message'[m].chat] \in {"present", "deleted"}
    <3>1. x.turn \in 1..turns /\ thread'[req[r].target] = "present"
      BY <1>1 DEF Copies, TypeInv, Typed, RequestsInv, Shape
    <3> QED
      BY <2>2, <3>1, CopiedRow DEF Copies
  <2> QED
    BY <2>1, <2>2 DEF Copies
<1>7. message' = [m \in Messages |-> message'[m]]
  BY DEF Copies
<1>8. message' \in [Messages -> Row \cup {Free, Gone}] /\ RowsInv'
  BY <1>2, <1>6, <1>7, RowsKeep DEF ThreadsGrow
<1> QED
  BY <1>2, <1>5, <1>8, TypeParts DEF Copies, Moves, TypeInv, Typed

LEMMA SettleTypes ==
  ASSUME ChatAssumption, TypeInv, NEW m \in Messages, Settles(m)
  PROVE  TypeInv'
<1>1. turns \in Nat /\ turns' = turns /\ ThreadsGrow /\ HiddenStay /\ turns <= MaxTurn
      /\ thread' = thread /\ req' = req
  BY ThreadsStay DEF Settles, TypeInv, Typed, ChatAssumption
<1>2. message[m] \in Row /\ message[m].turn \in 1..turns /\ Open(message[m].chat)
  BY FilledRow DEF Settles, TypeInv, RowsInv, Filled
<1>3. RequestsInv'
  BY <1>1 DEF TypeInv, RequestsInv, At
<1>4. message' = [n \in Messages |-> message'[n]]
      /\ \A n \in Messages : n # m => message'[n] = message[n]
  BY DEF Settles, TypeInv, Typed
<1>5. \/ message'[m] = Gone
      \/ /\ message'[m] \in Row /\ message'[m].turn = message[m].turn
         /\ message'[m].chat = message[m].chat
  BY <1>2 DEF Settles, Row
<1>6. \A n \in Messages :
         \/ message'[n] = message[n]
         \/ message'[n] = Gone
         \/ /\ message'[n] \in Row /\ message'[n].turn \in 1..turns
            /\ thread'[message'[n].chat] \in {"present", "deleted"}
  BY <1>1, <1>2, <1>4, <1>5 DEF Open
<1>7. message' \in [Messages -> Row \cup {Free, Gone}] /\ RowsInv'
  BY <1>1, <1>4, <1>6, RowsKeep DEF ThreadsGrow
<1>8. message[m].turn \in 1..MaxTurn
  BY <1>1, <1>2 DEF ChatAssumption
<1>9. lost' \subseteq 1..MaxTurn
  BY <1>8 DEF Settles, TypeInv, Typed
<1> QED
  BY <1>1, <1>3, <1>7, <1>9, TypeParts DEF Settles, TypeInv, Typed

LEMMA NextTypes ==
  ASSUME ChatAssumption, TypeInv, [Next]_vars
  PROVE  TypeInv'
<1>1. ASSUME Ticks
      PROVE  TypeInv'
  BY <1>1 DEF Ticks, TypeInv, Typed, RequestsInv, RowsInv, Filled, Open, At
<1>2. CASE UNCHANGED vars
  BY <1>2 DEF vars, TypeInv, Typed, RequestsInv, RowsInv, Filled, Open, At
<1>3. CASE Next
  BY <1>1, <1>3, NextKinds, TurnTypes, ChangeTypes, SendTypes, EndTypes, CopyTypes, SettleTypes
<1> QED
  BY <1>2, <1>3

LEMMA InitTypes ==
  ASSUME ChatAssumption, Init
  PROVE  TypeInv
<1>1. Typed
  BY IdleTyped DEF ChatAssumption, Init, Typed, ThreadStates
<1>2. RequestsInv
  BY IdleTyped DEF Init, RequestsInv, IdleRequest, At
<1>3. RowsInv
  BY DEF Init, RowsInv, Filled, Free, NoRow
<1> QED
  BY <1>1, <1>2, <1>3 DEF Init, TypeInv

(* The rows, the requests and the histories of the threads have their types, *)
(* and rows and requests are of threads that were found or made.             *)
THEOREM TypeCorrect == Spec => []TypeOK
<1>1. Init => TypeInv
  BY InitTypes, ChatAssumption
<1>2. TypeInv /\ [Next]_vars => TypeInv'
  BY NextTypes, ChatAssumption
<1>3. TypeInv => TypeOK
  <2>1. TypeInv => \A m \in Messages :
                      message[m].status \in {"insert", "stored"} => Open(message[m].chat)
    BY DEF TypeInv, RowsInv, Filled
  <2>2. TypeInv => \A r \in Requests : ~At(r, "idle") => Open(req[r].chat)
    BY DEF TypeInv, RequestsInv, Shape, At, Open
  <2> QED
    BY <2>1, <2>2 DEF TypeInv, TypeOK
<1> QED
  BY <1>1, <1>2, <1>3, PTL DEF Spec

-----------------------------------------------------------------------------
(* Conversations in order.                                                   *)

\* A row, stored or about to be, or read to be copied, says ro of turn i at time a.
Told(i, ro, a) ==
    \/ \E m \in Filled : message[m].turn = i /\ message[m].role = ro /\ message[m].at = a
    \/ \E r \in Requests : \E x \in req[r].copied : x.turn = i /\ x.role = ro /\ x.at = a

In(t, i, a) == \E m \in Filled : message[m].chat = t /\ message[m].turn = i /\ message[m].at = a

\* Rows of the turns i and j are in one thread, or will be in one copy.
Together(i, a, j, b) ==
    \/ \E t \in Threads : In(t, i, a) /\ In(t, j, b)
    \/ \E r \in Requests : \E x, y \in req[r].copied :
          x.turn = i /\ x.at = a /\ y.turn = j /\ y.at = b

\* A question precedes its answers, and what is over what begins later.
RowsInOrder ==
    /\ \A i, a, b \in Nat : Told(i, "user", a) /\ Told(i, "model", b) => a < b
    /\ \A i, j, a, b \in Nat : <<i, j>> \in before /\ Together(i, a, j, b) => a < b

\* What the rows say of the turn that r is in, and of those over when it began.
TurnInOrder(r) ==
    /\ \A j \in Nat : <<req[r].turn, j>> \notin before
    /\ req[r].step \in {"stream.ask", "plain", "plainStream"} =>
          \A a \in Nat : ~Told(req[r].turn, "user", a) /\ ~Told(req[r].turn, "model", a)
    /\ At(r, "stream.answer") =>
          \A a \in Nat : ~Told(req[r].turn, "model", a) /\ (Told(req[r].turn, "user", a) => a < clock)
    /\ req[r].step \in Turning =>
          \A i, a \in Nat : <<i, req[r].turn>> \in before /\ In(req[r].chat, i, a) => a < clock

OrderInv == RowsInOrder /\ \A r \in Requests : TurnInOrder(r)

\* A step that adds no line to a thread that users see, nor to what was told.
Quiet ==
    /\ \A i, a \in Nat, ro \in {"user", "model"} : Told(i, ro, a)' => Told(i, ro, a)
    /\ \A i, j, a, b \in Nat : Together(i, a, j, b)' => Together(i, a, j, b)
    /\ \A t \in Threads : Open(t) => \A i, a \in Nat : In(t, i, a)' => In(t, i, a)

\* What was told was told in a turn that has begun.
LEMMA ToldTyped ==
  ASSUME TypeInv, NEW i, NEW ro, NEW a, Told(i, ro, a)
  PROVE  i \in 1..turns /\ a \in Nat
<1>1. ASSUME NEW m \in Filled
      PROVE  message[m].turn \in 1..turns /\ message[m].at \in Nat
  BY FilledRow DEF TypeInv, RowsInv, Filled, Row
<1>2. ASSUME NEW r \in Requests, NEW x \in req[r].copied
      PROVE  x.turn \in 1..turns /\ x.at \in Nat
  BY DEF TypeInv, Typed, RequestsInv, Shape, Request, Row
<1> QED
  BY <1>1, <1>2 DEF Told

\* Rows that only settle or go, and reads of rows of one thread, are quiet.
LEMMA FadesQuiet ==
  ASSUME TypeInv,
         \A m \in Filled' : /\ m \in Filled
                            /\ message'[m].chat = message[m].chat
                            /\ message'[m].turn = message[m].turn
                            /\ message'[m].role = message[m].role
                            /\ message'[m].at = message[m].at,
         \A r \in Requests :
            \/ req'[r].copied \subseteq req[r].copied
            \/ \E t \in Threads : req'[r].copied = {message[m] : m \in Rows(t, "stored")}
  PROVE  Quiet
<1>1. ASSUME NEW r \in Requests, NEW t \in Threads,
             req'[r].copied = {message[m] : m \in Rows(t, "stored")}
      PROVE  \A x \in req'[r].copied : \E m \in Filled : x = message[m] /\ message[m].chat = t
  BY <1>1 DEF Rows, Filled
<1>2. ASSUME NEW t, NEW i, NEW a, In(t, i, a)'
      PROVE  In(t, i, a)
  BY <1>2 DEF In
<1>3. ASSUME NEW i \in Nat, NEW a \in Nat, NEW ro, Told(i, ro, a)'
      PROVE  Told(i, ro, a)
  <2>1. CASE \E m \in Filled' : message'[m].turn = i /\ message'[m].role = ro /\ message'[m].at = a
    BY <2>1 DEF Told
  <2>2. ASSUME NEW r \in Requests, NEW x \in req'[r].copied, x.turn = i, x.role = ro, x.at = a
        PROVE  Told(i, ro, a)
    BY <1>1, <2>2 DEF Told
  <2> QED
    BY <1>3, <2>1, <2>2 DEF Told
<1>4. ASSUME NEW i \in Nat, NEW j \in Nat, NEW a \in Nat, NEW b \in Nat, Together(i, a, j, b)'
      PROVE  Together(i, a, j, b)
  <2>1. CASE \E t \in Threads : In(t, i, a)' /\ In(t, j, b)'
    BY <1>2, <2>1 DEF Together
  <2>2. ASSUME NEW r \in Requests, NEW x \in req'[r].copied, NEW y \in req'[r].copied,
               x.turn = i, x.at = a, y.turn = j, y.at = b
        PROVE  Together(i, a, j, b)
    <3>1. CASE req'[r].copied \subseteq req[r].copied
      BY <2>2, <3>1 DEF Together
    <3>2. ASSUME NEW t \in Threads, req'[r].copied = {message[m] : m \in Rows(t, "stored")}
          PROVE  Together(i, a, j, b)
      <4>1. In(t, i, a) /\ In(t, j, b)
        BY <1>1, <2>2, <3>2 DEF In
      <4> QED
        BY <4>1 DEF Together
    <3> QED
      BY <3>1, <3>2
  <2> QED
    BY <1>4, <2>1, <2>2 DEF Together
<1> QED
  BY <1>2, <1>3, <1>4 DEF Quiet

\* The rows of a copy were read from one thread, and nobody saw the new one.
LEMMA CopyQuiet ==
  ASSUME ChatAssumption, TypeInv, NEW r \in Requests, Copies(r)
  PROVE  Quiet
<1>1. PICK u \in Threads : u = req[r].target /\ thread[u] = "hidden" /\ At(r, "copy.rows")
  BY DEF Copies, At, TypeInv, RequestsInv, Shape
<1>2. \A m \in Filled : message[m].chat # u
  BY <1>1 DEF TypeInv, RowsInv, Open
<1>3. ASSUME NEW m \in Filled'
      PROVE  \/ m \in Filled /\ message'[m] = message[m]
             \/ \E x \in req[r].copied :
                   /\ message'[m].chat = u /\ message'[m].turn = x.turn
                   /\ message'[m].role = x.role /\ message'[m].at = x.at
  <2>1. CASE message'[m] = message[m]
    BY <2>1 DEF Filled
  <2>2. ASSUME NEW x \in req[r].copied, message'[m] = [x EXCEPT !.chat = req[r].target]
        PROVE  /\ message'[m].chat = u /\ message'[m].turn = x.turn
               /\ message'[m].role = x.role /\ message'[m].at = x.at
    BY <1>1, <2>2, CopiedRow
  <2> QED
    BY <2>1, <2>2 DEF Copies, Filled
<1>4. \A s \in Requests : req'[s].copied \subseteq req[s].copied
  BY DEF Copies, Moves, IdleRequest, TypeInv, Typed
<1>5. ASSUME NEW t, NEW i, NEW a, t # u, In(t, i, a)'
      PROVE  In(t, i, a)
  BY <1>3, <1>5 DEF In
<1>6. ASSUME NEW i, NEW a, In(u, i, a)'
      PROVE  \E x \in req[r].copied : x.turn = i /\ x.at = a
  <2>1. PICK m \in Filled' : message'[m].chat = u /\ message'[m].turn = i /\ message'[m].at = a
    BY <1>6 DEF In
  <2>2. ~(m \in Filled /\ message'[m] = message[m])
    BY <1>2, <2>1
  <2> QED
    BY <1>3, <2>1, <2>2
<1>7. ASSUME NEW i \in Nat, NEW a \in Nat, NEW ro, Told(i, ro, a)'
      PROVE  Told(i, ro, a)
  BY <1>3, <1>4, <1>7 DEF Told
<1>8. ASSUME NEW i \in Nat, NEW j \in Nat, NEW a \in Nat, NEW b \in Nat, Together(i, a, j, b)'
      PROVE  Together(i, a, j, b)
  <2>1. ASSUME NEW t \in Threads, In(t, i, a)', In(t, j, b)'
        PROVE  Together(i, a, j, b)
    <3>1. CASE t = u
      <4>1. PICK x \in req[r].copied : x.turn = i /\ x.at = a
        BY <1>6, <2>1, <3>1
      <4>2. PICK y \in req[r].copied : y.turn = j /\ y.at = b
        BY <1>6, <2>1, <3>1
      <4> QED
        BY <4>1, <4>2 DEF Together
    <3>2. CASE t # u
      BY <1>5, <2>1, <3>2 DEF Together
    <3> QED
      BY <3>1, <3>2
  <2>2. CASE \E s \in Requests : \E x, y \in req'[s].copied :
                x.turn = i /\ x.at = a /\ y.turn = j /\ y.at = b
    BY <1>4, <2>2 DEF Together
  <2> QED
    BY <1>8, <2>1, <2>2 DEF Together
<1>9. \A t \in Threads : Open(t) => t # u
  BY <1>1 DEF Open
<1> QED
  BY <1>5, <1>7, <1>8, <1>9 DEF Quiet

\* All steps but the sending of rows.
LEMMA QuietSteps ==
  ASSUME ChatAssumption, TypeInv,
         \/ \E r \in Requests : BeginsTurn(r) \/ BeginsChange(r) \/ Ends(r) \/ Copies(r)
         \/ \E m \in Messages : Settles(m)
         \/ Ticks
         \/ UNCHANGED vars
  PROVE  Quiet
<1>1. ASSUME NEW r \in Requests, BeginsTurn(r)
      PROVE  Quiet
  <2>1. message' = message /\ \A s \in Requests : req'[s].copied \subseteq req[s].copied
    BY <1>1 DEF BeginsTurn, Moves, TypeInv, Typed
  <2> QED
    BY <2>1, FadesQuiet DEF Filled
<1>2. ASSUME NEW r \in Requests, BeginsChange(r)
      PROVE  Quiet
  <2>1. message' = message
    BY <1>2 DEF BeginsChange
  <2>2. ASSUME NEW s \in Requests
        PROVE  \/ req'[s].copied \subseteq req[s].copied
               \/ \E t \in Threads : req'[s].copied = {message[m] : m \in Rows(t, "stored")}
    <3>1. CASE s # r
      BY <1>2, <3>1 DEF BeginsChange, Moves, TypeInv, Typed
    <3>2. CASE s = r
      BY <1>2, <3>2 DEF BeginsChange
    <3> QED
      BY <3>1, <3>2
  <2> QED
    BY <2>1, <2>2, FadesQuiet DEF Filled
<1>3. ASSUME NEW r \in Requests, Ends(r)
      PROVE  Quiet
  <2>1. req'[r].copied \subseteq req[r].copied
    <3>1. req[r] \in Request
      BY DEF TypeInv, Typed
    <3>2. IdleRequest.copied = {}
      BY DEF IdleRequest
    <3> QED
      BY <1>3, <3>1, <3>2 DEF Ends, Request
  <2>2. \A s \in Requests : req'[s].copied \subseteq req[s].copied
    BY <1>3, <2>1 DEF Ends, Moves, TypeInv, Typed
  <2>3. \A m \in Filled' : m \in Filled /\ message'[m] = message[m]
    BY <1>3, EndsFade DEF Filled, Gone, NoRow
  <2> QED
    BY <2>2, <2>3, FadesQuiet
<1>4. ASSUME NEW r \in Requests, Copies(r)
      PROVE  Quiet
  BY <1>4, CopyQuiet
<1>5. ASSUME NEW m \in Messages, Settles(m)
      PROVE  Quiet
  <2>1. m \in Filled /\ message[m] \in Row
    BY <1>5, FilledRow DEF Settles, Filled, TypeInv
  <2>2. \A n \in Messages : n # m => message'[n] = message[n]
    BY <1>5 DEF Settles, TypeInv, Typed
  <2>3. \/ message'[m] = [message[m] EXCEPT !.status = "stored"]
        \/ m \notin Filled'
    BY <1>5 DEF Settles, Filled, Gone, NoRow
  <2>4. m \in Filled' => /\ message'[m].chat = message[m].chat
                         /\ message'[m].turn = message[m].turn
                         /\ message'[m].role = message[m].role
                         /\ message'[m].at = message[m].at
    BY <2>1, <2>3 DEF Row
  <2>5. \A n \in Filled' : n \in Filled
    BY <2>1, <2>2 DEF Filled
  <2>6. req' = req /\ \A n \in Filled' : n \in Messages
    BY <1>5 DEF Settles, Filled
  <2> QED
    BY <2>2, <2>4, <2>5, <2>6, FadesQuiet
<1>6. CASE Ticks \/ UNCHANGED vars
  BY <1>6, FadesQuiet DEF Ticks, vars, Filled
<1> QED
  BY <1>1, <1>2, <1>3, <1>4, <1>5, <1>6

\* A request that stands still, while nothing is told of its turn n nor of those
\* before it in its thread t.
LEMMA TurnKept ==
  ASSUME ChatAssumption, TypeInv, TypeInv', NEW r \in Requests, TurnInOrder(r),
         clock' >= clock, req'[r] = req[r],
         NEW n, n = req[r].turn, NEW t, t = req[r].chat,
         \A a \in Nat, ro \in {"user", "model"} : Told(n, ro, a)' => Told(n, ro, a),
         \A i, a \in Nat :
            req[r].step \in Turning /\ <<i, n>> \in before' /\ In(t, i, a)'
            => <<i, n>> \in before /\ In(t, i, a),
         \A j \in Nat : <<n, j>> \notin before'
  PROVE  TurnInOrder(r)'
<1>1. clock \in Nat /\ clock' \in Nat /\ n \in Nat
  BY DEF TypeInv, Typed, Request, ChatAssumption
<1>2. ASSUME NEW a \in Nat, req[r].step \in {"stream.ask", "plain", "plainStream"}
      PROVE  ~Told(n, "user", a)' /\ ~Told(n, "model", a)'
  BY <1>2 DEF TurnInOrder
<1>3. ASSUME NEW a \in Nat, At(r, "stream.answer")
      PROVE  /\ ~Told(n, "model", a)'
             /\ Told(n, "user", a)' => a < clock'
  <2>1. ~Told(n, "model", a) /\ (Told(n, "user", a) => a < clock)
    BY <1>3 DEF TurnInOrder
  <2> QED
    BY <1>1, <2>1
<1>4. ASSUME NEW i \in Nat, NEW a \in Nat, req[r].step \in Turning, <<i, n>> \in before', In(t, i, a)'
      PROVE  a < clock'
  <2>1. a < clock
    BY <1>4 DEF TurnInOrder
  <2> QED
    BY <1>1, <2>1
<1>5. n = req'[r].turn /\ t = req'[r].chat
  OBVIOUS
<1> QED
  BY <1>2, <1>3, <1>4, <1>5 DEF TurnInOrder, At

\* A quiet step after which the same turns are over keeps the order of the rows.
LEMMA RowsKept ==
  ASSUME RowsInOrder, Quiet, before' = before
  PROVE  RowsInOrder'
<1>1. ASSUME NEW i \in Nat, NEW a \in Nat, NEW b \in Nat, Told(i, "user", a)', Told(i, "model", b)'
      PROVE  a < b
  BY <1>1 DEF Quiet, RowsInOrder
<1>2. ASSUME NEW i \in Nat, NEW j \in Nat, NEW a \in Nat, NEW b \in Nat,
             <<i, j>> \in before', Together(i, a, j, b)'
      PROVE  a < b
  BY <1>2 DEF Quiet, RowsInOrder
<1> QED
  BY <1>1, <1>2 DEF RowsInOrder

\* The chat of a turn can be seen.
LEMMA TurningOpen ==
  ASSUME TypeInv, NEW r \in Requests, req[r].step \in Turning
  PROVE  req[r].chat \in Threads /\ Open(req[r].chat) /\ req[r].turn \in 1..turns
  BY DEF TypeInv, RequestsInv, Shape, Open, Turning

\* A step that tells nothing new and begins no turn keeps the order.
LEMMA OrderKept ==
  ASSUME ChatAssumption, TypeInv, TypeInv', OrderInv, Quiet,
         clock' >= clock, UNCHANGED <<before, turns>>,
         \A r \in Requests :
            \/ req'[r] = req[r]
            \/ req'[r].turn = 0 /\ req'[r].step \notin Turning
  PROVE  OrderInv'
<1>1. RowsInOrder'
  BY RowsKept DEF OrderInv
<1>2. ASSUME NEW r \in Requests
      PROVE  TurnInOrder(r)'
  <2>1. CASE req'[r].turn = 0 /\ req'[r].step \notin Turning
    <3>1. \A j \in Nat : <<0, j>> \notin before'
      BY DEF TypeInv
    <3> QED
      BY <2>1, <3>1 DEF TurnInOrder, Turning, At
  <2>2. CASE req'[r] = req[r]
    <3>1. PICK n \in Nat : n = req[r].turn
      BY DEF TypeInv, Typed, Request
    <3>2. PICK t : t = req[r].chat
      OBVIOUS
    <3>3. \A a \in Nat, ro \in {"user", "model"} : Told(n, ro, a)' => Told(n, ro, a)
      BY DEF Quiet
    <3>4. \A i, a \in Nat :
             req[r].step \in Turning /\ <<i, n>> \in before' /\ In(t, i, a)'
             => <<i, n>> \in before /\ In(t, i, a)
      BY <3>2, TurningOpen DEF Quiet
    <3>5. \A j \in Nat : <<n, j>> \notin before'
      BY <3>1 DEF OrderInv, TurnInOrder
    <3>6. TurnInOrder(r)
      BY DEF OrderInv
    <3> QED
      BY <2>2, <3>1, <3>2, <3>3, <3>4, <3>5, <3>6, TurnKept
  <2> QED
    BY <2>1, <2>2
<1> QED
  BY <1>1, <1>2 DEF OrderInv

\* Those of turns told together have begun.
LEMMA TogetherTyped ==
  ASSUME TypeInv, NEW i, NEW a, NEW j, NEW b, Together(i, a, j, b)
  PROVE  j \in 1..turns
<1>1. ASSUME NEW m \in Filled
      PROVE  message[m].turn \in 1..turns
  BY DEF TypeInv, RowsInv
<1>2. ASSUME NEW r \in Requests, NEW x \in req[r].copied
      PROVE  x.turn \in 1..turns
  BY DEF TypeInv, RequestsInv, Shape
<1> QED
  BY <1>1, <1>2 DEF Together, In

\* A turn begins after those that are over, and nothing was told of it.
LEMMA TurnOrder ==
  ASSUME ChatAssumption, TypeInv, TypeInv', OrderInv, NEW r \in Requests, BeginsTurn(r)
  PROVE  OrderInv'
<1>1. Quiet /\ message' = message /\ clock' = clock
  BY QuietSteps DEF BeginsTurn
<1>2. turns \in Nat /\ turns + 1 \notin 1..turns /\ clock \in Nat
  BY DEF TypeInv, Typed, ChatAssumption
<1>3. \A i, j \in Nat : <<i, j>> \in before' =>
         <<i, j>> \in before \/ (j = turns + 1 /\ i \in 1..turns /\ Over(i))
  BY DEF BeginsTurn
<1>4. \A i, j \in Nat : <<i, j>> \in before => i \in 1..turns /\ j \in 1..turns
  BY DEF TypeInv
<1>5. RowsInOrder'
  <2>1. ASSUME NEW i \in Nat, NEW a \in Nat, NEW b \in Nat, Told(i, "user", a)', Told(i, "model", b)'
        PROVE  a < b
    BY <1>1, <2>1 DEF Quiet, OrderInv, RowsInOrder
  <2>2. ASSUME NEW i \in Nat, NEW j \in Nat, NEW a \in Nat, NEW b \in Nat,
               <<i, j>> \in before', Together(i, a, j, b)'
        PROVE  a < b
    <3>1. Together(i, a, j, b)
      BY <1>1, <2>2 DEF Quiet
    <3>2. j \in 1..turns
      BY <3>1, TogetherTyped
    <3>3. <<i, j>> \in before
      BY <1>2, <1>3, <2>2, <3>2
    <3> QED
      BY <3>1, <3>3 DEF OrderInv, RowsInOrder
  <2> QED
    BY <2>1, <2>2 DEF RowsInOrder
<1>6. PICK n \in Nat : n = turns + 1
  BY <1>2
<1>7. TurnInOrder(r)'
  <2>1. req'[r].turn = n /\ req'[r].step # "stream.answer"
    BY <1>6 DEF BeginsTurn
  <2>2. \A j \in Nat : <<n, j>> \notin before'
    BY <1>2, <1>3, <1>4, <1>6
  <2>3. \A a \in Nat : ~Told(n, "user", a)' /\ ~Told(n, "model", a)'
    BY <1>1, <1>2, <1>6, ToldTyped DEF Quiet
  <2>4. ASSUME NEW t, NEW i \in Nat, NEW a \in Nat, <<i, n>> \in before', In(t, i, a)'
        PROVE  a < clock'
    <3>1. Over(i)
      BY <1>2, <1>3, <1>4, <1>6, <2>4
    <3>2. PICK m \in Messages : message[m].turn = i /\ message[m].at = a
      BY <1>1, <2>4 DEF In, Filled
    <3> QED
      BY <1>1, <3>1, <3>2 DEF Over
  <2> QED
    BY <2>1, <2>2, <2>3, <2>4 DEF TurnInOrder, At
<1>8. ASSUME NEW s \in Requests, s # r
      PROVE  TurnInOrder(s)'
  <2>1. req'[s] = req[s] /\ TurnInOrder(s)
    BY <1>8 DEF BeginsTurn, Moves, TypeInv, Typed, OrderInv
  <2>2. PICK k \in Nat : k = req[s].turn
    BY DEF TypeInv, Typed, Request
  <2>3. PICK t : t = req[s].chat
    OBVIOUS
  <2>4. k # n
    BY <1>2, <1>6, <2>2 DEF TypeInv, RequestsInv, Shape
  <2>5. \A j \in Nat : <<k, j>> \notin before'
    BY <1>3, <2>1, <2>2 DEF TurnInOrder, Over
  <2>6. \A i, a \in Nat :
           req[s].step \in Turning /\ <<i, k>> \in before' /\ In(t, i, a)'
           => <<i, k>> \in before /\ In(t, i, a)
    BY <1>1, <1>3, <1>6, <2>3, <2>4, TurningOpen DEF Quiet
  <2>7. \A a \in Nat, ro \in {"user", "model"} : Told(k, ro, a)' => Told(k, ro, a)
    BY <1>1 DEF Quiet
  <2>8. clock' >= clock
    BY <1>1, <1>2
  <2> QED
    BY <2>1, <2>2, <2>3, <2>5, <2>6, <2>7, <2>8, TurnKept
<1> QED
  BY <1>5, <1>7, <1>8 DEF OrderInv

\* The lines that the turn of r adds at its step.
NewLine(r, ro, a) ==
    \/ At(r, "stream.ask") /\ ro = "user" /\ a = clock
    \/ At(r, "stream.answer") /\ ro = "model" /\ a = clock
    \/ /\ req[r].step \in {"plain", "plainStream"}
       /\ \/ ro = "user" /\ a = clock
          \/ ro = "model" /\ a = clock + Second

\* They are of its turn and its thread, at this time or after.
LEMMA SendTells ==
  ASSUME ChatAssumption, TypeInv, NEW r \in Requests, Sends(r)
  PROVE  /\ \A i, a \in Nat, ro \in {"user", "model"} : Told(i, ro, a)' =>
              Told(i, ro, a) \/ (i = req[r].turn /\ NewLine(r, ro, a))
         /\ \A t : \A i, a \in Nat : In(t, i, a)' =>
              \/ In(t, i, a)
              \/ t = req[r].chat /\ i = req[r].turn /\ a >= clock
         /\ \A s \in Requests : req'[s].copied \subseteq req[s].copied
<1>1. clock \in Nat /\ Second \in Nat /\ clock + Second >= clock
  BY DEF TypeInv, Typed, ChatAssumption
<1>2. \A s \in Requests : req'[s].copied \subseteq req[s].copied
  <2>1. req[r] \in Request /\ IdleRequest.copied = {}
    BY DEF TypeInv, Typed, IdleRequest
  <2>2. req'[r].copied \subseteq req[r].copied
    BY <2>1 DEF Sends, Request
  <2> QED
    BY <2>2 DEF Sends, Moves, TypeInv, Typed
<1>3. ASSUME NEW m \in Filled'
      PROVE  \/ m \in Filled /\ message'[m] = message[m]
             \/ /\ message'[m].chat = req[r].chat /\ message'[m].turn = req[r].turn
                /\ NewLine(r, message'[m].role, message'[m].at)
  <2>1. m \in Messages /\ message'[m].status \in {"insert", "stored"}
    BY DEF Filled
  <2>2. CASE message'[m] = message[m]
    BY <2>1, <2>2 DEF Filled
  <2>3. CASE message'[m] = Gone
    BY <2>1, <2>3 DEF Gone, NoRow
  <2>4. CASE TurnRow(r, message'[m]) /\ message'[m] # message[m]
    BY <2>1, <2>4 DEF Sends, TurnRow, Row, Gone, NoRow, NewLine
  <2> QED
    BY <2>1, <2>2, <2>3, <2>4 DEF Sends
<1>4. ASSUME NEW t, NEW i \in Nat, NEW a \in Nat, In(t, i, a)'
      PROVE  In(t, i, a) \/ (t = req[r].chat /\ i = req[r].turn /\ a >= clock)
  <2>1. PICK m \in Filled' : message'[m].chat = t /\ message'[m].turn = i /\ message'[m].at = a
    BY <1>4 DEF In
  <2> QED
    BY <1>1, <1>3, <2>1 DEF In, NewLine
<1>5. ASSUME NEW i \in Nat, NEW a \in Nat, NEW ro \in {"user", "model"}, Told(i, ro, a)'
      PROVE  Told(i, ro, a) \/ (i = req[r].turn /\ NewLine(r, ro, a))
  <2>1. CASE \E s \in Requests : \E x \in req'[s].copied : x.turn = i /\ x.role = ro /\ x.at = a
    BY <1>2, <2>1 DEF Told
  <2>2. ASSUME NEW m \in Filled', message'[m].turn = i, message'[m].role = ro, message'[m].at = a
        PROVE  Told(i, ro, a) \/ (i = req[r].turn /\ NewLine(r, ro, a))
    BY <1>3, <2>2 DEF Told
  <2> QED
    BY <1>5, <2>1, <2>2 DEF Told
<1> QED
  BY <1>2, <1>4, <1>5

LEMMA SendOrder ==
  ASSUME ChatAssumption, TypeInv, TypeInv', OrderInv, NEW r \in Requests, Sends(r)
  PROVE  OrderInv'
<1>1. /\ clock \in Nat /\ clock' \in Nat /\ clock' >= clock
      /\ Second \in Nat /\ clock < clock + Second /\ clock < clock + 1
  BY DEF Sends, TypeInv, Typed, ChatAssumption
<1>2. PICK k \in Nat : k = req[r].turn
  BY DEF TypeInv, Typed, Request
<1>3. PICK c : c = req[r].chat
  OBVIOUS
<1>4. TurnInOrder(r) /\ before' = before /\ \A j \in Nat : <<k, j>> \notin before
  BY <1>2 DEF OrderInv, TurnInOrder, Sends
<1>5. req[r].step \in {"stream.ask", "stream.answer", "plain", "plainStream"}
      /\ req[r].step \in Turning
  BY DEF Sends, Turning, At
<1>6. \A i \in Nat, a \in Nat : <<i, k>> \in before /\ In(c, i, a) => a < clock
  BY <1>2, <1>3, <1>4, <1>5 DEF TurnInOrder
<1>7. \A t : \A i, a \in Nat : In(t, i, a)' => In(t, i, a) \/ (t = c /\ i = k /\ a >= clock)
  BY <1>2, <1>3, SendTells
<1>8. \A i, a \in Nat, ro \in {"user", "model"} : i # k /\ Told(i, ro, a)' => Told(i, ro, a)
  BY <1>2, SendTells
<1>9. ASSUME NEW a \in Nat, NEW b \in Nat, Told(k, "user", a)', Told(k, "model", b)'
      PROVE  a < b
  <2>1. CASE At(r, "stream.ask")
    BY <1>2, <1>4, <1>9, <2>1, SendTells DEF TurnInOrder, At, NewLine
  <2>2. CASE At(r, "stream.answer")
    BY <1>2, <1>4, <1>9, <2>2, SendTells DEF TurnInOrder, At, NewLine
  <2>3. CASE req[r].step \in {"plain", "plainStream"}
    <3>1. ~Told(k, "user", a) /\ ~Told(k, "model", b)
      BY <1>2, <1>4, <2>3 DEF TurnInOrder
    <3>2. a = clock /\ b = clock + Second
      BY <1>9, <2>3, <3>1, SendTells DEF At, NewLine
    <3> QED
      BY <1>1, <3>2
  <2> QED
    BY <1>5, <2>1, <2>2, <2>3 DEF At
<1>10. ASSUME NEW i \in Nat, NEW j \in Nat, NEW a \in Nat, NEW b \in Nat,
              <<i, j>> \in before', Together(i, a, j, b)'
       PROVE  a < b
  <2>1. <<i, j>> \in before /\ i # k
    BY <1>4, <1>10
  <2>2. CASE \E s \in Requests : \E x, y \in req'[s].copied :
                x.turn = i /\ x.at = a /\ y.turn = j /\ y.at = b
    <3>1. Together(i, a, j, b)
      BY <2>2, SendTells DEF Together
    <3> QED
      BY <2>1, <3>1 DEF OrderInv, RowsInOrder
  <2>3. ASSUME NEW t \in Threads, In(t, i, a)', In(t, j, b)'
        PROVE  a < b
    <3>1. In(t, i, a)
      BY <1>7, <2>1, <2>3
    <3>2. CASE In(t, j, b)
      BY <2>1, <3>1, <3>2 DEF OrderInv, RowsInOrder, Together
    <3>3. CASE t = c /\ j = k /\ b >= clock
      <4>1. a < clock
        BY <1>6, <2>1, <3>1, <3>3
      <4> QED
        BY <1>1, <3>3, <4>1
    <3> QED
      BY <1>7, <2>3, <3>2, <3>3
  <2> QED
    BY <1>10, <2>2, <2>3 DEF Together
<1>11. RowsInOrder'
  <2>1. ASSUME NEW i \in Nat, NEW a \in Nat, NEW b \in Nat, Told(i, "user", a)', Told(i, "model", b)'
        PROVE  a < b
    BY <1>8, <1>9, <2>1 DEF OrderInv, RowsInOrder
  <2> QED
    BY <1>10, <2>1 DEF RowsInOrder
<1>12. ASSUME NEW s \in Requests, s # r
       PROVE  TurnInOrder(s)'
  <2>1. req'[s] = req[s] /\ TurnInOrder(s)
    BY <1>12 DEF Sends, Moves, TypeInv, Typed, OrderInv
  <2>2. PICK n \in Nat : n = req[s].turn
    BY DEF TypeInv, Typed, Request
  <2>3. PICK t : t = req[s].chat
    OBVIOUS
  <2>4. n # k
    BY <1>2, <1>5, <1>12, <2>2, TurningOpen DEF TypeInv, RequestsInv
  <2>5. \A j \in Nat : <<n, j>> \notin before'
    BY <1>4, <2>1, <2>2 DEF TurnInOrder
  <2>6. \A i, a \in Nat :
           req[s].step \in Turning /\ <<i, n>> \in before' /\ In(t, i, a)'
           => <<i, n>> \in before /\ In(t, i, a)
    BY <1>4, <1>7
  <2>7. \A a \in Nat, ro \in {"user", "model"} : Told(n, ro, a)' => Told(n, ro, a)
    BY <1>8, <2>4
  <2> QED
    BY <1>1, <2>1, <2>2, <2>3, <2>5, <2>6, <2>7, TurnKept
<1>13. TurnInOrder(r)'
  <2>1. CASE req'[r] = IdleRequest
    <3>1. req'[r].turn = 0 /\ req'[r].step = "idle"
      BY <2>1 DEF IdleRequest
    <3>2. \A j \in Nat : <<0, j>> \notin before'
      BY DEF TypeInv
    <3> QED
      BY <3>1, <3>2 DEF TurnInOrder, Turning, At
  <2>2. ASSUME req'[r].turn = k, req'[r].chat = c, req'[r].step \in {"stream.answer", "saving"},
               req'[r].step = "stream.answer" => At(r, "stream.ask") /\ clock' = clock + 1
        PROVE  TurnInOrder(r)'
    <3>1. \A j \in Nat : <<k, j>> \notin before'
      BY <1>4
    <3>2. ASSUME NEW a \in Nat, At(r, "stream.answer")'
          PROVE  ~Told(k, "model", a)' /\ (Told(k, "user", a)' => a < clock')
      <4>1. At(r, "stream.ask") /\ clock' = clock + 1
        BY <2>2, <3>2 DEF At
      <4>2. ~Told(k, "model", a) /\ ~Told(k, "user", a)
        BY <1>2, <1>4, <4>1 DEF TurnInOrder, At
      <4>3. ~Told(k, "model", a)' /\ (Told(k, "user", a)' => a = clock)
        BY <4>1, <4>2, SendTells DEF At, NewLine
      <4> QED
        BY <1>1, <4>1, <4>3
    <3>3. ASSUME NEW i \in Nat, NEW a \in Nat, <<i, k>> \in before', In(c, i, a)'
          PROVE  a < clock'
      <4>1. i # k /\ <<i, k>> \in before
        BY <1>4, <3>3
      <4>2. a < clock
        BY <1>6, <1>7, <3>3, <4>1
      <4> QED
        BY <1>1, <4>2
    <3> QED
      BY <2>2, <3>1, <3>2, <3>3 DEF TurnInOrder, At
  <2>3. req[r] \in Request
    BY DEF TypeInv, Typed
  <2>4. CASE At(r, "stream.ask") /\ clock' = clock + 1 /\ req'[r] = [req[r] EXCEPT !.step = "stream.answer"]
    BY <1>2, <1>3, <2>2, <2>3, <2>4 DEF Request
  <2>5. CASE req'[r] = [req[r] EXCEPT !.step = "saving"]
    BY <1>2, <1>3, <2>2, <2>3, <2>5 DEF Request
  <2> QED
    BY <2>1, <2>4, <2>5 DEF Sends
<1> QED
  BY <1>11, <1>12, <1>13 DEF OrderInv

LEMMA NextOrder ==
  ASSUME ChatAssumption, TypeInv, OrderInv, [Next]_vars
  PROVE  OrderInv'
<1>1. TypeInv'
  BY NextTypes
<1>2. clock \in Nat /\ clock >= clock
  BY DEF TypeInv, Typed, ChatAssumption
<1>3. CASE Ticks \/ UNCHANGED vars
  <2>1. Quiet
    BY <1>3, QuietSteps
  <2>2. clock' >= clock /\ UNCHANGED <<before, turns, req>>
    BY <1>2, <1>3 DEF Ticks, vars
  <2> QED
    BY <1>1, <2>1, <2>2, OrderKept
<1>4. ASSUME NEW m \in Messages, Settles(m)
      PROVE  OrderInv'
  <2>1. Quiet
    BY <1>4, QuietSteps
  <2>2. clock' >= clock /\ UNCHANGED <<before, turns, req>>
    BY <1>2, <1>4 DEF Settles
  <2> QED
    BY <1>1, <2>1, <2>2, OrderKept
<1>5. ASSUME NEW r \in Requests, BeginsChange(r) \/ Ends(r) \/ Copies(r)
      PROVE  OrderInv'
  <2>1. Quiet
    BY <1>5, QuietSteps
  <2>2. clock' >= clock /\ UNCHANGED <<before, turns>>
    BY <1>2, <1>5 DEF BeginsChange, Ends, Copies
  <2>3. \A s \in Requests \ {r} : req'[s] = req[s]
    BY <1>5 DEF BeginsChange, Ends, Copies, Moves, TypeInv, Typed
  <2>4. req'[r].turn = 0 /\ req'[r].step \notin Turning
    <3>1. IdleRequest.turn = 0 /\ IdleRequest.step \notin Turning
      BY DEF IdleRequest, Turning
    <3>2. CASE BeginsChange(r)
      BY <3>2 DEF BeginsChange, Turning
    <3>3. CASE req'[r] = IdleRequest
      BY <3>1, <3>3
    <3>4. req[r] \in Request /\ Shape(req[r], thread, turns)
      BY DEF TypeInv, Typed, RequestsInv
    <3>5. CASE At(r, "clear") /\ req'[r] = [req[r] EXCEPT !.step = "remove"]
      BY <3>4, <3>5 DEF Request, Shape, Turning, At
    <3>6. ASSUME NEW t \in Threads, At(r, "copy"),
                 req'[r] = [req[r] EXCEPT !.step = "copy.rows", !.target = t]
          PROVE  req'[r].turn = 0 /\ req'[r].step \notin Turning
      BY <3>4, <3>6 DEF Request, Shape, Turning, At
    <3> QED
      BY <1>5, <3>2, <3>3, <3>5, <3>6 DEF Ends, Copies
  <2> QED
    BY <1>1, <2>1, <2>2, <2>3, <2>4, OrderKept
<1>6. CASE Next
  BY <1>1, <1>3, <1>4, <1>5, <1>6, NextKinds, TurnOrder, SendOrder
<1> QED
  BY <1>3, <1>6

LEMMA InitOrder ==
  ASSUME ChatAssumption, Init
  PROVE  OrderInv
<1>1. Filled = {}
  BY DEF Init, Filled, Free, NoRow
<1>2. \A r \in Requests : req[r] = IdleRequest
  BY DEF Init
<1>3. IdleRequest.step = "idle" /\ IdleRequest.copied = {}
  BY DEF IdleRequest
<1>4. \A i, ro, a : ~Told(i, ro, a)
  BY <1>1, <1>2, <1>3 DEF Told
<1> QED
  BY <1>2, <1>3, <1>4 DEF Init, OrderInv, RowsInOrder, TurnInOrder, Turning, At

LEMMA ChatsOrdered == Spec => [](TypeInv /\ OrderInv)
<1>1. Init => TypeInv /\ OrderInv
  BY InitTypes, InitOrder, ChatAssumption
<1>2. TypeInv /\ OrderInv /\ [Next]_vars => TypeInv' /\ OrderInv'
  BY NextTypes, NextOrder, ChatAssumption
<1> QED
  BY <1>1, <1>2, PTL DEF Spec

(* However turns, inserts nobody waits for, edits, retries, copies and       *)
(* deletions interleave, a thread and every copy of it read in order: each   *)
(* question before its answer, and a turn that was over before one that      *)
(* began after it.                                                           *)
THEOREM ConversationsInOrder == Spec => []ConversationInOrder
<1>1. ASSUME TypeInv, OrderInv, NEW t \in Threads, NEW m \in Rows(t, "stored"), NEW n \in Rows(t, "stored"),
             \/ <<message[m].turn, message[n].turn>> \in before
             \/ /\ message[m].turn = message[n].turn
                /\ message[m].role = "user" /\ message[n].role = "model"
      PROVE  message[m].at < message[n].at
  <2>1. /\ m \in Filled /\ message[m].chat = t /\ message[m].turn \in Nat /\ message[m].at \in Nat
        /\ n \in Filled /\ message[n].chat = t /\ message[n].turn \in Nat /\ message[n].at \in Nat
    BY <1>1, FilledRow DEF Rows, Filled, TypeInv, Row
  <2>2. CASE <<message[m].turn, message[n].turn>> \in before
    <3>1. Together(message[m].turn, message[m].at, message[n].turn, message[n].at)
      BY <2>1 DEF Together, In
    <3> QED
      BY <1>1, <2>1, <2>2, <3>1 DEF OrderInv, RowsInOrder
  <2>3. CASE /\ message[m].turn = message[n].turn
             /\ message[m].role = "user" /\ message[n].role = "model"
    <3>1. Told(message[m].turn, "user", message[m].at) /\ Told(message[m].turn, "model", message[n].at)
      BY <2>1, <2>3 DEF Told
    <3> QED
      BY <1>1, <2>1, <3>1 DEF OrderInv, RowsInOrder
  <2> QED
    BY <1>1, <2>2, <2>3
<1>2. TypeInv /\ OrderInv => ConversationInOrder
  BY <1>1 DEF ConversationInOrder
<1> QED
  BY <1>2, ChatsOrdered, PTL

-----------------------------------------------------------------------------
(* Answers and their questions.                                              *)

LineIn(t, i, ro) ==
    \E m \in Filled : message[m].chat = t /\ message[m].turn = i /\ message[m].role = ro

\* No change of t meets a turn of it.
Apart(t) ==
    Serving(t, Changing) => ~Serving(t, Turning) /\ Rows(t, "insert") = {}

\* What r is about to store and to delete in its thread goes by whole turns.
WholeTurns(r) ==
    /\ At(r, "stream.answer") /\ req[r].turn \notin lost => LineIn(req[r].chat, req[r].turn, "user")
    /\ \A x \in req[r].copied :
          x.role = "model" /\ x.turn \notin lost
          => \E y \in req[r].copied : y.role = "user" /\ y.turn = x.turn
    /\ \A m, n \in Rows(req[r].chat, "stored") :
          (/\ m \in req[r].listed /\ message[m].turn = message[n].turn
           /\ message[m].role = "user" /\ message[n].role = "model")
          => n \in req[r].listed

\* The messages a request listed, to delete them, are of its thread, or gone.
ListedRows(r) ==
    /\ req[r].listed # {} => req[r].step \in {"edit", "retry"}
    /\ \A m \in req[r].listed : message[m] = Gone \/ m \in Rows(req[r].chat, "stored")

KeepInv ==
    /\ \A r \in Requests : ListedRows(r)
    /\ \A t \in Threads \ raced :
          /\ Apart(t)
          /\ \A i \in Nat \ lost : LineIn(t, i, "model") => LineIn(t, i, "user")
          /\ \A r \in Requests : req[r].chat = t => WholeTurns(r)

\* Who is in a thread.
LEMMA Visitors ==
  ASSUME ChatAssumption, TypeInv, NEW r \in Requests, NEW t \in Threads, req[r].chat = t
  PROVE  req[r].step # "idle" /\ Open(t)
  BY DEF ChatAssumption, TypeInv, RequestsInv, Shape, IdleRequest, Open

\* A row whose status is this one is in the table.
LEMMA RowFacts ==
  ASSUME TypeInv, NEW t, NEW m \in Messages
  PROVE  /\ m \in Rows(t, "stored") \/ m \in Rows(t, "insert") <=> m \in Filled /\ message[m].chat = t
         /\ m \in Filled <=> message[m] \in Row
         /\ m \in Filled => message[m] # Free /\ message[m] # Gone
         /\ m \in Rows(t, "stored") => message[m].status = "stored" /\ message[m].chat = t
  BY FilledRow DEF TypeInv, Rows, Filled

LEMMA TurnKeeps ==
  ASSUME ChatAssumption, TypeInv, KeepInv, NEW r \in Requests, BeginsTurn(r)
  PROVE  KeepInv'
<1>1. /\ message' = message /\ lost' = lost /\ raced \subseteq raced'
      /\ \A s \in Requests : s # r => req'[s] = req[s]
  BY DEF BeginsTurn, Moves, TypeInv, Typed
<1>2. /\ req'[r].step \in Turning /\ req'[r].step \notin Changing /\ req'[r].step # "stream.answer"
      /\ req'[r].listed = {} /\ req'[r].copied = {}
  BY DEF BeginsTurn, Turning, Changing
<1>3. \A s \in Requests : ListedRows(s)'
  BY <1>1, <1>2 DEF KeepInv, ListedRows, Rows
<1>4. ASSUME NEW t \in Threads, t \notin raced'
      PROVE  Apart(t)'
  <2>1. ASSUME Serving(t, Changing)'
        PROVE  ~Serving(t, Turning)' /\ (Rows(t, "insert") = {})'
    <3>1. Serving(t, Changing)
      BY <1>1, <1>2, <2>1 DEF Serving
    <3>2. t # req'[r].chat
      BY <1>4, <3>1 DEF BeginsTurn
    <3>3. ~Serving(t, Turning) /\ Rows(t, "insert") = {}
      BY <1>1, <1>4, <3>1 DEF KeepInv, Apart
    <3> QED
      BY <1>1, <3>2, <3>3 DEF Serving, Rows
  <2> QED
    BY <2>1 DEF Apart
<1>5. ASSUME NEW t \in Threads, t \notin raced', NEW i \in Nat \ lost', LineIn(t, i, "model")'
      PROVE  LineIn(t, i, "user")'
  BY <1>1, <1>5 DEF KeepInv, LineIn, Filled
<1>6. ASSUME NEW s \in Requests, req'[s].chat \in Threads \ raced'
      PROVE  WholeTurns(s)'
  <2>1. CASE s = r
    BY <1>2, <2>1 DEF WholeTurns, At
  <2>2. CASE s # r
    <3>1. WholeTurns(s) /\ req'[s] = req[s]
      BY <1>1, <1>6, <2>2 DEF KeepInv
    <3> QED
      BY <1>1, <3>1 DEF WholeTurns, At, LineIn, Filled, Rows
  <2> QED
    BY <2>1, <2>2
<1> QED
  BY <1>3, <1>4, <1>5, <1>6 DEF KeepInv

LEMMA ChangeKeeps ==
  ASSUME ChatAssumption, TypeInv, OrderInv, KeepInv, NEW r \in Requests, BeginsChange(r)
  PROVE  KeepInv'
<1>1. /\ message' = message /\ lost' = lost /\ raced \subseteq raced'
      /\ \A s \in Requests : s # r => req'[s] = req[s]
  BY DEF BeginsChange, Moves, TypeInv, Typed
<1>2. PICK c \in Threads : c = req'[r].chat
  BY DEF BeginsChange
<1>3. /\ req'[r].step \notin Turning /\ req'[r].step # "stream.answer"
      /\ c \in raced' \/ (~Serving(c, Turning) /\ Rows(c, "insert") = {})
  BY <1>2 DEF BeginsChange, Turning
<1>4. req[r].chat \notin Threads
  BY Visitors DEF BeginsChange, At
<1>5. ASSUME NEW s \in Requests
      PROVE  ListedRows(s)'
  <2>1. CASE s = r
    BY <1>1, <2>1 DEF BeginsChange, EndsThread, ListedRows, Rows
  <2>2. CASE s # r
    BY <1>1, <2>2 DEF KeepInv, ListedRows, Rows
  <2> QED
    BY <2>1, <2>2
<1>6. ASSUME NEW t \in Threads, t \notin raced'
      PROVE  Apart(t)'
  <2>1. CASE t = c
    BY <1>1, <1>2, <1>3, <1>6, <2>1 DEF Apart, Serving, Rows
  <2>2. CASE t # c
    BY <1>1, <1>2, <1>6, <2>2 DEF KeepInv, Apart, Serving, Rows
  <2> QED
    BY <2>1, <2>2
<1>7. ASSUME NEW t \in Threads, t \notin raced', NEW i \in Nat \ lost', LineIn(t, i, "model")'
      PROVE  LineIn(t, i, "user")'
  BY <1>1, <1>7 DEF KeepInv, LineIn, Filled
<1>8. ASSUME c \notin raced'
      PROVE  WholeTurns(r)'
  <2>1. \A m \in Filled : message[m].chat = c => m \in Rows(c, "stored")
    BY <1>3, <1>8, RowFacts DEF Filled
  <2>2. ASSUME NEW m \in Rows(c, "stored"), message[m].role = "model", message[m].turn \notin lost
        PROVE  \E n \in Rows(c, "stored") : message[n].role = "user" /\ message[n].turn = message[m].turn
    <3>1. m \in Filled /\ message[m].chat = c /\ message[m].turn \in Nat
      BY RowFacts DEF Rows, Row
    <3>2. LineIn(c, message[m].turn, "model")
      BY <2>2, <3>1 DEF LineIn
    <3>3. LineIn(c, message[m].turn, "user")
      BY <1>1, <1>8, <2>2, <3>1, <3>2 DEF KeepInv
    <3> QED
      BY <2>1, <3>3 DEF LineIn
  <2>3. ASSUME NEW x \in req'[r].copied, x.role = "model", x.turn \notin lost'
        PROVE  \E y \in req'[r].copied : y.role = "user" /\ y.turn = x.turn
    <3>1. req'[r].copied = {message[m] : m \in Rows(c, "stored")}
      BY <1>2, <2>3 DEF BeginsChange
    <3>2. PICK m \in Rows(c, "stored") : x = message[m]
      BY <2>3, <3>1
    <3>3. PICK n \in Rows(c, "stored") : message[n].role = "user" /\ message[n].turn = message[m].turn
      BY <1>1, <2>2, <2>3, <3>2
    <3> QED
      BY <3>1, <3>2, <3>3
  <2>4. ASSUME NEW m \in Rows(c, "stored"), NEW n \in Rows(c, "stored"), m \in req'[r].listed,
               message[m].turn = message[n].turn,
               message[m].role = "user", message[n].role = "model"
        PROVE  n \in req'[r].listed
    <3>1. PICK time \in Nat :
             /\ \A k \in req'[r].listed : message[k].at >= time
             /\ \A k \in Rows(c, "stored") : message[k].at > time => k \in req'[r].listed
      BY <1>2, <2>4 DEF BeginsChange, EndsThread
    <3>2. /\ m \in Filled /\ message[m].turn \in Nat /\ message[m].at \in Nat
          /\ n \in Filled /\ message[n].at \in Nat
      BY RowFacts DEF Rows, Row
    <3>3. Told(message[m].turn, "user", message[m].at) /\ Told(message[m].turn, "model", message[n].at)
      BY <2>4, <3>2 DEF Told
    <3>4. message[m].at < message[n].at
      BY <3>2, <3>3 DEF OrderInv, RowsInOrder
    <3>5. message[m].at >= time
      BY <2>4, <3>1
    <3>6. message[n].at > time
      BY <3>2, <3>4, <3>5
    <3> QED
      BY <2>4, <3>1, <3>6
  <2> QED
    BY <1>1, <1>2, <1>3, <2>3, <2>4 DEF WholeTurns, At, Rows
<1>9. ASSUME NEW s \in Requests, req'[s].chat \in Threads \ raced'
      PROVE  WholeTurns(s)'
  <2>1. CASE s = r
    BY <1>2, <1>8, <1>9, <2>1
  <2>2. CASE s # r
    <3>1. WholeTurns(s) /\ req'[s] = req[s]
      BY <1>1, <1>9, <2>2 DEF KeepInv
    <3> QED
      BY <1>1, <3>1 DEF WholeTurns, At, LineIn, Filled, Rows
  <2> QED
    BY <2>1, <2>2
<1> QED
  BY <1>5, <1>6, <1>7, <1>9 DEF KeepInv

LEMMA SendKeeps ==
  ASSUME ChatAssumption, TypeInv, KeepInv, NEW r \in Requests, Sends(r)
  PROVE  KeepInv'
<1>1. /\ lost' = lost /\ raced' = raced
      /\ \A s \in Requests : s # r => req'[s] = req[s]
  BY DEF Sends, Moves, TypeInv, Typed
<1>2. req[r] \in Request /\ req[r].step \in Turning /\ req[r].step \notin Changing
      /\ req[r].step \notin {"edit", "retry"}
  BY DEF Sends, Turning, Changing, At, TypeInv, Typed
<1>3. PICK c \in Threads : c = req[r].chat
  BY <1>2, TurningOpen
<1>4. PICK k \in Nat : k = req[r].turn
  BY <1>2 DEF Request
<1>5. req[r].listed = {}
  BY <1>2 DEF KeepInv, ListedRows
<1>6. /\ req'[r].listed = {} /\ req'[r].copied \in {{}, req[r].copied}
      /\ req'[r].step \notin Changing
      /\ req'[r].step \in Turning => req'[r].chat = c
      /\ req'[r].step = "stream.answer" => At(r, "stream.ask") /\ req'[r].turn = k
  <2>1. CASE req'[r] = IdleRequest
    BY <2>1 DEF IdleRequest, Changing, Turning
  <2>2. CASE At(r, "stream.ask") /\ req'[r] = [req[r] EXCEPT !.step = "stream.answer"]
    BY <1>2, <1>3, <1>4, <1>5, <2>2 DEF Request, Changing
  <2>3. CASE req'[r] = [req[r] EXCEPT !.step = "saving"]
    BY <1>2, <1>3, <1>4, <1>5, <2>3 DEF Request, Changing
  <2> QED
    BY <2>1, <2>2, <2>3 DEF Sends
<1>7. ASSUME NEW m \in Messages
      PROVE  \/ message'[m] = message[m]
             \/ message[m] = Free /\ message'[m] = Gone
             \/ message[m] = Free /\ message'[m] \in Row /\ message'[m].chat = c /\ message'[m].turn = k
  BY <1>3, <1>4 DEF Sends, TurnRow
<1>8. \A m \in Filled : m \in Filled' /\ message'[m] = message[m]
  BY <1>7, RowFacts DEF Filled
<1>9. \A m \in Filled' : \/ m \in Filled /\ message'[m] = message[m]
                         \/ /\ TurnRow(r, message'[m]) /\ message'[m].chat = c /\ message'[m].turn = k
                            /\ message[m] = Free
  <2>1. Gone.status \notin {"insert", "stored"}
    BY DEF Gone, NoRow
  <2> QED
    BY <1>3, <1>4, <1>7, <2>1 DEF Filled, TurnRow
<1>10. \A t, i, ro : LineIn(t, i, ro) => LineIn(t, i, ro)'
  BY <1>8 DEF LineIn
<1>11. \A t \in Threads, st \in {"insert", "stored"} : t # c => Rows(t, st)' = Rows(t, st)
  <2>1. ASSUME NEW t \in Threads, NEW st \in {"insert", "stored"}, t # c, NEW m \in Messages
        PROVE  (message'[m].chat = t /\ message'[m].status = st)
               <=> (message[m].chat = t /\ message[m].status = st)
    <3>1. CASE message'[m] = message[m]
      BY <3>1
    <3>2. CASE message[m] = Free
      BY <1>7, <2>1, <3>2 DEF Free, Gone, NoRow
    <3> QED
      BY <1>7, <3>1, <3>2
  <2> QED
    BY <2>1 DEF Rows
<1>12. ASSUME NEW s \in Requests
       PROVE  ListedRows(s)'
  <2>1. CASE s = r
    BY <1>6, <2>1 DEF ListedRows
  <2>2. CASE s # r
    <3>1. req'[s] = req[s] /\ ListedRows(s)
      BY <1>1, <2>2 DEF KeepInv
    <3>2. \A m \in Messages : message[m] = Gone => message'[m] = Gone
      BY <1>7 DEF Gone, Free, NoRow
    <3>3. req[s].listed \subseteq Messages
      BY DEF TypeInv, Typed, Request
    <3> QED
      BY <1>8, <3>1, <3>2, <3>3, RowFacts DEF ListedRows, Rows, Filled
  <2> QED
    BY <2>1, <2>2
<1>13. Serving(c, Turning)
  BY <1>2, <1>3 DEF Serving
<1>14. ASSUME NEW t \in Threads, t \notin raced, Serving(t, Changing)
       PROVE  t # c /\ ~Serving(t, Turning) /\ Rows(t, "insert") = {}
  BY <1>13, <1>14 DEF KeepInv, Apart
<1>15. ASSUME NEW t \in Threads, t \notin raced'
       PROVE  Apart(t)'
  <2>1. ASSUME Serving(t, Changing)'
        PROVE  ~Serving(t, Turning)' /\ (Rows(t, "insert") = {})'
    <3>1. Serving(t, Changing)
      BY <1>1, <1>6, <2>1 DEF Serving
    <3>2. t # c /\ ~Serving(t, Turning) /\ Rows(t, "insert") = {}
      BY <1>1, <1>14, <1>15, <3>1
    <3>3. ~Serving(t, Turning)'
      BY <1>1, <1>6, <3>2 DEF Serving
    <3> QED
      BY <1>11, <3>2, <3>3
  <2> QED
    BY <2>1 DEF Apart
<1>16. ASSUME NEW t \in Threads, t \notin raced', NEW i \in Nat \ lost', LineIn(t, i, "model")'
       PROVE  LineIn(t, i, "user")'
  <2>1. CASE LineIn(t, i, "model")
    <3>1. LineIn(t, i, "user")
      BY <1>1, <1>16, <2>1 DEF KeepInv
    <3> QED
      BY <1>10, <3>1
  <2>2. CASE ~LineIn(t, i, "model")
    <3>1. PICK m \in Filled' : message'[m].chat = t /\ message'[m].turn = i /\ message'[m].role = "model"
      BY <1>16 DEF LineIn
    <3>2. TurnRow(r, message'[m]) /\ t = c /\ i = k /\ message[m] = Free
      BY <1>9, <2>2, <3>1 DEF LineIn
    <3>3. message'[m] # message[m] /\ message'[m] # Gone /\ m \in Messages
      BY <3>2 DEF Filled, TurnRow, Row, Free, Gone, NoRow
    <3>4. CASE At(r, "stream.answer")
      <4>1. WholeTurns(r)
        BY <1>1, <1>3, <1>16, <3>2 DEF KeepInv
      <4>2. LineIn(c, k, "user")
        BY <1>1, <1>3, <1>4, <1>16, <3>2, <3>4, <4>1 DEF WholeTurns
      <4> QED
        BY <1>10, <3>2, <4>2
    <3>5. CASE ~At(r, "stream.answer")
      <4>1. PICK n \in Messages : TurnRow(r, message'[n]) /\ message'[n].role = "user"
        BY <3>1, <3>3, <3>5 DEF Sends, At
      <4>2. n \in Filled' /\ message'[n].chat = c /\ message'[n].turn = k
        BY <1>3, <1>4, <4>1 DEF TurnRow, Row, Filled
      <4> QED
        BY <3>2, <4>1, <4>2 DEF LineIn
    <3> QED
      BY <3>4, <3>5
  <2> QED
    BY <2>1, <2>2
<1>17. ASSUME NEW s \in Requests, req'[s].chat \in Threads \ raced'
       PROVE  WholeTurns(s)'
  <2>1. CASE s = r
    <3>1. ASSUME At(r, "stream.answer")'
          PROVE  LineIn(c, k, "user")'
      <4>1. PICK n \in Messages : TurnRow(r, message'[n]) /\ message'[n].role = "user"
        BY <1>6, <3>1 DEF Sends, At
      <4>2. n \in Filled' /\ message'[n].chat = c /\ message'[n].turn = k
        BY <1>3, <1>4, <4>1 DEF TurnRow, Row, Filled
      <4> QED
        BY <4>1, <4>2 DEF LineIn
    <3>2. At(r, "stream.answer")' => req'[r].chat = c /\ req'[r].turn = k
      BY <1>6 DEF At, Turning
    <3>3. ASSUME NEW x \in req'[r].copied, x.role = "model", x.turn \notin lost'
          PROVE  \E y \in req'[r].copied : y.role = "user" /\ y.turn = x.turn
      <4>1. req'[r].copied = req[r].copied /\ req'[r] # IdleRequest
        BY <1>6, <3>3 DEF IdleRequest
      <4>2. req'[r].chat = c
        BY <1>2, <1>3, <4>1 DEF Sends, Request
      <4>3. WholeTurns(r)
        BY <1>1, <1>3, <1>17, <2>1, <4>2 DEF KeepInv
      <4> QED
        BY <1>1, <3>3, <4>1, <4>3 DEF WholeTurns
    <3> QED
      BY <1>6, <2>1, <3>1, <3>2, <3>3 DEF WholeTurns
  <2>2. CASE s # r
    <3>1. req'[s] = req[s] /\ WholeTurns(s) /\ ListedRows(s)
      BY <1>1, <1>17, <2>2 DEF KeepInv
    <3>2. PICK t \in Threads : t = req[s].chat /\ t \notin raced
      BY <1>1, <1>17, <3>1
    <3>3. PICK i : i = req[s].turn
      OBVIOUS
    <3>4. At(s, "stream.answer") /\ i \notin lost' => LineIn(t, i, "user")'
      BY <1>1, <1>10, <3>1, <3>2, <3>3 DEF WholeTurns
    <3>5. req[s].listed # {} => t # c
      <4>1. ASSUME req[s].listed # {}
            PROVE  Serving(t, Changing)
        BY <3>1, <3>2, <4>1 DEF ListedRows, Serving, Changing
      <4> QED
        BY <1>14, <3>2, <4>1
    <3>6. ASSUME NEW m \in Rows(t, "stored")', NEW n \in Rows(t, "stored")', m \in req[s].listed,
                 message'[m].turn = message'[n].turn,
                 message'[m].role = "user", message'[n].role = "model"
          PROVE  n \in req[s].listed
      <4>1. m \in Rows(t, "stored") /\ n \in Rows(t, "stored")
        BY <1>11, <3>5, <3>6
      <4>2. message'[m] = message[m] /\ message'[n] = message[n]
        BY <1>8, <4>1, RowFacts DEF Rows
      <4> QED
        BY <3>1, <3>2, <3>6, <4>1, <4>2 DEF WholeTurns
    <3>7. \A x \in req[s].copied :
            x.role = "model" /\ x.turn \notin lost'
            => \E y \in req[s].copied : y.role = "user" /\ y.turn = x.turn
      BY <1>1, <3>1 DEF WholeTurns
    <3>8. t = req'[s].chat /\ i = req'[s].turn
      BY <3>1, <3>2, <3>3
    <3> QED
      BY <3>1, <3>4, <3>6, <3>7, <3>8 DEF WholeTurns, At
  <2> QED
    BY <2>1, <2>2
<1> QED
  BY <1>12, <1>15, <1>16, <1>17 DEF KeepInv

\* A request that ends deletes in its thread only, and no question without its answers.
LEMMA EndDeletes ==
  ASSUME ChatAssumption, TypeInv, KeepInv, NEW r \in Requests, Ends(r),
         NEW m \in Filled, message'[m] # message[m]
  PROVE  /\ m \in Rows(req[r].chat, "stored")
         /\ req[r].step \in {"edit", "retry", "clear"}
         /\ \A n \in Rows(req[r].chat, "stored") :
              (/\ req[r].chat \notin raced /\ message[m].turn = message[n].turn
               /\ message[m].role = "user" /\ message[n].role = "model")
              => message'[n] = Gone
<1>1. req[r].step # "idle" /\ req[r].chat \in Threads /\ m \in Messages
  BY DEF Ends, At, TypeInv, RequestsInv, Shape, Filled
<1>2. message[m] # Gone
  BY <1>1, RowFacts
<1>3. CASE req[r].step \in {"edit", "retry"} /\ message' = Without(req[r].listed)
  <2>1. m \in req[r].listed
    BY <1>1, <1>3 DEF Without
  <2>2. m \in Rows(req[r].chat, "stored")
    BY <1>2, <2>1 DEF KeepInv, ListedRows
  <2>3. ASSUME NEW n \in Rows(req[r].chat, "stored"),
               req[r].chat \notin raced, message[m].turn = message[n].turn,
               message[m].role = "user", message[n].role = "model"
        PROVE  message'[n] = Gone
    <3>1. n \in req[r].listed
      BY <1>1, <2>1, <2>2, <2>3 DEF KeepInv, WholeTurns
    <3> QED
      BY <1>3, <3>1 DEF Without, Rows
  <2> QED
    BY <1>3, <2>2, <2>3
<1>4. CASE At(r, "clear") /\ message' = Without(Rows(req[r].chat, "stored"))
  <2>1. m \in Rows(req[r].chat, "stored")
    BY <1>1, <1>4 DEF Without
  <2>2. \A n \in Rows(req[r].chat, "stored") : message'[n] = Gone
    BY <1>4 DEF Without, Rows
  <2> QED
    BY <1>4, <2>1, <2>2 DEF At
<1> QED
  BY <1>3, <1>4 DEF Ends, At

LEMMA EndKeeps ==
  ASSUME ChatAssumption, TypeInv, KeepInv, NEW r \in Requests, Ends(r)
  PROVE  KeepInv'
<1>1. /\ lost' = lost /\ raced' = raced
      /\ \A s \in Requests : s # r => req'[s] = req[s]
  BY DEF Ends, Moves, TypeInv, Typed
<1>2. req[r] \in Request /\ Shape(req[r], thread, turns) /\ req[r].step # "idle"
  BY DEF Ends, At, TypeInv, Typed, RequestsInv
<1>3. PICK c \in Threads : c = req[r].chat
  BY <1>2 DEF Shape
<1>4. /\ req'[r].listed = {} /\ req'[r].copied \in {{}, req[r].copied}
      /\ req'[r].step \notin Turning /\ req'[r].step # "stream.answer"
      /\ req'[r].step # "idle" => req'[r].chat = c /\ req[r].step \in Changing
      /\ req'[r].copied # {} => req'[r].chat = c
  <2>1. req[r].listed # {} => req[r].step \in {"edit", "retry"}
    BY DEF KeepInv, ListedRows
  <2>2. CASE req'[r] = IdleRequest
    BY <2>2 DEF IdleRequest, Turning
  <2>3. CASE At(r, "clear") /\ req'[r] = [req[r] EXCEPT !.step = "remove"]
    BY <1>2, <1>3, <2>1, <2>3 DEF Request, Turning, Changing, At
  <2>4. ASSUME NEW t \in Threads, At(r, "copy"),
               req'[r] = [req[r] EXCEPT !.step = "copy.rows", !.target = t]
        PROVE  /\ req'[r].listed = {} /\ req'[r].copied = req[r].copied
               /\ req'[r].step = "copy.rows" /\ req'[r].chat = c
    BY <1>2, <1>3, <2>1, <2>4 DEF Request, Turning, Changing, At
  <2> QED
    BY <2>2, <2>3, <2>4 DEF Ends, Turning, Changing, At
<1>5. \A m \in Messages : message'[m] = message[m] \/ message'[m] = Gone
  BY EndsFade
<1>6. \A m \in Filled' : m \in Filled /\ message'[m] = message[m]
  BY <1>5 DEF Filled, Gone, NoRow
<1>7. \A t, st : st \in {"insert", "stored"} => Rows(t, st)' \subseteq Rows(t, st)
  BY <1>6 DEF Rows, Filled
<1>8. \A m \in Rows(c, "stored")' : m \in Filled'
  BY DEF Rows, Filled
<1>9. ASSUME NEW s \in Requests
      PROVE  ListedRows(s)'
  <2>1. CASE s = r
    BY <1>4, <2>1 DEF ListedRows
  <2>2. CASE s # r
    <3>1. req'[s] = req[s] /\ ListedRows(s) /\ req[s].listed \subseteq Messages
      BY <1>1, <2>2 DEF KeepInv, TypeInv, Typed, Request
    <3> QED
      BY <1>5, <3>1 DEF ListedRows, Rows
  <2> QED
    BY <2>1, <2>2
<1>10. ASSUME NEW t \in Threads, t \notin raced'
       PROVE  Apart(t)'
  <2>1. ASSUME Serving(t, Changing)'
        PROVE  ~Serving(t, Turning)' /\ (Rows(t, "insert") = {})'
    <3>1. Serving(t, Changing)
      BY <1>1, <1>3, <1>4, <2>1 DEF Serving, Changing
    <3>2. ~Serving(t, Turning) /\ Rows(t, "insert") = {}
      BY <1>1, <1>10, <3>1 DEF KeepInv, Apart
    <3>3. ~Serving(t, Turning)'
      BY <1>1, <1>4, <3>2 DEF Serving
    <3> QED
      BY <1>7, <3>2, <3>3
  <2> QED
    BY <2>1 DEF Apart
<1>11. ASSUME NEW m \in Filled, m \notin Filled', c \notin raced
       PROVE  /\ message[m].chat = c
              /\ ~Serving(c, Turning) /\ Rows(c, "insert") = {}
              /\ \A n \in Rows(c, "stored") :
                   (/\ message[m].turn = message[n].turn
                    /\ message[m].role = "user" /\ message[n].role = "model")
                   => message'[n] = Gone
  <2>1. message'[m] # message[m]
    BY <1>11 DEF Filled
  <2>2. Serving(c, Changing)
    BY <1>3, <2>1, EndDeletes DEF Serving, Changing
  <2>3. ~Serving(c, Turning) /\ Rows(c, "insert") = {}
    BY <1>11, <2>2 DEF KeepInv, Apart
  <2> QED
    BY <1>3, <1>11, <2>1, <2>3, EndDeletes DEF Rows
<1>12. ASSUME NEW m \in Filled, m \notin Filled'
       PROVE  message[m].chat = c
  <2>1. message'[m] # message[m]
    BY <1>12 DEF Filled
  <2> QED
    BY <1>3, <2>1, EndDeletes DEF Rows
<1>13. ASSUME NEW t \in Threads, t \notin raced', NEW i \in Nat \ lost', LineIn(t, i, "model")'
       PROVE  LineIn(t, i, "user")'
  <2>1. PICK n \in Filled' : message'[n].chat = t /\ message'[n].turn = i /\ message'[n].role = "model"
    BY <1>13 DEF LineIn
  <2>2. n \in Filled /\ message'[n] = message[n] /\ n \in Messages
    BY <1>6 DEF Filled
  <2>3. LineIn(t, i, "user")
    BY <1>1, <1>13, <2>1, <2>2 DEF KeepInv, LineIn
  <2>4. PICK m \in Filled : message[m].chat = t /\ message[m].turn = i /\ message[m].role = "user"
    BY <2>3 DEF LineIn
  <2>5. CASE m \in Filled'
    BY <1>6, <2>4, <2>5 DEF LineIn
  <2>6. CASE m \notin Filled'
    <3>1. t = c /\ c \notin raced
      BY <1>1, <1>12, <1>13, <2>4, <2>6
    <3>2. n \in Rows(c, "stored")
      BY <1>11, <2>1, <2>2, <2>6, <3>1, RowFacts
    <3>3. message'[n] = Gone
      BY <1>11, <2>1, <2>2, <2>4, <2>6, <3>1, <3>2
    <3> QED
      BY <2>2, <3>3, RowFacts
  <2> QED
    BY <2>5, <2>6
<1>14. ASSUME NEW s \in Requests, req'[s].chat \in Threads \ raced'
       PROVE  WholeTurns(s)'
  <2>1. CASE s = r
    <3>1. ASSUME NEW x \in req'[r].copied, x.role = "model", x.turn \notin lost'
          PROVE  \E y \in req'[r].copied : y.role = "user" /\ y.turn = x.turn
      <4>1. req'[r].copied = req[r].copied /\ WholeTurns(r)
        BY <1>1, <1>3, <1>4, <1>14, <2>1, <3>1 DEF KeepInv
      <4> QED
        BY <1>1, <3>1, <4>1 DEF WholeTurns
    <3> QED
      BY <1>4, <2>1, <3>1 DEF WholeTurns, At
  <2>2. CASE s # r
    <3>1. req'[s] = req[s] /\ WholeTurns(s)
      BY <1>1, <1>14, <2>2 DEF KeepInv
    <3>2. PICK t \in Threads : t = req[s].chat /\ t \notin raced
      BY <1>1, <1>14, <3>1
    <3>3. PICK i : i = req[s].turn
      OBVIOUS
    <3>4. ASSUME At(s, "stream.answer"), i \notin lost'
          PROVE  LineIn(t, i, "user")'
      <4>1. PICK m \in Filled : message[m].chat = t /\ message[m].turn = i /\ message[m].role = "user"
        BY <1>1, <3>1, <3>2, <3>3, <3>4 DEF WholeTurns, LineIn
      <4>2. Serving(t, Turning)
        BY <3>2, <3>4 DEF Serving, Turning, At
      <4>3. m \in Filled'
        BY <1>11, <1>12, <3>2, <4>1, <4>2
      <4> QED
        BY <1>6, <4>1, <4>3 DEF LineIn
    <3>5. ASSUME NEW m \in Rows(t, "stored")', NEW n \in Rows(t, "stored")', m \in req[s].listed,
                 message'[m].turn = message'[n].turn,
                 message'[m].role = "user", message'[n].role = "model"
          PROVE  n \in req[s].listed
      <4>1. /\ m \in Rows(t, "stored") /\ n \in Rows(t, "stored")
            /\ message'[m] = message[m] /\ message'[n] = message[n]
        BY <1>6, <1>7 DEF Rows, Filled
      <4> QED
        BY <3>1, <3>2, <3>5, <4>1 DEF WholeTurns
    <3>6. \A x \in req[s].copied :
            x.role = "model" /\ x.turn \notin lost'
            => \E y \in req[s].copied : y.role = "user" /\ y.turn = x.turn
      BY <1>1, <3>1 DEF WholeTurns
    <3>7. t = req'[s].chat /\ i = req'[s].turn
      BY <3>1, <3>2, <3>3
    <3> QED
      BY <3>1, <3>4, <3>5, <3>6, <3>7 DEF WholeTurns, At
  <2> QED
    BY <2>1, <2>2
<1> QED
  BY <1>9, <1>10, <1>13, <1>14 DEF KeepInv

LEMMA CopyKeeps ==
  ASSUME ChatAssumption, TypeInv, KeepInv, NEW r \in Requests, Copies(r)
  PROVE  KeepInv'
<1>1. /\ lost' = lost /\ raced \subseteq raced' /\ req'[r] = IdleRequest
      /\ \A s \in Requests : s # r => req'[s] = req[s]
  BY DEF Copies, Moves, TypeInv, Typed
<1>2. /\ IdleRequest.step \notin Turning /\ IdleRequest.step \notin Changing
      /\ IdleRequest.step # "stream.answer" /\ IdleRequest.chat \notin Threads
      /\ IdleRequest.listed = {}
  BY DEF IdleRequest, Turning, Changing, ChatAssumption
<1>3. PICK u \in Threads : u = req[r].target /\ thread[u] = "hidden"
  BY DEF Copies, At, TypeInv, RequestsInv, Shape
<1>4. PICK c \in Threads : c = req[r].chat
  BY DEF Copies, At, TypeInv, RequestsInv, Shape
<1>5. ASSUME NEW m \in Messages
      PROVE  \/ message'[m] = message[m]
             \/ /\ message[m] = Free /\ message'[m].chat = u /\ message'[m].status = "stored"
                /\ \E x \in req[r].copied : x.turn = message'[m].turn /\ x.role = message'[m].role
  <2>1. ASSUME NEW x \in req[r].copied, message'[m] = [x EXCEPT !.chat = req[r].target]
        PROVE  /\ message'[m].chat = u /\ message'[m].status = "stored"
               /\ x.turn = message'[m].turn /\ x.role = message'[m].role
    BY <1>3, <2>1, CopiedRow DEF Copies
  <2> QED
    BY <2>1 DEF Copies
<1>6. \A m \in Filled : m \in Filled' /\ message'[m] = message[m]
  BY <1>5, RowFacts DEF Filled
<1>7. \A m \in Filled' : \/ m \in Filled /\ message'[m] = message[m]
                         \/ message'[m].chat = u
  BY <1>5 DEF Filled
<1>8. \A t \in Threads, st \in {"insert", "stored"} : t # u => Rows(t, st)' = Rows(t, st)
  <2>1. ASSUME NEW t \in Threads, NEW st \in {"insert", "stored"}, t # u, NEW m \in Messages
        PROVE  (message'[m].chat = t /\ message'[m].status = st)
               <=> (message[m].chat = t /\ message[m].status = st)
    BY <1>5, <2>1 DEF Free, NoRow
  <2> QED
    BY <2>1 DEF Rows
<1>9. \A s \in Requests : req[s].chat # u
  BY <1>3, Visitors DEF Open
<1>10. ASSUME NEW s \in Requests
       PROVE  ListedRows(s)'
  <2>1. CASE s = r
    BY <1>1, <1>2, <2>1 DEF ListedRows
  <2>2. CASE s # r
    <3>1. req'[s] = req[s] /\ ListedRows(s) /\ req[s].listed \subseteq Messages
      BY <1>1, <2>2 DEF KeepInv, TypeInv, Typed, Request
    <3>2. \A m \in Messages : message[m] = Gone => message'[m] = Gone
      BY <1>5 DEF Gone, Free, NoRow
    <3> QED
      BY <1>6, <3>1, <3>2, RowFacts DEF ListedRows, Rows
  <2> QED
    BY <2>1, <2>2
<1>11. ASSUME NEW t \in Threads, t \notin raced'
       PROVE  Apart(t)'
  <2>1. ASSUME Serving(t, Changing)'
        PROVE  ~Serving(t, Turning)' /\ (Rows(t, "insert") = {})'
    <3>1. Serving(t, Changing) /\ t # u
      BY <1>1, <1>2, <1>9, <2>1 DEF Serving
    <3>2. ~Serving(t, Turning) /\ Rows(t, "insert") = {}
      BY <1>1, <1>11, <3>1 DEF KeepInv, Apart
    <3>3. ~Serving(t, Turning)'
      BY <1>1, <1>2, <3>2 DEF Serving
    <3> QED
      BY <1>8, <3>1, <3>2, <3>3
  <2> QED
    BY <2>1 DEF Apart
<1>12. ASSUME NEW t \in Threads, t \notin raced', NEW i \in Nat \ lost', LineIn(t, i, "model")'
       PROVE  LineIn(t, i, "user")'
  <2>1. CASE LineIn(t, i, "model")
    <3>1. LineIn(t, i, "user")
      BY <1>1, <1>12, <2>1 DEF KeepInv
    <3> QED
      BY <1>6, <3>1 DEF LineIn
  <2>2. CASE ~LineIn(t, i, "model")
    <3>1. PICK m \in Filled' : message'[m].chat = t /\ message'[m].turn = i /\ message'[m].role = "model"
      BY <1>12 DEF LineIn
    <3>2. ~(m \in Filled /\ message'[m] = message[m]) /\ m \in Messages
      BY <2>2, <3>1 DEF LineIn, Filled
    <3>3. t = u /\ message'[m] # message[m]
      BY <1>7, <3>1, <3>2 DEF Filled
    <3>4. PICK x \in req[r].copied : x.turn = i /\ x.role = "model"
      BY <1>5, <3>1, <3>2, <3>3
    <3>5. WholeTurns(r)
      BY <1>1, <1>3, <1>4, <1>12, <3>3 DEF Copies, KeepInv
    <3>6. PICK y \in req[r].copied : y.turn = i /\ y.role = "user"
      BY <1>1, <1>12, <3>4, <3>5 DEF WholeTurns
    <3>7. PICK n \in Messages : message'[n] = [y EXCEPT !.chat = req[r].target]
      BY <3>6 DEF Copies
    <3>8. /\ message'[n].chat = u /\ message'[n].status = "stored"
          /\ message'[n].turn = i /\ message'[n].role = "user"
      BY <1>3, <3>6, <3>7, CopiedRow DEF Copies
    <3> QED
      BY <3>3, <3>8 DEF LineIn, Filled
  <2> QED
    BY <2>1, <2>2
<1>13. ASSUME NEW s \in Requests, req'[s].chat \in Threads \ raced'
       PROVE  WholeTurns(s)'
  <2>1. s # r
    BY <1>1, <1>2, <1>13
  <2>2. req'[s] = req[s] /\ WholeTurns(s)
    BY <1>1, <1>13, <2>1 DEF KeepInv
  <2>3. PICK t \in Threads : t = req[s].chat /\ t # u
    BY <1>9, <1>13, <2>2
  <2>4. PICK i : i = req[s].turn
    OBVIOUS
  <2>5. At(s, "stream.answer") /\ i \notin lost' => LineIn(t, i, "user")'
    BY <1>1, <1>6, <2>2, <2>3, <2>4 DEF WholeTurns, LineIn
  <2>6. ASSUME NEW m \in Rows(t, "stored")', NEW n \in Rows(t, "stored")', m \in req[s].listed,
               message'[m].turn = message'[n].turn,
               message'[m].role = "user", message'[n].role = "model"
        PROVE  n \in req[s].listed
    <3>1. m \in Rows(t, "stored") /\ n \in Rows(t, "stored")
      BY <1>8, <2>3
    <3>2. message'[m] = message[m] /\ message'[n] = message[n]
      BY <1>6, <3>1, RowFacts DEF Rows
    <3> QED
      BY <2>2, <2>3, <2>6, <3>1, <3>2 DEF WholeTurns
  <2>7. \A x \in req[s].copied :
          x.role = "model" /\ x.turn \notin lost'
          => \E y \in req[s].copied : y.role = "user" /\ y.turn = x.turn
    BY <1>1, <2>2 DEF WholeTurns
  <2>8. t = req'[s].chat /\ i = req'[s].turn
    BY <2>2, <2>3, <2>4
  <2> QED
    BY <2>2, <2>5, <2>6, <2>7, <2>8 DEF WholeTurns, At
<1> QED
  BY <1>10, <1>11, <1>12, <1>13 DEF KeepInv

LEMMA SettleKeeps ==
  ASSUME ChatAssumption, TypeInv, KeepInv, NEW k \in Messages, Settles(k)
  PROVE  KeepInv'
<1>1. /\ lost \subseteq lost' /\ raced' = raced /\ req' = req
      /\ \A m \in Messages : m # k => message'[m] = message[m]
  BY DEF Settles, TypeInv, Typed
<1>2. /\ k \in Filled /\ message[k] \in Row /\ message[k].status = "insert"
      /\ message[k].chat \in Threads
  BY FilledRow DEF Settles, TypeInv, Filled, Row
<1>3. \/ /\ message'[k].chat = message[k].chat /\ message'[k].turn = message[k].turn
         /\ message'[k].role = message[k].role /\ message'[k].status = "stored"
      \/ message'[k] = Gone /\ (message[k].role = "user" => message[k].turn \in lost')
  BY <1>2 DEF Settles, Row
<1>4. Gone.status \notin {"insert", "stored"}
  BY DEF Gone, NoRow
<1>5. \A m \in Filled' : /\ m \in Filled /\ message'[m].chat = message[m].chat
                         /\ message'[m].turn = message[m].turn /\ message'[m].role = message[m].role
  BY <1>1, <1>2, <1>3, <1>4 DEF Filled
<1>6. ASSUME NEW t \in Threads, NEW i, i \notin lost', LineIn(t, i, "user")
      PROVE  LineIn(t, i, "user")'
  <2>1. PICK m \in Filled : message[m].chat = t /\ message[m].turn = i /\ message[m].role = "user"
    BY <1>6 DEF LineIn
  <2>2. m \in Filled' /\ message'[m].chat = t /\ message'[m].turn = i /\ message'[m].role = "user"
    BY <1>1, <1>3, <1>6, <2>1 DEF Filled
  <2> QED
    BY <2>2 DEF LineIn
<1>7. \A t \in Threads, st \in {"insert", "stored"} :
         t # message[k].chat => Rows(t, st)' = Rows(t, st)
  <2>1. ASSUME NEW t \in Threads, NEW st \in {"insert", "stored"}, t # message[k].chat, NEW m \in Messages
        PROVE  (message'[m].chat = t /\ message'[m].status = st)
               <=> (message[m].chat = t /\ message[m].status = st)
    BY <1>1, <1>3, <1>4, <2>1
  <2> QED
    BY <2>1 DEF Rows
<1>8. ASSUME NEW t \in Threads, t \notin raced, Serving(t, Changing)
      PROVE  ~Serving(t, Turning) /\ Rows(t, "insert") = {} /\ t # message[k].chat
  BY <1>2, <1>8 DEF KeepInv, Apart, Rows
<1>9. ASSUME NEW s \in Requests
      PROVE  ListedRows(s)'
  <2>1. ListedRows(s) /\ req'[s] = req[s] /\ req[s].listed \subseteq Messages
    BY <1>1 DEF KeepInv, TypeInv, Typed, Request
  <2>2. k \notin req[s].listed
    BY <1>2, <2>1, RowFacts DEF ListedRows
  <2> QED
    BY <1>1, <2>1, <2>2 DEF ListedRows, Rows
<1>10. ASSUME NEW t \in Threads, t \notin raced'
       PROVE  Apart(t)'
  <2>1. ASSUME Serving(t, Changing)'
        PROVE  ~Serving(t, Turning)' /\ (Rows(t, "insert") = {})'
    <3>1. Serving(t, Changing)
      BY <1>1, <2>1 DEF Serving
    <3>2. ~Serving(t, Turning) /\ Rows(t, "insert") = {} /\ t # message[k].chat
      BY <1>1, <1>8, <1>10, <3>1
    <3>3. ~Serving(t, Turning)'
      BY <1>1, <3>2 DEF Serving
    <3> QED
      BY <1>7, <3>2, <3>3
  <2> QED
    BY <2>1 DEF Apart
<1>11. ASSUME NEW t \in Threads, t \notin raced', NEW i \in Nat \ lost', LineIn(t, i, "model")'
       PROVE  LineIn(t, i, "user")'
  <2>1. LineIn(t, i, "model")
    BY <1>5, <1>11 DEF LineIn
  <2>2. LineIn(t, i, "user")
    BY <1>1, <1>11, <2>1 DEF KeepInv
  <2> QED
    BY <1>6, <1>11, <2>2
<1>12. ASSUME NEW s \in Requests, req'[s].chat \in Threads \ raced'
       PROVE  WholeTurns(s)'
  <2>1. req'[s] = req[s] /\ WholeTurns(s) /\ ListedRows(s)
    BY <1>1, <1>12 DEF KeepInv
  <2>2. PICK t \in Threads : t = req[s].chat /\ t \notin raced
    BY <1>1, <1>12, <2>1
  <2>3. PICK i : i = req[s].turn
    OBVIOUS
  <2>4. At(s, "stream.answer") /\ i \notin lost' => LineIn(t, i, "user")'
    BY <1>1, <1>6, <2>1, <2>2, <2>3 DEF WholeTurns
  <2>5. req[s].listed # {} => t # message[k].chat
    <3>1. ASSUME req[s].listed # {}
          PROVE  Serving(t, Changing)
      BY <2>1, <2>2, <3>1 DEF ListedRows, Serving, Changing
    <3> QED
      BY <1>8, <2>2, <3>1
  <2>6. ASSUME NEW m \in Rows(t, "stored")', NEW n \in Rows(t, "stored")', m \in req[s].listed,
               message'[m].turn = message'[n].turn,
               message'[m].role = "user", message'[n].role = "model"
        PROVE  n \in req[s].listed
    <3>1. m \in Rows(t, "stored") /\ n \in Rows(t, "stored")
      BY <1>7, <2>5, <2>6
    <3>2. message'[m] = message[m] /\ message'[n] = message[n]
      BY <1>1, <1>2, <3>1 DEF Rows
    <3> QED
      BY <2>1, <2>2, <2>6, <3>1, <3>2 DEF WholeTurns
  <2>7. \A x \in req[s].copied :
          x.role = "model" /\ x.turn \notin lost'
          => \E y \in req[s].copied : y.role = "user" /\ y.turn = x.turn
    BY <1>1, <2>1 DEF WholeTurns
  <2>8. t = req'[s].chat /\ i = req'[s].turn
    BY <2>1, <2>2, <2>3
  <2> QED
    BY <2>1, <2>4, <2>6, <2>7, <2>8 DEF WholeTurns, At
<1> QED
  BY <1>9, <1>10, <1>11, <1>12 DEF KeepInv

LEMMA NextKeeps ==
  ASSUME ChatAssumption, TypeInv, OrderInv, KeepInv, [Next]_vars
  PROVE  KeepInv'
<1>1. CASE Ticks \/ UNCHANGED vars
  <2>1. UNCHANGED <<message, req, lost, raced>>
    BY <1>1 DEF Ticks, vars
  <2> QED
    BY <2>1 DEF KeepInv, ListedRows, Rows, Apart, Serving, LineIn, Filled, WholeTurns, At
<1>2. CASE Next
  BY <1>1, <1>2, NextKinds, TurnKeeps, ChangeKeeps, SendKeeps, EndKeeps, CopyKeeps, SettleKeeps
<1> QED
  BY <1>1, <1>2

LEMMA InitKeep ==
  ASSUME ChatAssumption, Init
  PROVE  KeepInv
<1>1. Filled = {} /\ \A t : Rows(t, "insert") = {} /\ Rows(t, "stored") = {}
  BY DEF Init, Filled, Rows, Free, NoRow
<1>2. \A r \in Requests : req[r] = IdleRequest
  BY DEF Init
<1>3. IdleRequest.step = "idle" /\ IdleRequest.copied = {} /\ IdleRequest.listed = {}
  BY DEF IdleRequest
<1>4. \A r \in Requests : ListedRows(r) /\ WholeTurns(r)
  BY <1>1, <1>2, <1>3 DEF ListedRows, WholeTurns, At
<1>5. \A t : Apart(t) /\ \A i : ~LineIn(t, i, "model")
  BY <1>1, <1>2, <1>3 DEF Apart, Serving, Changing, LineIn
<1> QED
  BY <1>4, <1>5 DEF KeepInv

(* Whatever is edited, retried, copied or deleted, by any number of requests *)
(* and whatever fails: where no change overlapped a turn of the thread, an   *)
(* answer stays only together with its question, or the question was lost.   *)
THEOREM AnswersStayWithQuestions == Spec => []AnswersKeepTheirQuestion
<1>1. ASSUME TypeInv, KeepInv, NEW t \in Threads \ raced, NEW n \in Rows(t, "stored"),
             message[n].role = "model", message[n].turn \notin lost
      PROVE  \E m \in Rows(t, "stored") \cup Rows(t, "insert") :
                message[m].turn = message[n].turn /\ message[m].role = "user"
  <2>1. n \in Filled /\ message[n].chat = t /\ message[n].turn \in Nat
    BY <1>1, FilledRow DEF Rows, Filled, TypeInv, Row
  <2>2. LineIn(t, message[n].turn, "user")
    BY <1>1, <2>1 DEF KeepInv, LineIn
  <2> QED
    BY <1>1, <2>2, RowFacts DEF LineIn, Filled
<1>2. TypeInv /\ KeepInv => AnswersKeepTheirQuestion
  BY <1>1 DEF AnswersKeepTheirQuestion
<1>3. Init => TypeInv /\ OrderInv /\ KeepInv
  BY InitTypes, InitOrder, InitKeep, ChatAssumption
<1>4. TypeInv /\ OrderInv /\ KeepInv /\ [Next]_vars => TypeInv' /\ OrderInv' /\ KeepInv'
  BY NextTypes, NextOrder, NextKeeps, ChatAssumption
<1> QED
  BY <1>2, <1>3, <1>4, PTL DEF Spec
=============================================================================
