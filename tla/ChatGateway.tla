----------------------------- MODULE ChatGateway -----------------------------
(***************************************************************************)
(* The websocket front of the chat: src/intelligence/intelligence.gateway.ts*)
(* and what it calls of IntelligenceService and BrowserService, as far as   *)
(* a client sees it and is charged for it.                                  *)
(*                                                                          *)
(* A message runs through research (several searches), browsing (one        *)
(* search) or neither, then asks for an answer, a stream that is output     *)
(* chunk by chunk.  Messages of one user share the monthly allowance        *)
(* (UsageQuota has its details); what an answer stores is in ChatThreads.   *)
(***************************************************************************)
EXTENDS Actors, Naturals

CONSTANTS
    Allowance,   \* requests left to the user
    MaxQueries   \* bound: queries one research generates (5 in the code)

ASSUME ChatGatewayAssumption == Allowance \in Nat /\ MaxQueries \in Nat

VARIABLES
    charges,  \* requests charged to the user so far
    chat      \* chat[r]: the message request r handles and what was emitted for it

gatewayVars == <<charges, chat>>

Tools == {"research", "browsing", "reasoning", "plain"}

ChatSteps == {"idle", "queries", "search", "analyze", "browse", "ask", "stream", "done"}

\* `stream`: what the service returned, an answer or the refusal;
\* `plain`: which of the two services is asked; `fellBack`: after a research
\* error; `paid`: charges for the message itself; `completes`, `errors`:
\* chatComplete and chatError events.
NewChat == [step |-> "idle", tools |-> "plain", left |-> 0, plain |-> FALSE, fellBack |-> FALSE,
            stream |-> None, paid |-> 0, completes |-> 0, errors |-> 0]

GatewayInit ==
    /\ charges = 0
    /\ chat = [r \in Requests |-> NewChat]

-----------------------------------------------------------------------------
ChatAt(r, step) == chat[r].step = step

\* checkAndIncrementUsage
Available == charges < Allowance

\* The charges a search may leave: one more, unless the allowance is
\* used up or a query fails before.
SearchCharges == IF Available THEN {charges, charges + 1} ELSE {charges}

\* An authenticated client's message.
Receive(r, tools) ==
    /\ chat[r].step \in {"idle", "done"}
    /\ chat' = [chat EXCEPT ![r] =
         [NewChat EXCEPT !.tools = tools, !.plain = (tools = "plain"),
            !.step = CASE tools = "research" -> "queries"
                       [] tools = "browsing" -> "analyze"
                       [] OTHER -> "ask"]]
    /\ UNCHANGED charges

HandleChatStreaming(r, tools) == Receive(r, tools)

HandleChatStreamPlain(r) == Receive(r, "plain")

\* With or without reasoning, it asks the service with tools.
HandleChatStream(r) == Receive(r, "reasoning")

-----------------------------------------------------------------------------
(* Research *)

\* Any error until a stream exists: standard processing, plain unless
\* another tool was asked for as well.
FallBack(r) ==
    \E plain \in BOOLEAN :
        chat' = [chat EXCEPT ![r].step = "ask", ![r].fellBack = TRUE, ![r].plain = plain]

GenerateSearchQueries(r) ==
    /\ ChatAt(r, "queries")
    /\ \/ \E n \in 0 .. MaxQueries :
            chat' = [chat EXCEPT ![r].step = "search", ![r].left = n]
       \/ FallBack(r)
    /\ UNCHANGED charges

\* performSearchForSingleQuery swallows every error.  A search is charged;
\* one that found nothing is done again, directly, at nobody's expense.
PerformSearchForSingleQuery(r) ==
    /\ ChatAt(r, "search")
    /\ chat[r].left > 0
    /\ charges' \in SearchCharges
    /\ chat' = [chat EXCEPT ![r].left = @ - 1]

\* The results go into the system prompt of the answer.
CreateResearchPrompt(r) ==
    /\ ChatAt(r, "search")
    /\ chat[r].left = 0
    /\ chat' = [chat EXCEPT ![r].step = "ask"]
    /\ UNCHANGED charges

-----------------------------------------------------------------------------
(* Browsing *)

\* Whether to search at all is asked of a model, which may fail.
GetSearchQueryFromMessage(r) ==
    /\ ChatAt(r, "analyze")
    /\ \E next \in {"browse", "ask"} : chat' = [chat EXCEPT ![r].step = next]
    /\ UNCHANGED charges

\* Whatever it throws is told and survived.
PerformBrowsing(r) ==
    /\ ChatAt(r, "browse")
    /\ charges' \in SearchCharges
    /\ chat' = [chat EXCEPT ![r].step = "ask"]

-----------------------------------------------------------------------------
(* The answer *)

\* processChatStream or processChatPlainStream: the refusal is a stream too.
\* Whatever throws, before the charge or after it, finds research's fallback
\* once, and otherwise ends the message.
ProcessChat(r) ==
    /\ ChatAt(r, "ask")
    /\ \/ /\ ~Available
          /\ chat' = [chat EXCEPT ![r].step = "stream", ![r].stream = "refusal"]
          /\ UNCHANGED charges
       \/ /\ Available
          /\ charges' = charges + 1
          /\ chat' = [chat EXCEPT ![r].step = "stream", ![r].stream = "answer", ![r].paid = @ + 1]
       \/ \E cost \in {0, 1} :
            /\ cost = 1 => Available
            /\ charges' = charges + cost
            /\ IF chat[r].tools = "research" /\ ~chat[r].fellBack
               THEN \E plain \in BOOLEAN :
                      chat' = [chat EXCEPT ![r].fellBack = TRUE, ![r].plain = plain, ![r].paid = @ + cost]
               ELSE chat' = [chat EXCEPT ![r].step = "done", ![r].errors = @ + 1, ![r].paid = @ + cost]

\* Mutant: an error of the stream is thrown on, and research starts over.
HandleStreamOutputThrows(r) ==
    /\ ChatAt(r, "stream")
    /\ \/ /\ chat[r].tools = "research"
          /\ ~chat[r].fellBack
          /\ chat' = [chat EXCEPT ![r].step = "ask", ![r].fellBack = TRUE, ![r].errors = @ + 1]
       \/ chat' = [chat EXCEPT ![r].step = "done", ![r].completes = @ + 1]
    /\ UNCHANGED charges

\* A refusal is one error chunk; the loop is left and the end still told.  An
\* error while the stream is read is told instead of the end.
HandleStreamOutput(r) ==
    /\ ChatAt(r, "stream")
    /\ \/ /\ chat[r].stream = "refusal"
          /\ chat' = [chat EXCEPT ![r].step = "done", ![r].errors = @ + 1, ![r].completes = @ + 1]
       \/ /\ chat[r].stream = "answer"
          /\ chat' = [chat EXCEPT ![r].step = "done", ![r].completes = @ + 1]
       \/ /\ chat[r].stream = "answer"
          /\ chat' = [chat EXCEPT ![r].step = "done", ![r].errors = @ + 1]
    /\ UNCHANGED charges

\* While an answer of processChatStream is prepared, its own search may be charged.
ChatGetSearchData(r) ==
    /\ ChatAt(r, "stream")
    /\ chat[r].stream = "answer"
    /\ ~chat[r].plain
    /\ Available
    /\ charges' = charges + 1
    /\ chat' = [chat EXCEPT ![r].plain = TRUE]

GatewayNext ==
    \E r \in Requests :
        \/ \E tools \in Tools : HandleChatStreaming(r, tools)
        \/ HandleChatStreamPlain(r)
        \/ HandleChatStream(r)
        \/ GenerateSearchQueries(r)
        \/ PerformSearchForSingleQuery(r)
        \/ CreateResearchPrompt(r)
        \/ GetSearchQueryFromMessage(r)
        \/ PerformBrowsing(r)
        \/ ProcessChat(r)
        \/ ChatGetSearchData(r)
        \/ HandleStreamOutput(r)

-----------------------------------------------------------------------------
(* The types of the messages and of the charges. *)
GatewayTypeOK ==
    /\ charges \in 0 .. Allowance
    /\ chat \in [Requests -> [step : ChatSteps, tools : Tools, left : 0 .. MaxQueries,
                              plain : BOOLEAN, fellBack : BOOLEAN,
                              stream : {"answer", "refusal", None}, paid : Nat,
                              completes : Nat, errors : Nat]]

(* Whatever fails on the way, a message ends once for its client: with one   *)
(* chatComplete or one chatError, with both only when it was refused; and a  *)
(* message is paid for a second time only after research fell back.          *)
MessageEndsOnce ==
    \A r \in Requests :
        /\ ChatAt(r, "done") <=> chat[r].completes + chat[r].errors > 0
        /\ chat[r].completes <= 1 /\ chat[r].errors <= 1
        /\ (chat[r].completes + chat[r].errors = 2) => chat[r].stream = "refusal"
        /\ chat[r].paid <= (IF chat[r].fellBack THEN 2 ELSE 1)
=============================================================================
