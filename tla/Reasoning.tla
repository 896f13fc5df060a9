------------------------------ MODULE Reasoning ------------------------------
(***************************************************************************)
(* The reasoning loops of src/intelligence/intelligence.service.ts: chains  *)
(* of drafts and of thoughts, each as one result and as a stream of events. *)
(*                                                                          *)
(* A response of the model is what its parser finds in it: a complexity and *)
(* whether an improvement is called for.  The first prompt asks only for    *)
(* the former and the later ones only for the latter, yet a model may give  *)
(* either at any time.  A stream is advanced by whoever reads it.           *)
(***************************************************************************)
EXTENDS Actors, Naturals, Sequences

VARIABLE chain   \* chain[r]: the loop request r runs

chainVars == <<chain>>

Kinds == {"drafts", "thoughts"}

\* What a prompt asks for, and how many earlier batches it shows.
CreateDraftPrompt(n) == [asks |-> IF n = 0 THEN "complexity" ELSE "improvement", shows |-> n]

CreateThoughtPrompt(n) == [asks |-> IF n = 0 THEN "complexity" ELSE "improvement", shows |-> n]

\* `batches`: responses so far; `limit`: MAX_DRAFTS or MAX_STEPS; `again`: a
\* revision is due; `events`: what a stream has yielded, but for the words.
NoChain == [step |-> "idle", kind |-> "drafts", streams |-> FALSE, batches |-> 0, limit |-> 0,
            prompt |-> None, complexity |-> "low", events |-> <<>>]

ReasoningInit == chain = [r \in Requests |-> NoChain]

-----------------------------------------------------------------------------
GetMaxDrafts(complexity) ==
    CASE complexity = "low" -> 2 [] complexity = "medium" -> 4 [] complexity = "high" -> 8

GetMaxSteps(complexity) ==
    CASE complexity = "low" -> 2 [] complexity = "medium" -> 7 [] complexity = "high" -> 12
      [] complexity = "very-high" -> 20

\* A complexity counts in the first response; a revision is not called for
\* after the sixth.
ParseDraftResponse(n) ==
    [complexity : IF n = 0 THEN {"low", "medium", "high", None} ELSE {None},
     again : IF n < 5 THEN BOOLEAN ELSE {FALSE}]

\* Mutant: revisions may go on.
ParseThoughtResponseOn(n) ==
    [complexity : IF n = 0 THEN {"low", "medium", "high", "very-high", None} ELSE {None},
     again : BOOLEAN]

ParseThoughtResponse(n) ==
    [complexity : IF n = 0 THEN {"low", "medium", "high", "very-high", None} ELSE {None},
     again : IF n < 5 THEN BOOLEAN ELSE {FALSE}]

-----------------------------------------------------------------------------
Start(r, kind, streams, limit, prompt) ==
    /\ chain[r].step # "run"
    /\ chain' = [chain EXCEPT ![r] = [NoChain EXCEPT !.step = "run", !.kind = kind, !.limit = limit,
                                                     !.streams = streams, !.prompt = prompt]]

ProcessChainOfDrafts(r) == Start(r, "drafts", FALSE, 8, CreateDraftPrompt(0))

StreamChainOfDrafts(r) == Start(r, "drafts", TRUE, 8, CreateDraftPrompt(0))

ProcessChainOfThoughts(r) == Start(r, "thoughts", FALSE, 22, CreateThoughtPrompt(0))

StreamChainOfThoughts(r) == Start(r, "thoughts", TRUE, 22, CreateThoughtPrompt(0))

\* One turn of a loop: the batch is kept, its complexity may set the limit
\* (`most`), and the loop ends or asks again with all batches (`next`).
Round(r, kind, response, most, next) ==
    /\ chain[r].step = "run"
    /\ chain[r].kind = kind
    /\ LET c == chain[r]
           detected == response.complexity # None
           limit == IF detected THEN most ELSE c.limit
           goesOn == response.again /\ c.batches + 1 < limit
           told == (IF detected THEN <<"complexity">> ELSE <<>>) \o <<"batch">>
                      \o (IF goesOn THEN <<>> ELSE <<"complete">>)
       IN chain' = [chain EXCEPT ![r] =
            [c EXCEPT !.batches = c.batches + 1, !.limit = limit,
                      !.complexity = IF detected THEN response.complexity ELSE c.complexity,
                      !.step = IF goesOn THEN "run" ELSE "done",
                      !.prompt = IF goesOn THEN next ELSE c.prompt,
                      !.events = IF c.streams THEN c.events \o told ELSE c.events]]

DraftTurn(r) ==
    \E response \in ParseDraftResponse(chain[r].batches) :
        Round(r, "drafts", response, GetMaxDrafts(response.complexity), CreateDraftPrompt(chain[r].batches + 1))

ThoughtTurn(r) ==
    \E response \in ParseThoughtResponse(chain[r].batches) :
        Round(r, "thoughts", response, GetMaxSteps(response.complexity), CreateThoughtPrompt(chain[r].batches + 1))

DraftRound(r) == ~chain[r].streams /\ DraftTurn(r)

StreamDraftRound(r) == chain[r].streams /\ DraftTurn(r)

ThoughtRound(r) == ~chain[r].streams /\ ThoughtTurn(r)

StreamThoughtRound(r) == chain[r].streams /\ ThoughtTurn(r)

\* The model cannot be reached, or nobody reads the stream any more.
ChainFails(r) ==
    /\ chain[r].step = "run"
    /\ chain' = [chain EXCEPT ![r].step = "failed"]

ReasoningNext ==
    \E r \in Requests :
        \/ ProcessChainOfDrafts(r)
        \/ StreamChainOfDrafts(r)
        \/ ProcessChainOfThoughts(r)
        \/ StreamChainOfThoughts(r)
        \/ DraftRound(r)
        \/ StreamDraftRound(r)
        \/ ThoughtRound(r)
        \/ StreamThoughtRound(r)
        \/ ChainFails(r)

-----------------------------------------------------------------------------
(* The types of the loops. *)
ReasoningTypeOK ==
    \A r \in Requests :
        /\ chain[r].step \in {"idle", "run", "done", "failed"}
        /\ chain[r].kind \in Kinds /\ chain[r].streams \in BOOLEAN
        /\ chain[r].batches \in Nat /\ chain[r].limit \in Nat
        /\ chain[r].prompt \in [asks : {"complexity", "improvement"}, shows : Nat] \cup {None}
        /\ chain[r].complexity \in {"low", "medium", "high", "very-high"}
        /\ \A i \in DOMAIN chain[r].events :
             chain[r].events[i] \in {"complexity", "batch", "complete"}

(* Whatever the model answers, a loop makes at most six requests and no more *)
(* than the detected complexity allows, each showing all batches before it;  *)
(* a stream tells every batch, the complexity at most once and first, and    *)
(* the end once and last, only if nothing failed.                            *)
ReasoningEnds ==
    \A r \in Requests :
        LET c == chain[r]
            Of(event) == {i \in DOMAIN c.events : c.events[i] = event}
        IN /\ c.batches <= 6 /\ c.batches <= c.limit
           /\ c.step = "run" => c.batches < 6 /\ c.batches < c.limit /\ c.prompt.shows = c.batches
           /\ Of("complexity") \subseteq {1}
           /\ Of("complete") = IF c.streams /\ c.step = "done" THEN {Len(c.events)} ELSE {}
           /\ c.streams => Len(c.events) = c.batches + (IF 1 \in Of("complexity") THEN 1 ELSE 0)
                                              + (IF c.step = "done" THEN 1 ELSE 0)
=============================================================================
