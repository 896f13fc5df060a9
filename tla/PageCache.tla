------------------------------ MODULE PageCache ------------------------------
(***************************************************************************)
(* The cached lookups of src/intelligence/browser/browser.service.ts: pages *)
(* and searches summarised by the model, raw pages, raw searches and the    *)
(* searches of the agents, all for one address or query.                    *)
(*                                                                          *)
(* An answer is what it was made from: the text found, nothing but blanks,  *)
(* the error message extractText returns as the text of a page, or the      *)
(* apology that stands in for a response of the model.                      *)
(***************************************************************************)
EXTENDS Actors, FiniteSets, Naturals

CONSTANTS
    ConcurrencyLimit,  \* searches of performSearch at a time (25 in the code)
    Retries            \* times a raw page is fetched again (3 in the code)

ASSUME PageCacheAssumption ==
    /\ ConcurrencyLimit \in Nat \ {0} /\ Retries \in Nat
    /\ None \notin {"found", "blank", "error", "apology", "nothing"}

VARIABLES
    cached,          \* cached[k]: answer kept for a lookup of kind k, None when there is none
    lookup,          \* lookup[r]: the lookup of request r
    activeRequests,  \* searches of performSearch under way
    paid             \* history: agents' searches charged and not yet over

cacheVars == <<cached, lookup, activeRequests, paid>>

Lookups == {"url", "search", "raw", "raw-search", "ai-search"}

Texts == {"found", "blank", "error"}

Answers == Texts \cup {"apology", "nothing"}

NoLookup == [step |-> "idle", kind |-> None, attempt |-> 0, urls |-> 0, answer |-> None]

CacheInit ==
    /\ cached = [k \in Lookups |-> None]
    /\ lookup = [r \in Requests |-> NoLookup]
    /\ activeRequests = 0
    /\ paid = 0

-----------------------------------------------------------------------------
LookupAt(r, kind, step) == lookup[r].kind = kind /\ lookup[r].step = step

LookupGoes(r, step) == lookup' = [lookup EXCEPT ![r].step = step]

\* An answer is given, or the request fails, and forgotten.
LookupEnds(r) ==
    /\ lookup' = [lookup EXCEPT ![r] = NoLookup]
    /\ paid' = IF lookup[r].kind = "ai-search" THEN paid - 1 ELSE paid

LookUp(r, kind) ==
    /\ lookup[r].step = "idle"
    /\ kind # "ai-search"
    /\ lookup' = [lookup EXCEPT ![r] = [NoLookup EXCEPT !.step = "lookup", !.kind = kind]]
    /\ UNCHANGED <<cached, activeRequests, paid>>

\* aiSearch is charged before the cache is asked; refused, nothing happens.
AiSearch(r) ==
    /\ lookup[r].step = "idle"
    /\ lookup' = [lookup EXCEPT ![r] = [NoLookup EXCEPT !.step = "lookup", !.kind = "ai-search"]]
    /\ paid' = paid + 1
    /\ UNCHANGED <<cached, activeRequests>>

Hit(r) ==
    /\ lookup[r].step = "lookup" /\ cached[lookup[r].kind] # None
    /\ LookupEnds(r)
    /\ UNCHANGED <<cached, activeRequests>>

Miss(r) ==
    /\ lookup[r].step = "lookup" /\ cached[lookup[r].kind] = None
    /\ LookupGoes(r, IF lookup[r].kind = "search" THEN "wait" ELSE "fetch")
    /\ UNCHANGED <<cached, activeRequests, paid>>

-----------------------------------------------------------------------------
(* performSearch, under withConcurrencyLimit: it waits while too many search *)
(* and counts down however it ends.                                          *)
WithConcurrencyLimit(r) ==
    /\ LookupAt(r, "search", "wait")
    /\ activeRequests < ConcurrencyLimit
    /\ activeRequests' = activeRequests + 1
    /\ LookupGoes(r, "perform")
    /\ UNCHANGED <<cached, paid>>

\* Mutant: a search that fails is not counted down.
PerformSearchLeaks(r) ==
    /\ LookupAt(r, "search", "perform")
    /\ \E links \in 0..3 :
         /\ lookup' = [lookup EXCEPT ![r].step = "pages", ![r].urls = links]
         /\ activeRequests' = IF links = 0 THEN activeRequests ELSE activeRequests - 1
    /\ UNCHANGED <<cached, paid>>

\* At most three links, and none when the search fails.
PerformSearch(r) ==
    /\ LookupAt(r, "search", "perform")
    /\ \E links \in 0..3 : lookup' = [lookup EXCEPT ![r].step = "pages", ![r].urls = links]
    /\ activeRequests' = activeRequests - 1
    /\ UNCHANGED <<cached, paid>>

\* extractText: what throws in it becomes the text of the page, and without an
\* address (JSDOM takes no empty one) something always throws.
PageTexts(addressed) == IF addressed THEN Texts ELSE {"error"}

\* Pages that fail or have no text are blank, and joining two blanks gives a
\* space: only with fewer links is nothing found, and that answer is not kept.
SearchAndProcess(r) ==
    /\ LookupAt(r, "search", "pages")
    /\ \E text \in PageTexts(TRUE) :
         /\ lookup[r].urls = 0 => text = "blank"
         /\ IF text = "blank" /\ lookup[r].urls < 2
            THEN LookupEnds(r)
            ELSE /\ lookup' = [lookup EXCEPT ![r].step = "model", ![r].answer = text]
                 /\ UNCHANGED paid
    /\ UNCHANGED <<cached, activeRequests>>

\* One page, with or without text; without the page the request fails.
FetchAndProcessUrl(r) ==
    /\ LookupAt(r, "url", "fetch")
    /\ \/ /\ \E text \in PageTexts(TRUE) :
              lookup' = [lookup EXCEPT ![r].step = "model", ![r].answer = text]
          /\ UNCHANGED paid
       \/ LookupEnds(r)
    /\ UNCHANGED <<cached, activeRequests>>

\* The model's summary, or the apology for its failure.
ProcessWithAI(r) ==
    /\ lookup[r].step = "model"
    /\ \E answer \in {lookup[r].answer, "apology"} :
         lookup' = [lookup EXCEPT ![r].step = "keep", ![r].answer = answer]
    /\ UNCHANGED <<cached, activeRequests, paid>>

\* retryOperation: after the last attempt the error is passed on.  The page of
\* an attempt that succeeds goes through extractContent, which has no address.
FetchWithRetry(r) ==
    /\ LookupAt(r, "raw", "fetch")
    /\ \/ /\ \E text \in PageTexts(FALSE) :
              lookup' = [lookup EXCEPT ![r].step = "keep", ![r].answer = text]
          /\ UNCHANGED paid
       \/ /\ lookup[r].attempt < Retries
          /\ lookup' = [lookup EXCEPT ![r].attempt = @ + 1] /\ UNCHANGED paid
       \/ lookup[r].attempt = Retries /\ LookupEnds(r)
    /\ UNCHANGED <<cached, activeRequests>>

\* The engines and pages of a raw or agents' search turn failures into nothing.
Gather(r) ==
    /\ lookup[r].kind \in {"raw-search", "ai-search"} /\ lookup[r].step = "fetch"
    /\ \E answer \in {"found", "nothing"} :
         lookup' = [lookup EXCEPT ![r].step = "keep", ![r].answer = answer]
    /\ UNCHANGED <<cached, activeRequests, paid>>

SetCache(r) ==
    /\ lookup[r].step = "keep"
    /\ cached' = [cached EXCEPT ![lookup[r].kind] = lookup[r].answer]
    /\ LookupEnds(r)
    /\ UNCHANGED activeRequests

\* An entry expires, or the cache is emptied.
CacheExpires(kind) ==
    /\ cached[kind] # None
    /\ cached' = [cached EXCEPT ![kind] = None]
    /\ UNCHANGED <<lookup, activeRequests, paid>>

CacheNext ==
    \/ \E r \in Requests :
        \/ \E kind \in Lookups : LookUp(r, kind)
        \/ AiSearch(r)
        \/ Hit(r)
        \/ Miss(r)
        \/ WithConcurrencyLimit(r)
        \/ PerformSearch(r)
        \/ SearchAndProcess(r)
        \/ FetchAndProcessUrl(r)
        \/ ProcessWithAI(r)
        \/ FetchWithRetry(r)
        \/ Gather(r)
        \/ SetCache(r)
    \/ \E kind \in Lookups : CacheExpires(kind)

-----------------------------------------------------------------------------
(* The types of the cache and the lookups. *)
CacheTypeOK ==
    /\ cached \in [Lookups -> Answers \cup {None}]
    /\ lookup \in [Requests -> [
         step : {"idle", "lookup", "wait", "perform", "pages", "fetch", "model", "keep"},
         kind : Lookups \cup {None}, attempt : 0..Retries, urls : 0..3, answer : Answers \cup {None}]]
    /\ activeRequests \in Nat /\ paid \in Nat

(* Whatever fails, the searches counted are those under way and respect the  *)
(* limit; each agents' search pays once; nothing is kept as an answer only   *)
(* for the raw and the agents' searches, which take any failure for it.      *)
LookupsAreCounted ==
    LET Under(kinds, steps) ==
          Cardinality({r \in Requests : lookup[r].kind \in kinds /\ lookup[r].step \in steps})
    IN /\ activeRequests = Under({"search"}, {"perform"})
       /\ activeRequests <= ConcurrencyLimit
       /\ paid = Under({"ai-search"}, {"lookup", "fetch", "keep"})
       /\ \A kind \in {"url", "search", "raw"} : cached[kind] # "nothing"
=============================================================================
