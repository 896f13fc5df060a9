------------------------------ MODULE WebSearch ------------------------------
(***************************************************************************)
(* aiSearchStream of src/intelligence/browser/browser.service.ts: three     *)
(* engines asked in parallel, the pages they name fetched in parallel, each *)
(* under a timeout, and the sources told, saved and returned.               *)
(*                                                                          *)
(* Searches share nothing, so there is one.  The text of a source is its    *)
(* length; the events that only announce a phase are left out.              *)
(***************************************************************************)
EXTENDS Actors, FiniteSets, Naturals, Sequences, SequencesExt

CONSTANTS
    Addresses,   \* addresses of pages and images
    MaxSources,  \* pages fetched and sources saved (10 in the code)
    MaxLength,   \* bound: length of one text
    MaxTotal     \* text returned (50000 characters in the code)

ASSUME SearchAssumption ==
    /\ MaxSources \in Nat /\ MaxLength \in Nat /\ MaxTotal \in Nat
    /\ IsFiniteSet(Addresses)

VARIABLES
    search,   \* step, sources so far, what it returns
    pages,    \* fetches that are awaited, those that timed out, and those still under way
    events,   \* history: addresses told as fetched, then how the search was said to end
    saved     \* the WebSearchSource rows

searchVars == <<search, pages, events, saved>>

Engines == {"tavily", "tavily_image", "wikipedia", "duckduckgo"}

NoSearch == [step |-> "idle", wikipedia |-> {}, sources |-> <<>>, result |-> <<>>]

NoPages == [awaited |-> {}, timedOut |-> {}, open |-> {}]

SearchInit ==
    /\ search = NoSearch
    /\ pages = NoPages
    /\ events = <<>>
    /\ saved = <<>>

-----------------------------------------------------------------------------
\* extractText: the text of a page is cut, may be empty, or is an apology.
ExtractText == 0..MaxLength

Source(url, engine, length) == [url |-> url, source |-> engine, length |-> length]

\* An engine that fails has found nothing.
SearchTavily ==
    {[results |-> texts, images |-> images] : texts \in UNION {[S -> 0..MaxLength] : S \in SUBSET Addresses},
                                              images \in {S \in SUBSET Addresses : Cardinality(S) <= 1}}

SearchWikipedia == SUBSET Addresses

SearchDuckDuckGo == SUBSET Addresses

\* The first MaxSources different addresses, Wikipedia's before the others.
UniqueUrls(wikipedia, duckduckgo) ==
    LET all == wikipedia \cup duckduckgo
    IN {urls \in SUBSET all :
          /\ Cardinality(urls) = IF Cardinality(all) < MaxSources THEN Cardinality(all) ELSE MaxSources
          /\ wikipedia \subseteq urls \/ urls \subseteq wikipedia}

\* The texts that fit, in order, and every image.
AddSource(acc, s) ==
    CASE s.source = "tavily_image" -> [acc EXCEPT !.kept = Append(@, s)]
      [] s.source # "tavily_image" /\ acc.total + s.length > MaxTotal -> acc
      [] OTHER -> [kept |-> Append(acc.kept, s), total |-> acc.total + s.length]

Prune(sources) == FoldLeft(AddSource, [kept |-> <<>>, total |-> 0], sources).kept

FirstOf(sources) == SubSeq(sources, 1, IF Len(sources) < MaxSources THEN Len(sources) ELSE MaxSources)

-----------------------------------------------------------------------------
\* The search is charged, or refused when nothing is left: see UsageQuota.
AiSearchStream ==
    /\ search.step = "idle"
    /\ \/ search' = [search EXCEPT !.step = "search"] /\ UNCHANGED events
       \/ search' = [search EXCEPT !.step = "refused"] /\ events' = Append(events, "error")
    /\ UNCHANGED <<pages, saved>>

EnginesAnswer ==
    /\ search.step = "search"
    /\ \E tavily \in SearchTavily, wikipedia \in SearchWikipedia, duckduckgo \in SearchDuckDuckGo :
       \E urls \in UniqueUrls(wikipedia, duckduckgo) :
         /\ search' = [search EXCEPT
              !.step = "fetch", !.wikipedia = wikipedia,
              !.sources = [i \in 1..Cardinality(DOMAIN tavily.results) |->
                             LET url == SetToSeq(DOMAIN tavily.results)[i]
                             IN Source(url, "tavily", tavily.results[url])]
                          \o [i \in 1..Cardinality(tavily.images) |->
                                Source(SetToSeq(tavily.images)[i], "tavily_image", 0)]]
         /\ pages' = [NoPages EXCEPT !.awaited = urls, !.open = urls]
    /\ UNCHANGED <<events, saved>>

\* Mutant: the page is added although its time was up.
FetchContentForAILate(url) ==
    /\ url \in pages.open
    /\ \E length \in ExtractText :
         search' = [search EXCEPT !.sources = Append(@,
                     Source(url, IF url \in search.wikipedia THEN "wikipedia" ELSE "duckduckgo", length))]
    /\ events' = Append(events, url)
    /\ pages' = [pages EXCEPT !.open = @ \ {url}, !.awaited = @ \ {url}]
    /\ UNCHANGED saved

\* A page arrives; nobody waits for a late one.
FetchContentForAI(url) ==
    /\ url \in pages.open
    /\ IF url \in pages.awaited
       THEN /\ \E length \in ExtractText :
                 search' = [search EXCEPT !.sources = Append(@,
                             Source(url, IF url \in search.wikipedia THEN "wikipedia" ELSE "duckduckgo", length))]
            /\ events' = Append(events, url)
       ELSE UNCHANGED <<search, events>>
    /\ pages' = [pages EXCEPT !.open = @ \ {url}, !.awaited = @ \ {url}]
    /\ UNCHANGED saved

PageFails(url) ==
    /\ url \in pages.open
    /\ pages' = [pages EXCEPT !.open = @ \ {url}, !.awaited = @ \ {url}]
    /\ UNCHANGED <<search, events, saved>>

\* dynamicTimeout: the fetch itself goes on.
DynamicTimeout(url) ==
    /\ url \in pages.awaited
    /\ pages' = [pages EXCEPT !.awaited = @ \ {url}, !.timedOut = @ \cup {url}]
    /\ UNCHANGED <<search, events, saved>>

\* One transaction; when it fails the search goes on.
SaveSources ==
    /\ search.step = "fetch" /\ pages.awaited = {}
    /\ saved' \in {FirstOf(search.sources), <<>>}
    /\ search' = [search EXCEPT !.step = "answer"]
    /\ UNCHANGED <<pages, events>>

Completed ==
    /\ search.step = "answer"
    /\ search' = [search EXCEPT !.step = "done", !.result = Prune(search.sources)]
    /\ events' = Append(events, "completed")
    /\ UNCHANGED <<pages, saved>>

\* A listener that throws between two waits; what was found is returned.
SearchFails ==
    /\ search.step \in {"search", "fetch"} /\ pages.awaited = {}
    /\ search' = [search EXCEPT !.step = "failed", !.result = search.sources]
    /\ events' = Append(events, "error")
    /\ UNCHANGED <<pages, saved>>

SearchNext ==
    \/ AiSearchStream
    \/ EnginesAnswer
    \/ \E url \in Addresses : FetchContentForAI(url) \/ PageFails(url) \/ DynamicTimeout(url)
    \/ SaveSources
    \/ Completed
    \/ SearchFails

-----------------------------------------------------------------------------
(* The types of the search, its pages, events and rows. *)
SearchTypeOK ==
    LET Sources == Seq([url : Addresses, source : Engines, length : 0..MaxLength])
    IN /\ search \in [step : {"idle", "search", "fetch", "answer", "done", "failed", "refused"},
                      wikipedia : SUBSET Addresses, sources : Sources, result : Sources]
       /\ pages \in [awaited : SUBSET Addresses, timedOut : SUBSET Addresses, open : SUBSET Addresses]
       /\ events \in Seq(Addresses \cup {"completed", "error"})
       /\ saved \in Sources

AddLength(n, s) == n + s.length

TotalLength(sources) == FoldLeft(AddLength, 0, sources)

(* Whatever the order in which pages arrive, fail and time out: the client   *)
(* is told of each page that becomes a source, in that order and never of a  *)
(* late one, and of the end once and last; the rows are the first sources of *)
(* the finished search; what a completed search returns respects the limit.  *)
SearchEndsOnce ==
    LET sources == search.sources
        fetched == {i \in DOMAIN sources : sources[i].source \in {"wikipedia", "duckduckgo"}}
        ended == search.step \in {"done", "failed", "refused"}
    IN /\ Len(events) = Cardinality(fetched) + (IF ended THEN 1 ELSE 0)
       /\ ended => events[Len(events)] = IF search.step = "done" THEN "completed" ELSE "error"
       /\ \A i \in fetched :
            /\ events[Cardinality({j \in fetched : j <= i})] = sources[i].url
            /\ sources[i].url \notin pages.timedOut
            /\ \A j \in fetched \ {i} : sources[j].url # sources[i].url
       /\ Cardinality(fetched) <= MaxSources
       /\ saved # <<>> => saved = FirstOf(sources) /\ search.step \in {"answer", "done"}
       /\ search.step = "done" =>
            /\ TotalLength(search.result) <= MaxTotal
            /\ \A s \in Range(sources) :
                 s.source = "tavily_image" \/ s.length = 0 => s \in Range(search.result)
=============================================================================
