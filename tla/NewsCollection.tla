--------------------------- MODULE NewsCollection ---------------------------
(***************************************************************************)
(* The news feeds: src/intelligence/browser/news/news.processor.ts, whose   *)
(* job every node may get from the queue, and the sources of                *)
(* news.service.ts.  The nodes are those of Nodes; a job splits the sources *)
(* by the position of its node among the nodes registered.                  *)
(***************************************************************************)
EXTENDS Nodes, SequencesExt

CONSTANTS
    Feeds,     \* identities of Source rows
    Articles   \* links of articles, unique among the Article rows

ASSUME NewsAssumption == IsFiniteSet(Feeds)

VARIABLES
    sources,   \* Source rows
    articles,  \* articles[a]: source of the row with link a, None when there is none
    job        \* job[n]: the news job on node n

newsVars == <<sources, articles, job>>

NoJob == [step |-> "idle", feeds |-> <<>>, keys |-> {}, order |-> <<>>,
          find |-> {}, create |-> {}]

NewsInit ==
    /\ sources = {}
    /\ articles = [a \in Articles |-> None]
    /\ job = [n \in Node |-> NoJob]

-----------------------------------------------------------------------------
\* Mutant: positions counted from one on one side only.
ShareOfShifted(feeds, order, n) ==
    {feeds[i] : i \in {i \in DOMAIN feeds : order[(i % Len(order)) + 1] = n /\ i % Len(order) # 0}}

\* Every feed whose position is that of the node, modulo the number of nodes.
ShareOf(feeds, order, n) ==
    {feeds[i] : i \in {i \in DOMAIN feeds : order[((i - 1) % Len(order)) + 1] = n}}

NewsKeeps == UNCHANGED nodeVars

JobAt(n, step) == n \in Up /\ job[n].step = step

\* The queue gives one job at a time to a node; findMany returns any order.
Process(n) ==
    /\ JobAt(n, "idle")
    /\ \E feeds \in SetToSeqs(sources) :
         job' = [job EXCEPT ![n] = [NoJob EXCEPT !.step = "nodes", !.feeds = feeds]]
    /\ UNCHANGED <<sources, articles>> /\ NewsKeeps

ProcessListKeys(n) ==
    /\ JobAt(n, "nodes")
    /\ job' = [job EXCEPT ![n].step = "rows", ![n].keys = OnList]
    /\ UNCHANGED <<sources, articles>> /\ NewsKeeps

\* The nodes in the order of their keys, which is any; the job fails when the
\* node is not among them.
ProcessShare(n) ==
    /\ JobAt(n, "rows")
    /\ LET seen == job[n].keys \cap OnList
       IN IF n \notin seen
          THEN job' = [job EXCEPT ![n] = NoJob]
          ELSE \E order \in SetToSeqs(seen) :
                 job' = [job EXCEPT ![n].step = "fetch", ![n].order = order, ![n].keys = {},
                                    ![n].find = ShareOf(job[n].feeds, order, n) \X Articles]
    /\ UNCHANGED <<sources, articles>> /\ NewsKeeps

\* An item of a feed, unless the feed has no such item or cannot be read; an
\* article that exists is left alone.
ParseURL(n, feed, a) ==
    /\ JobAt(n, "fetch") /\ <<feed, a>> \in job[n].find
    /\ \E missing \in BOOLEAN :
         /\ missing => articles[a] = None
         /\ job' = [job EXCEPT ![n].find = @ \ {<<feed, a>>},
                               ![n].create = IF missing THEN @ \cup {<<feed, a>>} ELSE @]
    /\ UNCHANGED <<sources, articles>> /\ NewsKeeps

\* Refused when the link or the lack of a source stands against it.
CreateArticle(n, feed, a) ==
    /\ JobAt(n, "fetch") /\ <<feed, a>> \in job[n].create
    /\ articles' = IF articles[a] = None /\ feed \in sources
                   THEN [articles EXCEPT ![a] = feed] ELSE articles
    /\ job' = [job EXCEPT ![n].create = @ \ {<<feed, a>>}]
    /\ UNCHANGED sources /\ NewsKeeps

\* The job is over, or dies with its node.
ProcessEnds(n) ==
    /\ job[n].step # "idle"
    /\ n \notin Up \/ (job[n].step = "fetch" /\ job[n].find \cup job[n].create = {})
    /\ job' = [job EXCEPT ![n] = NoJob]
    /\ UNCHANGED <<sources, articles>> /\ NewsKeeps

CreateSource(feed) ==
    /\ feed \notin sources
    /\ sources' = sources \cup {feed}
    /\ UNCHANGED <<articles, job>> /\ NewsKeeps

\* Refused while articles name it.
DeleteSource(feed) ==
    /\ feed \in sources /\ \A a \in Articles : articles[a] # feed
    /\ sources' = sources \ {feed}
    /\ UNCHANGED <<articles, job>> /\ NewsKeeps

NewsNext ==
    \/ NodesNext /\ UNCHANGED newsVars
    \/ \E n \in Node :
        \/ Process(n)
        \/ ProcessListKeys(n)
        \/ ProcessShare(n)
        \/ ProcessEnds(n)
        \/ \E feed \in Feeds, a \in Articles : ParseURL(n, feed, a) \/ CreateArticle(n, feed, a)
    \/ \E feed \in Feeds : CreateSource(feed) \/ DeleteSource(feed)

-----------------------------------------------------------------------------
(* The types of the rows and jobs. *)
NewsTypeOK ==
    /\ sources \subseteq Feeds
    /\ articles \in [Articles -> Feeds \cup {None}]
    /\ \A n \in Node :
         /\ job[n].step \in {"idle", "nodes", "rows", "fetch"}
         /\ job[n].feeds \in Seq(Feeds) /\ job[n].order \in Seq(Node) /\ job[n].keys \subseteq Node
         /\ job[n].find \cup job[n].create \subseteq Feeds \X Articles

(* Nodes that see the same nodes and feeds in the same order share the feeds *)
(* out: together they take every feed and none takes another's.  An article  *)
(* never outlives its source, whoever deletes sources meanwhile.             *)
FeedsAreSharedOut ==
    /\ \A n \in Node : job[n].step = "fetch" =>
         LET Taken(m) == ShareOf(job[n].feeds, job[n].order, m)
         IN /\ UNION {Taken(m) : m \in ToSet(job[n].order)} = ToSet(job[n].feeds)
            /\ \A m \in ToSet(job[n].order) \ {n} : Taken(n) \cap Taken(m) = {}
            /\ \A m \in Node :
                 /\ job[m].step = "fetch" /\ m # n
                 /\ job[m].feeds = job[n].feeds /\ job[m].order = job[n].order
                 => (job[n].find \cup job[n].create) \cap (job[m].find \cup job[m].create) = {}
    /\ \A a \in Articles : articles[a] # None => articles[a] \in sources
=============================================================================
