----------------------------- MODULE MCPlatform -----------------------------
(***************************************************************************)
(* The other components around the core for TLC, one at a time as in       *)
(* MCMessaging: `component` is chosen initially.                           *)
(***************************************************************************)
EXTENDS OAuthProvider, Accounts, TwoFactor, ChatGateway, UserContext,
        ChatInstructions, Reasoning, Billing, PriceList, WebSearch, PageCache,
        Nodes, NewsCollection, AgentCredentials, MediaLibrary, AgentPipeline, TLC

VARIABLE component

allVars ==
    <<oauthVars, accVars, factorVars, gatewayVars, contextVars, instructionVars,
      chainVars, billVars, priceVars, searchVars, cacheVars, nodeVars, newsVars,
      partVars, mediaVars, pipeVars, component>>

MCInit ==
    /\ OAuthInit /\ AccInit /\ FactorInit /\ GatewayInit /\ ContextInit
    /\ InstructionsInit /\ ReasoningInit /\ BillInit /\ PriceInit /\ SearchInit
    /\ CacheInit /\ NodesInit /\ NewsInit /\ PartsInit /\ MediaInit /\ PipeInit
    /\ component \in {"oauth", "accounts", "factor", "gateway", "context",
                    "instructions", "reasoning", "billing", "prices", "websearch",
                    "pages", "nodes", "news", "parts", "media", "pipeline"}
    /\ external = {} \/ component = "accounts"

\* Bound: feeds are collected while nodes start and leave, apart from elections,
\* messages and heartbeats, which the component "nodes" has, and jobs wait while
\* a node registers.
NewsBound ==
    /\ inbox' = inbox /\ task' = task /\ sent' = sent
    /\ \A n \in Node : writes'[n] # <<>> => nodes'[n].step = "registers" /\ job' = job
    /\ \A n \in Node : nodes'[n].step # "elects" /\ (n \in Up /\ n \in OnList => registry'[n] # None)

\* Bound: commands and tasks are sent, and chosen a node for, while no row has
\* expired under its node and one row at a time is on its way.
NodesBound ==
    (sent' = 0 /\ task' = None)
    \/ (lapsed' = {} /\ Cardinality({n \in Node : writes'[n] # <<>>}) <= 1)

\* Bound: two kinds of lookups have kept an answer at a time; no two share one.
PagesBound == Cardinality({kind \in Lookups : cached'[kind] # None}) <= 2

\* Bound: an agent has credentials or variables at a time, which share nothing
\* but the agent; three credentials are about, of which the owner keeps track of
\* two and has lost one.
Spoken ==
    Kept(credential) \cup wanted \cup lost \cup overwritten
        \cup {change[r].part : r \in {r \in Requests : change[r].does \in {"add", "update"}}}

PartsBound ==
    /\ Spoken' = {} \/ Kept(variable') \cup {r \in Requests : OnVariable(r)'} = {}
    /\ Cardinality(Spoken') <= 3
    /\ Cardinality(wanted') <= 2 /\ Cardinality(lost' \cup overwritten') <= 1

\* Bound: one user at a time has changed settings, and only where all accounts
\* were registered: another user's are another row, alike for every account.
Changers ==
    {u \in Users : changed[u] # Defaults} \cup {acc[r].user : r \in {r \in Requests : acc[r].field # None}}

AccountsBound == Cardinality(Changers') <= 1 /\ (external # {} => Changers' = {})

MCNext ==
    /\ UNCHANGED component
    /\ \/ component = "oauth" /\ OAuthNext
          /\ UNCHANGED <<accVars, factorVars, gatewayVars, contextVars,
                         instructionVars, chainVars, billVars, priceVars,
                         searchVars, cacheVars, nodeVars, newsVars, partVars,
                         mediaVars, pipeVars>>
       \/ component = "accounts" /\ AccNext /\ AccountsBound
          /\ UNCHANGED <<oauthVars, factorVars, gatewayVars, contextVars,
                         instructionVars, chainVars, billVars, priceVars,
                         searchVars, cacheVars, nodeVars, newsVars, partVars,
                         mediaVars, pipeVars>>
       \/ component = "factor" /\ FactorNext
          /\ UNCHANGED <<oauthVars, accVars, gatewayVars, contextVars,
                         instructionVars, chainVars, billVars, priceVars,
                         searchVars, cacheVars, nodeVars, newsVars, partVars,
                         mediaVars, pipeVars>>
       \/ component = "gateway" /\ GatewayNext
          /\ UNCHANGED <<oauthVars, accVars, factorVars, contextVars,
                         instructionVars, chainVars, billVars, priceVars,
                         searchVars, cacheVars, nodeVars, newsVars, partVars,
                         mediaVars, pipeVars>>
       \/ component = "context" /\ ContextNext
          /\ UNCHANGED <<oauthVars, accVars, factorVars, gatewayVars,
                         instructionVars, chainVars, billVars, priceVars,
                         searchVars, cacheVars, nodeVars, newsVars, partVars,
                         mediaVars, pipeVars>>
       \/ component = "instructions" /\ InstructionsNext
          /\ UNCHANGED <<oauthVars, accVars, factorVars, gatewayVars, contextVars,
                         chainVars, billVars, priceVars, searchVars, cacheVars,
                         nodeVars, newsVars, partVars, mediaVars, pipeVars>>
       \/ component = "reasoning" /\ ReasoningNext
          /\ UNCHANGED <<oauthVars, accVars, factorVars, gatewayVars, contextVars,
                         instructionVars, billVars, priceVars, searchVars,
                         cacheVars, nodeVars, newsVars, partVars, mediaVars,
                         pipeVars>>
       \/ component = "billing" /\ BillNext
          /\ UNCHANGED <<oauthVars, accVars, factorVars, gatewayVars, contextVars,
                         instructionVars, chainVars, priceVars, searchVars,
                         cacheVars, nodeVars, newsVars, partVars, mediaVars,
                         pipeVars>>
       \/ component = "prices" /\ PriceNext
          /\ UNCHANGED <<oauthVars, accVars, factorVars, gatewayVars, contextVars,
                         instructionVars, chainVars, billVars, searchVars,
                         cacheVars, nodeVars, newsVars, partVars, mediaVars,
                         pipeVars>>
       \/ component = "websearch" /\ SearchNext
          /\ UNCHANGED <<oauthVars, accVars, factorVars, gatewayVars, contextVars,
                         instructionVars, chainVars, billVars, priceVars,
                         cacheVars, nodeVars, newsVars, partVars, mediaVars,
                         pipeVars>>
       \/ component = "pages" /\ CacheNext /\ PagesBound
          /\ UNCHANGED <<oauthVars, accVars, factorVars, gatewayVars, contextVars,
                         instructionVars, chainVars, billVars, priceVars,
                         searchVars, nodeVars, newsVars, partVars, mediaVars,
                         pipeVars>>
       \/ component = "nodes" /\ NodesNext /\ NodesBound
          /\ UNCHANGED <<oauthVars, accVars, factorVars, gatewayVars, contextVars,
                         instructionVars, chainVars, billVars, priceVars,
                         searchVars, cacheVars, newsVars, partVars, mediaVars,
                         pipeVars>>
       \/ component = "news" /\ NewsNext /\ NewsBound
          /\ UNCHANGED <<oauthVars, accVars, factorVars, gatewayVars, contextVars,
                         instructionVars, chainVars, billVars, priceVars,
                         searchVars, cacheVars, partVars, mediaVars, pipeVars>>
       \/ component = "parts" /\ PartsNext /\ PartsBound
          /\ UNCHANGED <<oauthVars, accVars, factorVars, gatewayVars, contextVars,
                         instructionVars, chainVars, billVars, priceVars,
                         searchVars, cacheVars, nodeVars, newsVars, mediaVars,
                         pipeVars>>
       \/ component = "media" /\ MediaNext
          /\ UNCHANGED <<oauthVars, accVars, factorVars, gatewayVars, contextVars,
                         instructionVars, chainVars, billVars, priceVars,
                         searchVars, cacheVars, nodeVars, newsVars, partVars,
                         pipeVars>>
       \/ component = "pipeline" /\ PipeNext
          /\ UNCHANGED <<oauthVars, accVars, factorVars, gatewayVars, contextVars,
                         instructionVars, chainVars, billVars, priceVars,
                         searchVars, cacheVars, nodeVars, newsVars, partVars,
                         mediaVars>>

MCSpec == MCInit /\ [][MCNext]_allVars

\* The values of credentials are also the feeds, fields and user names, none of
\* which is compared with another kind: all of them are permuted at once.
Symmetry == Permutations(Requests) \cup Permutations(Users) \cup Permutations(Values)

(* The types of the rows, requests and messages of every component. *)
PlatformTypesOK ==
    CASE component = "oauth" -> OAuthTypeOK
      [] component = "accounts" -> AccTypeOK
      [] component = "factor" -> FactorTypeOK
      [] component = "gateway" -> GatewayTypeOK
      [] component = "context" -> ContextTypeOK
      [] component = "instructions" -> InstructionsTypeOK
      [] component = "reasoning" -> ReasoningTypeOK
      [] component = "billing" -> BillTypeOK
      [] component = "prices" -> PriceTypeOK
      [] component = "websearch" -> SearchTypeOK
      [] component = "pages" -> CacheTypeOK
      [] component = "nodes" -> NodesTypeOK
      [] component = "news" -> NewsTypeOK
      [] component = "parts" -> PartsTypeOK
      [] component = "media" -> MediaTypeOK
      [] component = "pipeline" -> PipeTypeOK

(* What a user stores stays what the user made it, as far as requests did    *)
(* not overlap: settings and names follow the account, a second factor and   *)
(* its codes hold; and whatever overlaps, a credential keeps its value until *)
(* an update of it fails half-way or another takes its name, and cached      *)
(* lists of photos and albums are those of the rows.                         *)
UserDataHolds ==
    /\ SettingsFollowTheUser
    /\ SecondFactorHolds
    /\ CredentialsAreKept
    /\ ListsAreFresh

(* A message to the assistant ends once for its client and is told what the  *)
(* user left in memories, title and instructions; a chain of reasoning ends. *)
ConversationHolds ==
    /\ MessageEndsOnce
    /\ ContextFollowsUser
    /\ InstructionsLimited
    /\ ReasoningEnds

(* Balances are the cost of the usage rows, and the price list they are      *)
(* computed from has each model once as long as syncs alone, and one at a    *)
(* time, change it.                                                          *)
BillingHolds ==
    /\ BalanceIsUsage
    /\ ModelsListedOnce

(* Searches and agents tell their client what happened, once and in order,   *)
(* whatever pages, tools and queries fail, and count what is under way.      *)
SearchHolds ==
    /\ SearchEndsOnce
    /\ LookupsAreCounted
    /\ CopyFollowsReports

(* A second leader of a larger name comes from a row missing at its election *)
(* or expired; rows tell their nodes, and nodes of one view share the feeds. *)
ClusterHolds ==
    /\ LeadersStartedApart
    /\ FeedsAreSharedOut
=============================================================================
