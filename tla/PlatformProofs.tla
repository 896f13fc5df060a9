---------------------------- MODULE PlatformProofs ----------------------------
(***************************************************************************)
(* Theorems about the components around the core, each about the            *)
(* specification of that component by itself and for any number of users,   *)
(* requests and rows.  Composed shows that the specification of the         *)
(* Platform run behaves as each of them.                                    *)
(***************************************************************************)
EXTENDS MCPlatform, FiniteSetTheorems, SequenceTheorems, WellFoundedInduction, TLAPS

OAuthSpec == OAuthInit /\ [][OAuthNext]_oauthVars

AccSpec == AccInit /\ [][AccNext]_accVars

FactorSpec == FactorInit /\ [][FactorNext]_factorVars

GatewaySpec == GatewayInit /\ [][GatewayNext]_gatewayVars

ContextSpec == ContextInit /\ [][ContextNext]_contextVars

InstructionsSpec == InstructionsInit /\ [][InstructionsNext]_instructionVars

ReasoningSpec == ReasoningInit /\ [][ReasoningNext]_chainVars

BillSpec == BillInit /\ [][BillNext]_billVars

PriceSpec == PriceInit /\ [][PriceNext]_priceVars

SearchSpec == SearchInit /\ [][SearchNext]_searchVars

CacheSpec == CacheInit /\ [][CacheNext]_cacheVars

NodesSpec == NodesInit /\ [][NodesNext]_nodeVars

PartsSpec == PartsInit /\ [][PartsNext]_partVars

MediaSpec == MediaInit /\ [][MediaNext]_mediaVars

PipeSpec == PipeInit /\ [][PipeNext]_pipeVars

NewsSpec == NodesInit /\ NewsInit /\ [][NewsNext]_<<nodeVars, newsVars>>

(* Every behaviour the Platform run explores is one of each component, most  *)
(* of them standing still.                                                   *)
THEOREM Composed ==
  MCSpec =>
    /\ OAuthSpec
    /\ AccSpec
    /\ FactorSpec
    /\ GatewaySpec
    /\ ContextSpec
    /\ InstructionsSpec
    /\ ReasoningSpec
    /\ BillSpec
    /\ PriceSpec
    /\ SearchSpec
    /\ CacheSpec
    /\ NodesSpec
    /\ PartsSpec
    /\ MediaSpec
    /\ PipeSpec
    /\ NewsSpec
<1>1. MCInit => /\ OAuthInit /\ AccInit /\ FactorInit /\ GatewayInit /\ ContextInit
              /\ InstructionsInit /\ ReasoningInit /\ BillInit /\ PriceInit /\ SearchInit
              /\ CacheInit /\ NodesInit /\ PartsInit /\ MediaInit /\ PipeInit /\ NewsInit
  BY DEF MCInit
<1>2. [MCNext]_allVars => [OAuthNext]_oauthVars
  BY DEF MCNext, allVars
<1>3. [MCNext]_allVars => [AccNext]_accVars
  BY DEF MCNext, allVars
<1>4. [MCNext]_allVars => [FactorNext]_factorVars
  BY DEF MCNext, allVars
<1>5. [MCNext]_allVars => [GatewayNext]_gatewayVars
  BY DEF MCNext, allVars
<1>6. [MCNext]_allVars => [ContextNext]_contextVars
  BY DEF MCNext, allVars
<1>7. [MCNext]_allVars => [InstructionsNext]_instructionVars
  BY DEF MCNext, allVars
<1>8. [MCNext]_allVars => [ReasoningNext]_chainVars
  BY DEF MCNext, allVars
<1>9. [MCNext]_allVars => [BillNext]_billVars
  BY DEF MCNext, allVars
<1>10. [MCNext]_allVars => [PriceNext]_priceVars
  BY DEF MCNext, allVars
<1>11. [MCNext]_allVars => [SearchNext]_searchVars
  BY DEF MCNext, allVars
<1>12. [MCNext]_allVars => [CacheNext]_cacheVars
  BY DEF MCNext, allVars
<1>13. [MCNext]_allVars => [NodesNext]_nodeVars
  BY DEF MCNext, allVars, NewsNext, NewsKeeps, Process, ProcessListKeys, ProcessShare,
     ProcessEnds, ParseURL, CreateArticle, CreateSource, DeleteSource
<1>14. [MCNext]_allVars => [PartsNext]_partVars
  BY DEF MCNext, allVars
<1>15. [MCNext]_allVars => [MediaNext]_mediaVars
  BY DEF MCNext, allVars
<1>16. [MCNext]_allVars => [PipeNext]_pipeVars
  BY DEF MCNext, allVars
<1>17. [MCNext]_allVars => [NewsNext]_<<nodeVars, newsVars>>
  BY DEF MCNext, allVars, NewsNext
<1> QED
  BY <1>1, <1>2, <1>3, <1>4, <1>5, <1>6, <1>7, <1>8, <1>9,
     <1>10, <1>11, <1>12, <1>13, <1>14, <1>15, <1>16, <1>17, PTL
     DEF MCSpec, OAuthSpec, AccSpec, FactorSpec, GatewaySpec, ContextSpec, InstructionsSpec,
         ReasoningSpec, BillSpec, PriceSpec, SearchSpec, CacheSpec, NodesSpec,
         PartsSpec, MediaSpec, PipeSpec, NewsSpec

-----------------------------------------------------------------------------
(* The OAuth provider.                                                       *)

Exchanging(r, k) == OAuthAt(r, "exchange") /\ oauth[r].code = k

GrantingOf(r, u, c) == OAuthAt(r, "grant") /\ oauth[r].user = u /\ oauth[r].client = c

\* What the steps of a request need of its locals.
OAuthShape(q) ==
    /\ q \in OAuthRequest
    /\ q.step \in {"authorize", "grant"} => q.user \in Users /\ q.client \in Clients
    /\ q.step = "exchange" => q.code \in Codes
    /\ q.step = "edit" => q.client \in Clients /\ q.columns \in Columns

OAuthTyped == OAuthTypeOK /\ \A r \in Requests : OAuthShape(oauth[r])

\* A code that can still be exchanged was not; and of exchanges under way
\* there is one, before which the code gave no tokens.
CodeOnce(k) ==
    /\ issued[k] <= 1
    /\ code[k].status \in {"unused", "live"} => issued[k] = 0
    /\ \A r \in Requests : Exchanging(r, k) => issued[k] = 0
    /\ \A q, r \in Requests : Exchanging(q, k) /\ Exchanging(r, k) => q = r

ConsentOnce(u, c) ==
    /\ consent[<<u, c>>] <= 1
    /\ \A r \in Requests : GrantingOf(r, u, c) => consent[<<u, c>>] = 0
    /\ \A q, r \in Requests : GrantingOf(q, u, c) /\ GrantingOf(r, u, c) => q = r

OAuthInv ==
    /\ OAuthTyped
    /\ \A k \in Codes \ raced : CodeOnce(k)
    /\ \A u \in Users, c \in Clients : <<u, c>> \notin raced => ConsentOnce(u, c)

\* A request that ends or begins leaves the others alone.
LEMMA OAuthOthers ==
  ASSUME OAuthTyped, NEW r \in Requests, NEW q, OAuthShape(q), oauth' = [oauth EXCEPT ![r] = q]
  PROVE  /\ oauth' \in [Requests -> OAuthRequest] /\ \A s \in Requests : OAuthShape(oauth'[s])
         /\ oauth'[r] = q /\ \A s \in Requests \ {r} : oauth'[s] = oauth[s]
  BY DEF OAuthTyped, OAuthTypeOK, OAuthShape

LEMMA OAuthIdleShape == OAuthShape(OAuthIdle)
  BY DEF OAuthShape, OAuthIdle, OAuthRequest, OAuthSteps

LEMMA OAuthFinishes ==
  ASSUME OAuthTyped, NEW r \in Requests, OAuthFinish(r)
  PROVE  /\ oauth' \in [Requests -> OAuthRequest] /\ \A s \in Requests : OAuthShape(oauth'[s])
         /\ oauth'[r] = OAuthIdle /\ \A s \in Requests \ {r} : oauth'[s] = oauth[s]
  BY OAuthIdleShape, OAuthOthers DEF OAuthFinish

LEMMA OAuthNextTyped == ASSUME OAuthAssumption, OAuthTyped, [OAuthNext]_oauthVars PROVE OAuthTyped'
<1>0. OAuthTypeOK /\ \A r \in Requests : OAuthShape(oauth[r])
  BY DEF OAuthTyped
<1>1. ASSUME NEW c \in Clients, NEW d \in RedirectUris, NEW a \in SUBSET Scopes,
             RegisterApplication(c, d, a)
      PROVE  OAuthTyped'
  BY <1>0, <1>1 DEF RegisterApplication, OAuthTyped, OAuthTypeOK, Columns
<1>2. ASSUME NEW c \in Clients, NEW u \in Users, RevokeAccess(u, c) PROVE OAuthTyped'
  BY <1>0, <1>2 DEF RevokeAccess, OAuthTyped, OAuthTypeOK
<1>3. ASSUME NEW k \in Codes, ExpireCode(k) PROVE OAuthTyped'
  BY <1>0, <1>3 DEF ExpireCode, OAuthTyped, OAuthTypeOK
<1>4. ASSUME NEW r \in Requests, NEW c \in Clients, NEW d \in RedirectUris \cup {None},
             NEW a \in (SUBSET Scopes) \cup {None}, EditUserApplication(r, c, d, a)
      PROVE  OAuthTyped'
  <2> DEFINE columns == [redirect |-> IF d = None THEN application[c].redirect ELSE d,
                         allowed |-> IF a = None THEN application[c].allowed ELSE a]
             q == [OAuthIdle EXCEPT !.step = "edit", !.client = c, !.columns = columns]
  <2>1. application[c] \in Columns
    BY <1>0, <1>4 DEF EditUserApplication, Registered, OAuthTypeOK
  <2>2. columns \in Columns
    BY <2>1 DEF Columns
  <2> HIDE DEF columns
  <2>3. OAuthShape(q)
    BY <2>2 DEF OAuthShape, OAuthIdle, OAuthRequest, OAuthSteps
  <2>4. oauth' = [oauth EXCEPT ![r] = q] /\ UNCHANGED <<application, code, consent, issued, raced>>
    BY <1>4 DEF EditUserApplication, columns
  <2> HIDE DEF q
  <2> QED
    BY <1>0, <2>3, <2>4, OAuthOthers DEF OAuthTyped, OAuthTypeOK
<1>5. ASSUME NEW r \in Requests, NEW u \in Users, NEW c \in Clients, NEW d \in RedirectUris,
             NEW s \in SUBSET Scopes, HandleAuthorizationRequest(r, u, c, d, s)
      PROVE  OAuthTyped'
  <2> DEFINE q == [OAuthIdle EXCEPT !.step = "authorize", !.user = u, !.client = c, !.scope = s]
  <2>1. OAuthShape(q)
    BY DEF OAuthShape, OAuthIdle, OAuthRequest, OAuthSteps
  <2>2. oauth' = [oauth EXCEPT ![r] = q] /\ UNCHANGED <<application, code, consent, issued, raced>>
    BY <1>5 DEF HandleAuthorizationRequest
  <2> HIDE DEF q
  <2> QED
    BY <1>0, <2>1, <2>2, OAuthOthers DEF OAuthTyped, OAuthTypeOK
<1>6. ASSUME NEW r \in Requests, NEW u \in Users, NEW c \in Clients, GrantConsent(r, u, c)
      PROVE  OAuthTyped'
  <2> DEFINE q == [OAuthIdle EXCEPT !.step = "grant", !.user = u, !.client = c]
  <2>1. OAuthShape(q)
    BY DEF OAuthShape, OAuthIdle, OAuthRequest, OAuthSteps
  <2>2. oauth' = [oauth EXCEPT ![r] = q] /\ UNCHANGED <<application, code, issued>>
        /\ consent' = [consent EXCEPT ![<<u, c>>] = 0] /\ raced' \in {raced, raced \cup {<<u, c>>}}
    BY <1>6 DEF GrantConsent
  <2> HIDE DEF q
  <2>3. consent' \in [Users \X Clients -> Nat] /\ raced' \subseteq Codes \cup (Users \X Clients)
    BY <1>0, <2>2 DEF OAuthTypeOK
  <2> QED
    BY <1>0, <2>1, <2>2, <2>3, OAuthOthers DEF OAuthTyped, OAuthTypeOK
<1>7. ASSUME NEW r \in Requests, NEW k \in Codes, AuthorizeCreate(r, k) PROVE OAuthTyped'
  <2>1. oauth[r] \in OAuthRequest /\ oauth[r].user \in Users /\ oauth[r].client \in Clients
    BY <1>0, <1>7 DEF AuthorizeCreate, OAuthAt, OAuthShape
  <2>2. OAuthFinish(r) /\ UNCHANGED <<application, consent, issued, raced>>
        /\ code' = [code EXCEPT ![k] = [status |-> "live", client |-> oauth[r].client,
                                        user |-> oauth[r].user, scope |-> oauth[r].scope]]
    BY <1>7 DEF AuthorizeCreate
  <2> QED
    BY <1>0, <2>1, <2>2, OAuthFinishes DEF OAuthTyped, OAuthTypeOK, OAuthRequest
<1>8. ASSUME NEW r \in Requests, NEW k \in Codes, HandleAuthorizationCodeGrant(r, k)
      PROVE  OAuthTyped'
  <2> DEFINE q == [OAuthIdle EXCEPT !.step = "exchange", !.code = k]
  <2>1. OAuthShape(q)
    BY DEF OAuthShape, OAuthIdle, OAuthRequest, OAuthSteps
  <2>2. oauth' = [oauth EXCEPT ![r] = q] /\ UNCHANGED <<application, code, consent, issued>>
        /\ raced' \in {raced, raced \cup {k}}
    BY <1>8 DEF HandleAuthorizationCodeGrant
  <2> HIDE DEF q
  <2> QED
    BY <1>0, <2>1, <2>2, OAuthOthers DEF OAuthTyped, OAuthTypeOK
<1>9. ASSUME NEW r \in Requests, EditWrite(r) PROVE OAuthTyped'
  <2>1. oauth[r].client \in Clients /\ oauth[r].columns \in Columns
    BY <1>0, <1>9 DEF EditWrite, OAuthAt, OAuthShape
  <2> QED
    BY <1>0, <1>9, <2>1, OAuthFinishes DEF EditWrite, OAuthTyped, OAuthTypeOK
<1>10. ASSUME NEW r \in Requests, MarkCodeUsed(r) PROVE OAuthTyped'
  <2>1. oauth[r].code \in Codes
    BY <1>0, <1>10 DEF MarkCodeUsed, OAuthAt, OAuthShape
  <2>2. PICK k \in Codes : k = oauth[r].code
    BY <2>1
  <2>3. /\ code' = [code EXCEPT ![k] = [code[k] EXCEPT !.status = "used"]]
        /\ issued' = [issued EXCEPT ![k] = issued[k] + 1] /\ OAuthFinish(r)
        /\ UNCHANGED <<application, consent, raced>>
    BY <1>0, <1>10, <2>2 DEF MarkCodeUsed, OAuthTypeOK
  <2> DEFINE CodeRow == [status : {"unused", "live", "used", "expired"},
                         client : Clients \cup {None}, user : Users \cup {None},
                         scope : SUBSET Scopes]
  <2>5. code[k] \in CodeRow /\ issued[k] \in Nat
    BY <1>0, <2>2 DEF OAuthTypeOK
  <2>6. [code[k] EXCEPT !.status = "used"] \in CodeRow /\ issued[k] + 1 \in Nat
    BY <2>5
  <2>7. code \in [Codes -> CodeRow] /\ issued \in [Codes -> Nat]
    BY <1>0 DEF OAuthTypeOK
  <2>8. code' \in [Codes -> CodeRow] /\ issued' \in [Codes -> Nat]
    <3> HIDE DEF CodeRow
    <3> QED
      BY <2>2, <2>3, <2>6, <2>7
  <2>4. OAuthTypeOK'
    BY <1>0, <2>3, <2>8, OAuthFinishes DEF OAuthTypeOK
  <2> QED
    BY <2>3, <2>4, OAuthFinishes DEF OAuthTyped
<1>11. ASSUME NEW r \in Requests, GrantCreate(r) PROVE OAuthTyped'
  <2>1. oauth[r].user \in Users /\ oauth[r].client \in Clients
    BY <1>0, <1>11 DEF GrantCreate, OAuthAt, OAuthShape
  <2> QED
    BY <1>0, <1>11, <2>1, OAuthFinishes DEF GrantCreate, OAuthTyped, OAuthTypeOK
<1>12. CASE UNCHANGED oauthVars
  BY <1>0, <1>12 DEF oauthVars, OAuthTyped, OAuthTypeOK
<1> QED
  BY <1>1, <1>2, <1>3, <1>4, <1>5, <1>6, <1>7, <1>8, <1>9, <1>10, <1>11, <1>12 DEF OAuthNext

\* A code nobody handles: its row may be created or expire, and exchanges end.
CodeRests(k) ==
    /\ k \in Codes =>
         /\ issued'[k] = issued[k]
         /\ code'[k].status \in {"unused", "live"} => code[k].status \in {"unused", "live"}
    /\ raced \subseteq raced'
    /\ \A r \in Requests : Exchanging(r, k)' => Exchanging(r, k)

ConsentRests(u, c) ==
    /\ u \in Users /\ c \in Clients => consent'[<<u, c>>] \in {0, consent[<<u, c>>]}
    /\ raced \subseteq raced'
    /\ \A r \in Requests : GrantingOf(r, u, c)' => GrantingOf(r, u, c)

\* A request that is neither exchanging nor granting afterwards.
LEMMA OAuthQuiet ==
  ASSUME OAuthTyped, NEW r \in Requests, oauth'[r].step \notin {"exchange", "grant"},
         \A s \in Requests \ {r} : oauth'[s] = oauth[s]
  PROVE  /\ \A s \in Requests : \A k : Exchanging(s, k)' => s # r /\ Exchanging(s, k)
         /\ \A s \in Requests : \A u, c : GrantingOf(s, u, c)' => s # r /\ GrantingOf(s, u, c)
  BY DEF Exchanging, GrantingOf, OAuthAt

LEMMA OAuthKinds ==
  ASSUME OAuthAssumption, OAuthTyped, [OAuthNext]_oauthVars, NEW k, NEW u, NEW c
  PROVE  /\ \/ CodeRests(k)
            \/ \E r \in Requests : HandleAuthorizationCodeGrant(r, k)
            \/ \E r \in Requests : MarkCodeUsed(r) /\ oauth[r].code = k
         /\ \/ ConsentRests(u, c)
            \/ \E r \in Requests : GrantConsent(r, u, c)
            \/ \E r \in Requests : GrantCreate(r) /\ oauth[r].user = u /\ oauth[r].client = c
<1> DEFINE Same == CodeRests(k) /\ ConsentRests(u, c)
<1>0. OAuthTypeOK /\ \A r \in Requests : OAuthShape(oauth[r])
  BY DEF OAuthTyped
<1>1. ASSUME NEW d \in Clients, NEW e \in RedirectUris, NEW a \in SUBSET Scopes,
             RegisterApplication(d, e, a)
      PROVE  Same
  BY <1>1 DEF RegisterApplication, CodeRests, ConsentRests, Exchanging, GrantingOf, OAuthAt
<1>2. ASSUME NEW d \in Clients, NEW v \in Users, RevokeAccess(v, d) PROVE Same
  BY <1>0, <1>2 DEF RevokeAccess, CodeRests, ConsentRests, Exchanging, GrantingOf, OAuthAt, OAuthTypeOK
<1>3. ASSUME NEW j \in Codes, ExpireCode(j) PROVE Same
  BY <1>0, <1>3 DEF ExpireCode, CodeRests, ConsentRests, Exchanging, GrantingOf, OAuthAt, OAuthTypeOK
<1>4. ASSUME NEW r \in Requests, NEW d \in Clients, NEW e \in RedirectUris \cup {None},
             NEW a \in (SUBSET Scopes) \cup {None}, EditUserApplication(r, d, e, a)
      PROVE  Same
  <2>1. oauth'[r].step = "edit" /\ \A s \in Requests \ {r} : oauth'[s] = oauth[s]
    BY <1>0, <1>4 DEF EditUserApplication, OAuthIdle, OAuthTypeOK
  <2> QED
    BY <1>4, <2>1, OAuthQuiet DEF EditUserApplication, CodeRests, ConsentRests
<1>5. ASSUME NEW r \in Requests, NEW v \in Users, NEW d \in Clients, NEW e \in RedirectUris,
             NEW s \in SUBSET Scopes, HandleAuthorizationRequest(r, v, d, e, s)
      PROVE  Same
  <2>1. oauth'[r].step = "authorize" /\ \A q \in Requests \ {r} : oauth'[q] = oauth[q]
    BY <1>0, <1>5 DEF HandleAuthorizationRequest, OAuthIdle, OAuthTypeOK
  <2> QED
    BY <1>5, <2>1, OAuthQuiet DEF HandleAuthorizationRequest, CodeRests, ConsentRests
<1>6. ASSUME NEW r \in Requests, NEW v \in Users, NEW d \in Clients, GrantConsent(r, v, d)
      PROVE  CodeRests(k) /\ (ConsentRests(u, c) \/ GrantConsent(r, u, c))
  <2>1. /\ oauth'[r] = [OAuthIdle EXCEPT !.step = "grant", !.user = v, !.client = d]
        /\ \A s \in Requests \ {r} : oauth'[s] = oauth[s]
    BY <1>0, <1>6 DEF GrantConsent, OAuthTypeOK
  <2>2. oauth'[r].step = "grant" /\ oauth'[r].user = v /\ oauth'[r].client = d
    BY <2>1 DEF OAuthIdle
  <2>3. UNCHANGED <<issued, code>> /\ raced \subseteq raced'
        /\ consent' = [consent EXCEPT ![<<v, d>>] = 0]
    BY <1>6 DEF GrantConsent
  <2>4. CodeRests(k)
    BY <2>1, <2>2, <2>3 DEF CodeRests, Exchanging, OAuthAt
  <2>5. CASE v # u \/ d # c
    BY <1>0, <2>1, <2>2, <2>3, <2>4, <2>5 DEF ConsentRests, GrantingOf, OAuthAt, OAuthTypeOK
  <2> QED
    BY <1>6, <2>4, <2>5
<1>7. ASSUME NEW r \in Requests, NEW j \in Codes, AuthorizeCreate(r, j) PROVE Same
  <2>1. oauth'[r].step = "idle" /\ \A s \in Requests \ {r} : oauth'[s] = oauth[s]
    BY <1>7, OAuthFinishes DEF AuthorizeCreate, OAuthIdle
  <2>2. code[j].status = "unused" /\ code' \in [Codes -> {code'[i] : i \in Codes}]
        /\ \A i \in Codes \ {j} : code'[i] = code[i]
    BY <1>0, <1>7 DEF AuthorizeCreate, NoCode, OAuthTypeOK
  <2> QED
    BY <1>7, <2>1, <2>2, OAuthQuiet DEF AuthorizeCreate, CodeRests, ConsentRests
<1>8. ASSUME NEW r \in Requests, NEW j \in Codes, HandleAuthorizationCodeGrant(r, j)
      PROVE  (CodeRests(k) \/ HandleAuthorizationCodeGrant(r, k)) /\ ConsentRests(u, c)
  <2>1. /\ oauth'[r] = [OAuthIdle EXCEPT !.step = "exchange", !.code = j]
        /\ \A s \in Requests \ {r} : oauth'[s] = oauth[s]
    BY <1>0, <1>8 DEF HandleAuthorizationCodeGrant, OAuthTypeOK
  <2>2. oauth'[r].step = "exchange" /\ oauth'[r].code = j
    BY <2>1 DEF OAuthIdle
  <2>3. UNCHANGED <<issued, code, consent>> /\ raced \subseteq raced'
    BY <1>8 DEF HandleAuthorizationCodeGrant
  <2>4. ConsentRests(u, c)
    BY <2>1, <2>2, <2>3 DEF ConsentRests, GrantingOf, OAuthAt
  <2>5. CASE j # k
    BY <2>1, <2>2, <2>3, <2>4, <2>5 DEF CodeRests, Exchanging, OAuthAt
  <2> QED
    BY <1>8, <2>4, <2>5
<1>9. ASSUME NEW r \in Requests, EditWrite(r) PROVE Same
  <2>1. oauth'[r].step = "idle" /\ \A s \in Requests \ {r} : oauth'[s] = oauth[s]
    BY <1>9, OAuthFinishes DEF EditWrite, OAuthIdle
  <2> QED
    BY <1>9, <2>1, OAuthQuiet DEF EditWrite, CodeRests, ConsentRests
<1>10. ASSUME NEW r \in Requests, MarkCodeUsed(r)
       PROVE  (CodeRests(k) \/ (MarkCodeUsed(r) /\ oauth[r].code = k)) /\ ConsentRests(u, c)
  <2>1. oauth'[r].step = "idle" /\ \A s \in Requests \ {r} : oauth'[s] = oauth[s]
    BY <1>10, OAuthFinishes DEF MarkCodeUsed, OAuthIdle
  <2>2. ConsentRests(u, c)
    BY <1>10, <2>1, OAuthQuiet DEF MarkCodeUsed, ConsentRests
  <2>3. CASE oauth[r].code # k
    <3>1. (k \in Codes => issued'[k] = issued[k] /\ code'[k] = code[k]) /\ raced' = raced
      BY <1>0, <1>10, <2>3 DEF MarkCodeUsed, OAuthTypeOK
    <3>2. \A s \in Requests : Exchanging(s, k)' => Exchanging(s, k)
      BY <2>1, OAuthQuiet
    <3>3. CodeRests(k)
      BY <3>1, <3>2 DEF CodeRests
    <3> QED
      BY <2>2, <3>3
  <2> QED
    BY <1>10, <2>2, <2>3
<1>11. ASSUME NEW r \in Requests, GrantCreate(r)
       PROVE  CodeRests(k)
              /\ (ConsentRests(u, c) \/ (GrantCreate(r) /\ oauth[r].user = u /\ oauth[r].client = c))
  <2>1. oauth'[r].step = "idle" /\ \A s \in Requests \ {r} : oauth'[s] = oauth[s]
    BY <1>11, OAuthFinishes DEF GrantCreate, OAuthIdle
  <2>2. CodeRests(k)
    BY <1>11, <2>1, OAuthQuiet DEF GrantCreate, CodeRests
  <2>3. CASE oauth[r].user # u \/ oauth[r].client # c
    <3>1. (u \in Users /\ c \in Clients => consent'[<<u, c>>] = consent[<<u, c>>]) /\ raced' = raced
      BY <1>0, <1>11, <2>3 DEF GrantCreate, OAuthTypeOK
    <3>2. \A s \in Requests : GrantingOf(s, u, c)' => GrantingOf(s, u, c)
      BY <2>1, OAuthQuiet
    <3>3. ConsentRests(u, c)
      BY <3>1, <3>2 DEF ConsentRests
    <3> QED
      BY <2>2, <3>3
  <2> QED
    BY <1>11, <2>2, <2>3
<1>12. CASE UNCHANGED oauthVars
  BY <1>12 DEF oauthVars, CodeRests, ConsentRests, Exchanging, GrantingOf, OAuthAt
<1> QED
  BY <1>1, <1>2, <1>3, <1>4, <1>5, <1>6, <1>7, <1>8, <1>9, <1>10, <1>11, <1>12 DEF OAuthNext

LEMMA NextCodeOnce ==
  ASSUME OAuthAssumption, OAuthInv, [OAuthNext]_oauthVars, NEW k \in Codes, k \notin raced'
  PROVE  CodeOnce(k)'
<1>0. OAuthTypeOK /\ OAuthTyped /\ \A r \in Requests : OAuthShape(oauth[r])
  BY DEF OAuthInv, OAuthTyped
<1>1. CASE CodeRests(k)
  <2>1. CodeOnce(k)
    BY <1>1 DEF OAuthInv, CodeRests
  <2> QED
    BY <1>1, <2>1 DEF CodeRests, CodeOnce
<1>2. ASSUME NEW r \in Requests, HandleAuthorizationCodeGrant(r, k) PROVE CodeOnce(k)'
  <2>1. /\ oauth'[r] = [OAuthIdle EXCEPT !.step = "exchange", !.code = k]
        /\ \A s \in Requests \ {r} : oauth'[s] = oauth[s]
    BY <1>0, <1>2 DEF HandleAuthorizationCodeGrant, OAuthTypeOK
  <2>2. ~\E q \in Requests : Exchanging(q, k)
    BY <1>2 DEF HandleAuthorizationCodeGrant, Exchanging
  <2>3. CodeOnce(k) /\ issued[k] = 0
    BY <1>2, <2>2 DEF HandleAuthorizationCodeGrant, OAuthInv, CodeOnce
  <2>4. \A s \in Requests : Exchanging(s, k)' => s = r
    BY <2>1, <2>2 DEF Exchanging, OAuthAt
  <2> QED
    BY <1>2, <2>3, <2>4 DEF HandleAuthorizationCodeGrant, CodeOnce
<1>3. ASSUME NEW r \in Requests, MarkCodeUsed(r), oauth[r].code = k PROVE CodeOnce(k)'
  <2>1. oauth'[r].step = "idle" /\ \A s \in Requests \ {r} : oauth'[s] = oauth[s]
    BY <1>0, <1>3, OAuthFinishes DEF MarkCodeUsed, OAuthIdle
  <2>2. CodeOnce(k) /\ Exchanging(r, k)
    BY <1>3 DEF MarkCodeUsed, OAuthInv, Exchanging
  <2>3. issued[k] = 0 /\ \A s \in Requests \ {r} : ~Exchanging(s, k)
    BY <2>2 DEF CodeOnce
  <2>4. \A s \in Requests : ~Exchanging(s, k)'
    BY <2>1, <2>3 DEF Exchanging, OAuthAt
  <2>5. issued'[k] = 1 /\ code'[k].status = "used"
    BY <1>0, <1>3, <2>3 DEF MarkCodeUsed, OAuthTypeOK
  <2> QED
    BY <2>4, <2>5 DEF CodeOnce
<1>4. \/ CodeRests(k)
      \/ \E r \in Requests : HandleAuthorizationCodeGrant(r, k)
      \/ \E r \in Requests : MarkCodeUsed(r) /\ oauth[r].code = k
  BY <1>0, OAuthKinds
<1> QED
  BY <1>1, <1>2, <1>3, <1>4

LEMMA NextConsentOnce ==
  ASSUME OAuthAssumption, OAuthInv, [OAuthNext]_oauthVars, NEW u \in Users, NEW c \in Clients,
         <<u, c>> \notin raced'
  PROVE  ConsentOnce(u, c)'
<1>0. OAuthTypeOK /\ OAuthTyped /\ \A r \in Requests : OAuthShape(oauth[r])
  BY DEF OAuthInv, OAuthTyped
<1>1. CASE ConsentRests(u, c)
  <2>1. ConsentOnce(u, c)
    BY <1>1 DEF OAuthInv, ConsentRests
  <2> QED
    BY <1>1, <2>1 DEF ConsentRests, ConsentOnce
<1>2. ASSUME NEW r \in Requests, GrantConsent(r, u, c) PROVE ConsentOnce(u, c)'
  <2>1. /\ oauth'[r] = [OAuthIdle EXCEPT !.step = "grant", !.user = u, !.client = c]
        /\ \A s \in Requests \ {r} : oauth'[s] = oauth[s]
    BY <1>0, <1>2 DEF GrantConsent, OAuthTypeOK
  <2>2. \A q \in Requests : ~GrantingOf(q, u, c)
    BY <1>2 DEF GrantConsent, GrantingOf, Granting
  <2>3. \A s \in Requests : GrantingOf(s, u, c)' => s = r
    BY <2>1, <2>2 DEF GrantingOf, OAuthAt
  <2>4. consent'[<<u, c>>] = 0
    BY <1>0, <1>2 DEF GrantConsent, OAuthTypeOK
  <2> QED
    BY <2>3, <2>4 DEF ConsentOnce
<1>3. ASSUME NEW r \in Requests, GrantCreate(r), oauth[r].user = u, oauth[r].client = c
      PROVE  ConsentOnce(u, c)'
  <2>1. oauth'[r].step = "idle" /\ \A s \in Requests \ {r} : oauth'[s] = oauth[s]
    BY <1>0, <1>3, OAuthFinishes DEF GrantCreate, OAuthIdle
  <2>2. ConsentOnce(u, c) /\ GrantingOf(r, u, c)
    BY <1>3 DEF GrantCreate, OAuthInv, GrantingOf
  <2>3. consent[<<u, c>>] = 0 /\ \A s \in Requests \ {r} : ~GrantingOf(s, u, c)
    BY <2>2 DEF ConsentOnce
  <2>4. \A s \in Requests : ~GrantingOf(s, u, c)'
    BY <2>1, <2>3 DEF GrantingOf, OAuthAt
  <2>5. consent'[<<u, c>>] = 1
    BY <1>0, <1>3, <2>3 DEF GrantCreate, OAuthTypeOK
  <2> QED
    BY <2>4, <2>5 DEF ConsentOnce
<1>4. \/ ConsentRests(u, c)
      \/ \E r \in Requests : GrantConsent(r, u, c)
      \/ \E r \in Requests : GrantCreate(r) /\ oauth[r].user = u /\ oauth[r].client = c
  BY <1>0, OAuthKinds
<1> QED
  BY <1>1, <1>2, <1>3, <1>4

(* An authorization code yields tokens at most once, and a user has at most  *)
(* one active consent for an application, unless two exchanges of the code,  *)
(* or two grants of the consent, overlap.                                    *)
THEOREM CodesYieldOnce == OAuthSpec => [](OAuthTypeOK /\ GrantsAreSingle)
<1>1. ASSUME OAuthInit PROVE OAuthInv
  <2>1. OAuthTyped
    BY <1>1, OAuthIdleShape
       DEF OAuthInit, OAuthTyped, OAuthTypeOK, NoCode, OAuthShape
  <2>2. \A k \in Codes : CodeOnce(k)
    BY <1>1 DEF OAuthInit, CodeOnce, Exchanging, OAuthAt, OAuthIdle
  <2>3. \A u \in Users, c \in Clients : ConsentOnce(u, c)
    BY <1>1 DEF OAuthInit, ConsentOnce, GrantingOf, OAuthAt, OAuthIdle
  <2> QED
    BY <2>1, <2>2, <2>3 DEF OAuthInv
<1>2. ASSUME OAuthInv, [OAuthNext]_oauthVars PROVE OAuthInv'
  <2>1. OAuthTyped'
    BY <1>2, OAuthAssumption, OAuthNextTyped DEF OAuthInv
  <2> QED
    BY <1>2, <2>1, OAuthAssumption, NextCodeOnce, NextConsentOnce DEF OAuthInv
<1>3. ASSUME OAuthInv PROVE OAuthTypeOK /\ GrantsAreSingle
  <2>1. \A p \in (Users \X Clients) \ raced : consent[p] <= 1
    <3> TAKE p \in (Users \X Clients) \ raced
    <3>1. PICK u \in Users, c \in Clients : p = <<u, c>>
      OBVIOUS
    <3> QED
      BY <1>3, <3>1 DEF OAuthInv, ConsentOnce
  <2> QED
    BY <1>3, <2>1 DEF OAuthInv, OAuthTyped, GrantsAreSingle, CodeOnce
<1> QED
  BY <1>1, <1>2, <1>3, PTL DEF OAuthSpec

-----------------------------------------------------------------------------
(* Billing.                                                                  *)

BillRow == [step : {"idle", "ask", "price", "charge", "answered", "failed"},
            app : Applications \cup {None}, model : Models \cup {None},
            left : 0 .. 3, cost : Nat, charged : 0 .. 3]

UsageSum == [number : 0 .. MaxUsages, cost : Nat]

\* What a request was charged stands in the rows of its application, and what
\* it took it was or will be charged.
BillShape(q, rows) ==
    /\ q.step \in {"ask", "price", "charge", "answered"} =>
         q.app \in Applications /\ q.model \in Models /\ rows[q.app].number >= q.charged
    /\ q.step \in {"ask", "price", "charge"} => q.left >= 1 /\ q.charged + q.left \in {2, 3}
    /\ q.step = "answered" => q.charged >= 2

\* Rows have a cost only with an application, whose balance is that cost.
Accounted(b, u) ==
    /\ b = None => u.number = 0
    /\ u.number = 0 => u.cost = 0
    /\ b # None => b = -u.cost

BillInv ==
    /\ BillTypeOK
    /\ \A a \in Applications : Accounted(balance[a], usages[a])
    /\ \A r \in Requests : BillShape(bill[r], usages)

LEMMA BillTypes ==
  ASSUME BillTypeOK
  PROVE  /\ balance \in [Applications -> Int \cup {None}] /\ usages \in [Applications -> UsageSum]
         /\ price \in [Models -> Prices \cup {None}] /\ bill \in [Requests -> BillRow]
  BY DEF BillTypeOK, BillRow, UsageSum

\* More rows serve a request as well.
LEMMA BillGrows ==
  ASSUME NEW rows \in [Applications -> UsageSum], NEW more \in [Applications -> UsageSum],
         \A a \in Applications : more[a].number >= rows[a].number,
         NEW p \in BillRow, BillShape(p, rows)
  PROVE  BillShape(p, more)
<1>1. ASSUME p.app \in Applications, rows[p.app].number >= p.charged
      PROVE  more[p.app].number >= p.charged
  <2>1. /\ rows[p.app].number \in Int /\ more[p.app].number \in Int /\ p.charged \in Int
        /\ more[p.app].number >= rows[p.app].number
    BY <1>1 DEF UsageSum, BillRow
  <2> QED
    BY <1>1, <2>1
<1> QED
  BY <1>1 DEF BillShape

\* A request that goes on, with the same rows or more of them.
LEMMA BillMoves ==
  ASSUME BillInv, NEW r \in Requests, NEW q \in BillRow, bill' = [bill EXCEPT ![r] = q],
         usages' \in [Applications -> UsageSum], BillShape(q, usages'),
         \A a \in Applications : usages'[a].number >= usages[a].number
  PROVE  bill' \in [Requests -> BillRow] /\ \A s \in Requests : BillShape(bill'[s], usages')
<1>1. bill \in [Requests -> BillRow] /\ usages \in [Applications -> UsageSum]
  BY BillTypes DEF BillInv
<1>2. bill' \in [Requests -> BillRow] /\ bill'[r] = q /\ \A s \in Requests \ {r} : bill'[s] = bill[s]
  BY <1>1
<1>3. ASSUME NEW s \in Requests \ {r} PROVE BillShape(bill'[s], usages')
  <2>1. BillShape(bill[s], usages) /\ bill[s] \in BillRow /\ bill'[s] = bill[s]
    BY <1>1, <1>2 DEF BillInv
  <2> QED
    BY <1>1, <2>1, BillGrows
<1> QED
  BY <1>2, <1>3

\* The same when the tables stay.
LEMMA BillMovesAlone ==
  ASSUME BillInv, NEW r \in Requests, NEW q \in BillRow, bill' = [bill EXCEPT ![r] = q],
         BillShape(q, usages), UNCHANGED <<balance, usages, price>>
  PROVE  BillInv'
<1>1. bill' \in [Requests -> BillRow] /\ \A s \in Requests : BillShape(bill'[s], usages')
  <2>1. usages' \in [Applications -> UsageSum] /\ BillShape(q, usages')
        /\ \A a \in Applications : usages'[a].number >= usages[a].number
    BY BillTypes DEF BillInv, UsageSum
  <2> QED
    BY <2>1, BillMoves
<1> QED
  BY <1>1 DEF BillInv, BillTypeOK, BillRow

LEMMA NoBillFits ==
  ASSUME NEW rows
  PROVE  /\ NoBill \in BillRow /\ BillShape(NoBill, rows)
         /\ [NoBill EXCEPT !.step = "failed"] \in BillRow
         /\ BillShape([NoBill EXCEPT !.step = "failed"], rows)
  BY DEF NoBill, BillRow, BillShape

\* One more usage row, and the balance with it.
LEMMA ChargedKeeps ==
  ASSUME BillInv, BillingAssumption, NEW a \in Applications, NEW cost \in Nat, balance[a] # None,
         Charged(a, cost)
  PROVE  /\ balance' \in [Applications -> Int \cup {None}] /\ usages' \in [Applications -> UsageSum]
         /\ \A b \in Applications : Accounted(balance'[b], usages'[b])
         /\ \A b \in Applications : usages'[b].number >= usages[b].number
         /\ usages'[a].number = usages[a].number + 1
<1> DEFINE u == usages[a]
           v == [number |-> u.number + 1, cost |-> u.cost + cost]
<1>1. balance \in [Applications -> Int \cup {None}] /\ usages \in [Applications -> UsageSum]
  BY BillTypes DEF BillInv
<1>2. u.number \in 0 .. MaxUsages /\ u.cost \in Nat /\ u.number < MaxUsages /\ MaxUsages \in Nat
  BY <1>1 DEF Charged, UsageSum, BillingAssumption
<1>3. v \in UsageSum /\ v.number = u.number + 1 /\ v.cost = u.cost + cost
  BY <1>2 DEF UsageSum
<1>4. balance[a] \in Int /\ balance[a] = -u.cost
  BY <1>1 DEF BillInv, Accounted
<1>5. usages' = [usages EXCEPT ![a] = v] /\ balance' = [balance EXCEPT ![a] = balance[a] - cost]
  BY <1>1 DEF Charged
<1>6. balance[a] - cost \in Int
  BY <1>4
<1> HIDE DEF u, v
<1>7. /\ balance' \in [Applications -> Int \cup {None}] /\ usages' \in [Applications -> UsageSum]
      /\ usages'[a] = v /\ balance'[a] = balance[a] - cost
      /\ \A b \in Applications \ {a} : usages'[b] = usages[b] /\ balance'[b] = balance[b]
  BY <1>1, <1>3, <1>5, <1>6
<1>8. Accounted(balance'[a], usages'[a])
  <2>1. balance'[a] # None /\ v.number # 0 /\ balance'[a] = -v.cost
    BY <1>2, <1>3, <1>4, <1>6, <1>7 DEF BillingAssumption
  <2> QED
    BY <1>7, <2>1 DEF Accounted
<1>9. usages'[a].number = usages[a].number + 1
  BY <1>3, <1>7 DEF u
<1>10. \A b \in Applications : Accounted(balance'[b], usages'[b])
  BY <1>7, <1>8 DEF BillInv
<1>11. \A b \in Applications : usages'[b].number >= usages[b].number
  <2>1. ASSUME NEW b \in Applications PROVE usages[b].number \in Int
    BY <1>1 DEF UsageSum
  <2> QED
    BY <1>7, <1>9, <2>1
<1> QED
  BY <1>7, <1>9, <1>10, <1>11

LEMMA CalculateCostKeeps ==
  ASSUME BillInv, BillingAssumption, NEW r \in Requests, CalculateCost(r) PROVE BillInv'
<1> DEFINE m == IF bill[r].left = 3 THEN Selector ELSE bill[r].model
           q == [bill[r] EXCEPT !.step = "charge", !.cost = price[m]]
<1>1. /\ bill[r] \in BillRow /\ BillShape(bill[r], usages) /\ bill[r].step = "price"
      /\ price \in [Models -> Prices \cup {None}] /\ bill \in [Requests -> BillRow]
  BY BillTypes DEF BillInv, CalculateCost, BillAt
<1>2. m \in Models
  BY <1>1 DEF BillShape, BillingAssumption
<1>3. CASE price[m] = None
  BY <1>3, BillMovesAlone, NoBillFits DEF CalculateCost, Failed
<1>4. CASE price[m] # None
  <2>1. price[m] \in Nat
    BY <1>1, <1>2, <1>4 DEF BillingAssumption
  <2>2. q \in BillRow /\ BillShape(q, usages)
    <3> HIDE DEF m
    <3> QED
      BY <1>1, <2>1 DEF BillRow, BillShape
  <2>3. bill' = [bill EXCEPT ![r] = q] /\ UNCHANGED <<balance, usages, price>>
    BY <1>1, <1>4 DEF CalculateCost, Step
  <2> HIDE DEF q
  <2> QED
    BY <2>2, <2>3, BillMovesAlone
<1> QED
  BY <1>3, <1>4

LEMMA UpdateUsageAndBalanceKeeps ==
  ASSUME BillInv, BillingAssumption, NEW r \in Requests, UpdateUsageAndBalance(r) PROVE BillInv'
<1> DEFINE a == bill[r].app
           charged == bill[r].charged + 1
           left == bill[r].left - 1
           next == IF bill[r].left = 1 THEN "answered" ELSE "ask"
           q == [bill[r] EXCEPT !.charged = charged, !.left = left, !.cost = 0, !.step = next]
           failed == [NoBill EXCEPT !.step = "failed"]
<1>1. /\ bill[r] \in BillRow /\ BillShape(bill[r], usages) /\ bill[r].step = "charge"
      /\ bill \in [Requests -> BillRow] /\ a \in Applications /\ price' = price
  BY BillTypes DEF BillInv, UpdateUsageAndBalance, BillAt, BillShape
<1>2. CASE bill' = Failed(r) /\ UNCHANGED <<balance, usages>>
  BY <1>1, <1>2, BillMovesAlone, NoBillFits DEF Failed
<1>3. CASE balance[a] # None /\ Charged(a, bill[r].cost) /\ Proceed(r)
  <2>1. /\ balance' \in [Applications -> Int \cup {None}] /\ usages' \in [Applications -> UsageSum]
        /\ \A b \in Applications : Accounted(balance'[b], usages'[b])
        /\ \A b \in Applications : usages'[b].number >= usages[b].number
        /\ usages'[a].number = usages[a].number + 1
    <3>1. bill[r].cost \in Nat
      BY <1>1 DEF BillRow
    <3> HIDE DEF a
    <3> QED
      BY <1>1, <1>3, <3>1, ChargedKeeps
  <2>2. /\ bill[r].charged \in 0 .. 3 /\ bill[r].left \in 1 .. 3
        /\ bill[r].charged + bill[r].left \in {2, 3} /\ a \in Applications /\ bill[r].model \in Models
        /\ usages[a].number >= bill[r].charged
    BY <1>1 DEF BillRow, BillShape
  <2>3. q \in BillRow
    <3>1. charged \in 0 .. 3 /\ left \in 0 .. 3
          /\ next \in {"idle", "ask", "price", "charge", "answered", "failed"}
      BY <2>2
    <3> HIDE DEF charged, left, next
    <3> QED
      BY <1>1, <3>1 DEF BillRow
  <2>4. /\ q.app = a /\ q.model = bill[r].model /\ q.charged = bill[r].charged + 1
        /\ q.left = bill[r].left - 1 /\ q.step = IF bill[r].left = 1 THEN "answered" ELSE "ask"
    BY <1>1 DEF BillRow
  <2>5. usages[a].number \in Int
    BY <2>2, BillTypes DEF BillInv, UsageSum
  <2>6. bill' \in {[bill EXCEPT ![r] = q], [bill EXCEPT ![r] = failed]}
    BY <1>1, <1>3 DEF Proceed, Failed, BillRow
  <2> HIDE DEF q, a
  <2>7. BillShape(q, usages')
    BY <2>1, <2>2, <2>4, <2>5 DEF BillShape
  <2> HIDE DEF failed
  <2>8. bill' \in [Requests -> BillRow] /\ \A s \in Requests : BillShape(bill'[s], usages')
    <3>1. failed \in BillRow /\ BillShape(failed, usages')
      BY NoBillFits DEF failed
    <3> QED
      BY <2>1, <2>3, <2>6, <2>7, <3>1, BillMoves
  <2> QED
    BY <1>1, <2>1, <2>8 DEF BillInv, BillTypeOK, BillRow, UsageSum
<1> QED
  BY <1>2, <1>3 DEF UpdateUsageAndBalance

LEMMA NextBillInv == ASSUME BillInv, BillingAssumption, [BillNext]_billVars PROVE BillInv'
<1>0. /\ balance \in [Applications -> Int \cup {None}] /\ usages \in [Applications -> UsageSum]
      /\ price \in [Models -> Prices \cup {None}] /\ bill \in [Requests -> BillRow]
  BY BillTypes DEF BillInv
<1>1. ASSUME NEW a \in Applications, CreateApplication(a) PROVE BillInv'
  BY <1>0, <1>1 DEF CreateApplication, BillInv, BillTypeOK, Accounted, UsageSum
<1>2. ASSUME NEW a \in Applications, DeleteApplication(a) PROVE BillInv'
  BY <1>0, <1>2 DEF DeleteApplication, BillInv, BillTypeOK, Accounted, UsageSum
<1>3. ASSUME NEW a \in Applications, RecordAgentUsage(a) PROVE BillInv'
  <2>1. price[AgentModel] \in Nat /\ balance[a] # None /\ Charged(a, price[AgentModel])
        /\ UNCHANGED <<price, bill>>
    BY <1>0, <1>3 DEF RecordAgentUsage, BillingAssumption
  <2>2. /\ balance' \in [Applications -> Int \cup {None}] /\ usages' \in [Applications -> UsageSum]
        /\ \A b \in Applications : Accounted(balance'[b], usages'[b])
        /\ \A b \in Applications : usages'[b].number >= usages[b].number
    BY <2>1, ChargedKeeps
  <2>3. bill' \in [Requests -> BillRow] /\ \A s \in Requests : BillShape(bill'[s], usages')
    <3>1. ASSUME NEW s \in Requests PROVE BillShape(bill[s], usages')
      <4>1. bill[s] \in BillRow /\ BillShape(bill[s], usages)
        BY <1>0 DEF BillInv
      <4> QED
        BY <1>0, <2>2, <4>1, BillGrows
    <3> QED
      BY <1>0, <2>1, <3>1
  <2> QED
    BY <2>1, <2>2, <2>3 DEF BillInv, BillTypeOK, BillRow, UsageSum
<1>4. ASSUME NEW m \in Models, NEW p \in Prices \cup {None}, SetPrice(m, p) PROVE BillInv'
  BY <1>0, <1>4 DEF SetPrice, BillInv, BillTypeOK, BillRow, UsageSum
<1>5. ASSUME NEW r \in Requests, NEW a \in Applications, NEW m \in Models, NEW n \in {2, 3},
             bill' = [bill EXCEPT ![r] = [NoBill EXCEPT !.step = "ask", !.app = a, !.model = m, !.left = n]],
             UNCHANGED <<balance, usages, price>>
      PROVE  BillInv'
  <2> DEFINE q == [NoBill EXCEPT !.step = "ask", !.app = a, !.model = m, !.left = n]
  <2>0. n \in 0 .. 3
    OBVIOUS
  <2>1. q \in BillRow /\ q.step = "ask" /\ q.app = a /\ q.model = m /\ q.left = n /\ q.charged = 0
    BY <2>0, NoBillFits DEF BillRow, NoBill
  <2>2. usages[a].number >= 0
    BY <1>0 DEF UsageSum
  <2> HIDE DEF q
  <2>3. BillShape(q, usages)
    BY <2>1, <2>2 DEF BillShape
  <2>4. bill' = [bill EXCEPT ![r] = q]
    BY <1>5 DEF q
  <2> QED
    BY <1>5, <2>1, <2>3, <2>4, BillMovesAlone
<1>6. ASSUME NEW r \in Requests, GenerateContent(r) PROVE BillInv'
  <2> DEFINE q == [bill[r] EXCEPT !.step = "price"]
  <2>1. bill[r] \in BillRow /\ BillShape(bill[r], usages) /\ bill[r].step = "ask"
    BY <1>0, <1>6 DEF GenerateContent, BillAt, BillInv
  <2>2. q \in BillRow /\ BillShape(q, usages)
    BY <2>1 DEF BillRow, BillShape
  <2>3. bill' \in {[bill EXCEPT ![r] = q], Failed(r)} /\ UNCHANGED <<balance, usages, price>>
    BY <1>0, <1>6 DEF GenerateContent, Step
  <2> HIDE DEF q
  <2> QED
    BY <2>2, <2>3, BillMovesAlone, NoBillFits DEF Failed
<1>7. CASE UNCHANGED billVars
  BY <1>7 DEF billVars, BillInv, BillTypeOK
<1> QED
  <2>1. ASSUME NEW r \in Requests, NEW a \in Applications, NEW m \in Models,
               ProcessDevInstruction(r, a, m) \/ ProcessDevInstructionBeta(r, a, m)
        PROVE  BillInv'
    BY <1>5, <2>1 DEF ProcessDevInstruction, ProcessDevInstructionBeta
  <2> QED
    BY <1>1, <1>2, <1>3, <1>4, <1>6, <1>7, <2>1, CalculateCostKeeps, UpdateUsageAndBalanceKeeps
       DEF BillNext

LEMMA BillSafe == BillSpec => [](BillTypeOK /\ BalanceIsUsage)
<1>1. ASSUME BillInit PROVE BillInv
  <2>1. BillTypeOK
    <3>1. NoBill \in BillRow
      BY NoBillFits
    <3>2. NoUsage \in UsageSum
      BY BillingAssumption DEF NoUsage, UsageSum
    <3> QED
      BY <1>1, <3>1, <3>2 DEF BillInit, BillTypeOK, BillRow, UsageSum
  <2>2. \A a \in Applications : Accounted(balance[a], usages[a])
    BY <1>1 DEF BillInit, Accounted, NoUsage
  <2> QED
    BY <1>1, <2>1, <2>2, NoBillFits DEF BillInit, BillInv
<1>2. ASSUME BillInv, [BillNext]_billVars PROVE BillInv'
  BY <1>2, NextBillInv, BillingAssumption
<1>3. ASSUME BillInv PROVE BillTypeOK /\ BalanceIsUsage
  <2>1. ASSUME NEW a \in Applications
        PROVE  /\ TotalBalance(a) = -usages[a].cost
               /\ usages[a].number > 0 => balance[a] # None
    BY <1>3, BillTypes DEF BillInv, Accounted, TotalBalance, UsageSum
  <2> QED
    BY <1>3, <2>1 DEF BillInv, BillShape, BalanceIsUsage, BillAt
<1> QED
  BY <1>1, <1>2, <1>3, PTL DEF BillSpec

-----------------------------------------------------------------------------
(* The price list.                                                           *)

SyncRow == [step : {"idle", "look", "deactivate"}, left : SUBSET EnumModels,
            toCreate : SUBSET EnumModels]

HasModel(m) == \E p \in Listed : pricing[p].model = m

\* What a sync looked at is listed or to be created; alone it creates only what
\* is not there.
SyncDone(s) ==
    /\ s.step = "look" => \A m \in EnumModels \ (s.left \cup s.toCreate) : HasModel(m)
    /\ s.step = "deactivate" => \A m \in EnumModels : HasModel(m)

SyncFresh(s) == s.step = "look" => \A m \in s.toCreate : ~HasModel(m)

\* While nobody edits, a row has the model of its name.
SyncsComplete ==
    /\ \A p \in Listed : pricing[p].name = pricing[p].model /\ pricing[p].model \in EnumModels
    /\ \A r \in Requests : SyncDone(sync[r])

SyncsSingle ==
    /\ \A p, q \in Listed : pricing[p].model = pricing[q].model => p = q
    /\ \A r \in Requests : SyncFresh(sync[r])

Alone == \A q, r \in Requests : ~SyncAt(q, "idle") /\ ~SyncAt(r, "idle") => q = r

PriceInv ==
    /\ PriceTypeOK
    /\ byHand = 0 => SyncsComplete
    /\ ~together => Alone
    /\ byHand = 0 /\ ~together => SyncsSingle

\* The same rows with the same names and models.
RowsStay ==
    /\ pricing' \in [PriceRows -> PriceRow \cup {None}]
    /\ \A p \in PriceRows : (pricing'[p] = None) <=> (pricing[p] = None)
    /\ \A p \in Listed : pricing'[p].name = pricing[p].name /\ pricing'[p].model = pricing[p].model

LEMMA StayListed ==
  ASSUME RowsStay
  PROVE  Listed' = Listed /\ \A m : HasModel(m)' <=> HasModel(m)
<1>1. Listed' = Listed
  BY DEF RowsStay, Listed
<1> QED
  BY <1>1 DEF RowsStay, HasModel

LEMMA SwitchedOff ==
  ASSUME PriceTypeOK, PriceListAssumption, NEW rows \in SUBSET Listed, pricing' = Deactivated(rows)
  PROVE  RowsStay
<1>1. ASSUME NEW p \in PriceRows
      PROVE  /\ pricing'[p] \in PriceRow \cup {None}
             /\ (pricing'[p] = None) <=> (pricing[p] = None)
             /\ p \in Listed => /\ pricing'[p].name = pricing[p].name
                                /\ pricing'[p].model = pricing[p].model
  <2>1. pricing'[p] = IF p \in rows THEN [pricing[p] EXCEPT !.active = FALSE] ELSE pricing[p]
    BY DEF Deactivated
  <2>2. CASE p \in rows
    <3>1. pricing[p] \in PriceRow
      BY <2>2 DEF Listed, PriceTypeOK
    <3>2. pricing'[p] \in PriceRow /\ pricing'[p].name = pricing[p].name
          /\ pricing'[p].model = pricing[p].model
      BY <2>1, <2>2, <3>1 DEF PriceRow
    <3> QED
      BY <3>1, <3>2 DEF PriceListAssumption
  <2>3. CASE p \notin rows
    BY <2>1, <2>3 DEF PriceTypeOK
  <2> QED
    BY <2>2, <2>3
<1>2. pricing' = [p \in PriceRows |-> pricing'[p]]
  BY DEF Deactivated
<1>3. pricing' \in [PriceRows -> PriceRow \cup {None}]
  BY <1>1, <1>2
<1> QED
  BY <1>1, <1>3 DEF RowsStay, Listed

LEMMA DeletedStays ==
  ASSUME PriceTypeOK, PriceListAssumption, NEW p \in PriceRows, DeleteModel(p)
  PROVE  RowsStay
<1>1. pricing \in [PriceRows -> PriceRow \cup {None}] /\ pricing[p] \in PriceRow
  BY DEF DeleteModel, Listed, PriceTypeOK
<1>2. pricing' = [pricing EXCEPT ![p] = [pricing[p] EXCEPT !.active = FALSE]]
  BY <1>1 DEF DeleteModel
<1>3. /\ [pricing[p] EXCEPT !.active = FALSE] \in PriceRow
      /\ [pricing[p] EXCEPT !.active = FALSE].name = pricing[p].name
      /\ [pricing[p] EXCEPT !.active = FALSE].model = pricing[p].model
  BY <1>1 DEF PriceRow
<1> DEFINE row == [pricing[p] EXCEPT !.active = FALSE]
<1>4. row # None
  BY <1>3 DEF PriceListAssumption
<1> HIDE DEF row
<1>5. pricing' = [pricing EXCEPT ![p] = row] /\ row \in PriceRow /\ row.name = pricing[p].name
      /\ row.model = pricing[p].model
  BY <1>2, <1>3 DEF row
<1>6. pricing' \in [PriceRows -> PriceRow \cup {None}] /\ pricing'[p] = row
      /\ \A q \in PriceRows \ {p} : pricing'[q] = pricing[q]
  BY <1>1, <1>5
<1> QED
  BY <1>1, <1>4, <1>5, <1>6 DEF RowsStay, Listed, PriceListAssumption

LEMMA StaySyncs ==
  ASSUME RowsStay, NEW s
  PROVE  (SyncDone(s) <=> SyncDone(s)') /\ (SyncFresh(s) <=> SyncFresh(s)')
  BY StayListed DEF SyncDone, SyncFresh

\* The rows stay and one sync moves on.
LEMMA SyncMoves ==
  ASSUME PriceInv, RowsStay, UNCHANGED byHand, NEW r \in Requests, NEW s \in SyncRow,
         sync' = [sync EXCEPT ![r] = s], together' \in BOOLEAN, together => together',
         ~together' /\ s.step # "idle" => \A q \in Requests \ {r} : SyncAt(q, "idle"),
         byHand = 0 => SyncDone(s), byHand = 0 /\ ~together' => SyncFresh(s)
  PROVE  PriceInv'
<1>1. /\ sync' \in [Requests -> SyncRow] /\ sync'[r] = s
      /\ \A q \in Requests \ {r} : sync'[q] = sync[q]
  BY DEF PriceInv, PriceTypeOK, SyncRow
<1>2. PriceTypeOK'
  BY <1>1 DEF PriceInv, PriceTypeOK, SyncRow, RowsStay
<1>3. ASSUME byHand' = 0 PROVE SyncsComplete'
  <2>1. SyncsComplete
    BY <1>3 DEF PriceInv
  <2>2. \A q \in Requests : SyncDone(sync'[q])
    BY <1>1, <1>3, <2>1 DEF SyncsComplete
  <2>3. \A q \in Requests : SyncDone(sync[q])'
    <3> TAKE q \in Requests
    <3>1. PICK t : t = sync'[q]
      OBVIOUS
    <3>2. SyncDone(t)'
      BY <2>2, <3>1, StaySyncs
    <3> QED
      BY <3>1, <3>2 DEF SyncDone
  <2> QED
    BY <2>1, <2>3, StayListed DEF SyncsComplete, RowsStay
<1>4. ASSUME ~together' PROVE Alone'
  <2>1. Alone
    BY <1>4 DEF PriceInv
  <2> QED
    BY <1>1, <1>4, <2>1 DEF Alone, SyncAt
<1>5. ASSUME byHand' = 0, ~together' PROVE SyncsSingle'
  <2>1. SyncsSingle
    BY <1>5 DEF PriceInv
  <2>2. \A q \in Requests : SyncFresh(sync'[q])
    BY <1>1, <1>5, <2>1 DEF SyncsSingle
  <2>3. \A q \in Requests : SyncFresh(sync[q])'
    <3> TAKE q \in Requests
    <3>1. PICK t : t = sync'[q]
      OBVIOUS
    <3>2. SyncFresh(t)'
      BY <2>2, <3>1, StaySyncs
    <3> QED
      BY <3>1, <3>2 DEF SyncFresh
  <2> QED
    BY <2>1, <2>3, StayListed DEF SyncsSingle, RowsStay
<1> QED
  BY <1>2, <1>3, <1>4, <1>5 DEF PriceInv

LEMMA NoSyncFits == NoSync \in SyncRow /\ SyncDone(NoSync) /\ SyncFresh(NoSync)
  BY DEF NoSync, SyncRow, SyncDone, SyncFresh

LEMMA LookAtModelKeeps ==
  ASSUME PriceInv, PriceListAssumption, NEW r \in Requests, NEW m \in EnumModels, LookAtModel(r, m)
  PROVE  PriceInv'
<1> DEFINE existing == {p \in Listed : pricing[p].name = m}
           found == \E p \in existing : pricing[p].model = m
           s == [sync[r] EXCEPT !.left = sync[r].left \ {m},
                                !.toCreate = IF found THEN sync[r].toCreate
                                             ELSE sync[r].toCreate \cup {m}]
<1>1. /\ sync \in [Requests -> SyncRow] /\ sync[r] \in SyncRow /\ sync[r].step = "look"
      /\ UNCHANGED <<byHand, together>> /\ together \in BOOLEAN
  BY DEF LookAtModel, SyncAt, PriceInv, PriceTypeOK, SyncRow
<1>2. s \in SyncRow /\ s.step = "look" /\ s.left = sync[r].left \ {m}
      /\ s.toCreate = IF found THEN sync[r].toCreate ELSE sync[r].toCreate \cup {m}
  BY <1>1 DEF SyncRow
<1>3. sync' = [sync EXCEPT ![r] = s]
      /\ pricing' = IF found THEN pricing ELSE Deactivated(existing)
  <2>1. CASE found
    BY <1>1, <2>1 DEF LookAtModel, SyncRow
  <2>2. CASE ~found
    BY <1>1, <2>2 DEF LookAtModel, SyncRow
  <2> QED
    BY <2>1, <2>2
<1> HIDE DEF s
<1>4. RowsStay
  <2>1. CASE found
    BY <1>3, <2>1 DEF RowsStay, PriceInv, PriceTypeOK, Listed
  <2>2. CASE ~found
    BY <1>3, <2>2, SwitchedOff DEF PriceInv
  <2> QED
    BY <2>1, <2>2
<1>5. ASSUME byHand = 0 PROVE SyncDone(s) /\ (found <=> HasModel(m))
  BY <1>1, <1>2, <1>5 DEF PriceInv, SyncsComplete, SyncDone, HasModel
<1>6. ASSUME byHand = 0, ~together PROVE SyncFresh(s)
  BY <1>1, <1>2, <1>5, <1>6 DEF PriceInv, SyncsSingle, SyncFresh
<1>7. ASSUME ~together PROVE \A q \in Requests \ {r} : SyncAt(q, "idle")
  BY <1>1, <1>7 DEF PriceInv, Alone, SyncAt
<1> HIDE DEF found
<1> QED
  BY <1>1, <1>2, <1>3, <1>4, <1>5, <1>6, <1>7, SyncMoves

Created(m) == [name |-> m, model |-> m, active |-> TRUE]

LEMMA CreateMissingKeeps ==
  ASSUME PriceInv, PriceListAssumption, NEW r \in Requests, CreateMissing(r)
  PROVE  PriceInv'
<1> DEFINE missing == sync[r].toCreate
           s == [sync[r] EXCEPT !.step = "deactivate"]
<1>1. /\ sync \in [Requests -> SyncRow] /\ sync[r] \in SyncRow /\ sync[r].step = "look"
      /\ sync[r].left = {} /\ missing \subseteq EnumModels
      /\ UNCHANGED <<byHand, together>> /\ sync' = [sync EXCEPT ![r].step = "deactivate"]
      /\ pricing \in [PriceRows -> PriceRow \cup {None}]
  BY DEF CreateMissing, SyncAt, PriceInv, PriceTypeOK, SyncRow
<1>2. PICK new \in [missing -> PriceRows \ Listed] :
        /\ \A m, n \in missing : new[m] = new[n] => m = n
        /\ pricing' = [p \in PriceRows |->
             IF \E m \in missing : new[m] = p
             THEN LET m == CHOOSE m \in missing : new[m] = p IN Created(m)
             ELSE pricing[p]]
  BY DEF CreateMissing, Created
<1>3. ASSUME NEW m \in missing
      PROVE  new[m] \in PriceRows \ Listed /\ pricing'[new[m]] = Created(m)
  <2>1. new[m] \in PriceRows \ Listed
    BY <1>2
  <2>2. m = CHOOSE n \in missing : new[n] = new[m]
    BY <1>2
  <2> QED
    BY <1>2, <2>1, <2>2
<1>4. ASSUME NEW p \in PriceRows, ~\E m \in missing : new[m] = p PROVE pricing'[p] = pricing[p]
  BY <1>2, <1>4
<1>5. ASSUME NEW m \in missing
      PROVE  /\ Created(m) \in PriceRow /\ Created(m) # None
             /\ Created(m).name = m /\ Created(m).model = m
  <2>1. m \in AnyModel
    BY <1>1 DEF AnyModel
  <2>2. Created(m) \in PriceRow /\ Created(m).name = m /\ Created(m).model = m
    BY <2>1 DEF Created, PriceRow
  <2> QED
    BY <2>2 DEF PriceListAssumption
<1>6. pricing' \in [PriceRows -> PriceRow \cup {None}]
  <2>1. pricing' \in [PriceRows -> {pricing'[p] : p \in PriceRows}]
    BY <1>2
  <2>2. ASSUME NEW p \in PriceRows PROVE pricing'[p] \in PriceRow \cup {None}
    BY <1>1, <1>3, <1>4, <1>5
  <2> QED
    BY <2>1, <2>2
<1>7. ASSUME NEW p \in Listed'
      PROVE  \/ p \in Listed /\ pricing'[p] = pricing[p]
             \/ \E m \in missing : p = new[m] /\ pricing'[p].model = m /\ pricing'[p].name = m
  <2>1. p \in PriceRows /\ pricing'[p] # None
    BY DEF Listed
  <2>2. CASE \E m \in missing : new[m] = p
    <3>1. PICK m \in missing : new[m] = p
      BY <2>2
    <3>2. pricing'[p].name = m /\ pricing'[p].model = m
      BY <1>3, <1>5, <3>1
    <3> QED
      BY <3>1, <3>2
  <2>3. CASE ~\E m \in missing : new[m] = p
    BY <1>4, <2>1, <2>3 DEF Listed
  <2> QED
    BY <2>2, <2>3
<1>8. ASSUME NEW p \in Listed PROVE p \in Listed' /\ pricing'[p] = pricing[p]
  <2>1. ~\E m \in missing : new[m] = p
    BY <1>3
  <2> QED
    BY <1>4, <2>1 DEF Listed
<1>9. ASSUME NEW m \in missing PROVE new[m] \in Listed' /\ pricing'[new[m]].model = m
  <2>1. pricing'[new[m]] # None /\ pricing'[new[m]].model = m
    BY <1>3, <1>5
  <2> QED
    BY <1>3, <2>1 DEF Listed
<1>10. /\ \A m : HasModel(m) => HasModel(m)'
       /\ \A m \in missing : HasModel(m)'
  BY <1>8, <1>9 DEF HasModel
<1>11. /\ sync' \in [Requests -> SyncRow] /\ sync'[r].step = "deactivate"
       /\ \A q \in Requests \ {r} : sync'[q] = sync[q]
  <2>1. s \in SyncRow /\ s.step = "deactivate" /\ sync' = [sync EXCEPT ![r] = s]
    BY <1>1 DEF SyncRow
  <2> HIDE DEF s
  <2> QED
    BY <1>1, <2>1
<1>12. PriceTypeOK'
  BY <1>1, <1>6, <1>11 DEF PriceInv, PriceTypeOK, SyncRow
<1>13. ASSUME ~together' PROVE Alone'
  <2>1. Alone
    BY <1>1, <1>13 DEF PriceInv
  <2> QED
    BY <1>1, <1>11, <2>1 DEF Alone, SyncAt
<1>14. ASSUME byHand' = 0 PROVE SyncsComplete'
  <2>1. SyncsComplete
    BY <1>1, <1>14 DEF PriceInv
  <2>2. \A p \in Listed' : pricing'[p].name = pricing'[p].model /\ pricing'[p].model \in EnumModels
    BY <1>1, <1>7, <2>1 DEF SyncsComplete
  <2>3. ASSUME NEW q \in Requests PROVE SyncDone(sync[q])'
    <3>1. CASE q = r
      <4>1. \A m \in EnumModels : HasModel(m)'
        BY <1>1, <1>10, <2>1 DEF SyncsComplete, SyncDone
      <4> QED
        BY <1>11, <3>1, <4>1 DEF SyncDone
    <3>2. CASE q # r
      BY <1>10, <1>11, <2>1, <3>2 DEF SyncsComplete, SyncDone
    <3> QED
      BY <3>1, <3>2
  <2> QED
    BY <2>2, <2>3 DEF SyncsComplete
<1>15. ASSUME byHand' = 0, ~together' PROVE SyncsSingle'
  <2>1. SyncsSingle /\ Alone
    BY <1>1, <1>15 DEF PriceInv
  <2>2. \A m \in missing : ~HasModel(m)
    BY <1>1, <2>1 DEF SyncsSingle, SyncFresh
  <2>3. ASSUME NEW p \in Listed', NEW q \in Listed', pricing'[p].model = pricing'[q].model
        PROVE  p = q
    <3>1. CASE p \in Listed /\ q \in Listed
      BY <1>8, <2>1, <2>3, <3>1 DEF SyncsSingle
    <3>2. CASE p \in Listed /\ q \notin Listed
      BY <1>7, <1>8, <2>2, <2>3, <3>2 DEF HasModel
    <3>3. CASE p \notin Listed /\ q \in Listed
      BY <1>7, <1>8, <2>2, <2>3, <3>3 DEF HasModel
    <3>4. CASE p \notin Listed /\ q \notin Listed
      BY <1>7, <2>3, <3>4
    <3> QED
      BY <3>1, <3>2, <3>3, <3>4
  <2>4. ASSUME NEW q \in Requests PROVE SyncFresh(sync[q])'
    <3>1. sync'[q].step # "look"
      BY <1>1, <1>11, <2>1 DEF Alone, SyncAt
    <3> QED
      BY <3>1 DEF SyncFresh
  <2> QED
    BY <2>3, <2>4 DEF SyncsSingle
<1> QED
  BY <1>12, <1>13, <1>14, <1>15 DEF PriceInv

LEMMA NextPriceInv == ASSUME PriceInv, PriceListAssumption, [PriceNext]_priceVars PROVE PriceInv'
<1>0. /\ PriceTypeOK /\ sync \in [Requests -> SyncRow] /\ byHand \in Nat /\ together \in BOOLEAN
      /\ pricing \in [PriceRows -> PriceRow \cup {None}]
  BY DEF PriceInv, PriceTypeOK, SyncRow, PriceListAssumption
<1>1. ASSUME NEW p \in PriceRows, NEW row \in PriceRow, byHand < MaxByHand,
             pricing' = [pricing EXCEPT ![p] = row], byHand' = byHand + 1, UNCHANGED <<sync, together>>
      PROVE  PriceInv'
  <2>1. pricing' \in [PriceRows -> PriceRow \cup {None}]
    BY <1>0, <1>1
  <2>2. byHand' \in 0 .. MaxByHand /\ byHand' # 0
    BY <1>0, <1>1 DEF PriceListAssumption
  <2> QED
    BY <1>0, <1>1, <2>1, <2>2 DEF PriceInv, PriceTypeOK, Alone, SyncAt
<1>2. ASSUME NEW p \in PriceRows, NEW name \in AnyModel, NEW model \in AnyModel,
             CreateModel(p, name, model)
      PROVE  PriceInv'
  <2>1. [name |-> name, model |-> model, active |-> TRUE] \in PriceRow
    BY DEF PriceRow
  <2> QED
    BY <1>1, <1>2, <2>1 DEF CreateModel
<1>3. ASSUME NEW p \in PriceRows, NEW row \in PriceRow, EditModel(p, row) PROVE PriceInv'
  BY <1>1, <1>3 DEF EditModel
<1>4. ASSUME RowsStay, UNCHANGED <<sync, byHand, together>> PROVE PriceInv'
  <2>1. ASSUME NEW r \in Requests PROVE PriceInv'
    <3> DEFINE s == sync[r]
    <3>1. s \in SyncRow /\ sync' = [sync EXCEPT ![r] = s] /\ UNCHANGED byHand
          /\ together' \in BOOLEAN /\ (together => together')
      BY <1>0, <1>4
    <3>2. ~together' /\ s.step # "idle" => \A q \in Requests \ {r} : SyncAt(q, "idle")
      BY <1>4 DEF PriceInv, Alone, SyncAt
    <3>3. byHand = 0 => SyncDone(s)
      BY DEF PriceInv, SyncsComplete
    <3>4. byHand = 0 /\ ~together' => SyncFresh(s)
      BY <1>4 DEF PriceInv, SyncsSingle
    <3> QED
      BY <1>4, <3>1, <3>2, <3>3, <3>4, SyncMoves
  <2>2. CASE Requests = {}
    BY <1>0, <1>4, <2>2, StayListed
       DEF PriceInv, PriceTypeOK, SyncsComplete, SyncsSingle, Alone, RowsStay
  <2> QED
    BY <2>1, <2>2
<1>5. ASSUME NEW p \in PriceRows, DeleteModel(p) PROVE PriceInv'
  BY <1>0, <1>4, <1>5, DeletedStays DEF DeleteModel
<1>6. RowsStay \/ pricing' # pricing
  BY <1>0 DEF RowsStay, Listed
<1>7. ASSUME NEW r \in Requests, BulkAddModels(r) PROVE PriceInv'
  <2> DEFINE s == [step |-> "look", left |-> EnumModels, toCreate |-> {}]
  <2>1. s \in SyncRow /\ SyncDone(s) /\ SyncFresh(s)
    BY DEF SyncRow, SyncDone, SyncFresh
  <2>2. sync' = [sync EXCEPT ![r] = s] /\ UNCHANGED <<pricing, byHand>>
        /\ together' = (together \/ \E q \in Requests : ~SyncAt(q, "idle"))
    BY <1>7 DEF BulkAddModels
  <2>3. together' \in BOOLEAN /\ (together => together')
        /\ (~together' => \A q \in Requests : SyncAt(q, "idle"))
    BY <2>2
  <2> HIDE DEF s
  <2> QED
    BY <1>6, <2>1, <2>2, <2>3, SyncMoves
<1>8. ASSUME NEW r \in Requests, RowsStay, sync' = [sync EXCEPT ![r] = NoSync],
             UNCHANGED <<byHand, together>>
      PROVE  PriceInv'
  <2>1. NoSync.step = "idle"
    BY DEF NoSync
  <2> QED
    BY <1>0, <1>8, <2>1, NoSyncFits, SyncMoves
<1>9. ASSUME NEW r \in Requests, DeactivateOthers(r) PROVE PriceInv'
  <2>1. RowsStay
    BY <1>0, <1>9, SwitchedOff DEF DeactivateOthers
  <2> QED
    BY <1>8, <1>9, <2>1 DEF DeactivateOthers
<1>10. ASSUME NEW r \in Requests, SyncFails(r) PROVE PriceInv'
  BY <1>6, <1>8, <1>10 DEF SyncFails
<1>11. CASE UNCHANGED priceVars
  BY <1>4, <1>6, <1>11 DEF priceVars
<1> QED
  BY <1>2, <1>3, <1>5, <1>7, <1>9, <1>10, <1>11, LookAtModelKeeps, CreateMissingKeeps DEF PriceNext

LEMMA PriceSafe == PriceSpec => [](PriceTypeOK /\ ModelsListedOnce)
<1>1. ASSUME PriceInit PROVE PriceInv
  <2>1. PriceTypeOK
    <3>1. NoSync \in SyncRow
      BY NoSyncFits
    <3>2. 0 \in 0 .. MaxByHand
      BY PriceListAssumption DEF PriceListAssumption
    <3> QED
      BY <1>1, <3>1, <3>2 DEF PriceInit, PriceTypeOK, SyncRow
  <2>2. Listed = {}
    BY <1>1 DEF PriceInit, Listed
  <2>3. SyncsComplete /\ SyncsSingle /\ Alone
    BY <1>1, <2>2, NoSyncFits
       DEF PriceInit, SyncsComplete, SyncsSingle, Alone, SyncAt, NoSync
  <2> QED
    BY <2>1, <2>3 DEF PriceInv
<1>2. ASSUME PriceInv, [PriceNext]_priceVars PROVE PriceInv'
  BY <1>2, NextPriceInv, PriceListAssumption
<1>3. ASSUME PriceInv PROVE PriceTypeOK /\ ModelsListedOnce
  BY <1>3 DEF PriceInv, ModelsListedOnce, SyncsComplete, SyncsSingle, SyncDone, SyncAt, HasModel
<1> QED
  BY <1>1, <1>2, <1>3, PTL DEF PriceSpec

(* The balance of an application is the cost of its usage rows, an answered  *)
(* request was charged for each answer it took, and the price list, left to  *)
(* its syncs and to one of them at a time, has each model of the enum once.  *)
THEOREM BalancesAreUsage == MCSpec => []BillingHolds
<1>1. (BalanceIsUsage /\ ModelsListedOnce) <=> BillingHolds
  BY DEF BillingHolds
<1> QED
  BY <1>1, Composed, BillSafe, PriceSafe, PTL

-----------------------------------------------------------------------------
(* Nodes and their leader.                                                   *)

NodeProcess == [step : {"new", "registers", "starts", "elects", "runs", "gone"}, isLeader : BOOLEAN,
                tasksInProgress : Nat, saw : SUBSET Node]

Running == {"registers", "starts", "elects", "runs"}

\* A node leads only after its election.  The last row it sent says what it is,
\* and so does what Redis has when nothing is on its way and nothing failed.
NodeShape(p, row, w, late) ==
    /\ p.step \in {"new", "registers", "starts", "elects"} => ~p.isLeader
    /\ p.step \in Running =>
         /\ w # <<>> => w[Len(w)] = RowOf(p)
         /\ w = <<>> /\ ~late /\ row # None => row = RowOf(p)

NodesShaped == \A n \in Node : NodeShape(nodes[n], registry[n], writes[n], n \in behind)

\* A listening node has its row until it lapses, and those who looked for nodes
\* since then have it on their list.
NodesMet ==
    /\ \A n \in Node : peers[n] \subseteq Listening
    /\ \A k \in Listening \ lapsed : registry[k] # None
    /\ \A n \in Node : \A k \in peers[n] \ lapsed :
         /\ nodes[n].step = "elects" => k \in nodes[n].saw
         /\ nodes[n].isLeader => n <= k

NodesInv == NodesTypeOK /\ NodesShaped /\ NodesMet

LEMMA NodesTyped ==
  ASSUME NodesTypeOK
  PROVE  /\ nodes \in [Node -> NodeProcess] /\ registry \in [Node -> NodeRow \cup {None}]
         /\ writes \in [Node -> Seq(NodeRow)]
         /\ inbox \in [Node -> Seq(Commands \cup {"task"})]
         /\ task = None \/ task \subseteq Node
         /\ sent \in 0 .. MaxMessages
         /\ behind \subseteq Node /\ lapsed \subseteq Node
         /\ peers \in [Node -> SUBSET Node]
  BY DEF NodesTypeOK, NodeProcess

LEMMA RunningUp ==
  ASSUME NodesTypeOK
  PROVE  /\ \A n \in Node : n \in Up <=> nodes[n].step \in Running
         /\ \A n \in Node : n \in Listening <=> nodes[n].step \in {"starts", "elects", "runs"}
<1>1. \A n \in Node : nodes[n].step \in {"new", "registers", "starts", "elects", "runs", "gone"}
  BY NodesTyped DEF NodeProcess
<1> QED
  BY <1>1 DEF Up, Listening, Running

\* The same of the next state, given the types of the processes.
LEMMA RunningNext ==
  ASSUME nodes' \in [Node -> NodeProcess]
  PROVE  \A n \in Node : n \in Listening' <=> nodes'[n].step \in {"starts", "elects", "runs"}
<1>1. \A n \in Node : nodes'[n].step \in {"new", "registers", "starts", "elects", "runs", "gone"}
  BY DEF NodeProcess
<1> QED
  BY <1>1 DEF Up, Listening

LEMMA RowOfTyped ==
  ASSUME NEW p \in NodeProcess PROVE RowOf(p) \in NodeRow
  BY DEF RowOf, NodeRow, NodeProcess

\* A process changes and sends its row.
LEMMA RegisterAsKeeps ==
  ASSUME NodesInv, NEW n \in Node, NEW p \in NodeProcess, RegisterAs(n, p),
         UNCHANGED <<registry, behind>>,
         p.step \in {"new", "registers", "starts", "elects"} => ~p.isLeader
  PROVE  /\ nodes' = [nodes EXCEPT ![n] = p] /\ nodes' \in [Node -> NodeProcess]
         /\ writes' \in [Node -> Seq(NodeRow)]
         /\ NodesShaped'
<1>0. nodes \in [Node -> NodeProcess] /\ writes \in [Node -> Seq(NodeRow)]
  BY NodesTyped DEF NodesInv
<1>1. PICK w \in Seq(NodeRow) : w = writes[n]
  BY <1>0
<1>2. PICK row \in NodeRow : row = RowOf(p)
  BY RowOfTyped
<1>3. PICK wn : wn = Append(w, row)
  OBVIOUS
<1>4. wn \in Seq(NodeRow) /\ wn # <<>> /\ wn[Len(wn)] = row
  BY <1>1, <1>2, <1>3
<1>5. nodes' = [nodes EXCEPT ![n] = p] /\ writes' = [writes EXCEPT ![n] = wn]
  BY <1>1, <1>2, <1>3 DEF RegisterAs
<1>6. NodeShape(p, registry[n], wn, n \in behind)
  BY <1>2, <1>4 DEF NodeShape
<1>7. ASSUME NEW m \in Node PROVE NodeShape(nodes'[m], registry'[m], writes'[m], m \in behind')
  <2>1. CASE m = n
    BY <1>0, <1>5, <1>6, <2>1
  <2>2. CASE m # n
    BY <1>0, <1>5, <2>2 DEF NodesInv, NodesShaped
  <2> QED
    BY <2>1, <2>2
<1> QED
  BY <1>0, <1>4, <1>5, <1>7 DEF NodesShaped

\* Who is registered stays so, keeps the row, and leads or elects as before.
LEMMA MeetingsStay ==
  ASSUME NodesInv, UNCHANGED <<lapsed, peers>>,
         \A k \in Node : k \in Listening' <=> k \in Listening,
         \A k \in Node : registry[k] # None => registry'[k] # None,
         \A m \in Node : nodes'[m].step = "elects" =>
                           nodes[m].step = "elects" /\ nodes'[m].saw = nodes[m].saw,
         \A m \in Node : nodes'[m].isLeader => nodes[m].isLeader
  PROVE  NodesMet'
<1>0. NodesMet /\ peers \in [Node -> SUBSET Node] /\ Listening \subseteq Node /\ Listening' \subseteq Node
  BY NodesTyped DEF NodesInv, Listening, Up
<1>1. \A k \in Listening' \ lapsed' : registry'[k] # None
  BY <1>0 DEF NodesMet
<1>2. \A m \in Node : peers'[m] \subseteq Listening'
  BY <1>0 DEF NodesMet
<1>3. ASSUME NEW m \in Node, NEW k \in peers'[m] \ lapsed'
      PROVE  (nodes'[m].step = "elects" => k \in nodes'[m].saw) /\ (nodes'[m].isLeader => m <= k)
  <2>1. k \in peers[m] \ lapsed
    BY <1>3
  <2> QED
    BY <1>0, <1>3, <2>1 DEF NodesMet
<1> QED
  BY <1>1, <1>2, <1>3 DEF NodesMet

LEMMA LeaveKeeps ==
  ASSUME NodesInv, NEW n \in Node, Leave(n) PROVE NodesInv'
<1> DEFINE p == [nodes[n] EXCEPT !.step = "gone", !.tasksInProgress = 0, !.saw = {}]
<1>0. /\ nodes \in [Node -> NodeProcess] /\ nodes[n] \in NodeProcess
      /\ peers \in [Node -> SUBSET Node] /\ lapsed \subseteq Node /\ behind \subseteq Node
      /\ inbox \in [Node -> Seq(Commands \cup {"task"})]
  BY NodesTyped DEF NodesInv
<1>1. p \in NodeProcess /\ p.step = "gone"
  BY <1>0 DEF NodeProcess
<1>2. /\ nodes' = [nodes EXCEPT ![n] = p] /\ UNCHANGED <<registry, writes, task, sent>>
      /\ inbox' = [inbox EXCEPT ![n] = <<>>]
      /\ behind' = behind \ {n} /\ lapsed' = lapsed \ {n}
      /\ peers' = [m \in Node |-> IF m = n THEN {} ELSE peers[m] \ {n}]
  BY <1>0 DEF Leave, NodeProcess
<1> HIDE DEF p
<1>3. nodes' \in [Node -> NodeProcess] /\ inbox' \in [Node -> Seq(Commands \cup {"task"})]
      /\ peers' \in [Node -> SUBSET Node] /\ behind' \cup lapsed' \subseteq Node
  BY <1>0, <1>1, <1>2
<1>4. NodesTypeOK'
  BY <1>2, <1>3 DEF NodesInv, NodesTypeOK, NodeProcess
<1>5. NodeShape(p, registry[n], writes[n], n \in behind')
  BY <1>1 DEF NodeShape, Running
<1>6. NodesShaped'
  BY <1>0, <1>2, <1>5 DEF NodesInv, NodesShaped
<1>7. \A k \in Node : k \in Listening' <=> k \in Listening /\ k # n
  <2>1. \A k \in Node : nodes'[k].step = IF k = n THEN "gone" ELSE nodes[k].step
    BY <1>0, <1>1, <1>2
  <2> QED
    BY <1>3, <2>1, RunningUp, RunningNext DEF NodesInv
<1>8. NodesMet'
  <2>0. NodesMet /\ Listening \subseteq Node /\ Listening' \subseteq Node
    BY DEF NodesInv, Listening, Up
  <2>1. \A m \in Node : peers'[m] \subseteq Listening'
    BY <1>0, <1>2, <1>7, <2>0 DEF NodesMet
  <2>2. \A k \in Listening' \ lapsed' : registry'[k] # None
    BY <1>2, <1>7, <2>0 DEF NodesMet
  <2>3. ASSUME NEW m \in Node, NEW k \in peers'[m] \ lapsed'
        PROVE  (nodes'[m].step = "elects" => k \in nodes'[m].saw) /\ (nodes'[m].isLeader => m <= k)
    <3>1. m # n /\ k # n /\ k \in peers[m] \ lapsed /\ nodes'[m] = nodes[m]
      BY <1>0, <1>2, <2>3
    <3> QED
      BY <2>0, <3>1 DEF NodesMet
  <2> QED
    BY <2>1, <2>2, <2>3 DEF NodesMet
<1> QED
  BY <1>4, <1>6, <1>8 DEF NodesInv

LEMMA PublishTyped ==
  ASSUME NodesTypeOK, NodesAssumption, NEW n, NEW message \in Commands \cup {"task"},
         Publish(n, message)
  PROVE  inbox' \in [Node -> Seq(Commands \cup {"task"})] /\ sent' \in 0 .. MaxMessages
<1>1. inbox \in [Node -> Seq(Commands \cup {"task"})] /\ sent \in 0 .. MaxMessages /\ MaxMessages \in Nat
  BY DEF NodesTypeOK, NodesAssumption
<1>2. sent' \in 0 .. MaxMessages
  BY <1>1 DEF Publish
<1>3. ASSUME n \in Listening PROVE inbox' \in [Node -> Seq(Commands \cup {"task"})]
  <2>1. n \in Node
    BY <1>3 DEF Listening, Up
  <2>2. Append(inbox[n], message) \in Seq(Commands \cup {"task"})
    BY <1>1, <2>1
  <2> QED
    BY <1>1, <1>3, <2>1, <2>2 DEF Publish
<1> QED
  BY <1>1, <1>2, <1>3 DEF Publish

\* One more row is sent; process and election go on as they were.
LEMMA RegisterStays ==
  ASSUME NodesInv, NEW n \in Node, NEW p \in NodeProcess, RegisterAs(n, p),
         UNCHANGED <<registry, task, sent, behind, lapsed, peers>>,
         inbox' \in [Node -> Seq(Commands \cup {"task"})],
         p.isLeader = nodes[n].isLeader, p.saw = nodes[n].saw,
         p.step = nodes[n].step \/ (nodes[n].step = "new" /\ p.step = "registers")
  PROVE  NodesInv'
<1>0. nodes \in [Node -> NodeProcess]
  BY NodesTyped DEF NodesInv
<1>1. NodeShape(nodes[n], registry[n], writes[n], n \in behind)
  BY DEF NodesInv, NodesShaped
<1>2. p.step \in {"new", "registers", "starts", "elects"} => ~p.isLeader
  BY <1>1 DEF NodeShape
<1>3. /\ nodes' = [nodes EXCEPT ![n] = p] /\ nodes' \in [Node -> NodeProcess]
      /\ writes' \in [Node -> Seq(NodeRow)] /\ NodesShaped'
  BY <1>2, RegisterAsKeeps
<1>4. NodesTypeOK'
  BY <1>3 DEF NodesInv, NodesTypeOK, NodeProcess
<1>5. \A m \in Node : m # n => nodes'[m] = nodes[m]
  BY <1>0, <1>3
<1>6. nodes'[n] = p
  BY <1>0, <1>3
<1>7. \A k \in Node : k \in Listening' <=> k \in Listening
  <2>1. \A k \in Node : nodes'[k].step \in {"starts", "elects", "runs"}
                          <=> nodes[k].step \in {"starts", "elects", "runs"}
    BY <1>5, <1>6
  <2> QED
    BY <1>3, <2>1, RunningUp, RunningNext DEF NodesInv
<1>8. \A m \in Node : nodes'[m].step = "elects" =>
                        nodes[m].step = "elects" /\ nodes'[m].saw = nodes[m].saw
  BY <1>5, <1>6
<1>9. \A m \in Node : nodes'[m].isLeader => nodes[m].isLeader
  BY <1>5, <1>6
<1>10. NodesMet'
  BY <1>7, <1>8, <1>9, MeetingsStay
<1> QED
  BY <1>3, <1>4, <1>10 DEF NodesInv

\* Of the nodes it met, those that are running still have a row, so that a node
\* that leads comes before all of them.
LEMMA ElectLeaderKeeps ==
  ASSUME NodesInv, NEW n \in Node, ElectLeader(n) PROVE NodesInv'
<1> DEFINE seen == nodes[n].saw \cap OnList
           leads == seen = {} \/ (n \in seen /\ \A m \in seen : n <= m)
           p == [nodes[n] EXCEPT !.step = "runs", !.saw = {}, !.isLeader = leads]
<1>1. /\ nodes \in [Node -> NodeProcess] /\ nodes[n] \in NodeProcess /\ nodes[n].step = "elects"
      /\ peers \in [Node -> SUBSET Node]
  BY NodesTyped DEF NodesInv, ElectLeader
<1>2. leads \in BOOLEAN
  OBVIOUS
<1>3. p \in NodeProcess /\ p.step = "runs" /\ (p.isLeader <=> leads)
  <2> HIDE DEF leads
  <2> QED
    BY <1>1, <1>2 DEF NodeProcess
<1>4. RegisterAs(n, p) /\ UNCHANGED <<registry, inbox, task, sent, behind, lapsed, peers>>
  BY DEF ElectLeader
<1>5. ASSUME NEW k \in peers[n] \ lapsed, leads PROVE n <= k
  <2>1. k \in Listening /\ k \in nodes[n].saw /\ registry[k] # None
    BY <1>1, <1>5 DEF NodesInv, NodesMet
  <2>2. k \in seen
    BY <2>1 DEF OnList, Listening, Up
  <2> QED
    BY <1>5, <2>2
<1> HIDE DEF p, leads
<1>6. /\ nodes' = [nodes EXCEPT ![n] = p] /\ nodes' \in [Node -> NodeProcess]
      /\ writes' \in [Node -> Seq(NodeRow)] /\ NodesShaped'
  BY <1>3, <1>4, RegisterAsKeeps
<1>7. NodesTypeOK'
  BY <1>4, <1>6 DEF NodesInv, NodesTypeOK, NodeProcess
<1>8. (\A m \in Node : m # n => nodes'[m] = nodes[m]) /\ nodes'[n] = p
  BY <1>1, <1>6
<1>9. \A k \in Node : k \in Listening' <=> k \in Listening
  <2>1. \A k \in Node : nodes'[k].step \in {"starts", "elects", "runs"}
                          <=> nodes[k].step \in {"starts", "elects", "runs"}
    BY <1>1, <1>3, <1>8
  <2> QED
    BY <1>6, <2>1, RunningUp, RunningNext DEF NodesInv
<1>10. NodesMet'
  <2>0. NodesMet /\ Listening \subseteq Node /\ Listening' \subseteq Node
    BY DEF NodesInv, Listening, Up
  <2>1. (\A m \in Node : peers'[m] \subseteq Listening') /\ \A k \in Listening' \ lapsed' : registry'[k] # None
    BY <1>4, <1>9, <2>0 DEF NodesMet
  <2>2. ASSUME NEW m \in Node, NEW k \in peers'[m] \ lapsed'
        PROVE  (nodes'[m].step = "elects" => k \in nodes'[m].saw) /\ (nodes'[m].isLeader => m <= k)
    <3>1. k \in peers[m] \ lapsed
      BY <1>4, <2>2
    <3>2. CASE m = n
      BY <1>3, <1>5, <1>8, <3>1, <3>2
    <3>3. CASE m # n
      BY <1>8, <2>0, <3>1, <3>3 DEF NodesMet
    <3> QED
      BY <3>2, <3>3
  <2> QED
    BY <2>1, <2>2 DEF NodesMet
<1> QED
  BY <1>6, <1>7, <1>10 DEF NodesInv

LEMMA ElectListKeysKeeps ==
  ASSUME NodesInv, NEW n \in Node, ElectListKeys(n) PROVE NodesInv'
<1> DEFINE p == [nodes[n] EXCEPT !.step = "elects", !.saw = OnList]
<1>1. /\ nodes \in [Node -> NodeProcess] /\ nodes[n] \in NodeProcess /\ nodes[n].step = "starts"
      /\ peers \in [Node -> SUBSET Node] /\ OnList \subseteq Node /\ Listening \subseteq Node
  BY NodesTyped DEF NodesInv, ElectListKeys, OnList, Listening, Up
<1>2. /\ p \in NodeProcess /\ p.step = "elects" /\ p.saw = OnList
      /\ p.isLeader = nodes[n].isLeader /\ p.tasksInProgress = nodes[n].tasksInProgress
  BY <1>1 DEF NodeProcess
<1>3. /\ nodes' = [nodes EXCEPT ![n] = p] /\ peers' = [peers EXCEPT ![n] = Listening]
      /\ UNCHANGED <<registry, writes, inbox, task, sent, behind, lapsed>>
  BY <1>1 DEF ElectListKeys, NodeProcess
<1> HIDE DEF p
<1>4. nodes' \in [Node -> NodeProcess] /\ peers' \in [Node -> SUBSET Node]
  BY <1>1, <1>2, <1>3
<1>5. NodesTypeOK'
  BY <1>3, <1>4 DEF NodesInv, NodesTypeOK, NodeProcess
<1>6. NodeShape(nodes[n], registry[n], writes[n], n \in behind) /\ RowOf(p) = RowOf(nodes[n])
  BY <1>2 DEF NodesInv, NodesShaped, RowOf
<1>7. NodeShape(p, registry[n], writes[n], n \in behind) /\ ~p.isLeader
  BY <1>1, <1>2, <1>6 DEF NodeShape, Running
<1>8. (\A m \in Node : m # n => nodes'[m] = nodes[m]) /\ nodes'[n] = p
  BY <1>1, <1>3
<1>9. NodesShaped'
  <2>1. ASSUME NEW m \in Node PROVE NodeShape(nodes'[m], registry'[m], writes'[m], m \in behind')
    <3>1. CASE m = n
      BY <1>3, <1>7, <1>8, <3>1
    <3>2. CASE m # n
      BY <1>3, <1>8, <3>2 DEF NodesInv, NodesShaped
    <3> QED
      BY <3>1, <3>2
  <2> QED
    BY <2>1 DEF NodesShaped
<1>10. \A k \in Node : k \in Listening' <=> k \in Listening
  <2>1. \A k \in Node : nodes'[k].step \in {"starts", "elects", "runs"}
                          <=> nodes[k].step \in {"starts", "elects", "runs"}
    BY <1>1, <1>2, <1>8
  <2> QED
    BY <1>4, <2>1, RunningUp, RunningNext DEF NodesInv
<1>11. NodesMet'
  <2>0. NodesMet /\ Listening' \subseteq Node
    BY DEF NodesInv, Listening, Up
  <2>1. (\A m \in Node : peers'[m] \subseteq Listening') /\ \A k \in Listening' \ lapsed' : registry'[k] # None
    BY <1>1, <1>3, <1>10, <2>0 DEF NodesMet
  <2>2. ASSUME NEW m \in Node, NEW k \in peers'[m] \ lapsed'
        PROVE  (nodes'[m].step = "elects" => k \in nodes'[m].saw) /\ (nodes'[m].isLeader => m <= k)
    <3>1. CASE m = n
      <4>1. k \in Listening \ lapsed
        BY <1>1, <1>3, <2>2, <3>1
      <4>2. k \in OnList
        BY <1>1, <2>0, <4>1 DEF NodesMet, OnList
      <4> QED
        BY <1>2, <1>7, <1>8, <3>1, <4>2
    <3>2. CASE m # n
      <4>1. k \in peers[m] \ lapsed
        BY <1>1, <1>3, <2>2, <3>2
      <4> QED
        BY <1>8, <2>0, <3>2, <4>1 DEF NodesMet
    <3> QED
      BY <3>1, <3>2
  <2> QED
    BY <2>1, <2>2 DEF NodesMet
<1> QED
  BY <1>5, <1>9, <1>11 DEF NodesInv

\* The rest of what a node has sent still ends with what it is.
LEMMA TailKeepsLast ==
  ASSUME NEW w \in Seq(NodeRow), w # <<>>
  PROVE  /\ Tail(w) \in Seq(NodeRow) /\ Head(w) \in NodeRow
         /\ Tail(w) # <<>> => Tail(w)[Len(Tail(w))] = w[Len(w)]
         /\ Tail(w) = <<>> => Head(w) = w[Len(w)]
<1>1. Len(w) \in Nat /\ Len(w) > 0 /\ Head(w) = w[1] /\ Head(w) \in NodeRow
  OBVIOUS
<1>2. Tail(w) \in Seq(NodeRow) /\ Len(Tail(w)) = Len(w) - 1
  OBVIOUS
<1>3. ASSUME Tail(w) # <<>> PROVE Tail(w)[Len(Tail(w))] = w[Len(w)]
  <2>1. Len(Tail(w)) > 0
    BY <1>2, <1>3
  <2>2. \A i \in 1 .. Len(w) - 1 : Tail(w)[i] = w[i + 1]
    OBVIOUS
  <2>3. Len(w) - 1 \in 1 .. Len(w) - 1 /\ (Len(w) - 1) + 1 = Len(w)
    BY <1>1, <1>2, <2>1
  <2> QED
    BY <1>2, <2>2, <2>3
<1>4. ASSUME Tail(w) = <<>> PROVE Len(w) = 1
  <2>1. PICK rest \in Seq(NodeRow) : rest = Tail(w) /\ Len(rest) = Len(w) - 1
    BY <1>2
  <2>2. Len(rest) = 0
    BY <1>4, <2>1
  <2> QED
    BY <1>1, <2>1, <2>2
<1> QED
  BY <1>1, <1>2, <1>3, <1>4

LEMMA WriteFailsKeeps ==
  ASSUME NodesInv, NEW n \in Node, WriteFails(n) PROVE NodesInv'
<1>0. nodes \in [Node -> NodeProcess] /\ writes \in [Node -> Seq(NodeRow)] /\ behind \subseteq Node
  BY NodesTyped DEF NodesInv
<1>1. PICK w \in Seq(NodeRow) : w = writes[n] /\ w # <<>>
  BY <1>0 DEF WriteFails
<1>2. PICK rest \in Seq(NodeRow) : rest = Tail(w) /\ (rest # <<>> => rest[Len(rest)] = w[Len(w)])
  BY <1>1, TailKeepsLast
<1>3. /\ writes' = [writes EXCEPT ![n] = rest]
      /\ UNCHANGED <<nodes, registry, inbox, task, sent, lapsed, peers>>
      /\ behind' \subseteq Node /\ (n \in Up => n \in behind')
      /\ \A m \in Node : m # n => (m \in behind' <=> m \in behind)
  BY <1>0, <1>1, <1>2 DEF WriteFails
<1>4. NodesTypeOK'
  <2>1. writes' \in [Node -> Seq(NodeRow)]
    BY <1>0, <1>2, <1>3
  <2> QED
    BY <1>3, <2>1 DEF NodesInv, NodesTypeOK
<1>5. NodeShape(nodes[n], registry[n], rest, n \in behind')
  <2>1. NodeShape(nodes[n], registry[n], w, n \in behind)
    BY <1>1 DEF NodesInv, NodesShaped
  <2>2. nodes[n].step \in Running => n \in behind'
    BY <1>3, RunningUp DEF NodesInv
  <2> QED
    BY <1>1, <1>2, <2>1, <2>2 DEF NodeShape
<1>6. NodesShaped'
  <2>1. ASSUME NEW m \in Node PROVE NodeShape(nodes'[m], registry'[m], writes'[m], m \in behind')
    <3>1. CASE m = n
      BY <1>0, <1>3, <1>5, <3>1
    <3>2. CASE m # n
      <4>1. writes'[m] = writes[m] /\ (m \in behind' <=> m \in behind)
            /\ nodes'[m] = nodes[m] /\ registry'[m] = registry[m]
        BY <1>0, <1>3, <3>2
      <4>2. NodeShape(nodes[m], registry[m], writes[m], m \in behind)
        BY DEF NodesInv, NodesShaped
      <4> QED
        BY <4>1, <4>2 DEF NodeShape
    <3> QED
      BY <3>1, <3>2
  <2> QED
    BY <2>1 DEF NodesShaped
<1>7. NodesMet'
  <2>1. Listening' = Listening
    BY <1>3 DEF Listening, Up
  <2> QED
    BY <1>3, <2>1 DEF NodesInv, NodesMet
<1> QED
  BY <1>4, <1>6, <1>7 DEF NodesInv

\* A row that is written was on its way; the first one registers the node, which
\* has met nobody and is on nobody's list of nodes met.
LEMMA RowWrittenKeeps ==
  ASSUME NodesInv, NodesAssumption, NEW n \in Node, RowWritten(n) PROVE NodesInv'
<1>0. /\ nodes \in [Node -> NodeProcess] /\ writes \in [Node -> Seq(NodeRow)] /\ behind \subseteq Node
      /\ registry \in [Node -> NodeRow \cup {None}] /\ nodes[n] \in NodeProcess
  BY NodesTyped DEF NodesInv
<1>1. PICK w \in Seq(NodeRow) : w = writes[n] /\ w # <<>>
  BY <1>0 DEF RowWritten
<1>2. PICK rest \in Seq(NodeRow), row \in NodeRow :
        /\ rest = Tail(w) /\ row = Head(w)
        /\ rest # <<>> => rest[Len(rest)] = w[Len(w)]
        /\ rest = <<>> => row = w[Len(w)]
  BY <1>1, TailKeepsLast
<1>3. PICK p \in NodeProcess :
        /\ p = IF nodes[n].step = "registers" THEN [nodes[n] EXCEPT !.step = "starts"] ELSE nodes[n]
        /\ p.step = IF nodes[n].step = "registers" THEN "starts" ELSE nodes[n].step
        /\ p.isLeader = nodes[n].isLeader /\ p.tasksInProgress = nodes[n].tasksInProgress
        /\ p.saw = nodes[n].saw
  <2> DEFINE q == [nodes[n] EXCEPT !.step = "starts"]
  <2>1. /\ q \in NodeProcess /\ q.step = "starts" /\ q.isLeader = nodes[n].isLeader
        /\ q.tasksInProgress = nodes[n].tasksInProgress /\ q.saw = nodes[n].saw
    BY <1>0 DEF NodeProcess
  <2> HIDE DEF q
  <2>2. CASE nodes[n].step = "registers"
    <3>1. q = IF nodes[n].step = "registers" THEN q ELSE nodes[n]
      BY <2>2
    <3> QED
      BY <2>1, <2>2, <3>1 DEF q
  <2>3. CASE nodes[n].step # "registers"
    BY <1>0, <2>3
  <2> QED
    BY <2>2, <2>3
<1>4. /\ registry' = [registry EXCEPT ![n] = row] /\ writes' = [writes EXCEPT ![n] = rest]
      /\ behind' = behind \ {n} /\ UNCHANGED <<inbox, task, sent, lapsed, peers>>
  BY <1>0, <1>1, <1>2 DEF RowWritten
<1>5. nodes' \in [Node -> NodeProcess] /\ nodes'[n] = p /\ \A m \in Node : m # n => nodes'[m] = nodes[m]
  BY <1>0, <1>3 DEF RowWritten
<1>6. NodesTypeOK'
  <2>1. writes' \in [Node -> Seq(NodeRow)] /\ registry' \in [Node -> NodeRow \cup {None}] /\ behind' \subseteq Node
    BY <1>0, <1>2, <1>4
  <2> QED
    BY <1>4, <1>5, <2>1 DEF NodesInv, NodesTypeOK, NodeProcess
<1>7. NodeShape(p, row, rest, n \in behind')
  <2>1. NodeShape(nodes[n], registry[n], w, n \in behind)
    BY <1>1 DEF NodesInv, NodesShaped
  <2>2. RowOf(p) = RowOf(nodes[n])
    BY <1>3 DEF RowOf
  <2>3. p.step \in Running => nodes[n].step \in Running
    BY <1>3 DEF Running
  <2>4. p.step \in {"new", "registers", "starts", "elects"} => ~p.isLeader
    BY <1>3, <2>1 DEF NodeShape
  <2>5. p.step \in Running => w[Len(w)] = RowOf(p)
    BY <1>1, <2>1, <2>2, <2>3 DEF NodeShape
  <2> QED
    BY <1>2, <2>4, <2>5 DEF NodeShape
<1>8. NodesShaped'
  <2>1. ASSUME NEW m \in Node PROVE NodeShape(nodes'[m], registry'[m], writes'[m], m \in behind')
    <3>1. CASE m = n
      BY <1>0, <1>4, <1>5, <1>7, <3>1
    <3>2. CASE m # n
      <4>1. writes'[m] = writes[m] /\ (m \in behind' <=> m \in behind)
            /\ nodes'[m] = nodes[m] /\ registry'[m] = registry[m]
        BY <1>0, <1>4, <1>5, <3>2
      <4>2. NodeShape(nodes[m], registry[m], writes[m], m \in behind)
        BY DEF NodesInv, NodesShaped
      <4> QED
        BY <4>1, <4>2 DEF NodeShape
    <3> QED
      BY <3>1, <3>2
  <2> QED
    BY <2>1 DEF NodesShaped
<1>9. \A k \in Node : (k \in Listening => k \in Listening') /\ (k \in Listening' => k \in Listening \/ k = n)
  <2>1. \A k \in Node : nodes[k].step \in {"starts", "elects", "runs"} =>
                          nodes'[k].step \in {"starts", "elects", "runs"}
    BY <1>3, <1>5
  <2>2. \A k \in Node : nodes'[k].step \in {"starts", "elects", "runs"} =>
                          nodes[k].step \in {"starts", "elects", "runs"} \/ k = n
    BY <1>5
  <2> QED
    BY <1>5, <2>1, <2>2, RunningUp, RunningNext DEF NodesInv
<1>10. NodesMet'
  <2>0. NodesMet /\ Listening \subseteq Node /\ Listening' \subseteq Node
    BY DEF NodesInv, Listening, Up
  <2>1. \A m \in Node : peers'[m] \subseteq Listening'
    BY <1>4, <1>9, <2>0 DEF NodesMet
  <2>2. row # None
    BY <1>2, NodesAssumption DEF NodesAssumption
  <2>3. \A k \in Listening' \ lapsed' : registry'[k] # None
    BY <1>0, <1>4, <1>9, <2>0, <2>2 DEF NodesMet
  <2>4. ASSUME NEW m \in Node, NEW k \in peers'[m] \ lapsed'
        PROVE  (nodes'[m].step = "elects" => k \in nodes'[m].saw) /\ (nodes'[m].isLeader => m <= k)
    <3>1. k \in peers[m] \ lapsed
      BY <1>4, <2>4
    <3>2. /\ nodes'[m].step = "elects" => nodes[m].step = "elects" /\ nodes'[m].saw = nodes[m].saw
          /\ nodes'[m].isLeader = nodes[m].isLeader
      BY <1>3, <1>5
    <3> QED
      BY <2>0, <3>1, <3>2 DEF NodesMet
  <2> QED
    BY <2>1, <2>3, <2>4 DEF NodesMet
<1> QED
  BY <1>6, <1>8, <1>10 DEF NodesInv

LEMMA RowExpiresKeeps ==
  ASSUME NodesInv, NEW n \in Node, RowExpires(n) PROVE NodesInv'
<1>0. registry \in [Node -> NodeRow \cup {None}] /\ lapsed \subseteq Node
  BY NodesTyped DEF NodesInv
<1>1. /\ registry' = [registry EXCEPT ![n] = None]
      /\ lapsed' \subseteq Node /\ lapsed \subseteq lapsed' /\ (n \in Up => n \in lapsed')
      /\ UNCHANGED <<nodes, writes, inbox, task, sent, behind, peers>>
  BY <1>0 DEF RowExpires
<1>2. NodesTypeOK'
  BY <1>0, <1>1 DEF NodesInv, NodesTypeOK
<1>3. NodesShaped'
  <2>1. ASSUME NEW m \in Node PROVE NodeShape(nodes'[m], registry'[m], writes'[m], m \in behind')
    <3>1. NodeShape(nodes[m], registry[m], writes[m], m \in behind)
      BY DEF NodesInv, NodesShaped
    <3>2. registry'[m] = registry[m] \/ registry'[m] = None
      BY <1>0, <1>1
    <3> QED
      BY <1>1, <3>1, <3>2 DEF NodeShape
  <2> QED
    BY <2>1 DEF NodesShaped
<1>4. NodesMet'
  <2>0. NodesMet /\ Listening' = Listening /\ Listening \subseteq Up /\ Up \subseteq Node
    BY <1>1 DEF NodesInv, Listening, Up
  <2>1. \A k \in Listening' \ lapsed' : registry'[k] # None
    BY <1>0, <1>1, <2>0 DEF NodesMet
  <2>2. \A m \in Node : peers'[m] \subseteq Listening'
    BY <1>1, <2>0 DEF NodesMet
  <2>3. ASSUME NEW m \in Node, NEW k \in peers'[m] \ lapsed'
        PROVE  (nodes'[m].step = "elects" => k \in nodes'[m].saw) /\ (nodes'[m].isLeader => m <= k)
    BY <1>1, <2>0, <2>3 DEF NodesMet
  <2> QED
    BY <2>1, <2>2, <2>3 DEF NodesMet
<1> QED
  BY <1>2, <1>3, <1>4 DEF NodesInv

LEMMA NodesUnmoved == ASSUME NodesInv, UNCHANGED nodeVars PROVE NodesInv'
  BY DEF nodeVars, NodesInv, NodesTypeOK, NodesShaped, NodesMet, Listening, Up

LEMMA NextNodesInv ==
  ASSUME NodesInv, NodesAssumption, [NodesNext]_nodeVars PROVE NodesInv'
<1>0. /\ nodes \in [Node -> NodeProcess] /\ registry \in [Node -> NodeRow \cup {None}]
      /\ inbox \in [Node -> Seq(Commands \cup {"task"})] /\ NodesTypeOK
      /\ task = None \/ task \subseteq Node
      /\ sent \in 0 .. MaxMessages
  BY NodesTyped DEF NodesInv
<1>2. ASSUME NEW n \in Node, OnModuleInit(n) PROVE NodesInv'
  <2> DEFINE p == [nodes[n] EXCEPT !.step = "registers"]
  <2>0. nodes[n] \in NodeProcess
    BY <1>0
  <2>1. p \in NodeProcess /\ p.step = "registers" /\ p.isLeader = nodes[n].isLeader /\ p.saw = nodes[n].saw
    BY <2>0 DEF NodeProcess
  <2>2. RegisterAs(n, p) /\ nodes[n].step = "new"
        /\ UNCHANGED <<registry, inbox, task, sent, behind, lapsed, peers>>
    BY <1>2 DEF OnModuleInit
  <2> HIDE DEF p
  <2> QED
    BY <1>0, <2>1, <2>2, RegisterStays
<1>3. ASSUME NEW n \in Node, SendHeartbeat(n) PROVE NodesInv'
  <2>1. nodes[n] \in NodeProcess /\ RegisterAs(n, nodes[n])
        /\ UNCHANGED <<registry, inbox, task, sent, behind, lapsed, peers>>
    BY <1>0, <1>3 DEF SendHeartbeat
  <2> QED
    BY <1>0, <2>1, RegisterStays
<1>5. ASSUME NEW n \in Node, OnModuleDestroy(n) PROVE NodesInv'
  BY <1>5, LeaveKeeps DEF OnModuleDestroy
<1>7. ASSUME NEW n \in Node, NEW message \in Commands \cup {"task"}, Publish(n, message),
             UNCHANGED <<nodes, registry, writes, behind, lapsed, peers>>, task' = task \/ task' = None
      PROVE  NodesInv'
  <2>1. NodesTypeOK'
    BY <1>0, <1>7, PublishTyped DEF NodesTypeOK
  <2>2. NodesShaped' /\ NodesMet'
    BY <1>7 DEF NodesInv, NodesShaped, NodesMet, Listening, Up
  <2> QED
    BY <2>1, <2>2 DEF NodesInv
<1>8. ASSUME NEW n \in Node, NEW command \in Commands, ExecuteRemoteCommand(n, command) PROVE NodesInv'
  BY <1>7, <1>8 DEF ExecuteRemoteCommand
<1>9. ASSUME NEW n \in Node, DistributeTask(n) PROVE NodesInv'
  BY <1>7, <1>9 DEF DistributeTask
<1>10. ASSUME NEW n \in Node, HandleCommand(n) PROVE NodesInv'
  <2>1. CASE Leave(n)
    BY <2>1, LeaveKeeps
  <2>2. CASE inbox' = [inbox EXCEPT ![n] = Tail(@)]
             /\ UNCHANGED <<nodes, registry, writes, task, sent, behind, lapsed, peers>>
    <3>0. inbox[n] \in Seq(Commands \cup {"task"}) /\ inbox[n] # <<>>
      BY <1>0, <1>10 DEF HandleCommand
    <3>1. Tail(inbox[n]) \in Seq(Commands \cup {"task"})
      BY <3>0
    <3>2. NodesTypeOK'
      BY <1>0, <2>2, <3>1 DEF NodesTypeOK
    <3>3. NodesShaped' /\ NodesMet'
      BY <2>2 DEF NodesInv, NodesShaped, NodesMet, Listening, Up
    <3> QED
      BY <3>2, <3>3 DEF NodesInv
  <2> QED
    BY <1>10, <2>1, <2>2 DEF HandleCommand
<1>11. ASSUME NEW n \in Node, NEW tasks \in Nat,
              RegisterAs(n, [nodes[n] EXCEPT !.tasksInProgress = tasks]),
              inbox' \in [Node -> Seq(Commands \cup {"task"})],
              UNCHANGED <<registry, task, sent, behind, lapsed, peers>>
       PROVE  NodesInv'
  <2> DEFINE p == [nodes[n] EXCEPT !.tasksInProgress = tasks]
  <2>0. nodes[n] \in NodeProcess
    BY <1>0
  <2>1. p \in NodeProcess /\ p.step = nodes[n].step /\ p.isLeader = nodes[n].isLeader
        /\ p.saw = nodes[n].saw
    BY <1>11, <2>0 DEF NodeProcess
  <2>2. RegisterAs(n, p)
    BY <1>11
  <2> HIDE DEF p
  <2> QED
    BY <1>11, <2>1, <2>2, RegisterStays
<1>12. ASSUME NEW n \in Node, HandleTask(n) PROVE NodesInv'
  <2>1. nodes[n].tasksInProgress + 1 \in Nat
    BY <1>0 DEF NodeProcess
  <2>2. Tail(inbox[n]) \in Seq(Commands \cup {"task"})
    BY <1>0, <1>12 DEF HandleTask
  <2>3. inbox' \in [Node -> Seq(Commands \cup {"task"})]
    BY <1>0, <1>12, <2>2 DEF HandleTask
  <2> QED
    BY <1>0, <1>11, <1>12, <2>1, <2>3 DEF HandleTask, NodeProcess
<1>13. ASSUME NEW n \in Node, TaskEnds(n) PROVE NodesInv'
  <2>1. nodes[n].tasksInProgress - 1 \in Nat
    BY <1>0, <1>13 DEF TaskEnds, NodeProcess
  <2> QED
    BY <1>0, <1>11, <1>13, <2>1 DEF TaskEnds, NodeProcess
<1>14. ASSUME DistributeListKeys \/ DistributeFails PROVE NodesInv'
  <2>1. OnList \subseteq Node
    BY DEF OnList
  <2>2. UNCHANGED <<nodes, registry, writes, inbox, sent, behind, lapsed, peers>>
        /\ (task' = None \/ task' \subseteq Node)
    BY <1>14, <2>1 DEF DistributeListKeys, DistributeFails
  <2>3. NodesTypeOK'
    BY <1>0, <2>2 DEF NodesTypeOK
  <2>4. NodesShaped' /\ NodesMet'
    BY <2>2 DEF NodesInv, NodesShaped, NodesMet, Listening, Up
  <2> QED
    BY <2>3, <2>4 DEF NodesInv
<1>15. CASE UNCHANGED nodeVars
  BY <1>15, NodesUnmoved
<1> QED
  BY <1>2, <1>3, <1>5, <1>8, <1>9, <1>10, <1>12, <1>13, <1>14, <1>15, ElectLeaderKeeps,
     ElectListKeysKeeps, RowWrittenKeeps, WriteFailsKeeps, RowExpiresKeeps
     DEF NodesNext

LEMMA InitNodesInv == ASSUME NodesInit, NodesAssumption PROVE NodesInv
<1>1. NodesTypeOK
  BY DEF NodesInit, NodesTypeOK, NodesAssumption
<1>2. NodesShaped
  BY DEF NodesInit, NodesShaped, NodeShape, Running
<1>3. Listening = {} /\ \A n \in Node : peers[n] = {}
  BY DEF NodesInit, Listening, Up
<1> QED
  BY <1>1, <1>2, <1>3 DEF NodesInv, NodesMet

LEMMA NodesSafe == NodesSpec => [](NodesTypeOK /\ LeadersStartedApart)
<1>1. NodesInit => NodesInv
  BY InitNodesInv, NodesAssumption
<1>2. NodesInv /\ [NodesNext]_nodeVars => NodesInv'
  BY NextNodesInv, NodesAssumption
<1>3. ASSUME NodesInv PROVE NodesTypeOK /\ LeadersStartedApart
  <2>1. NodesTypeOK /\ Node \subseteq Nat
    BY <1>3, NodesAssumption DEF NodesInv, NodesAssumption
  <2>2. ASSUME NEW n \in Up, NEW m \in Up, n < m, nodes[n].isLeader, nodes[m].isLeader
        PROVE  n \notin peers[m] \/ n \in lapsed
    <3>1. n \in Nat /\ m \in Nat /\ m \in Node
      BY <2>1 DEF Up
    <3>2. \A k \in peers[m] \ lapsed : m <= k
      BY <1>3, <2>2, <3>1 DEF NodesInv, NodesMet
    <3> QED
      BY <2>2, <3>1, <3>2
  <2>3. ASSUME NEW n \in Up \cap OnList, writes[n] = <<>>, n \notin behind
        PROVE  registry[n] = RowOf(nodes[n])
    BY <1>3, <2>1, <2>3, RunningUp DEF NodesInv, NodesShaped, NodeShape, OnList
  <2> QED
    BY <2>1, <2>2, <2>3 DEF LeadersStartedApart
<1> QED
  BY <1>1, <1>2, <1>3, PTL DEF NodesSpec

-----------------------------------------------------------------------------
(* News.                                                                     *)

NewsJob == [step : {"idle", "nodes", "rows", "fetch"}, feeds : Seq(Feeds), keys : SUBSET Node,
            order : Seq(Node), find : SUBSET (Feeds \X Articles),
            create : SUBSET (Feeds \X Articles)]

Distinct(s) == \A i, j \in DOMAIN s : s[i] = s[j] => i = j

\* Each feed stands once in what a job read, and the job handles its share.
JobShape(n, q) ==
    /\ Distinct(q.feeds)
    /\ q.step # "fetch" => q.find = {} /\ q.create = {}
    /\ q.step = "fetch" =>
         /\ Len(q.order) > 0
         /\ q.find \cup q.create \subseteq ShareOf(q.feeds, q.order, n) \X Articles

NewsInv ==
    /\ NodesInv /\ sources \subseteq Feeds
    /\ articles \in [Articles -> Feeds \cup {None}]
    /\ \A a \in Articles : articles[a] # None => articles[a] \in sources
    /\ job \in [Node -> NewsJob]
    /\ \A n \in Node : JobShape(n, job[n])

\* The members of a finite set in some order.
LEMMA InSomeOrder ==
  ASSUME NEW S, NEW T, IsFiniteSet(T), S \subseteq T, NEW s \in SetToSeqs(S)
  PROVE  s \in Seq(T) /\ Distinct(s) /\ (S # {} => Len(s) > 0)
<1>1. IsFiniteSet(S) /\ Cardinality(S) \in Nat
  BY FS_Subset, FS_CardinalityType
<1>2. s \in [1 .. Cardinality(S) -> S] /\ \A i, j \in 1 .. Cardinality(S) : i # j => s[i] # s[j]
  BY DEF SetToSeqs
<1>3. s \in Seq(T) /\ Len(s) = Cardinality(S) /\ DOMAIN s = 1 .. Cardinality(S)
  BY <1>1, <1>2
<1>4. S # {} => Cardinality(S) # 0
  BY <1>1, FS_EmptySet
<1> QED
  BY <1>1, <1>2, <1>3, <1>4 DEF Distinct

\* Every position belongs to somebody in the order.
LEMMA Positioned ==
  ASSUME NEW feeds \in Seq(Feeds), NEW order \in Seq(Node), Len(order) > 0,
         NEW i \in DOMAIN feeds
  PROVE  order[((i - 1) % Len(order)) + 1] \in ToSet(order)
<1>1. Len(order) \in Nat /\ DOMAIN order = 1 .. Len(order) /\ i \in Nat /\ i >= 1
  OBVIOUS
<1>2. (i - 1) % Len(order) \in 0 .. Len(order) - 1
  BY <1>1
<1>3. ((i - 1) % Len(order)) + 1 \in DOMAIN order
  BY <1>1, <1>2
<1> QED
  BY <1>3 DEF ToSet

LEMMA SharesCover ==
  ASSUME NEW feeds \in Seq(Feeds), NEW order \in Seq(Node), Len(order) > 0
  PROVE  UNION {ShareOf(feeds, order, m) : m \in ToSet(order)} = ToSet(feeds)
<1>1. ASSUME NEW m \in ToSet(order), NEW f \in ShareOf(feeds, order, m) PROVE f \in ToSet(feeds)
  BY DEF ShareOf, ToSet
<1>2. ASSUME NEW f \in ToSet(feeds) PROVE \E m \in ToSet(order) : f \in ShareOf(feeds, order, m)
  <2>1. PICK i \in DOMAIN feeds : f = feeds[i]
    BY DEF ToSet
  <2>2. f \in ShareOf(feeds, order, order[((i - 1) % Len(order)) + 1])
    BY <2>1 DEF ShareOf
  <2> QED
    BY <2>2, Positioned
<1> QED
  BY <1>1, <1>2

LEMMA SharesApart ==
  ASSUME NEW feeds, Distinct(feeds), NEW order, NEW n, NEW m, n # m
  PROVE  ShareOf(feeds, order, n) \cap ShareOf(feeds, order, m) = {}
<1> SUFFICES ASSUME NEW f \in ShareOf(feeds, order, n), f \in ShareOf(feeds, order, m)
             PROVE  FALSE
  OBVIOUS
<1>1. PICK i \in DOMAIN feeds : f = feeds[i] /\ order[((i - 1) % Len(order)) + 1] = n
  BY DEF ShareOf
<1>2. PICK j \in DOMAIN feeds : f = feeds[j] /\ order[((j - 1) % Len(order)) + 1] = m
  BY DEF ShareOf
<1>3. i = j
  BY <1>1, <1>2 DEF Distinct
<1> QED
  BY <1>1, <1>2, <1>3

LEMMA JobMoves ==
  ASSUME NewsInv, NEW n \in Node, NEW q \in NewsJob, JobShape(n, q), job' = [job EXCEPT ![n] = q],
         UNCHANGED nodeVars
  PROVE  /\ job' \in [Node -> NewsJob] /\ \A m \in Node : JobShape(m, job'[m])
         /\ NodesInv'
<1>1. NodesInv'
  BY NodesUnmoved DEF NewsInv
<1> QED
  BY <1>1 DEF NewsInv

LEMMA NoJobFits == ASSUME NEW n PROVE NoJob \in NewsJob /\ JobShape(n, NoJob)
<1>1. <<>> \in Seq(Feeds) /\ <<>> \in Seq(Node) /\ DOMAIN <<>> = {}
  OBVIOUS
<1> QED
  BY <1>1 DEF NoJob, NewsJob, JobShape, Distinct

LEMMA NextNewsInv ==
  ASSUME NewsInv, NodesAssumption, NewsAssumption, [NewsNext]_<<nodeVars, newsVars>>
  PROVE  NewsInv'
<1>0. /\ job \in [Node -> NewsJob] /\ sources \subseteq Feeds
      /\ articles \in [Articles -> Feeds \cup {None}]
  BY DEF NewsInv
<1>1. CASE [NodesNext]_nodeVars /\ UNCHANGED newsVars
  <2>1. NodesInv'
    BY <1>1, NextNodesInv DEF NewsInv
  <2> QED
    BY <1>1, <2>1 DEF NewsInv, newsVars
<1>2. ASSUME NEW n \in Node, NEW q \in NewsJob, JobShape(n, q), job' = [job EXCEPT ![n] = q],
             UNCHANGED <<sources, articles>>, NewsKeeps
      PROVE  NewsInv'
  BY <1>2, JobMoves DEF NewsInv, NewsKeeps
<1>3. ASSUME NEW n \in Node, Process(n) PROVE NewsInv'
  <2>1. PICK feeds \in SetToSeqs(sources) :
          job' = [job EXCEPT ![n] = [NoJob EXCEPT !.step = "nodes", !.feeds = feeds]]
    BY <1>3 DEF Process
  <2>2. feeds \in Seq(Feeds) /\ Distinct(feeds)
    BY <1>0, InSomeOrder, NewsAssumption DEF NewsAssumption
  <2> DEFINE q == [NoJob EXCEPT !.step = "nodes", !.feeds = feeds]
  <2>3. q \in NewsJob /\ q.feeds = feeds /\ q.find = {} /\ q.create = {} /\ q.step = "nodes"
    BY <2>2, NoJobFits DEF NoJob, NewsJob
  <2> HIDE DEF q
  <2>4. JobShape(n, q)
    BY <2>2, <2>3 DEF JobShape
  <2>5. job' = [job EXCEPT ![n] = q]
    BY <2>1 DEF q
  <2> QED
    BY <1>2, <1>3, <2>3, <2>4, <2>5 DEF Process
<1>4. ASSUME NEW n \in Node, ProcessListKeys(n) PROVE NewsInv'
  <2> DEFINE q == [job[n] EXCEPT !.step = "rows", !.keys = OnList]
  <2>1. job[n] \in NewsJob /\ JobShape(n, job[n]) /\ OnList \subseteq Node /\ job[n].step = "nodes"
    BY <1>0, <1>4 DEF NewsInv, OnList, ProcessListKeys, JobAt
  <2>2. q \in NewsJob /\ q.step = "rows" /\ q.feeds = job[n].feeds /\ q.order = job[n].order
        /\ q.find = job[n].find /\ q.create = job[n].create
    BY <2>1 DEF NewsJob
  <2>3. job' = [job EXCEPT ![n] = q]
    BY <1>0, <1>4 DEF ProcessListKeys, NewsJob
  <2> HIDE DEF q
  <2>4. JobShape(n, q)
    BY <2>1, <2>2 DEF JobShape
  <2> QED
    BY <1>2, <1>4, <2>2, <2>3, <2>4 DEF ProcessListKeys
<1>5. ASSUME NEW n \in Node, ProcessShare(n) PROVE NewsInv'
  <2> DEFINE seen == job[n].keys \cap OnList
  <2>1. job[n] \in NewsJob /\ JobShape(n, job[n]) /\ job[n].step = "rows"
        /\ UNCHANGED <<sources, articles>> /\ NewsKeeps
    BY <1>0, <1>5 DEF NewsInv, ProcessShare, JobAt
  <2>2. CASE n \notin seen
    BY <1>2, <1>5, <2>1, <2>2, NoJobFits DEF ProcessShare
  <2>3. CASE n \in seen
    <3>1. PICK order \in SetToSeqs(seen) :
            job' = [job EXCEPT ![n].step = "fetch", ![n].order = order, ![n].keys = {},
                               ![n].find = ShareOf(job[n].feeds, order, n) \X Articles]
      BY <1>5, <2>3 DEF ProcessShare
    <3>2. order \in Seq(Node) /\ Len(order) > 0
      BY <2>3, InSomeOrder, NodesAssumption DEF NodesAssumption, OnList
    <3> DEFINE share == ShareOf(job[n].feeds, order, n) \X Articles
               q == [job[n] EXCEPT !.step = "fetch", !.order = order, !.keys = {}, !.find = share]
    <3>3. share \in SUBSET (Feeds \X Articles)
      <4>1. job[n].feeds \in Seq(Feeds)
        BY <2>1 DEF NewsJob
      <4>2. ShareOf(job[n].feeds, order, n) \subseteq Feeds
        BY <4>1 DEF ShareOf
      <4> QED
        BY <4>2
    <3> HIDE DEF share
    <3>4. /\ q \in NewsJob /\ q.step = "fetch" /\ q.feeds = job[n].feeds /\ q.order = order
          /\ q.find = share /\ q.create = job[n].create
      BY <2>1, <3>2, <3>3 DEF NewsJob
    <3>5. job' = [job EXCEPT ![n] = q]
      BY <1>0, <3>1 DEF share, NewsJob
    <3> HIDE DEF q
    <3>6. JobShape(n, q)
      BY <2>1, <3>2, <3>4 DEF JobShape, share
    <3> QED
      BY <1>2, <2>1, <3>4, <3>5, <3>6
  <2> QED
    BY <2>2, <2>3
<1>6. ASSUME NEW n \in Node, NEW find, NEW create, JobAt(n, "fetch"),
             find \subseteq job[n].find, create \subseteq job[n].find \cup job[n].create,
             job' = [job EXCEPT ![n].find = find, ![n].create = create], NewsKeeps
      PROVE  /\ job' \in [Node -> NewsJob] /\ \A m \in Node : JobShape(m, job'[m])
             /\ NodesInv'
  <2> DEFINE q == [job[n] EXCEPT !.find = find, !.create = create]
  <2>1. job[n] \in NewsJob /\ JobShape(n, job[n]) /\ job[n].step = "fetch"
    BY <1>0, <1>6 DEF NewsInv, JobAt
  <2>2. find \in SUBSET (Feeds \X Articles) /\ create \in SUBSET (Feeds \X Articles)
    BY <1>6, <2>1 DEF NewsJob
  <2>3. q \in NewsJob /\ q.step = "fetch" /\ q.feeds = job[n].feeds /\ q.order = job[n].order
        /\ q.find = find /\ q.create = create
    BY <2>1, <2>2 DEF NewsJob
  <2>4. job' = [job EXCEPT ![n] = q]
    BY <1>0, <1>6 DEF NewsJob
  <2> HIDE DEF q
  <2>5. JobShape(n, q)
    BY <1>6, <2>1, <2>3 DEF JobShape
  <2> QED
    BY <1>6, <2>3, <2>4, <2>5, JobMoves DEF NewsKeeps
<1>7. ASSUME NEW n \in Node, NEW feed \in Feeds, NEW a \in Articles, ParseURL(n, feed, a)
      PROVE  NewsInv'
  <2>1. PICK missing \in BOOLEAN :
          job' = [job EXCEPT ![n].find = @ \ {<<feed, a>>},
                             ![n].create = IF missing THEN @ \cup {<<feed, a>>} ELSE @]
    BY <1>7 DEF ParseURL
  <2> DEFINE find == job[n].find \ {<<feed, a>>}
             create == IF missing THEN job[n].create \cup {<<feed, a>>} ELSE job[n].create
  <2>2. job' = [job EXCEPT ![n].find = find, ![n].create = create]
    BY <1>0, <2>1 DEF NewsJob
  <2>3. find \subseteq job[n].find /\ create \subseteq job[n].find \cup job[n].create
    BY <1>7 DEF ParseURL
  <2> HIDE DEF find, create
  <2> QED
    BY <1>6, <1>7, <2>2, <2>3 DEF ParseURL, NewsInv
<1>8. ASSUME NEW n \in Node, NEW feed \in Feeds, NEW a \in Articles, CreateArticle(n, feed, a)
      PROVE  NewsInv'
  <2> DEFINE create == job[n].create \ {<<feed, a>>}
  <2>1. job' = [job EXCEPT ![n].find = job[n].find, ![n].create = create]
    BY <1>0, <1>8 DEF CreateArticle, NewsJob
  <2>2. create \subseteq job[n].find \cup job[n].create
    OBVIOUS
  <2> HIDE DEF create
  <2>3. /\ job' \in [Node -> NewsJob] /\ \A m \in Node : JobShape(m, job'[m])
        /\ NodesInv'
    BY <1>6, <1>8, <2>1, <2>2 DEF CreateArticle
  <2>4. /\ articles' \in [Articles -> Feeds \cup {None}] /\ sources' = sources
        /\ \A b \in Articles : articles'[b] # None => articles'[b] \in sources
    BY <1>0, <1>8 DEF CreateArticle, NewsInv
  <2> QED
    BY <1>0, <2>3, <2>4 DEF NewsInv
<1>9. ASSUME NEW n \in Node, ProcessEnds(n) PROVE NewsInv'
  BY <1>2, <1>9, NoJobFits DEF ProcessEnds
<1>10. ASSUME NEW feed \in Feeds, CreateSource(feed) \/ DeleteSource(feed) PROVE NewsInv'
  <2>1. UNCHANGED nodeVars /\ UNCHANGED <<articles, job>>
    BY <1>10 DEF CreateSource, DeleteSource, NewsKeeps
  <2>2. NodesInv'
    BY <2>1, NodesUnmoved DEF NewsInv
  <2>3. sources' \subseteq Feeds /\ \A a \in Articles : articles[a] # None => articles[a] \in sources'
    BY <1>0, <1>10 DEF CreateSource, DeleteSource, NewsInv
  <2> QED
    BY <2>1, <2>2, <2>3 DEF NewsInv
<1>11. CASE UNCHANGED <<nodeVars, newsVars>>
  BY <1>1, <1>11
<1> QED
  BY <1>1, <1>3, <1>4, <1>5, <1>7, <1>8, <1>9, <1>10, <1>11 DEF NewsNext

LEMMA NewsSafe == NewsSpec => [](NodesTypeOK /\ NewsTypeOK /\ FeedsAreSharedOut)
<1>1. ASSUME NodesInit, NewsInit PROVE NewsInv
  BY <1>1, InitNodesInv, NodesAssumption, NoJobFits DEF NewsInit, NewsInv
<1>2. ASSUME NewsInv, [NewsNext]_<<nodeVars, newsVars>> PROVE NewsInv'
  BY <1>2, NextNewsInv, NodesAssumption, NewsAssumption
<1>3. ASSUME NewsInv PROVE NodesTypeOK /\ NewsTypeOK
  BY <1>3 DEF NewsInv, NodesInv, NewsTypeOK, NewsJob
<1>4. ASSUME NewsInv PROVE FeedsAreSharedOut
  <2>1. ASSUME NEW n \in Node, job[n].step = "fetch"
        PROVE  /\ UNION {ShareOf(job[n].feeds, job[n].order, m) : m \in ToSet(job[n].order)}
                    = ToSet(job[n].feeds)
               /\ \A m : m # n => ShareOf(job[n].feeds, job[n].order, n)
                                  \cap ShareOf(job[n].feeds, job[n].order, m) = {}
    <3>1. job[n] \in NewsJob /\ JobShape(n, job[n])
      BY <1>4 DEF NewsInv
    <3>2. job[n].feeds \in Seq(Feeds) /\ job[n].order \in Seq(Node) /\ Len(job[n].order) > 0
          /\ Distinct(job[n].feeds)
      BY <2>1, <3>1 DEF NewsJob, JobShape
    <3> QED
      BY <3>2, SharesCover, SharesApart
  <2>2. ASSUME NEW n \in Node, NEW m \in Node, job[n].step = "fetch", job[m].step = "fetch", m # n,
               job[m].feeds = job[n].feeds, job[m].order = job[n].order
        PROVE  (job[n].find \cup job[n].create) \cap (job[m].find \cup job[m].create) = {}
    <3>1. /\ job[n].find \cup job[n].create \subseteq ShareOf(job[n].feeds, job[n].order, n) \X Articles
          /\ job[m].find \cup job[m].create \subseteq ShareOf(job[n].feeds, job[n].order, m) \X Articles
      BY <1>4, <2>2 DEF NewsInv, JobShape
    <3>2. ShareOf(job[n].feeds, job[n].order, n) \cap ShareOf(job[n].feeds, job[n].order, m) = {}
      BY <2>1, <2>2
    <3> QED
      BY <3>1, <3>2
  <2>3. \A a \in Articles : articles[a] # None => articles[a] \in sources
    BY <1>4 DEF NewsInv
  <2> QED
    BY <2>1, <2>2, <2>3 DEF FeedsAreSharedOut
<1> QED
  BY <1>1, <1>2, <1>3, <1>4, PTL DEF NewsSpec

(* A node leads beside a running leader of a smaller name only if that one   *)
(* had yet to register when the nodes were listed, or its row expired; a row *)
(* tells its node's tasks and leadership once the node's writes are over and *)
(* the last did not fail; nodes that computed from one list share the feeds  *)
(* out.  For any number of nodes and feeds.                                  *)
THEOREM NodesAgree == MCSpec => []ClusterHolds
<1>1. (LeadersStartedApart /\ FeedsAreSharedOut) <=> ClusterHolds
  BY DEF ClusterHolds
<1> QED
  BY <1>1, Composed, NodesSafe, NewsSafe, PTL
-----------------------------------------------------------------------------
(* The front of the chat.                                                    *)

ChatRow ==
    [step : ChatSteps, tools : Tools, left : 0 .. MaxQueries, plain : BOOLEAN, fellBack : BOOLEAN,
     stream : {"answer", "refusal", None}, paid : Nat, completes : Nat, errors : Nat]

\* Nothing is told before the end, and what a message has cost goes with its step.
ChatShape(q) ==
    /\ q.step # "done" => q.completes = 0 /\ q.errors = 0
    /\ q.step = "done" => /\ <<q.completes, q.errors>> \in {<<0, 1>>, <<1, 0>>, <<1, 1>>}
                          /\ q.completes + q.errors = 2 => q.stream = "refusal"
    /\ q.step \notin {"ask", "stream", "done"} => q.paid = 0
    /\ q.step = "ask" => q.paid <= (IF q.fellBack THEN 1 ELSE 0)
    /\ q.paid <= (IF q.fellBack THEN 2 ELSE 1)

GatewayInv ==
    /\ charges \in 0 .. Allowance
    /\ chat \in [Requests -> ChatRow]
    /\ \A r \in Requests : ChatShape(chat[r])

\* A step of one message that stays within the allowance.
ChatStep(r, q) ==
    /\ q \in ChatRow /\ ChatShape(q)
    /\ chat' = [chat EXCEPT ![r] = q]
    /\ charges' \in 0 .. Allowance

LEMMA GatewayKeeps ==
  ASSUME GatewayInv, NEW r \in Requests, NEW q, ChatStep(r, q)
  PROVE  GatewayInv'
  BY DEF GatewayInv, ChatStep

LEMMA SearchCharged ==
  ASSUME ChatGatewayAssumption, GatewayInv PROVE SearchCharges \subseteq 0 .. Allowance
  BY DEF ChatGatewayAssumption, GatewayInv, SearchCharges, Available

LEMMA ReceiveKeeps ==
  ASSUME ChatGatewayAssumption, GatewayInv, NEW r \in Requests, NEW tools \in Tools, Receive(r, tools)
  PROVE  GatewayInv'
<1> DEFINE q == [NewChat EXCEPT !.tools = tools, !.plain = (tools = "plain"),
                    !.step = CASE tools = "research" -> "queries"
                               [] tools = "browsing" -> "analyze"
                               [] OTHER -> "ask"]
<1>0. PICK step \in {"queries", "analyze", "ask"} :
        step = CASE tools = "research" -> "queries" [] tools = "browsing" -> "analyze" [] OTHER -> "ask"
  OBVIOUS
<1>3. PICK plain \in BOOLEAN : plain = (tools = "plain")
  OBVIOUS
<1>4. q = [NewChat EXCEPT !.tools = tools, !.plain = plain, !.step = step]
  BY <1>0, <1>3
<1> HIDE DEF q
<1>6. NewChat \in ChatRow
  <2>1. 0 \in 0 .. MaxQueries
    BY DEF ChatGatewayAssumption
  <2> QED
    BY <2>1 DEF ChatRow, NewChat, ChatSteps, Tools
<1>5. /\ q \in ChatRow /\ q.step = step /\ q.completes = 0 /\ q.errors = 0 /\ q.paid = 0
      /\ q.fellBack = FALSE
  <2>1. NewChat.completes = 0 /\ NewChat.errors = 0 /\ NewChat.paid = 0 /\ NewChat.fellBack = FALSE
    BY DEF NewChat
  <2> QED
    BY <1>4, <1>6, <2>1 DEF ChatRow, ChatSteps
<1>1. q \in ChatRow /\ ChatShape(q)
  BY <1>5 DEF ChatShape
<1>2. ChatStep(r, q)
  BY <1>1 DEF Receive, ChatStep, GatewayInv, q
<1> QED
  BY <1>2, GatewayKeeps

LEMMA NextGatewayInv ==
  ASSUME ChatGatewayAssumption, GatewayInv, [GatewayNext]_gatewayVars PROVE GatewayInv'
<1>0. /\ charges \in 0 .. Allowance /\ charges \in Nat /\ Allowance \in Nat /\ MaxQueries \in Nat
      /\ \A r \in Requests : chat[r] \in ChatRow /\ ChatShape(chat[r])
  BY DEF GatewayInv, ChatGatewayAssumption
<1>1. ASSUME NEW r \in Requests, NEW tools \in Tools, HandleChatStreaming(r, tools) PROVE GatewayInv'
  BY <1>1, ReceiveKeeps DEF HandleChatStreaming
<1>2. ASSUME NEW r \in Requests, HandleChatStreamPlain(r) \/ HandleChatStream(r) PROVE GatewayInv'
  BY <1>2, ReceiveKeeps DEF HandleChatStreamPlain, HandleChatStream, Tools
<1>3. ASSUME NEW r \in Requests, GenerateSearchQueries(r) PROVE GatewayInv'
  <2>1. ASSUME NEW n \in 0 .. MaxQueries, chat' = [chat EXCEPT ![r].step = "search", ![r].left = n]
        PROVE  GatewayInv'
    <3> DEFINE q == [chat[r] EXCEPT !.step = "search", !.left = n]
    <3>1. q \in ChatRow /\ ChatShape(q)
      BY <1>0, <1>3 DEF GenerateSearchQueries, ChatAt, ChatRow, ChatShape, ChatSteps
    <3>2. ChatStep(r, q)
      BY <1>0, <1>3, <2>1, <3>1 DEF GenerateSearchQueries, ChatStep, GatewayInv
    <3> QED
      BY <3>2, GatewayKeeps
  <2>2. ASSUME NEW plain \in BOOLEAN,
               chat' = [chat EXCEPT ![r].step = "ask", ![r].fellBack = TRUE, ![r].plain = plain]
        PROVE  GatewayInv'
    <3> DEFINE q == [chat[r] EXCEPT !.step = "ask", !.fellBack = TRUE, !.plain = plain]
    <3>0. chat[r].step = "queries" /\ chat[r].completes = 0 /\ chat[r].errors = 0 /\ chat[r].paid = 0
      BY <1>0, <1>3 DEF GenerateSearchQueries, ChatAt, ChatShape
    <3>3. /\ q \in ChatRow /\ q.step = "ask" /\ q.fellBack = TRUE
          /\ q.completes = 0 /\ q.errors = 0 /\ q.paid = 0
      BY <1>0, <3>0 DEF ChatRow, ChatSteps
    <3>1. q \in ChatRow /\ ChatShape(q)
      <4> HIDE DEF q
      <4> QED
        BY <3>3 DEF ChatShape
    <3>2. ChatStep(r, q)
      BY <1>0, <1>3, <2>2, <3>1 DEF GenerateSearchQueries, ChatStep, GatewayInv
    <3> QED
      BY <3>2, GatewayKeeps
  <2> QED
    BY <1>3, <2>1, <2>2 DEF GenerateSearchQueries, FallBack
<1>4. ASSUME NEW r \in Requests, PerformSearchForSingleQuery(r) PROVE GatewayInv'
  <2> DEFINE q == [chat[r] EXCEPT !.left = chat[r].left - 1]
  <2>1. q \in ChatRow /\ ChatShape(q)
    BY <1>0, <1>4 DEF PerformSearchForSingleQuery, ChatAt, ChatRow, ChatShape, ChatSteps
  <2>2. ChatStep(r, q)
    BY <1>0, <1>4, <2>1, SearchCharged DEF PerformSearchForSingleQuery, ChatStep, GatewayInv
  <2> QED
    BY <2>2, GatewayKeeps
<1>5. ASSUME NEW r \in Requests, CreateResearchPrompt(r) \/ PerformBrowsing(r) PROVE GatewayInv'
  <2> DEFINE q == [chat[r] EXCEPT !.step = "ask"]
  <2>1. q \in ChatRow /\ ChatShape(q)
    BY <1>0, <1>5 DEF CreateResearchPrompt, PerformBrowsing, ChatAt, ChatRow, ChatShape, ChatSteps
  <2>2. ChatStep(r, q)
    BY <1>0, <1>5, <2>1, SearchCharged DEF CreateResearchPrompt, PerformBrowsing, ChatStep, GatewayInv
  <2> QED
    BY <2>2, GatewayKeeps
<1>6. ASSUME NEW r \in Requests, GetSearchQueryFromMessage(r) PROVE GatewayInv'
  <2>1. PICK next \in {"browse", "ask"} : chat' = [chat EXCEPT ![r].step = next]
    BY <1>6 DEF GetSearchQueryFromMessage
  <2> DEFINE q == [chat[r] EXCEPT !.step = next]
  <2>2. q \in ChatRow /\ ChatShape(q)
    BY <1>0, <1>6 DEF GetSearchQueryFromMessage, ChatAt, ChatRow, ChatShape, ChatSteps
  <2>3. ChatStep(r, q)
    BY <1>0, <1>6, <2>1, <2>2 DEF GetSearchQueryFromMessage, ChatStep, GatewayInv
  <2> QED
    BY <2>3, GatewayKeeps
<1>7. ASSUME NEW r \in Requests, ProcessChat(r) PROVE GatewayInv'
  <2>0. chat[r].step = "ask"
    BY <1>7 DEF ProcessChat, ChatAt
  <2>5. /\ chat[r] \in ChatRow /\ chat[r].completes = 0 /\ chat[r].errors = 0
        /\ chat[r].paid \in Nat /\ chat[r].fellBack \in BOOLEAN
        /\ chat[r].paid <= (IF chat[r].fellBack THEN 1 ELSE 0)
    BY <1>0, <2>0 DEF ChatRow, ChatShape
  <2>1. CASE /\ chat' = [chat EXCEPT ![r].step = "stream", ![r].stream = "refusal"]
             /\ UNCHANGED charges
    <3> DEFINE q == [chat[r] EXCEPT !.step = "stream", !.stream = "refusal"]
    <3>1. q \in ChatRow /\ ChatShape(q)
      BY <1>0, <2>0 DEF ChatRow, ChatShape, ChatSteps
    <3>2. ChatStep(r, q)
      BY <1>0, <2>1, <3>1 DEF ChatStep, GatewayInv
    <3> QED
      BY <3>2, GatewayKeeps
  <2>2. CASE /\ Available
             /\ charges' = charges + 1
             /\ chat' = [chat EXCEPT ![r].step = "stream", ![r].stream = "answer", ![r].paid = @ + 1]
    <3>4. PICK due \in Nat : due = chat[r].paid + 1
      BY <2>5
    <3> DEFINE q == [chat[r] EXCEPT !.step = "stream", !.stream = "answer", !.paid = due]
    <3>3. /\ q \in ChatRow /\ q.step = "stream" /\ q.fellBack = chat[r].fellBack
          /\ q.completes = 0 /\ q.errors = 0 /\ q.paid = chat[r].paid + 1
      BY <2>5, <3>4 DEF ChatRow, ChatSteps
    <3>1. q \in ChatRow /\ ChatShape(q)
      <4> HIDE DEF q
      <4> QED
        BY <2>5, <3>3 DEF ChatShape
    <3>2. ChatStep(r, q)
      <4>1. chat' = [chat EXCEPT ![r] = q]
        BY <2>2, <2>5, <3>4
      <4>2. charges' \in 0 .. Allowance
        BY <1>0, <2>2 DEF Available
      <4> HIDE DEF q
      <4> QED
        BY <3>1, <4>1, <4>2 DEF ChatStep
    <3> QED
      BY <3>2, GatewayKeeps
  <2>3. ASSUME NEW cost \in {0, 1}, cost = 1 => Available, charges' = charges + cost,
               ~chat[r].fellBack, NEW plain \in BOOLEAN,
               chat' = [chat EXCEPT ![r].fellBack = TRUE, ![r].plain = plain, ![r].paid = @ + cost]
        PROVE  GatewayInv'
    <3>4. PICK due \in Nat : due = chat[r].paid + cost
      BY <2>5
    <3> DEFINE q == [chat[r] EXCEPT !.fellBack = TRUE, !.plain = plain, !.paid = due]
    <3>3. /\ q \in ChatRow /\ q.step = "ask" /\ q.fellBack = TRUE
          /\ q.completes = 0 /\ q.errors = 0 /\ q.paid = chat[r].paid + cost
      BY <2>0, <2>5, <3>4 DEF ChatRow, ChatSteps
    <3>1. q \in ChatRow /\ ChatShape(q)
      <4> HIDE DEF q
      <4> QED
        BY <2>3, <2>5, <3>3 DEF ChatShape
    <3>2. ChatStep(r, q)
      <4>1. chat' = [chat EXCEPT ![r] = q]
        BY <2>3, <2>5, <3>4
      <4>2. charges' \in 0 .. Allowance
        BY <1>0, <2>3 DEF Available
      <4> HIDE DEF q
      <4> QED
        BY <3>1, <4>1, <4>2 DEF ChatStep
    <3> QED
      BY <3>2, GatewayKeeps
  <2>4. ASSUME NEW cost \in {0, 1}, cost = 1 => Available, charges' = charges + cost,
               chat' = [chat EXCEPT ![r].step = "done", ![r].errors = @ + 1, ![r].paid = @ + cost]
        PROVE  GatewayInv'
    <3>4. PICK due \in Nat : due = chat[r].paid + cost
      BY <2>5
    <3> DEFINE q == [chat[r] EXCEPT !.step = "done", !.errors = 1, !.paid = due]
    <3>3. /\ q \in ChatRow /\ q.step = "done" /\ q.fellBack = chat[r].fellBack
          /\ q.completes = 0 /\ q.errors = 1 /\ q.paid = chat[r].paid + cost
      BY <2>5, <3>4 DEF ChatRow, ChatSteps
    <3>1. q \in ChatRow /\ ChatShape(q)
      <4> HIDE DEF q
      <4> QED
        BY <2>4, <2>5, <3>3 DEF ChatShape
    <3>2. ChatStep(r, q)
      <4>1. chat' = [chat EXCEPT ![r] = q]
        <5>1. chat[r].errors + 1 = 1
          BY <2>5
        <5>2. chat' = [chat EXCEPT ![r].step = "done", ![r].errors = 1, ![r].paid = due]
          BY <2>4, <3>4, <5>1
        <5> QED
          BY <5>2
      <4>2. charges' \in 0 .. Allowance
        BY <1>0, <2>4 DEF Available
      <4> HIDE DEF q
      <4> QED
        BY <3>1, <4>1, <4>2 DEF ChatStep
    <3> QED
      BY <3>2, GatewayKeeps
  <2> QED
    BY <1>7, <2>1, <2>2, <2>3, <2>4 DEF ProcessChat
<1>8. ASSUME NEW r \in Requests, ChatGetSearchData(r) PROVE GatewayInv'
  <2> DEFINE q == [chat[r] EXCEPT !.plain = TRUE]
  <2>1. q \in ChatRow /\ ChatShape(q)
    BY <1>0, <1>8 DEF ChatGetSearchData, ChatAt, ChatRow, ChatShape, ChatSteps
  <2>2. ChatStep(r, q)
    BY <1>0, <1>8, <2>1 DEF ChatGetSearchData, ChatStep, GatewayInv, Available
  <2> QED
    BY <2>2, GatewayKeeps
<1>9. ASSUME NEW r \in Requests, HandleStreamOutput(r) PROVE GatewayInv'
  <2>0. /\ chat[r].step = "stream" /\ chat[r] \in ChatRow /\ chat[r].completes = 0 /\ chat[r].errors = 0
        /\ chat[r].paid <= (IF chat[r].fellBack THEN 2 ELSE 1)
    BY <1>0, <1>9 DEF HandleStreamOutput, ChatAt, ChatShape
  <2>1. ASSUME NEW q \in ChatRow, q.step = "done", q.fellBack = chat[r].fellBack, q.paid = chat[r].paid,
               q.stream = chat[r].stream,
               <<q.completes, q.errors>> \in {<<0, 1>>, <<1, 0>>, <<1, 1>>},
               q.completes = 1 /\ q.errors = 1 => q.stream = "refusal",
               chat' = [chat EXCEPT ![r] = q]
        PROVE  GatewayInv'
    <3>2. ChatShape(q)
      BY <2>0, <2>1 DEF ChatShape
    <3>1. ChatStep(r, q)
      BY <1>0, <1>9, <2>1, <3>2 DEF HandleStreamOutput, ChatStep
    <3> QED
      BY <3>1, GatewayKeeps
  <2>2. CASE /\ chat[r].stream = "refusal"
             /\ chat' = [chat EXCEPT ![r].step = "done", ![r].errors = @ + 1, ![r].completes = @ + 1]
    <3> DEFINE q == [chat[r] EXCEPT !.step = "done", !.errors = 1, !.completes = 1]
    <3>1. /\ q \in ChatRow /\ q.step = "done" /\ q.fellBack = chat[r].fellBack /\ q.paid = chat[r].paid
          /\ q.stream = chat[r].stream /\ q.completes = 1 /\ q.errors = 1
      BY <2>0 DEF ChatRow, ChatSteps
    <3>2. chat' = [chat EXCEPT ![r] = q]
      BY <2>0, <2>2 DEF GatewayInv, ChatRow
    <3> HIDE DEF q
    <3> QED
      BY <2>1, <2>2, <3>1, <3>2
  <2>3. CASE chat' = [chat EXCEPT ![r].step = "done", ![r].completes = @ + 1]
    <3> DEFINE q == [chat[r] EXCEPT !.step = "done", !.completes = 1]
    <3>1. /\ q \in ChatRow /\ q.step = "done" /\ q.fellBack = chat[r].fellBack /\ q.paid = chat[r].paid
          /\ q.stream = chat[r].stream /\ q.completes = 1 /\ q.errors = 0
      BY <2>0 DEF ChatRow, ChatSteps
    <3>2. chat' = [chat EXCEPT ![r] = q]
      BY <2>0, <2>3 DEF GatewayInv, ChatRow
    <3> HIDE DEF q
    <3>3. <<q.completes, q.errors>> \in {<<0, 1>>, <<1, 0>>, <<1, 1>>}
      BY <3>1
    <3>4. ~(q.completes = 1 /\ q.errors = 1)
      BY <3>1
    <3> QED
      BY <2>1, <3>1, <3>2, <3>3, <3>4
  <2>4. CASE chat' = [chat EXCEPT ![r].step = "done", ![r].errors = @ + 1]
    <3> DEFINE q == [chat[r] EXCEPT !.step = "done", !.errors = 1]
    <3>1. /\ q \in ChatRow /\ q.step = "done" /\ q.fellBack = chat[r].fellBack /\ q.paid = chat[r].paid
          /\ q.stream = chat[r].stream /\ q.completes = 0 /\ q.errors = 1
      BY <2>0 DEF ChatRow, ChatSteps
    <3>2. chat' = [chat EXCEPT ![r] = q]
      BY <2>0, <2>4 DEF GatewayInv, ChatRow
    <3> HIDE DEF q
    <3>3. <<q.completes, q.errors>> \in {<<0, 1>>, <<1, 0>>, <<1, 1>>}
      BY <3>1
    <3>4. ~(q.completes = 1 /\ q.errors = 1)
      BY <3>1
    <3> QED
      BY <2>1, <3>1, <3>2, <3>3, <3>4
  <2> QED
    BY <1>9, <2>2, <2>3, <2>4 DEF HandleStreamOutput
<1>10. CASE UNCHANGED gatewayVars
  BY <1>10 DEF gatewayVars, GatewayInv
<1> QED
  BY <1>1, <1>2, <1>3, <1>4, <1>5, <1>6, <1>7, <1>8, <1>9, <1>10 DEF GatewayNext

LEMMA GatewaySafe == GatewaySpec => [](GatewayTypeOK /\ MessageEndsOnce)
<1>1. ASSUME GatewayInit PROVE GatewayInv
  BY <1>1, ChatGatewayAssumption
     DEF ChatGatewayAssumption, GatewayInit, GatewayInv, ChatRow, ChatShape, NewChat, ChatSteps, Tools
<1>2. ASSUME GatewayInv, [GatewayNext]_gatewayVars PROVE GatewayInv'
  BY <1>2, NextGatewayInv, ChatGatewayAssumption
<1>3. ASSUME GatewayInv PROVE GatewayTypeOK
  BY <1>3 DEF GatewayInv, GatewayTypeOK, ChatRow
<1>4. ASSUME GatewayInv PROVE MessageEndsOnce
  <2> SUFFICES ASSUME NEW r \in Requests
               PROVE  /\ ChatAt(r, "done") <=> chat[r].completes + chat[r].errors > 0
                      /\ chat[r].completes <= 1 /\ chat[r].errors <= 1
                      /\ (chat[r].completes + chat[r].errors = 2) => chat[r].stream = "refusal"
                      /\ chat[r].paid <= (IF chat[r].fellBack THEN 2 ELSE 1)
    BY DEF MessageEndsOnce
  <2>1. chat[r] \in ChatRow /\ ChatShape(chat[r])
    BY <1>4 DEF GatewayInv
  <2>2. PICK c, e, p \in Nat : c = chat[r].completes /\ e = chat[r].errors /\ p = chat[r].paid
    BY <2>1 DEF ChatRow
  <2> QED
    BY <2>1, <2>2 DEF ChatShape, ChatAt
<1> QED
  BY <1>1, <1>2, <1>3, <1>4, PTL DEF GatewaySpec

-----------------------------------------------------------------------------
(* What the chat knows of its user.                                          *)

TurnRow == [step : TurnSteps, prompt : SUBSET Keys, naming : BOOLEAN,
            add : SUBSET Keys, remove : SUBSET Keys, old : BOOLEAN]

\* A prompt is there only until it is answered; one that was not made before
\* the last clear shows what was learned since; a title is chosen before a
\* generation ends only as a recorded surprise.
TurnFits(q, known, named, surprise) ==
    /\ q \in TurnRow
    /\ q.prompt # {} => q.step \in {"read", "answer"}
    /\ q.prompt \subseteq known \/ q.old
    /\ named = "chosen" /\ q.naming => surprise

ContextInv ==
    /\ memory \subseteq Keys /\ learned \subseteq Keys /\ memory \subseteq learned
    /\ title \in {None, "generated", "chosen"}
    /\ surprised \in BOOLEAN
    /\ turn \in [Requests -> TurnRow]
    /\ \A r \in Requests : TurnFits(turn[r], learned, title, surprised)

\* A step of one turn that changes no title and lets nothing be forgotten.
LEMMA ContextKeeps ==
  ASSUME ContextInv, NEW r \in Requests, NEW q, TurnFits(q, learned', title', surprised'),
         turn' = [turn EXCEPT ![r] = q],
         memory' \subseteq learned', learned \subseteq learned', learned' \subseteq Keys,
         title' \in {title, "generated"}, UNCHANGED surprised
  PROVE  ContextInv'
  BY DEF ContextInv, TurnFits

LEMMA RestIsTurn ==
  ASSUME ContextInv, NEW r \in Requests, NEW step \in TurnSteps
  PROVE  /\ Rest(r, step) \in TurnRow /\ Rest(r, step).prompt = {} /\ Rest(r, step).naming = turn[r].naming
         /\ TurnFits(Rest(r, step), learned, title, surprised)
  BY DEF ContextInv, TurnFits, Rest, NoTurn, TurnRow

LEMMA StoringIsTurn ==
  ASSUME ContextInv, NEW r \in Requests, NEW add \in SUBSET Keys, NEW remove \in SUBSET Keys,
         NEW known
  PROVE  TurnFits(Storing(r, add, remove), known, title, surprised)
<1>1. Rest(r, "idle") \in TurnRow /\ Rest(r, "store") \in TurnRow
      /\ \A step \in {"idle", "store"} : Rest(r, step).prompt = {} /\ Rest(r, step).naming = turn[r].naming
  BY RestIsTurn DEF TurnSteps
<1>2. title = "chosen" /\ turn[r].naming => surprised
  BY DEF ContextInv, TurnFits
<1>3. CASE add = {} /\ remove = {}
  BY <1>1, <1>2, <1>3 DEF Storing, TurnFits
<1>4. CASE ~(add = {} /\ remove = {})
  <2> DEFINE q == [Rest(r, "store") EXCEPT !.add = add, !.remove = remove]
  <2>1. q \in TurnRow /\ q.prompt = {} /\ q.naming = turn[r].naming
    BY <1>1 DEF TurnRow
  <2>2. Storing(r, add, remove) = q
    BY <1>4 DEF Storing
  <2> HIDE DEF q
  <2> QED
    BY <1>2, <2>1, <2>2 DEF TurnFits
<1> QED
  BY <1>3, <1>4

LEMMA NextContextInv ==
  ASSUME ContextAssumption, ContextInv, [ContextNext]_contextVars PROVE ContextInv'
<1>0. /\ memory \subseteq Keys /\ learned \subseteq Keys /\ memory \subseteq learned
      /\ title \in {None, "generated", "chosen"} /\ surprised \in BOOLEAN
      /\ turn \in [Requests -> TurnRow]
      /\ \A r \in Requests : turn[r] \in TurnRow /\ TurnFits(turn[r], learned, title, surprised)
  BY DEF ContextInv
<1>1. CASE DeleteChatMemory
  <2>1. ASSUME NEW r \in Requests
        PROVE  TurnFits(turn'[r], learned', title', surprised')
    <3>0. PICK open \in BOOLEAN : open = (turn[r].step \in {"read", "answer"})
      <4>1. CASE turn[r].step \in {"read", "answer"}
        <5>1. TRUE = (turn[r].step \in {"read", "answer"})
          BY <4>1
        <5> QED
          BY <5>1, Zenon
      <4>2. CASE turn[r].step \notin {"read", "answer"}
        <5>1. FALSE = (turn[r].step \in {"read", "answer"})
          BY <4>2
        <5> QED
          BY <5>1, Zenon
      <4> QED
        BY <4>1, <4>2
    <3> DEFINE q == [turn[r] EXCEPT !.old = open]
    <3>1. turn'[r] = q
      BY <1>1, <3>0 DEF DeleteChatMemory
    <3>2. q \in TurnRow /\ q.prompt = turn[r].prompt /\ q.step = turn[r].step
          /\ q.naming = turn[r].naming /\ q.old = (turn[r].step \in {"read", "answer"})
      BY <1>0, <3>0 DEF TurnRow
    <3> HIDE DEF q
    <3> QED
      BY <1>0, <1>1, <3>1, <3>2 DEF DeleteChatMemory, TurnFits
  <2>2. \A r \in Requests : turn'[r] \in TurnRow
    BY <2>1 DEF TurnFits
  <2> QED
    BY <1>0, <1>1, <2>1, <2>2 DEF DeleteChatMemory, ContextInv
<1>2. CASE RenameChatThread
  BY <1>0, <1>2 DEF RenameChatThread, ContextInv, TurnFits
<1>3. ASSUME NEW r \in Requests, ChatGetUserMemories(r) PROVE ContextInv'
  <2> DEFINE q == [NoTurn EXCEPT !.step = "read", !.prompt = memory, !.naming = TitleMissing]
  <2>1. q \in TurnRow /\ q.prompt = memory /\ q.step = "read" /\ q.naming = (title = None)
    BY <1>0 DEF NoTurn, TurnRow, TurnSteps, TitleMissing
  <2>2. turn' = [turn EXCEPT ![r] = q] /\ UNCHANGED <<memory, title, surprised, learned>>
    BY <1>3 DEF ChatGetUserMemories
  <2> HIDE DEF q
  <2>3. TurnFits(q, learned', title', surprised')
    BY <1>0, <2>1, <2>2, ContextAssumption DEF ContextAssumption, TurnFits
  <2> QED
    BY <1>0, <2>2, <2>3, ContextKeeps
<1>4. ASSUME NEW r \in Requests, CreateUserChattingPrompt(r) PROVE ContextInv'
  <2> DEFINE q == [turn[r] EXCEPT !.step = "answer"]
  <2>1. /\ q \in TurnRow /\ q.prompt = turn[r].prompt /\ q.step = "answer"
        /\ q.naming = turn[r].naming /\ q.old = turn[r].old
    BY <1>0 DEF TurnRow, TurnSteps
  <2>2. turn' = [turn EXCEPT ![r] = q] /\ UNCHANGED <<memory, title, surprised, learned>>
    BY <1>4 DEF CreateUserChattingPrompt
  <2> HIDE DEF q
  <2>3. TurnFits(q, learned', title', surprised')
    BY <1>0, <2>1, <2>2 DEF TurnFits
  <2> QED
    BY <1>0, <2>2, <2>3, ContextKeeps
<1>5. ASSUME NEW r \in Requests, ScheduleExtraction(r) PROVE ContextInv'
  <2>1. PICK next \in {"extract", "idle"} : turn' = [turn EXCEPT ![r] = Rest(r, next)]
    BY <1>5 DEF ScheduleExtraction
  <2>2. TurnFits(Rest(r, next), learned, title, surprised)
    BY RestIsTurn DEF TurnSteps
  <2>3. TurnFits(Rest(r, next), learned', title', surprised')
    BY <1>5, <2>2 DEF ScheduleExtraction
  <2> QED
    BY <1>0, <1>5, <2>1, <2>3, ContextKeeps DEF ScheduleExtraction
<1>6. ASSUME NEW r \in Requests, ChatGetThreadTitle(r) PROVE ContextInv'
  <2> DEFINE q == [turn[r] EXCEPT !.naming = FALSE]
  <2>1. /\ q \in TurnRow /\ q.prompt = turn[r].prompt /\ q.step = turn[r].step
        /\ q.naming = FALSE /\ q.old = turn[r].old
    BY <1>0 DEF TurnRow, TurnSteps
  <2>2. /\ turn' = [turn EXCEPT ![r] = q] /\ title' \in {title, "generated"}
        /\ UNCHANGED <<memory, surprised, learned>>
    BY <1>6 DEF ChatGetThreadTitle
  <2> HIDE DEF q
  <2>3. TurnFits(q, learned', title', surprised')
    BY <1>0, <2>1, <2>2 DEF TurnFits
  <2> QED
    BY <1>0, <2>2, <2>3, ContextKeeps
<1>7. ASSUME NEW r \in Requests, ExtractAndSaveMemory(r) PROVE ContextInv'
  <2>1. PICK add, remove \in SUBSET Keys : turn' = [turn EXCEPT ![r] = Storing(r, add, remove)]
    BY <1>7 DEF ExtractAndSaveMemory
  <2>2. TurnFits(Storing(r, add, remove), learned', title, surprised)
    BY StoringIsTurn
  <2>3. title' = title /\ surprised' = surprised
    BY <1>7 DEF ExtractAndSaveMemory
  <2> QED
    BY <1>0, <1>7, <2>1, <2>2, <2>3, ContextKeeps DEF ExtractAndSaveMemory
<1>8. ASSUME NEW r \in Requests, RemoveMemories(r) PROVE ContextInv'
  <2>1. turn[r].add \in SUBSET Keys
    BY <1>0 DEF TurnRow
  <2>2. TurnFits(Storing(r, turn[r].add, {}), learned', title, surprised)
    BY <2>1, StoringIsTurn
  <2>3. title' = title /\ surprised' = surprised
    BY <1>8 DEF RemoveMemories
  <2> QED
    BY <1>0, <1>8, <2>2, <2>3, ContextKeeps DEF RemoveMemories
<1>9. ASSUME NEW r \in Requests, UpsertMemories(r) PROVE ContextInv'
  <2>1. turn[r].remove \in SUBSET Keys /\ turn[r].add \subseteq Keys
    BY <1>0 DEF TurnRow
  <2>2. TurnFits(Storing(r, {}, turn[r].remove), learned', title, surprised)
    BY <2>1, StoringIsTurn
  <2>3. title' = title /\ surprised' = surprised
    BY <1>9 DEF UpsertMemories
  <2> QED
    BY <1>0, <1>9, <2>1, <2>2, <2>3, ContextKeeps DEF UpsertMemories
<1>10. CASE UNCHANGED contextVars
  BY <1>10 DEF contextVars, ContextInv, TurnFits
<1> QED
  BY <1>1, <1>2, <1>3, <1>4, <1>5, <1>6, <1>7, <1>8, <1>9, <1>10 DEF ContextNext

LEMMA ContextSafe == ContextSpec => [](ContextTypeOK /\ ContextFollowsUser)
<1>1. ASSUME ContextInit PROVE ContextInv
  BY <1>1 DEF ContextInit, ContextInv, TurnFits, TurnRow, NoTurn, TurnSteps
<1>2. ASSUME ContextInv, [ContextNext]_contextVars PROVE ContextInv'
  BY <1>2, NextContextInv, ContextAssumption
<1>3. ASSUME ContextInv PROVE ContextTypeOK /\ ContextFollowsUser
  BY <1>3 DEF ContextInv, ContextTypeOK, ContextFollowsUser, TurnRow, TurnFits
<1> QED
  BY <1>1, <1>2, <1>3, PTL DEF ContextSpec

-----------------------------------------------------------------------------
(* The instructions of one user.                                             *)

EditRow == [step : {"idle", "create", "update", "delete"}, job : Jobs \cup {None}]

\* At most that many creations are under way at any time.
InstructionsInv ==
    /\ InstructionsTypeOK
    /\ IsFiniteSet(instructions) /\ IsFiniteSet(Creating)
    /\ Cardinality(Creating) <= atOnce
    /\ InstructionsLimited

LEMMA EditTyped ==
  ASSUME InstructionsTypeOK, NEW r \in Requests, NEW q \in EditRow, edit' = [edit EXCEPT ![r] = q]
  PROVE  /\ edit' \in [Requests -> EditRow] /\ edit'[r] = q
         /\ \A s \in Requests \ {r} : edit'[s] = edit[s]
  BY DEF InstructionsTypeOK, EditRow

\* A step of a request that does not begin or end a creation.
LEMMA CreatingStays ==
  ASSUME InstructionsTypeOK, NEW r \in Requests, NEW q \in EditRow, edit' = [edit EXCEPT ![r] = q],
         ~EditAt(r, "create"), q.step # "create"
  PROVE  Creating' = Creating
  BY EditTyped DEF Creating, EditAt

LEMMA NextInstructionsInv ==
  ASSUME InstructionsAssumption, InstructionsInv, [InstructionsNext]_instructionVars
  PROVE  InstructionsInv'
<1>0. PICK i, c, a, m \in Nat :
        /\ i = Cardinality(instructions) /\ c = Cardinality(Creating) /\ a = atOnce
        /\ m = MaxInstructions /\ m > 0
        /\ c <= a /\ i + c < m + (IF a = 0 THEN 1 ELSE a)
  BY FS_CardinalityType DEF InstructionsInv, InstructionsTypeOK, InstructionsLimited, InstructionsAssumption
<1>1. /\ InstructionsTypeOK /\ IsFiniteSet(instructions) /\ IsFiniteSet(Creating)
      /\ edit \in [Requests -> EditRow] /\ instructions \subseteq Jobs
  BY DEF InstructionsInv, InstructionsTypeOK, EditRow
<1>2. NoEdit \in EditRow /\ NoEdit.step = "idle"
  BY DEF NoEdit, EditRow
<1>3. ASSUME NEW r \in Requests, CreateChatUserInstruction(r) PROVE InstructionsInv'
  <2> DEFINE q == [edit[r] EXCEPT !.step = "create"]
  <2>1. q \in EditRow /\ q.step = "create" /\ edit' = [edit EXCEPT ![r] = q]
    BY <1>1, <1>3 DEF CreateChatUserInstruction, EditRow
  <2> HIDE DEF q
  <2>2. Creating' = Creating \cup {r} /\ r \notin Creating
    BY <1>1, <1>3, <2>1, EditTyped DEF CreateChatUserInstruction, Creating, EditAt
  <2>3. IsFiniteSet(Creating') /\ Cardinality(Creating') = c + 1
    BY <1>0, <1>1, <2>2, FS_AddElement
  <2>4. atOnce' = (IF c + 1 > a THEN c + 1 ELSE a) /\ instructions' = instructions /\ i < m
    BY <1>0, <1>3 DEF CreateChatUserInstruction
  <2>5. InstructionsTypeOK'
    BY <1>0, <1>1, <2>1, <2>4, EditTyped DEF InstructionsTypeOK, EditRow
  <2>6. Cardinality(Creating') <= atOnce' /\ i + (c + 1) < m + (IF atOnce' = 0 THEN 1 ELSE atOnce')
    BY <1>0, <2>3, <2>4
  <2> QED
    BY <1>0, <1>1, <2>3, <2>4, <2>5, <2>6 DEF InstructionsInv, InstructionsLimited
<1>4. ASSUME NEW r \in Requests, InstructionCreate(r) PROVE InstructionsInv'
  <2>1. edit' = [edit EXCEPT ![r] = NoEdit] /\ atOnce' = atOnce /\ EditAt(r, "create")
    BY <1>4 DEF InstructionCreate, EditFinish
  <2>2. PICK text \in Jobs \ instructions : instructions' = instructions \cup {text}
    BY <1>4 DEF InstructionCreate
  <2>3. Creating' = Creating \ {r} /\ r \in Creating
    BY <1>1, <1>2, <2>1, EditTyped DEF Creating, EditAt
  <2>4. IsFiniteSet(Creating') /\ Cardinality(Creating') = c - 1
    BY <1>0, <1>1, <2>3, FS_RemoveElement
  <2>5. IsFiniteSet(instructions') /\ Cardinality(instructions') = i + 1
    BY <1>0, <1>1, <2>2, FS_AddElement
  <2>6. InstructionsTypeOK'
    BY <1>1, <1>2, <2>1, <2>2, EditTyped DEF InstructionsTypeOK, EditRow
  <2> QED
    BY <1>0, <2>1, <2>4, <2>5, <2>6 DEF InstructionsInv, InstructionsLimited
<1>5. ASSUME NEW r \in Requests, NEW text \in Jobs,
             UpdateChatUserInstruction(r, text) \/ DeleteChatUserInstruction(r, text)
      PROVE  InstructionsInv'
  <2>1. PICK step \in {"update", "delete"} : edit' = [edit EXCEPT ![r] = [step |-> step, job |-> text]]
    BY <1>5 DEF UpdateChatUserInstruction, DeleteChatUserInstruction
  <2>2. ~EditAt(r, "create") /\ UNCHANGED <<instructions, atOnce>>
    BY <1>5 DEF UpdateChatUserInstruction, DeleteChatUserInstruction, EditAt
  <2> DEFINE q == [step |-> step, job |-> text]
  <2>3. q \in EditRow /\ q.step # "create"
    BY DEF EditRow
  <2>4. edit' = [edit EXCEPT ![r] = q]
    BY <2>1
  <2> HIDE DEF q
  <2>5. Creating' = Creating /\ edit' \in [Requests -> EditRow]
    BY <1>1, <2>2, <2>3, <2>4, CreatingStays, EditTyped
  <2> QED
    BY <1>0, <1>1, <2>2, <2>5 DEF InstructionsInv, InstructionsTypeOK, InstructionsLimited, EditRow
<1>6. ASSUME NEW r \in Requests, InstructionWrite(r) PROVE InstructionsInv'
  <2>1. edit' = [edit EXCEPT ![r] = NoEdit] /\ atOnce' = atOnce /\ ~EditAt(r, "create")
    BY <1>6 DEF InstructionWrite, EditFinish, EditAt
  <2>2. instructions' \subseteq instructions
    BY <1>6 DEF InstructionWrite
  <2>3. IsFiniteSet(instructions') /\ Cardinality(instructions') <= i
    BY <1>0, <1>1, <2>2, FS_Subset
  <2>4. Creating' = Creating /\ edit' \in [Requests -> EditRow]
    BY <1>1, <1>2, <2>1, CreatingStays, EditTyped
  <2>5. InstructionsTypeOK'
    BY <1>1, <2>1, <2>2, <2>4 DEF InstructionsTypeOK, EditRow
  <2>6. PICK j \in Nat : j = Cardinality(instructions') /\ j <= i
    BY <2>3, FS_CardinalityType
  <2>7. j + c < m + (IF a = 0 THEN 1 ELSE a)
    BY <1>0, <2>6
  <2> QED
    BY <1>0, <1>1, <2>1, <2>3, <2>4, <2>5, <2>6, <2>7 DEF InstructionsInv, InstructionsLimited
<1>7. CASE UNCHANGED instructionVars
  BY <1>0, <1>1, <1>7 DEF instructionVars, InstructionsInv, InstructionsTypeOK, InstructionsLimited, Creating, EditAt
<1> QED
  BY <1>3, <1>4, <1>5, <1>6, <1>7 DEF InstructionsNext

LEMMA InstructionsSafe == InstructionsSpec => [](InstructionsTypeOK /\ InstructionsLimited)
<1>1. ASSUME InstructionsInit PROVE InstructionsInv
  <2>1. instructions = {} /\ Creating = {} /\ atOnce = 0
    BY <1>1 DEF InstructionsInit, Creating, EditAt, NoEdit
  <2>2. InstructionsTypeOK
    BY <1>1 DEF InstructionsInit, InstructionsTypeOK, NoEdit
  <2> QED
    BY <2>1, <2>2, FS_EmptySet, InstructionsAssumption
       DEF InstructionsInv, InstructionsLimited, InstructionsAssumption
<1>2. ASSUME InstructionsInv, [InstructionsNext]_instructionVars PROVE InstructionsInv'
  BY <1>2, NextInstructionsInv, InstructionsAssumption
<1>3. ASSUME InstructionsInv PROVE InstructionsTypeOK /\ InstructionsLimited
  BY <1>3 DEF InstructionsInv
<1> QED
  BY <1>1, <1>2, <1>3, PTL DEF InstructionsSpec

-----------------------------------------------------------------------------
(* The loops of drafts and thoughts.                                         *)

Events == {"complexity", "batch", "complete"}

ChainRow ==
    [step : {"idle", "run", "done", "failed"}, kind : Kinds, streams : BOOLEAN,
     batches : Nat, limit : Nat, prompt : [asks : {"complexity", "improvement"}, shows : Nat] \cup {None},
     complexity : {"low", "medium", "high", "very-high"}, events : Seq(Events)]

\* A stream tells its complexity first, if at all, and its end last.
Told(e, batches, over) ==
    /\ \A i \in 2 .. Len(e) : e[i] # "complexity"
    /\ \A i \in 1 .. Len(e) : e[i] = "complete" <=> (over /\ i = Len(e))
    /\ Len(e) = batches + (IF Len(e) > 0 /\ e[1] = "complexity" THEN 1 ELSE 0) + (IF over THEN 1 ELSE 0)
    /\ batches = 0 => e = <<>>
    /\ over => Len(e) > 0

ChainShape(c) ==
    /\ c.batches <= 6 /\ c.batches <= c.limit
    /\ c.step = "run" => /\ c.batches < 6 /\ c.batches < c.limit /\ c.limit >= 2
                         /\ c.prompt \in [asks : {"complexity", "improvement"}, shows : {c.batches}]
    /\ c.streams => Told(c.events, c.batches, c.step = "done")
    /\ ~c.streams => c.events = <<>>

ReasoningInv ==
    /\ chain \in [Requests -> ChainRow]
    /\ \A r \in Requests : ChainShape(chain[r])

\* What one turn of a loop tells.
Tells(detected, goesOn) ==
    (IF detected THEN <<"complexity">> ELSE <<>>) \o <<"batch">> \o (IF goesOn THEN <<>> ELSE <<"complete">>)

LEMMA EventsJoin ==
  ASSUME NEW s \in Seq(Events), NEW t \in Seq(Events), NEW f, f = s \o t
  PROVE  /\ f \in Seq(Events) /\ Len(f) = Len(s) + Len(t)
         /\ \A i \in 1 .. Len(s) + Len(t) : f[i] = IF i <= Len(s) THEN s[i] ELSE t[i - Len(s)]
  BY ConcatProperties, Zenon

LEMMA TellsShape ==
  ASSUME NEW detected \in BOOLEAN, NEW goesOn \in BOOLEAN, NEW t, t = Tells(detected, goesOn)
  PROVE  /\ t \in Seq(Events)
         /\ Len(t) = (IF detected THEN 2 ELSE 1) + (IF goesOn THEN 0 ELSE 1)
         /\ detected => t[1] = "complexity" /\ t[2] = "batch"
         /\ ~detected => t[1] = "batch"
         /\ ~goesOn => t[Len(t)] = "complete"
<1>1. PICK a : a = IF detected THEN <<"complexity">> ELSE <<>>
  OBVIOUS
<1>2. PICK z : z = IF goesOn THEN <<>> ELSE <<"complete">>
  OBVIOUS
<1>3. PICK b : b = <<"batch">>
  OBVIOUS
<1>4. a \in Seq(Events) /\ Len(a) = (IF detected THEN 1 ELSE 0) /\ (detected => a[1] = "complexity")
  BY <1>1 DEF Events
<1>5. z \in Seq(Events) /\ Len(z) = (IF goesOn THEN 0 ELSE 1) /\ (~goesOn => z[1] = "complete")
  <2>1. CASE goesOn
    BY <1>2, <2>1, EmptySeq
  <2>2. CASE ~goesOn
    BY <1>2, <2>2 DEF Events
  <2> QED
    BY <2>1, <2>2
<1>6. b \in Seq(Events) /\ Len(b) = 1 /\ b[1] = "batch"
  BY <1>3 DEF Events
<1>7. t = (a \o b) \o z
  BY <1>1, <1>2, <1>3 DEF Tells
<1>16. PICK c : c = a \o b
  OBVIOUS
<1>8. /\ c \in Seq(Events) /\ Len(c) = Len(a) + Len(b)
      /\ \A i \in 1 .. Len(a) + Len(b) : c[i] = IF i <= Len(a) THEN a[i] ELSE b[i - Len(a)]
  BY <1>4, <1>6, <1>16, EventsJoin
<1>9. /\ Len(c) = (IF detected THEN 2 ELSE 1)
      /\ detected => c[1] = "complexity" /\ c[2] = "batch"
      /\ ~detected => c[1] = "batch"
  BY <1>4, <1>6, <1>8
<1>10. PICK n \in 1 .. 2, k \in 0 .. 1 : n = Len(c) /\ k = Len(z)
  BY <1>5, <1>9
<1>11. /\ t \in Seq(Events) /\ Len(t) = n + k
       /\ \A i \in 1 .. n + k : t[i] = IF i <= n THEN c[i] ELSE z[i - n]
  <2>1. t = c \o z
    BY <1>7, <1>16
  <2>2. /\ t \in Seq(Events) /\ Len(t) = Len(c) + Len(z)
        /\ \A i \in 1 .. Len(c) + Len(z) : t[i] = IF i <= Len(c) THEN c[i] ELSE z[i - Len(c)]
    BY <1>5, <1>8, <2>1, EventsJoin
  <2> QED
    BY <1>10, <2>2
<1>12. (k = 1 <=> ~goesOn) /\ (n = 2 <=> detected)
  BY <1>5, <1>9, <1>10
<1>13. ~goesOn => t[n + 1] = "complete"
  <2>1. t[n + 1] = z[1] \/ k = 0
    BY <1>10, <1>11
  <2> QED
    BY <1>5, <1>12, <2>1
<1>14. \A i \in 1 .. n : t[i] = c[i]
  BY <1>10, <1>11
<1>15. Len(t) = (IF detected THEN 2 ELSE 1) + (IF goesOn THEN 0 ELSE 1)
  BY <1>10, <1>11, <1>12
<1> QED
  BY <1>9, <1>10, <1>11, <1>12, <1>13, <1>14, <1>15

LEMMA ToldMore ==
  ASSUME NEW e \in Seq(Events), NEW b \in Nat, Told(e, b, FALSE),
         NEW detected \in BOOLEAN, NEW goesOn \in BOOLEAN, detected => b = 0
  PROVE  /\ e \o Tells(detected, goesOn) \in Seq(Events)
         /\ Told(e \o Tells(detected, goesOn), b + 1, ~goesOn)
<1>0. PICK t \in Seq(Events) : t = Tells(detected, goesOn)
  BY TellsShape
<1>7. PICK f : f = e \o t
  OBVIOUS
<1>1. /\ f = e \o t /\ f \in Seq(Events) /\ Len(f) = Len(e) + Len(t)
      /\ \A i \in 1 .. Len(e) + Len(t) : f[i] = IF i <= Len(e) THEN e[i] ELSE t[i - Len(e)]
  BY <1>7, EventsJoin
<1>2. PICK n \in Nat, k \in 1 .. 3 : n = Len(e) /\ k = Len(t) /\ Len(f) = n + k
        /\ k = (IF detected THEN 2 ELSE 1) + (IF goesOn THEN 0 ELSE 1)
  <2>1. Len(t) = (IF detected THEN 2 ELSE 1) + (IF goesOn THEN 0 ELSE 1)
    BY <1>0, TellsShape
  <2>2. Len(e) \in Nat
    BY LenProperties
  <2> QED
    BY <1>1, <2>1, <2>2
<1>3. /\ \A i \in 1 .. n : f[i] = e[i]
      /\ detected => f[n + 1] = "complexity" /\ f[n + 2] = "batch"
      /\ ~detected => f[n + 1] = "batch"
      /\ ~goesOn => f[n + k] = "complete"
  <2>1. /\ detected => t[1] = "complexity" /\ t[2] = "batch"
        /\ ~detected => t[1] = "batch"
        /\ ~goesOn => t[k] = "complete"
    BY <1>0, <1>2, TellsShape
  <2>2. /\ \A i \in 1 .. n : f[i] = e[i]
        /\ \A i \in 1 .. k : f[n + i] = t[i]
    BY <1>1, <1>2
  <2> QED
    BY <1>2, <2>1, <2>2
<1>4. /\ \A i \in 2 .. n : e[i] # "complexity"
      /\ \A i \in 1 .. n : e[i] # "complete"
      /\ n = b + (IF n > 0 /\ e[1] = "complexity" THEN 1 ELSE 0)
      /\ b = 0 => n = 0
  BY <1>2 DEF Told
<1>5. CASE detected
  <2>1. n = 0 /\ b = 0
    BY <1>4, <1>5
  <2>4. Told(f, b + 1, ~goesOn)
    BY <1>2, <1>3, <1>5, <2>1 DEF Told
  <2> QED
    BY <1>0, <1>1, <2>4
<1>6. CASE ~detected
  <2>1. Len(f) > 0 /\ (f[1] = "complexity" <=> (n > 0 /\ e[1] = "complexity"))
    BY <1>2, <1>3, <1>6
  <2>2. \A i \in 2 .. Len(f) : f[i] # "complexity"
    BY <1>2, <1>3, <1>4, <1>6
  <2>3. \A i \in 1 .. Len(f) : f[i] = "complete" <=> (~goesOn /\ i = Len(f))
    BY <1>2, <1>3, <1>4, <1>6
  <2>4. Told(f, b + 1, ~goesOn)
    BY <1>2, <1>4, <1>6, <2>1, <2>2, <2>3 DEF Told
  <2> QED
    BY <1>0, <1>1, <2>4
<1> QED
  BY <1>5, <1>6

LEMMA StartKeeps ==
  ASSUME ReasoningInv, NEW r \in Requests, NEW kind \in Kinds, NEW streams \in BOOLEAN,
         NEW limit \in {8, 22}, NEW prompt, prompt = [asks |-> "complexity", shows |-> 0],
         Start(r, kind, streams, limit, prompt)
  PROVE  ReasoningInv'
<1> DEFINE q == [NoChain EXCEPT !.step = "run", !.kind = kind, !.limit = limit,
                                !.streams = streams, !.prompt = prompt]
<1>1. /\ q \in ChainRow /\ q.step = "run" /\ q.batches = 0 /\ q.limit = limit /\ q.prompt = prompt
      /\ q.events = <<>> /\ q.streams = streams
  <2>1. <<>> \in Seq(Events) /\ prompt \in [asks : {"complexity", "improvement"}, shows : Nat]
    OBVIOUS
  <2>2. NoChain \in ChainRow /\ NoChain.batches = 0 /\ NoChain.events = <<>>
    BY <2>1 DEF ChainRow, NoChain, Kinds
  <2>3. /\ NoChain.step \in {"idle", "run", "done", "failed"} /\ NoChain.complexity = "low"
    BY DEF NoChain
  <2>4. limit \in Nat
    OBVIOUS
  <2> QED
    BY <2>1, <2>2, <2>3, <2>4 DEF ChainRow
<1>2. chain' = [chain EXCEPT ![r] = q]
  BY DEF Start
<1> HIDE DEF q
<1>3. ChainShape(q)
  BY <1>1 DEF ChainShape, Told
<1> QED
  BY <1>1, <1>2, <1>3 DEF ReasoningInv

LEMMA RoundKeeps ==
  ASSUME ReasoningInv, NEW r \in Requests, NEW kind, NEW response, NEW most \in Nat, NEW next,
         response.complexity \in {"low", "medium", "high", "very-high", None},
         response.complexity # None => chain[r].batches = 0 /\ most >= 2,
         response.again \in BOOLEAN, response.again => chain[r].batches < 5,
         next = [asks |-> "improvement", shows |-> chain[r].batches + 1],
         Round(r, kind, response, most, next)
  PROVE  ReasoningInv'
<1>0. PICK c \in ChainRow : c = chain[r]
  BY DEF ReasoningInv
<1>1. ChainShape(c) /\ c.step = "run" /\ c.batches \in Nat /\ c.limit \in Nat /\ c.streams \in BOOLEAN
      /\ c.events \in Seq(Events)
  BY <1>0 DEF ReasoningInv, Round, ChainRow
<1>2. PICK detected \in BOOLEAN : detected <=> response.complexity # None
  OBVIOUS
<1>3. PICK limit \in Nat : limit = IF detected THEN most ELSE c.limit
  BY <1>1
<1>4. PICK goesOn \in BOOLEAN : goesOn <=> response.again /\ c.batches + 1 < limit
  OBVIOUS
<1>5. PICK complexity \in {"low", "medium", "high", "very-high"} :
        complexity = IF detected THEN response.complexity ELSE c.complexity
  BY <1>0, <1>2 DEF ChainRow
<1>6. PICK batches \in Nat : batches = c.batches + 1
  BY <1>1
<1>7. PICK step \in {"run", "done"} : step = IF goesOn THEN "run" ELSE "done"
  OBVIOUS
<1>8. PICK prompt \in [asks : {"complexity", "improvement"}, shows : Nat] \cup {None} :
        prompt = IF goesOn THEN next ELSE c.prompt
  BY <1>0, <1>1, <1>6 DEF ChainRow
<1>9. PICK seen : seen = IF c.streams THEN c.events \o Tells(detected, goesOn) ELSE c.events
  OBVIOUS
<1> DEFINE q == [c EXCEPT !.batches = batches, !.limit = limit, !.complexity = complexity,
                          !.step = step, !.prompt = prompt, !.events = seen]
<1>10. chain' = [chain EXCEPT ![r] = q]
  BY <1>0, <1>2, <1>3, <1>4, <1>5, <1>6, <1>7, <1>8, <1>9 DEF Round, Tells
<1>11. ASSUME c.streams PROVE seen \in Seq(Events) /\ Told(seen, batches, step = "done")
  <2>1. Told(c.events, c.batches, FALSE)
    BY <1>1, <1>11 DEF ChainShape
  <2>2. detected => c.batches = 0
    BY <1>0, <1>2
  <2>3. seen \in Seq(Events) /\ Told(seen, c.batches + 1, ~goesOn)
    BY <1>1, <1>9, <1>11, <2>1, <2>2, ToldMore
  <2> QED
    BY <1>6, <1>7, <2>3
<1>12. seen \in Seq(Events)
  BY <1>1, <1>9, <1>11
<1>13. /\ q \in ChainRow /\ q.batches = batches /\ q.limit = limit /\ q.step = step /\ q.prompt = prompt
       /\ q.events = seen /\ q.streams = c.streams
  BY <1>0, <1>12 DEF ChainRow
<1> HIDE DEF q
<1>14. c.batches < 6 /\ c.batches < c.limit /\ c.limit >= 2
  BY <1>1 DEF ChainShape
<1>15. batches <= 6 /\ batches <= limit /\ limit >= 2 /\ (step = "run" => batches < 6 /\ batches < limit)
  BY <1>0, <1>1, <1>2, <1>3, <1>4, <1>6, <1>7, <1>14
<1>16. step = "run" => prompt \in [asks : {"complexity", "improvement"}, shows : {batches}]
  BY <1>0, <1>6, <1>7, <1>8
<1>17. ~c.streams => seen = <<>>
  BY <1>1, <1>9 DEF ChainShape
<1>18. ChainShape(q)
  BY <1>11, <1>13, <1>15, <1>16, <1>17 DEF ChainShape
<1> QED
  BY <1>10, <1>13, <1>18 DEF ReasoningInv

LEMMA NextReasoningInv == ASSUME ReasoningInv, [ReasoningNext]_chainVars PROVE ReasoningInv'
<1>1. ASSUME NEW r \in Requests,
             \/ ProcessChainOfDrafts(r) \/ StreamChainOfDrafts(r)
             \/ ProcessChainOfThoughts(r) \/ StreamChainOfThoughts(r)
      PROVE  ReasoningInv'
  BY <1>1, StartKeeps DEF ProcessChainOfDrafts, StreamChainOfDrafts, ProcessChainOfThoughts,
     StreamChainOfThoughts, CreateDraftPrompt, CreateThoughtPrompt, Kinds
<1>2. \A r \in Requests : chain[r].batches \in Nat
  BY DEF ReasoningInv, ChainRow
<1>3. ASSUME NEW r \in Requests, DraftTurn(r) PROVE ReasoningInv'
  <2>1. PICK response \in ParseDraftResponse(chain[r].batches) :
          Round(r, "drafts", response, GetMaxDrafts(response.complexity),
                CreateDraftPrompt(chain[r].batches + 1))
    BY <1>3 DEF DraftTurn
  <2>2. /\ response.complexity \in {"low", "medium", "high", None}
        /\ response.complexity # None => chain[r].batches = 0
        /\ response.again \in BOOLEAN /\ (response.again => chain[r].batches < 5)
    BY <1>2 DEF ParseDraftResponse
  <2>3. PICK most \in Nat : /\ response.complexity # None => most = GetMaxDrafts(response.complexity)
                            /\ most >= 2
    BY <2>2 DEF GetMaxDrafts
  <2>4. CreateDraftPrompt(chain[r].batches + 1) = [asks |-> "improvement", shows |-> chain[r].batches + 1]
    BY <1>2 DEF CreateDraftPrompt
  <2>5. Round(r, "drafts", response, most, CreateDraftPrompt(chain[r].batches + 1))
    BY <2>1, <2>3 DEF Round
  <2> QED
    BY <2>2, <2>3, <2>4, <2>5, RoundKeeps
<1>4. ASSUME NEW r \in Requests, ThoughtTurn(r) PROVE ReasoningInv'
  <2>1. PICK response \in ParseThoughtResponse(chain[r].batches) :
          Round(r, "thoughts", response, GetMaxSteps(response.complexity),
                CreateThoughtPrompt(chain[r].batches + 1))
    BY <1>4 DEF ThoughtTurn
  <2>2. /\ response.complexity \in {"low", "medium", "high", "very-high", None}
        /\ response.complexity # None => chain[r].batches = 0
        /\ response.again \in BOOLEAN /\ (response.again => chain[r].batches < 5)
    BY <1>2 DEF ParseThoughtResponse
  <2>3. PICK most \in Nat : /\ response.complexity # None => most = GetMaxSteps(response.complexity)
                            /\ most >= 2
    <3>1. \A c \in {"low", "medium", "high", "very-high"} : GetMaxSteps(c) \in Nat /\ GetMaxSteps(c) >= 2
      BY DEF GetMaxSteps
    <3>2. CASE response.complexity # None
      BY <2>2, <3>1, <3>2
    <3>3. CASE response.complexity = None
      BY <3>3
    <3> QED
      BY <3>2, <3>3
  <2>4. CreateThoughtPrompt(chain[r].batches + 1) = [asks |-> "improvement", shows |-> chain[r].batches + 1]
    BY <1>2 DEF CreateThoughtPrompt
  <2>5. Round(r, "thoughts", response, most, CreateThoughtPrompt(chain[r].batches + 1))
    BY <2>1, <2>3 DEF Round
  <2> QED
    BY <2>2, <2>3, <2>4, <2>5, RoundKeeps
<1>5. ASSUME NEW r \in Requests, ChainFails(r) PROVE ReasoningInv'
  <2> DEFINE q == [chain[r] EXCEPT !.step = "failed"]
  <2>1. chain[r] \in ChainRow /\ chain[r].step = "run" /\ ChainShape(chain[r])
    BY <1>5 DEF ReasoningInv, ChainFails
  <2>2. /\ q \in ChainRow /\ q.step = "failed" /\ q.batches = chain[r].batches /\ q.limit = chain[r].limit
        /\ q.events = chain[r].events /\ q.streams = chain[r].streams
    BY <2>1 DEF ChainRow
  <2>3. chain' = [chain EXCEPT ![r] = q]
    BY <1>5 DEF ChainFails
  <2> HIDE DEF q
  <2>4. ChainShape(q)
    BY <2>1, <2>2 DEF ChainShape
  <2> QED
    BY <2>2, <2>3, <2>4 DEF ReasoningInv
<1>6. CASE UNCHANGED chainVars
  BY <1>6 DEF chainVars, ReasoningInv
<1> QED
  BY <1>1, <1>3, <1>4, <1>5, <1>6
     DEF ReasoningNext, DraftRound, StreamDraftRound, ThoughtRound, StreamThoughtRound

LEMMA ReasoningSafe == ReasoningSpec => [](ReasoningTypeOK /\ ReasoningEnds)
<1>1. ASSUME ReasoningInit PROVE ReasoningInv
  BY <1>1 DEF ReasoningInit, ReasoningInv, NoChain, ChainRow, ChainShape, Told, Kinds
<1>2. ASSUME ReasoningInv, [ReasoningNext]_chainVars PROVE ReasoningInv'
  BY <1>2, NextReasoningInv
<1>3. ASSUME ReasoningInv PROVE ReasoningTypeOK
  BY <1>3 DEF ReasoningInv, ReasoningTypeOK, ChainRow, Events
<1>4. ASSUME ReasoningInv PROVE ReasoningEnds
  <2> SUFFICES ASSUME NEW c \in ChainRow, ChainShape(c)
               PROVE  LET Of(event) == {i \in DOMAIN c.events : c.events[i] = event}
                      IN /\ c.batches <= 6 /\ c.batches <= c.limit
                         /\ c.step = "run" => c.batches < 6 /\ c.batches < c.limit /\ c.prompt.shows = c.batches
                         /\ Of("complexity") \subseteq {1}
                         /\ Of("complete") = IF c.streams /\ c.step = "done" THEN {Len(c.events)} ELSE {}
                         /\ c.streams => Len(c.events) = c.batches + (IF 1 \in Of("complexity") THEN 1 ELSE 0)
                                                            + (IF c.step = "done" THEN 1 ELSE 0)
    BY <1>4 DEF ReasoningInv, ReasoningEnds
  <2> DEFINE Of(event) == {i \in DOMAIN c.events : c.events[i] = event}
  <2>1. c.events \in Seq(Events) /\ DOMAIN c.events = 1 .. Len(c.events) /\ Len(c.events) \in Nat
        /\ c.batches \in Nat /\ c.streams \in BOOLEAN
    BY DEF ChainRow
  <2>2. c.step = "run" => c.prompt.shows = c.batches
    BY DEF ChainShape
  <2>3. CASE ~c.streams
    BY <2>1, <2>2, <2>3 DEF ChainShape
  <2>4. CASE c.streams
    <3>1. Told(c.events, c.batches, c.step = "done")
      BY <2>4 DEF ChainShape
    <3>2. Of("complexity") \subseteq {1}
      BY <2>1, <3>1 DEF Told
    <3>3. Of("complete") = IF c.step = "done" THEN {Len(c.events)} ELSE {}
      BY <2>1, <3>1 DEF Told
    <3>4. Len(c.events) = c.batches + (IF 1 \in Of("complexity") THEN 1 ELSE 0)
                                    + (IF c.step = "done" THEN 1 ELSE 0)
      BY <2>1, <3>1 DEF Told
    <3> QED
      BY <2>2, <2>4, <3>2, <3>3, <3>4 DEF ChainShape
  <2> QED
    BY <2>3, <2>4
<1> QED
  BY <1>1, <1>2, <1>3, <1>4, PTL DEF ReasoningSpec

-----------------------------------------------------------------------------
(* Accounts and their settings.                                              *)

SettingsRow == [Fields -> 0 .. MaxValue]

AccRow == [step : AccSteps, user : Users \cup {None}, name : Usernames \cup {None},
           row : 0 .. MaxRows, value : SettingsRow, field : Fields \cup {None}]

\* What the steps need of their locals, s being the settings rows.
AccShape(q, s) ==
    /\ q \in AccRow
    /\ q.step = "idle" => q.user = None /\ q.name = None
    /\ q.step # "idle" => q.user \in Users
    /\ q.step = "register.create" => q.name \in Usernames
    /\ q.step = "settings.update" => q.field \in Fields /\ q.row \in 1 .. Len(s[q.user])

AccTyped ==
    /\ username \in [Users -> Usernames \cup {None}]
    /\ stored \subseteq Users /\ external \subseteq Users
    /\ settings \in [Users -> Seq(SettingsRow)]
    /\ \A u \in Users : Len(settings[u]) <= MaxRows
    /\ acc \in [Requests -> AccRow]
    /\ \A r \in Requests : AccShape(acc[r], settings)
    /\ changed \in [Users -> SettingsRow]
    /\ died \subseteq Users
    /\ overlapped \subseteq Users /\ clashed \subseteq Users

\* The rest is about a user whose requests did not overlap.
Sole(u) == \A q, r \in Requests : acc[q].user = u /\ acc[r].user = u => q = r

\* A request that will see to the settings.
Settling(r, u) ==
    /\ acc[r].user = u
    /\ \/ acc[r].step \in {"register.session", "settings.find", "settings.create"}
       \/ acc[r].step = "external.answer" /\ acc[r].name # None

Provided(u) ==
    Account(u) /\ u \notin died /\ settings[u] = <<>> => \E r \in Requests : Settling(r, u)

OneRow(u) ==
    /\ Len(settings[u]) <= 1
    /\ settings[u] = <<>> => changed[u] = Defaults
    /\ \A i \in DOMAIN settings[u] : settings[u][i] = changed[u]
    /\ \A r \in Requests :
         acc[r].user = u =>
           /\ AccAt(r, "settings.create") => settings[u] = <<>>
           /\ AccAt(r, "settings.update") =>
                \A f \in Fields : f # acc[r].field => acc[r].value[f] = changed[u][f]

\* Who is being registered has a name nobody else has or is choosing,
OwnName(u) ==
    \A r \in Requests :
        acc[r].user = u /\ AccAt(r, "register.create") =>
          /\ \A v \in Users : username[v] # acc[r].name
          /\ \A q \in Requests \ {r} : acc[q].name # acc[r].name

\* and who is registered a name nobody else will get.
NameKept(u) ==
    Account(u) =>
      /\ \A r \in Requests : AccAt(r, "register.create") => acc[r].name # username[u]
      /\ \A v \in Users \ {u} : username[v] # username[u]

AccInv ==
    /\ AccTyped
    /\ \A u \in Users \ overlapped :
         /\ Sole(u) /\ Provided(u) /\ OneRow(u)
         /\ u \notin clashed => OwnName(u) /\ NameKept(u)

LEMMA AccIdleShape == ASSUME AccountsAssumption, NEW s PROVE AccShape(AccIdle, s) /\ Defaults \in SettingsRow
<1>1. Defaults \in SettingsRow
  BY DEF Defaults, SettingsRow, AccountsAssumption
<1>2. 0 \in 0 .. MaxRows
  BY DEF AccountsAssumption
<1>3. AccIdle \in AccRow /\ AccIdle.step = "idle" /\ AccIdle.user = None /\ AccIdle.name = None
  BY <1>1, <1>2 DEF AccIdle, AccRow, AccSteps
<1> QED
  BY <1>1, <1>3 DEF AccShape

\* One request moves on, and rows of settings do not go away.
LEMMA AccMoves ==
  ASSUME AccTyped, NEW r \in Requests, NEW q, AccShape(q, settings'), acc' = [acc EXCEPT ![r] = q],
         \A u \in Users : Len(settings[u]) <= Len(settings'[u]),
         settings' \in [Users -> Seq(SettingsRow)]
  PROVE  /\ acc' \in [Requests -> AccRow] /\ \A s \in Requests : AccShape(acc'[s], settings')
         /\ acc'[r] = q /\ \A s \in Requests \ {r} : acc'[s] = acc[s]
<1>1. acc' \in [Requests -> AccRow] /\ acc'[r] = q /\ \A s \in Requests \ {r} : acc'[s] = acc[s]
  BY DEF AccTyped, AccShape
<1>2. ASSUME NEW s \in Requests, s # r PROVE AccShape(acc[s], settings')
  <2>1. AccShape(acc[s], settings)
    BY DEF AccTyped
  <2>2. CASE acc[s].step = "settings.update"
    <3>1. PICK u \in Users : u = acc[s].user
      BY <2>1, <2>2 DEF AccShape
    <3>2. Len(settings[u]) \in Nat /\ Len(settings'[u]) \in Nat /\ Len(settings[u]) <= Len(settings'[u])
      BY DEF AccTyped
    <3> QED
      BY <2>1, <2>2, <3>1, <3>2 DEF AccShape
  <2>3. CASE acc[s].step # "settings.update"
    BY <2>1, <2>3 DEF AccShape
  <2> QED
    BY <2>2, <2>3
<1> QED
  BY <1>1, <1>2

\* A request begins: what it meets overlaps.
Begins(r, u, q) ==
    /\ acc[r].step = "idle" /\ acc' = [acc EXCEPT ![r] = q]
    /\ q.user = u /\ AccShape(q, settings)
    /\ q.step \in {"register.create", "external.create", "external.answer", "external.store",
                   "settings.find", "settings.update"}
    /\ q.step # "register.create" => q.name = None
    /\ q.step = "register.create" => \A v \in Users : username[v] # q.name
    /\ q.step = "settings.update" =>
         \E i \in DOMAIN settings[u] :
           \A f \in Fields : f # q.field => q.value[f] = settings[u][i][f]
    /\ overlapped \subseteq overlapped' /\ overlapped' \subseteq Users
    /\ \A s \in Requests :
         acc[s].user = u \/ (q.name # None /\ acc[s].name = q.name) => {u, acc[s].user} \subseteq overlapped'
    /\ UNCHANGED <<username, external, stored, settings, changed, died, clashed>>

LEMMA BeginsIt ==
  ASSUME AccountsAssumption, AccTyped, NEW r \in Requests, NEW u \in Users, NEW step, NEW name,
         step \in {"register.create", "external.create", "external.answer", "external.store", "settings.find"},
         IF step = "register.create" THEN name \in Usernames /\ \A v \in Users : username[v] # name
         ELSE name = None,
         Begin(r, u, step, name), UNCHANGED <<username, external, stored, settings, changed, died, clashed>>
  PROVE  \E q : Begins(r, u, q)
<1> DEFINE q == [AccIdle EXCEPT !.step = step, !.user = u, !.name = name]
           met == {s \in Requests : acc[s].user = u \/ (name # None /\ acc[s].name = name)}
<1>1. AccIdle \in AccRow
  BY AccIdleShape DEF AccShape
<1>2. /\ q \in AccRow /\ q.step = step /\ q.user = u /\ q.name = name
  BY <1>1 DEF AccRow, AccSteps, CreateSteps
<1>3. /\ acc[r].step = "idle" /\ acc' = [acc EXCEPT ![r] = q]
      /\ overlapped' = IF met = {} THEN overlapped ELSE overlapped \cup {u} \cup {acc[s].user : s \in met}
  BY DEF Begin, AccAt
<1> HIDE DEF q
<1>4. \A s \in met : acc[s].user \in Users
  <2> SUFFICES ASSUME NEW s \in met PROVE acc[s].user \in Users
    OBVIOUS
  <2>1. AccShape(acc[s], settings) /\ (acc[s].user = u \/ (name # None /\ acc[s].name = name))
    BY DEF AccTyped
  <2> QED
    BY <2>1 DEF AccShape
<1>5. overlapped \subseteq overlapped' /\ overlapped' \subseteq Users
  BY <1>3, <1>4 DEF AccTyped
<1>6. AccShape(q, settings)
  BY <1>2 DEF AccShape
<1>7. \A s \in Requests :
        acc[s].user = u \/ (q.name # None /\ acc[s].name = q.name) => {u, acc[s].user} \subseteq overlapped'
  <2> SUFFICES ASSUME NEW s \in met PROVE u \in overlapped' /\ acc[s].user \in overlapped'
    BY <1>2
  <2> QED
    BY <1>3
<1>8. Begins(r, u, q)
  BY <1>2, <1>3, <1>5, <1>6, <1>7 DEF Begins
<1> QED
  BY <1>8

LEMMA BeginsKeeps ==
  ASSUME AccountsAssumption, AccInv, NEW r \in Requests, NEW u \in Users, NEW q, Begins(r, u, q)
  PROVE  AccInv'
<1>0. AccTyped /\ AccShape(q, settings) /\ settings' = settings /\ None \notin Users
  BY DEF AccInv, Begins, AccountsAssumption
<1>1. /\ acc' \in [Requests -> AccRow] /\ \A s \in Requests : AccShape(acc'[s], settings')
      /\ acc'[r] = q /\ \A s \in Requests \ {r} : acc'[s] = acc[s]
  <2>1. \A v \in Users : Len(settings[v]) \in Nat
    BY <1>0 DEF AccTyped
  <2>2. \A v \in Users : Len(settings[v]) <= Len(settings'[v])
    BY <1>0, <2>1
  <2>3. settings' \in [Users -> Seq(SettingsRow)] /\ acc' = [acc EXCEPT ![r] = q]
    BY <1>0 DEF AccTyped, Begins
  <2> QED
    BY <1>0, <2>2, <2>3, AccMoves
<1>2. AccTyped'
  BY <1>0, <1>1 DEF AccTyped, Begins
<1>3. acc[r].user = None /\ acc[r].name = None /\ acc[r].step = "idle"
  BY <1>0 DEF AccTyped, AccShape, Begins
<1>4. ASSUME NEW w \in Users \ overlapped'
      PROVE  /\ Sole(w)' /\ Provided(w)' /\ OneRow(w)'
             /\ w \notin clashed' => OwnName(w)' /\ NameKept(w)'
  <2>1. /\ w \in Users \ overlapped /\ Sole(w) /\ Provided(w) /\ OneRow(w) /\ clashed' = clashed
        /\ w \notin clashed => OwnName(w) /\ NameKept(w)
    BY <1>4 DEF AccInv, Begins
  <2>2. /\ UNCHANGED <<username, settings, changed, died>> /\ q.user = u
        /\ w = u => \A s \in Requests : acc[s].user # u /\ (q.name # None => acc[s].name # q.name)
        /\ \A s \in Requests : acc[s].user = w => acc[s].user # u /\ (q.name # None => acc[s].name # q.name)
    BY <1>4 DEF Begins
  <2>3. Sole(w)'
    BY <1>1, <2>1, <2>2 DEF Sole
  <2>4. Provided(w)'
    <3>1. CASE w = u
      BY <2>1, <2>2, <3>1 DEF Provided, Settling, Account
    <3>2. CASE w # u
      <4>1. ASSUME NEW s \in Requests, Settling(s, w) PROVE Settling(s, w)'
        BY <1>0, <1>1, <1>3, <4>1 DEF Settling
      <4> QED
        BY <2>1, <2>2, <4>1 DEF Provided, Account
    <3> QED
      BY <3>1, <3>2
  <2>5. OneRow(w)'
    <3>1. ASSUME NEW s \in Requests, acc'[s].user = w
          PROVE  /\ acc'[s].step = "settings.create" => settings[w] = <<>>
                 /\ acc'[s].step = "settings.update" =>
                      \A f \in Fields : f # acc'[s].field => acc'[s].value[f] = changed[w][f]
      <4>1. CASE s # r
        BY <1>1, <2>1, <3>1, <4>1 DEF OneRow, AccAt
      <4>2. CASE s = r
        <5>1. w = u /\ acc'[s] = q
          BY <1>1, <2>2, <3>1, <4>2
        <5>2. \A i \in DOMAIN settings[u] : settings[u][i] = changed[u]
          BY <2>1, <5>1 DEF OneRow
        <5>3. q.step = "settings.update" => \A f \in Fields : f # q.field => q.value[f] = changed[u][f]
          BY <5>2 DEF Begins
        <5> QED
          BY <5>1, <5>3 DEF Begins
      <4> QED
        BY <4>1, <4>2
    <3> QED
      BY <2>1, <2>2, <3>1 DEF OneRow, AccAt
  <2>6. ASSUME w \notin clashed PROVE OwnName(w)'
    <3> SUFFICES ASSUME NEW s \in Requests, acc'[s].user = w, acc'[s].step = "register.create"
                 PROVE  /\ \A v \in Users : username[v] # acc'[s].name
                        /\ \A p \in Requests \ {s} : acc'[p].name # acc'[s].name
      BY <2>2 DEF OwnName, AccAt
    <3>1. acc'[s].name \in Usernames /\ acc'[s].name # None
      BY <1>1, AccountsAssumption DEF AccShape, AccountsAssumption
    <3>2. CASE s # r
      <4>1. acc'[s] = acc[s] /\ acc'[r] = q
        BY <1>1, <3>2
      <4>2. /\ \A v \in Users : username[v] # acc[s].name
            /\ \A p \in Requests \ {s} : acc[p].name # acc[s].name
        BY <2>1, <2>6, <4>1 DEF OwnName, AccAt
      <4>3. q.name # acc[s].name
        BY <2>2, <3>1, <4>1
      <4> QED
        BY <1>1, <4>1, <4>2, <4>3
    <3>3. CASE s = r
      <4>1. w = u /\ acc'[s] = q
        BY <1>1, <2>2, <3>3
      <4>2. \A v \in Users : username[v] # q.name
        BY <4>1 DEF Begins
      <4>3. \A p \in Requests \ {s} : acc'[p].name # q.name
        BY <1>1, <2>2, <3>1, <3>3, <4>1
      <4> QED
        BY <4>1, <4>2, <4>3
    <3> QED
      BY <3>2, <3>3
  <2>7. ASSUME w \notin clashed PROVE NameKept(w)'
    <3>1. ASSUME NEW s \in Requests, acc'[s].step = "register.create", Account(w)
          PROVE  acc'[s].name # username[w]
      <4>1. CASE s # r
        BY <1>1, <2>1, <2>7, <3>1, <4>1 DEF NameKept, AccAt
      <4>2. CASE s = r
        BY <1>1, <3>1, <4>2 DEF Begins
      <4> QED
        BY <4>1, <4>2
    <3> QED
      BY <2>1, <2>2, <2>7, <3>1 DEF NameKept, AccAt, Account
  <2> QED
    BY <2>1, <2>3, <2>4, <2>5, <2>6, <2>7
<1> QED
  BY <1>2, <1>4 DEF AccInv

\* An external user gets a name; whoever has it or is registering with it clashes.
GivesName(r, q) ==
    /\ q.name \in Usernames
    /\ username' = [username EXCEPT ![acc[r].user] = q.name]
    /\ clashed \subseteq clashed' /\ clashed' \subseteq Users
    /\ \A v \in Users : username[v] = q.name => {v, acc[r].user} \subseteq clashed'
    /\ \A s \in Requests :
         acc[s].step = "register.create" /\ acc[s].name = q.name
         => {acc[s].user, acc[r].user} \subseteq clashed'

\* A request goes on to its next step or ends; it may be given its name.
Goes(r, q) ==
    /\ acc[r].step # "idle" /\ acc' = [acc EXCEPT ![r] = q]
    /\ AccShape(q, settings') /\ q.user \in {acc[r].user, None}
    /\ q.step # "register.create"
    /\ q.name \in {acc[r].name, None} \/ GivesName(r, q)
    /\ \/ username' = username /\ clashed' = clashed
       \/ /\ acc[r].step = "register.create" /\ clashed' = clashed
          /\ username' = [username EXCEPT ![acc[r].user] = acc[r].name]
       \/ GivesName(r, q)
    /\ settings' \in [Users -> Seq(SettingsRow)]
    /\ \A u \in Users : Len(settings[u]) <= Len(settings'[u]) /\ Len(settings'[u]) <= MaxRows
    /\ changed' \in [Users -> SettingsRow]
    /\ \A u \in Users \ {acc[r].user} : settings'[u] = settings[u] /\ changed'[u] = changed[u]
    /\ died' \in {died, died \cup {acc[r].user}}
    /\ stored' \subseteq Users
    /\ UNCHANGED <<external, overlapped>>

LEMMA GoesTyped ==
  ASSUME AccTyped, NEW r \in Requests, NEW q, Goes(r, q)
  PROVE  /\ AccTyped' /\ acc[r].user \in Users
         /\ acc'[r] = q /\ \A s \in Requests \ {r} : acc'[s] = acc[s]
<1>1. /\ acc' \in [Requests -> AccRow] /\ \A s \in Requests : AccShape(acc'[s], settings')
      /\ acc'[r] = q /\ \A s \in Requests \ {r} : acc'[s] = acc[s]
  BY AccMoves DEF Goes
<1>2. PICK u \in Users : u = acc[r].user
  BY DEF AccTyped, AccShape, Goes
<1>3. username' \in [Users -> Usernames \cup {None}] /\ clashed' \subseteq Users
  <2>1. acc[r].step = "register.create" => acc[r].name \in Usernames
    BY DEF AccTyped, AccShape
  <2> QED
    BY <1>2, <2>1 DEF AccTyped, Goes, GivesName
<1> QED
  BY <1>1, <1>2, <1>3 DEF AccTyped, Goes

\* What concerns requests and names holds on, whoever's they are.
LEMMA GoesSole ==
  ASSUME AccountsAssumption, AccInv, NEW r \in Requests, NEW q, Goes(r, q),
         NEW w \in Users \ overlapped
  PROVE  Sole(w)'
<1>1. /\ AccTyped /\ Sole(w) /\ None \notin Users
  BY DEF AccInv, AccountsAssumption
<1>2. acc'[r] = q /\ \A s \in Requests \ {r} : acc'[s] = acc[s]
  BY <1>1, GoesTyped
<1>3. q.user \in {acc[r].user, None}
  BY DEF Goes
<1> QED
  BY <1>1, <1>2, <1>3 DEF Sole

LEMMA GoesNames ==
  ASSUME AccountsAssumption, AccInv, NEW r \in Requests, NEW q, Goes(r, q),
         NEW w \in Users \ overlapped, w \notin clashed'
  PROVE  OwnName(w)' /\ NameKept(w)'
<1>0. /\ AccTyped /\ None \notin Users /\ None \notin Usernames
      /\ clashed \subseteq clashed' /\ OwnName(w) /\ NameKept(w)
  BY DEF AccInv, AccountsAssumption, Goes, GivesName
<1>1. PICK u \in Users : /\ u = acc[r].user
                         /\ acc'[r] = q /\ \A s \in Requests \ {r} : acc'[s] = acc[s]
  BY <1>0, GoesTyped
<1>2. \A s \in Requests : acc[s].step = "register.create" => acc[s].name \in Usernames
  BY <1>0 DEF AccTyped, AccShape
<1>3. q.step # "register.create"
  BY DEF Goes
<1>4. \A v \in Users \ {u} : username'[v] = username[v]
  BY <1>0, <1>1 DEF AccTyped, Goes, GivesName
\* The name that is new to its user, if any, is neither held nor being chosen.
<1>5. PICK n : /\ username' = username \/ (username'[u] = n /\ n \in Usernames)
               /\ username' # username /\ u = w =>
                    /\ \A v \in Users : username[v] # n
                    /\ \A s \in Requests \ {r} : acc[s].step = "register.create" => acc[s].name # n
               /\ username' # username => username[w] # n
  <2>1. CASE username' = username
    BY <2>1
  <2>2. CASE GivesName(r, q)
    <3>1. username'[u] = q.name /\ q.name \in Usernames
      BY <1>0, <1>1, <2>2 DEF GivesName, AccTyped
    <3>2. username[w] # q.name
      BY <2>2 DEF GivesName
    <3>3. u = w => /\ \A v \in Users : username[v] # q.name
                   /\ \A s \in Requests \ {r} : acc[s].step = "register.create" => acc[s].name # q.name
      BY <1>1, <2>2 DEF GivesName
    <3> QED
      BY <3>1, <3>2, <3>3
  <2>3. CASE acc[r].step = "register.create" /\ username' = [username EXCEPT ![acc[r].user] = acc[r].name]
    <3>1. username'[u] = acc[r].name /\ acc[r].name \in Usernames
      BY <1>0, <1>1, <1>2, <2>3 DEF AccTyped
    <3>2. u = w => /\ \A v \in Users : username[v] # acc[r].name
                   /\ \A s \in Requests \ {r} : acc[s].name # acc[r].name
      BY <1>0, <1>1, <2>3 DEF OwnName, AccAt
    <3>3. username[w] # acc[r].name
      BY <1>0, <2>3, <3>1 DEF NameKept, Account, AccAt
    <3> QED
      BY <3>1, <3>2, <3>3
  <2> QED
    BY <2>1, <2>2, <2>3 DEF Goes
<1>6. OwnName(w)'
  <2> SUFFICES ASSUME NEW s \in Requests, acc'[s].user = w, acc'[s].step = "register.create"
               PROVE  /\ \A v \in Users : username'[v] # acc'[s].name
                      /\ \A p \in Requests \ {s} : acc'[p].name # acc'[s].name
    BY DEF OwnName, AccAt
  <2>1. s # r /\ acc'[s] = acc[s]
    BY <1>1, <1>3
  <2>2. /\ \A v \in Users : username[v] # acc[s].name
        /\ \A p \in Requests \ {s} : acc[p].name # acc[s].name
        /\ acc[s].name \in Usernames
    BY <1>0, <1>2, <2>1 DEF OwnName, AccAt
  <2>3. q.name # acc[s].name
    <3>1. CASE GivesName(r, q)
      BY <2>1, <3>1 DEF GivesName
    <3>2. CASE q.name \in {acc[r].name, None}
      BY <1>0, <2>1, <2>2, <3>2
    <3> QED
      BY <3>1, <3>2 DEF Goes
  <2>4. username'[u] # acc[s].name
    <3>1. CASE username' = username
      BY <2>2, <3>1
    <3>2. CASE GivesName(r, q)
      <4>1. username'[u] = q.name
        BY <1>0, <1>1, <3>2 DEF GivesName, AccTyped
      <4> QED
        BY <2>3, <4>1
    <3>3. CASE username' = [username EXCEPT ![acc[r].user] = acc[r].name]
      <4>1. username'[u] = acc[r].name
        BY <1>0, <1>1, <3>3 DEF AccTyped
      <4> QED
        BY <2>1, <2>2, <4>1
    <3> QED
      BY <3>1, <3>2, <3>3 DEF Goes
  <2> QED
    BY <1>1, <1>4, <2>1, <2>2, <2>3, <2>4
<1>7. NameKept(w)'
  <2>1. CASE w # u \/ username' = username
    <3>1. username'[w] = username[w]
      BY <1>4, <2>1
    <3>2. ASSUME Account(w)
          PROVE  /\ \A s \in Requests : acc'[s].step = "register.create" => acc'[s].name # username[w]
                 /\ \A v \in Users \ {w} : username'[v] # username[w]
      <4>1. /\ \A s \in Requests : acc[s].step = "register.create" => acc[s].name # username[w]
            /\ \A v \in Users \ {w} : username[v] # username[w]
        BY <1>0, <3>2 DEF NameKept, AccAt
      <4>2. \A s \in Requests : acc'[s].step = "register.create" => acc'[s].name # username[w]
        BY <1>1, <1>3, <4>1
      <4>3. CASE username' = username
        BY <4>1, <4>2, <4>3
      <4>4. CASE username' # username
        <5>1. username'[u] = n /\ w # u /\ n # username[w]
          BY <1>5, <2>1, <4>4
        <5> QED
          BY <1>4, <4>1, <4>2, <5>1
      <4> QED
        BY <4>3, <4>4
    <3> QED
      BY <3>1, <3>2 DEF NameKept, AccAt, Account
  <2>2. CASE w = u /\ username' # username
    <3>1. /\ username'[w] = n /\ \A v \in Users : username[v] # n
          /\ \A s \in Requests \ {r} : acc[s].step = "register.create" => acc[s].name # n
      BY <1>5, <2>2
    <3>2. ASSUME NEW s \in Requests, acc'[s].step = "register.create" PROVE acc'[s].name # n
      <4>1. s # r /\ acc'[s] = acc[s]
        BY <1>1, <1>3, <3>2
      <4> QED
        BY <3>1, <3>2, <4>1
    <3>3. \A v \in Users \ {w} : username'[v] # n
      BY <1>4, <2>2, <3>1
    <3> QED
      BY <3>1, <3>2, <3>3 DEF NameKept, AccAt
  <2> QED
    BY <2>1, <2>2
<1> QED
  BY <1>6, <1>7

\* The settings of others are left alone, and what remains is the request's user.
LEMMA GoesKeeps ==
  ASSUME AccountsAssumption, AccInv, NEW r \in Requests, NEW q, Goes(r, q),
         NEW u \in Users, u = acc[r].user,
         u \notin overlapped => Provided(u)' /\ OneRow(u)'
  PROVE  AccInv'
<1>0. /\ AccTyped /\ AccTyped'
      /\ acc'[r] = q /\ \A s \in Requests \ {r} : acc'[s] = acc[s]
  BY GoesTyped DEF AccInv
<1>1. u = acc[r].user
  OBVIOUS
<1>2. u \notin overlapped => Provided(u)' /\ OneRow(u)'
  OBVIOUS
<1>3. ASSUME NEW w \in Users \ overlapped, w # u PROVE Provided(w)' /\ OneRow(w)'
  <2>1. /\ Provided(w) /\ OneRow(w) /\ settings'[w] = settings[w] /\ changed'[w] = changed[w]
        /\ w \in died' <=> w \in died
    BY <1>1, <1>3 DEF AccInv, Goes
  <2>2. username'[w] = username[w]
    BY <1>0, <1>1, <1>3 DEF Goes, AccTyped, GivesName
  <2>3. \A s \in Requests : acc[s].user = w \/ acc'[s].user = w => acc'[s] = acc[s]
    <3>1. None \notin Users /\ q.user \in {u, None}
      BY <1>1 DEF Goes, AccountsAssumption
    <3> QED
      BY <1>0, <1>1, <1>3, <3>1
  <2>4. Provided(w)'
    BY <2>1, <2>2, <2>3 DEF Provided, Settling, Account
  <2>5. OneRow(w)'
    BY <2>1, <2>3 DEF OneRow, AccAt
  <2> QED
    BY <2>4, <2>5
<1>4. \A w \in Users \ overlapped :
        Sole(w)' /\ (w \notin clashed' => OwnName(w)' /\ NameKept(w)')
  BY GoesSole, GoesNames
<1>5. overlapped' = overlapped
  BY DEF Goes
<1> QED
  BY <1>0, <1>2, <1>3, <1>4, <1>5 DEF AccInv


\* A step that leaves the settings as they are.
LEMMA GoesOn ==
  ASSUME AccTyped, NEW r \in Requests, NEW q, acc[r].step # "idle", acc' = [acc EXCEPT ![r] = q],
         AccShape(q, settings), q.user \in {acc[r].user, None}, q.step # "register.create",
         q.name \in {acc[r].name, None} \/ GivesName(r, q),
         \/ username' = username /\ clashed' = clashed
         \/ /\ acc[r].step = "register.create" /\ clashed' = clashed
            /\ username' = [username EXCEPT ![acc[r].user] = acc[r].name]
         \/ GivesName(r, q),
         died' \in {died, died \cup {acc[r].user}}, stored' \subseteq Users,
         UNCHANGED <<external, overlapped, settings, changed>>
  PROVE  Goes(r, q)
<1>1. settings' = settings /\ changed' = changed /\ external' = external /\ overlapped' = overlapped
  OBVIOUS
<1>2. \A u \in Users : Len(settings[u]) \in Nat /\ Len(settings[u]) <= MaxRows
  BY DEF AccTyped
<1>3. \A u \in Users : Len(settings[u]) <= Len(settings'[u]) /\ Len(settings'[u]) <= MaxRows
  BY <1>1, <1>2
<1>4. settings' \in [Users -> Seq(SettingsRow)] /\ changed' \in [Users -> SettingsRow]
  BY <1>1 DEF AccTyped
<1> QED
  BY <1>1, <1>3, <1>4 DEF Goes

\* Such a step keeps the user's settings seen to, if it goes on to see to them
\* or never did.
LEMMA OwnKept ==
  ASSUME AccountsAssumption, AccInv, NEW r \in Requests, NEW q, Goes(r, q),
         NEW u \in Users, u = acc[r].user, u \notin overlapped,
         settings' = settings, changed' = changed,
         q.step \notin {"settings.create", "settings.update"},
         \/ Settling(r, u)'
         \/ u \in died'
         \/ settings[u] # <<>>
         \/ ~Settling(r, u) /\ username' = username /\ died' = died
  PROVE  Provided(u)' /\ OneRow(u)'
<1>0. /\ Sole(u) /\ Provided(u) /\ OneRow(u)
      /\ acc'[r] = q /\ \A s \in Requests \ {r} : acc'[s] = acc[s]
  BY GoesTyped DEF AccInv
<1>1. Provided(u)'
  <2>1. CASE Settling(r, u)' \/ u \in died' \/ settings[u] # <<>>
    BY <2>1 DEF Provided
  <2>2. CASE ~Settling(r, u) /\ username' = username /\ died' = died
    <3>1. ~(Account(u) /\ u \notin died /\ settings[u] = <<>>)
      BY <1>0, <2>2 DEF Provided, Sole, Settling
    <3> QED
      BY <2>2, <3>1 DEF Provided, Account
  <2> QED
    BY <2>1, <2>2
<1>2. \A s \in Requests : acc'[s].user = u => s = r \/ acc'[s] = acc[s]
  BY <1>0
<1>3. OneRow(u)'
  BY <1>0, <1>2 DEF OneRow, AccAt
<1> QED
  BY <1>1, <1>3

\* One step of a request whose user's settings it does not write.
LEMMA StepKeeps ==
  ASSUME AccountsAssumption, AccInv, NEW r \in Requests, NEW q, acc[r].step # "idle",
         acc' = [acc EXCEPT ![r] = q],
         AccShape(q, settings), q.user \in {acc[r].user, None},
         q.step \notin {"register.create", "settings.create", "settings.update"},
         q.name \in {acc[r].name, None} \/ GivesName(r, q),
         \/ username' = username /\ clashed' = clashed
         \/ /\ acc[r].step = "register.create" /\ clashed' = clashed
            /\ username' = [username EXCEPT ![acc[r].user] = acc[r].name]
         \/ GivesName(r, q),
         died' \in {died, died \cup {acc[r].user}}, stored' \subseteq Users,
         UNCHANGED <<external, overlapped, settings, changed>>,
         NEW u \in Users, u = acc[r].user,
         \/ Settling(r, u)'
         \/ u \in died'
         \/ settings[u] # <<>>
         \/ ~Settling(r, u) /\ username' = username /\ died' = died
  PROVE  AccInv'
<1>1. Goes(r, q)
  <2>1. AccTyped
    BY DEF AccInv
  <2> QED
    BY <2>1, GoesOn
<1>2. settings' = settings /\ changed' = changed /\ q.step \notin {"settings.create", "settings.update"}
  OBVIOUS
<1>3. u \notin overlapped => Provided(u)' /\ OneRow(u)'
  BY <1>1, <1>2, OwnKept
<1> QED
  BY <1>1, <1>3, GoesKeeps

\* What a request may become: it ends, or takes a step that reads nothing.
LEMMA NextShape ==
  ASSUME AccountsAssumption, AccTyped, NEW r \in Requests, acc[r].step # "idle"
  PROVE  /\ acc[r].user \in Users /\ AccShape(acc[r], settings)
         /\ AccShape(AccIdle, settings) /\ AccIdle.step = "idle" /\ AccIdle.user = None /\ AccIdle.name = None
         /\ \A st \in {"register.session", "settings.find", "settings.create", "external.answer"} :
              LET q == [acc[r] EXCEPT !.step = st]
              IN AccShape(q, settings) /\ q.step = st /\ q.user = acc[r].user /\ q.name = acc[r].name
<1>1. acc[r] \in AccRow /\ acc[r].user \in Users /\ AccShape(acc[r], settings)
  BY DEF AccTyped, AccShape
<1>2. AccShape(AccIdle, settings) /\ AccIdle.step = "idle" /\ AccIdle.user = None /\ AccIdle.name = None
  BY AccIdleShape DEF AccIdle
<1>3. ASSUME NEW st \in {"register.session", "settings.find", "settings.create", "external.answer"}
      PROVE  LET q == [acc[r] EXCEPT !.step = st]
             IN AccShape(q, settings) /\ q.step = st /\ q.user = acc[r].user /\ q.name = acc[r].name
  <2> DEFINE q == [acc[r] EXCEPT !.step = st]
  <2>1. q \in AccRow /\ q.step = st /\ q.user = acc[r].user /\ q.name = acc[r].name
    BY <1>1 DEF AccRow, AccSteps, CreateSteps
  <2> HIDE DEF q
  <2>2. AccShape(q, settings)
    BY <1>1, <2>1 DEF AccShape
  <2> QED
    BY <2>1, <2>2 DEF q
<1> QED
  BY <1>1, <1>2, <1>3

Named(r, name) == [acc[r] EXCEPT !.step = "external.answer", !.name = name]

LEMMA NameShape ==
  ASSUME AccTyped, NEW r \in Requests, acc[r].step # "idle", NEW name \in Usernames
  PROVE  /\ AccShape(Named(r, name), settings) /\ Named(r, name).step = "external.answer"
         /\ Named(r, name).user = acc[r].user /\ Named(r, name).name = name
<1>1. acc[r] \in AccRow /\ acc[r].user \in Users /\ AccShape(acc[r], settings)
  BY DEF AccTyped, AccShape
<1>2. /\ Named(r, name) \in AccRow /\ Named(r, name).step = "external.answer"
      /\ Named(r, name).user = acc[r].user /\ Named(r, name).name = name
  BY <1>1 DEF Named, AccRow, AccSteps, CreateSteps
<1>3. AccShape(Named(r, name), settings)
  BY <1>1, <1>2 DEF AccShape
<1> QED
  BY <1>2, <1>3


LEMMA RegisterAccInv ==
  ASSUME AccountsAssumption, AccInv, NEW r \in Requests,
         \/ RegisterCreate(r) \/ RegisterSession(r)
         \/ ExternalCreate(r) \/ ExternalAnswer(r) \/ ExternalStore(r)
  PROVE  AccInv'
<1>0. AccTyped /\ acc[r].step # "idle"
  BY DEF AccInv, RegisterCreate, RegisterSession, ExternalCreate, ExternalAnswer, ExternalStore, AccAt
<1>1. /\ acc[r].user \in Users /\ AccShape(acc[r], settings)
      /\ AccShape(AccIdle, settings) /\ AccIdle.step = "idle" /\ AccIdle.user = None /\ AccIdle.name = None
  BY <1>0, NextShape
<1>2. PICK u \in Users : u = acc[r].user
  BY <1>1
<1>3. AccTyped /\ stored \subseteq Users /\ None \notin Users
      /\ \A q : acc' = [acc EXCEPT ![r] = q] => acc'[r] = q
  BY <1>0, AccountsAssumption DEF AccTyped, AccountsAssumption
<1>4. ASSUME NEW st \in {"register.session", "settings.find", "settings.create", "external.answer"}
      PROVE  \E q : /\ q = [acc[r] EXCEPT !.step = st]
                    /\ AccShape(q, settings) /\ q.step = st /\ q.user = acc[r].user /\ q.name = acc[r].name
  BY <1>0, NextShape
<1>5. CASE RegisterCreate(r)
  <2>1. /\ acc[r].step = "register.create" /\ ~Settling(r, u)
        /\ died' = died /\ stored' = stored /\ UNCHANGED <<external, overlapped, settings, changed, clashed>>
    BY <1>5 DEF RegisterCreate, AccAt, Settling
  <2>2. CASE Go(r, "register.session") /\ username' = [username EXCEPT ![acc[r].user] = acc[r].name]
    <3>1. PICK q : /\ q = [acc[r] EXCEPT !.step = "register.session"]
                   /\ AccShape(q, settings) /\ q.step = "register.session" /\ q.user = acc[r].user
                   /\ q.name = acc[r].name
      BY <1>4
    <3>2. acc' = [acc EXCEPT ![r] = q] /\ acc'[r] = q
      BY <1>3, <2>2, <3>1 DEF Go
    <3>3. Settling(r, u)'
      BY <1>2, <3>1, <3>2 DEF Settling
    <3> QED
      BY <1>0, <1>2, <1>3, <2>1, <2>2, <3>1, <3>2, <3>3, StepKeeps
  <2>3. CASE AccFinish(r) /\ username' = username
    <3>1. acc' = [acc EXCEPT ![r] = AccIdle]
      BY <2>3 DEF AccFinish
    <3> QED
      BY <1>0, <1>1, <1>2, <1>3, <2>1, <2>3, <3>1, StepKeeps
  <2> QED
    BY <1>5, <2>2, <2>3 DEF RegisterCreate
<1>6. CASE RegisterSession(r)
  <2>1. /\ stored' = stored \cup {acc[r].user} /\ Go(r, "settings.find") /\ username' = username
        /\ died' = died /\ UNCHANGED <<external, overlapped, settings, changed, clashed>>
    BY <1>6 DEF RegisterSession
  <2>2. stored' \subseteq Users
    BY <1>1, <1>3, <2>1
  <2>3. PICK q : /\ q = [acc[r] EXCEPT !.step = "settings.find"]
                 /\ AccShape(q, settings) /\ q.step = "settings.find" /\ q.user = acc[r].user
                 /\ q.name = acc[r].name
    BY <1>4
  <2>4. acc' = [acc EXCEPT ![r] = q] /\ acc'[r] = q
    BY <1>3, <2>1, <2>3 DEF Go
  <2>5. Settling(r, u)'
    BY <1>2, <2>3, <2>4 DEF Settling
  <2> QED
    BY <1>0, <1>2, <2>1, <2>2, <2>3, <2>4, <2>5, StepKeeps
<1>7. CASE ExternalCreate(r)
  <2>1. /\ acc[r].step = "external.create" /\ ~Settling(r, u)
        /\ died' = died /\ stored' = stored /\ UNCHANGED <<external, overlapped, settings, changed>>
    BY <1>7 DEF ExternalCreate, AccAt, Settling
  <2>2. ASSUME NEW name \in Usernames,
               acc' = [acc EXCEPT ![r].step = "external.answer", ![r].name = name],
               username' = [username EXCEPT ![acc[r].user] = name],
               clashed' = IF Namesakes(name) = {} THEN clashed
                          ELSE clashed \cup {acc[r].user} \cup Namesakes(name)
        PROVE  AccInv'
    <3>1. PICK q : q = Named(r, name)
      OBVIOUS
    <3>2. /\ acc' = [acc EXCEPT ![r] = q] /\ acc'[r] = q
          /\ AccShape(q, settings) /\ q.step = "external.answer" /\ q.user = acc[r].user
          /\ q.name = name
      <4>1. acc' = [acc EXCEPT ![r] = q] /\ acc'[r] = q
        BY <1>3, <2>2, <3>1 DEF AccTyped, Named
      <4>2. /\ AccShape(Named(r, name), settings) /\ Named(r, name).step = "external.answer"
            /\ Named(r, name).user = acc[r].user /\ Named(r, name).name = name
        BY <1>0, <2>2, NameShape
      <4> QED
        BY <3>1, <4>1, <4>2
    <3>3. Settling(r, u)'
      BY <1>2, <1>3, <3>1, <3>2, AccountsAssumption DEF Settling, AccountsAssumption
    <3>4. GivesName(r, q)
      <4>1. Namesakes(name) \subseteq Users /\ clashed \subseteq Users
        BY <1>0 DEF Namesakes, AccTyped
      <4>2. clashed \subseteq clashed' /\ clashed' \subseteq Users
        BY <1>1, <2>2, <4>1
      <4>3. \A v \in Namesakes(name) : {v, acc[r].user} \subseteq clashed'
        BY <2>2
      <4>4. \A v \in Users : username[v] = name => v \in Namesakes(name)
        BY DEF Namesakes
      <4>5. ASSUME NEW s \in Requests, acc[s].step = "register.create", acc[s].name = name
            PROVE  acc[s].user \in Namesakes(name)
        <5>1. acc[s].user \in Users
          BY <1>0, <4>5 DEF AccTyped, AccShape
        <5> QED
          BY <4>5, <5>1 DEF Namesakes, AccAt
      <4> QED
        BY <2>2, <3>2, <4>2, <4>3, <4>4, <4>5 DEF GivesName
    <3> QED
      BY <1>0, <1>2, <1>3, <2>1, <3>1, <3>2, <3>3, <3>4, StepKeeps
  <2>3. CASE AccFinish(r) /\ username' = username /\ clashed' = clashed
    <3>1. acc' = [acc EXCEPT ![r] = AccIdle]
      BY <2>3 DEF AccFinish
    <3> QED
      BY <1>0, <1>1, <1>2, <1>3, <2>1, <2>3, <3>1, StepKeeps
  <2> QED
    BY <1>7, <2>2, <2>3 DEF ExternalCreate
<1>8. CASE ExternalAnswer(r)
  <2>1. /\ acc[r].step = "external.answer" /\ username' = username
        /\ died' = died /\ stored' = stored /\ UNCHANGED <<external, overlapped, settings, changed, clashed>>
    BY <1>8 DEF ExternalAnswer, AccAt
  <2>2. CASE acc[r].name = None
    <3>1. acc' = [acc EXCEPT ![r] = AccIdle] /\ ~Settling(r, u)
      BY <1>8, <2>1, <2>2 DEF ExternalAnswer, AccFinish, Settling
    <3> QED
      BY <1>0, <1>1, <1>2, <1>3, <2>1, <3>1, StepKeeps
  <2>3. CASE acc[r].name # None
    <3>1. PICK q : /\ q = [acc[r] EXCEPT !.step = "settings.find"]
                   /\ AccShape(q, settings) /\ q.step = "settings.find" /\ q.user = acc[r].user
                   /\ q.name = acc[r].name
      BY <1>4
    <3>2. acc' = [acc EXCEPT ![r] = q] /\ acc'[r] = q
      BY <1>3, <1>8, <2>3, <3>1 DEF ExternalAnswer, Go
    <3>3. Settling(r, u)'
      BY <1>2, <3>1, <3>2 DEF Settling
    <3> QED
      BY <1>0, <1>2, <1>3, <2>1, <3>1, <3>2, <3>3, StepKeeps
  <2> QED
    BY <2>2, <2>3
<1>9. CASE ExternalStore(r)
  <2>1. /\ acc[r].step = "external.store" /\ ~Settling(r, u)
        /\ stored' = stored \cup {acc[r].user} /\ acc' = [acc EXCEPT ![r] = AccIdle]
        /\ username' = username /\ died' = died /\ UNCHANGED <<external, overlapped, settings, changed, clashed>>
    BY <1>9 DEF ExternalStore, AccFinish, AccAt, Settling
  <2>2. stored' \subseteq Users
    BY <1>1, <1>3, <2>1
  <2> QED
    BY <1>0, <1>1, <1>2, <2>1, <2>2, StepKeeps
<1> QED
  BY <1>5, <1>6, <1>7, <1>8, <1>9

LEMMA FindAccInv ==
  ASSUME AccountsAssumption, AccInv, NEW r \in Requests, SettingsFind(r)
  PROVE  AccInv'
<1>0. AccTyped /\ acc[r].step = "settings.find"
  BY DEF AccInv, SettingsFind, AccAt
<1>1. /\ acc[r].user \in Users /\ AccShape(AccIdle, settings)
      /\ AccIdle.step = "idle" /\ AccIdle.user = None /\ AccIdle.name = None
  BY <1>0, NextShape
<1>2. PICK u \in Users : u = acc[r].user
  BY <1>1
<1>3. /\ username' = username /\ died' = died /\ stored' = stored /\ stored \subseteq Users
      /\ UNCHANGED <<external, overlapped, settings, changed, clashed>>
  BY <1>0 DEF SettingsFind, AccTyped
<1>4. CASE settings[u] # <<>>
  <2>1. acc' = [acc EXCEPT ![r] = AccIdle]
    BY <1>2, <1>4 DEF SettingsFind, AccFinish
  <2> QED
    BY <1>0, <1>1, <1>2, <1>3, <1>4, <2>1, StepKeeps
<1>5. CASE settings[u] = <<>>
  <2>1. PICK q : /\ q = [acc[r] EXCEPT !.step = "settings.create"]
                 /\ AccShape(q, settings) /\ q.step = "settings.create" /\ q.user = acc[r].user
                 /\ q.name = acc[r].name
    BY <1>0, NextShape
  <2>2. acc' = [acc EXCEPT ![r] = q]
    BY <1>0, <1>2, <1>5, <2>1 DEF SettingsFind, Go, AccTyped
  <2>3. Goes(r, q)
    BY <1>0, <1>3, <2>1, <2>2, GoesOn
  <2>4. acc'[r] = q /\ \A s \in Requests \ {r} : acc'[s] = acc[s]
    BY <2>3, GoesTyped DEF AccInv
  <2>5. Settling(r, u)'
    BY <1>2, <2>1, <2>4 DEF Settling
  <2>6. u \notin overlapped => Provided(u)' /\ OneRow(u)'
    <3> SUFFICES ASSUME u \notin overlapped PROVE Provided(u)' /\ OneRow(u)'
      OBVIOUS
    <3>1. OneRow(u)
      BY DEF AccInv
    <3>2. settings'[u] = settings[u] /\ changed'[u] = changed[u]
      BY <1>3
    <3>3. \A s \in Requests : acc'[s].user = u => acc'[s].step # "settings.update" \/ acc'[s] = acc[s]
      BY <2>1, <2>4
    <3>4. Len(settings'[u]) <= 1 /\ (settings'[u] = <<>> => changed'[u] = Defaults)
          /\ \A i \in DOMAIN settings'[u] : settings'[u][i] = changed'[u]
      BY <3>1, <3>2 DEF OneRow
    <3>5. OneRow(u)'
      BY <1>5, <3>1, <3>2, <3>3, <3>4 DEF OneRow, AccAt
    <3> QED
      BY <2>5, <3>5 DEF Provided
  <2> QED
    BY <1>2, <2>3, <2>6, GoesKeeps
<1> QED
  BY <1>4, <1>5

LEMMA WriteAccInv ==
  ASSUME AccountsAssumption, AccInv, NEW r \in Requests, SettingsCreate(r) \/ SettingsUpdate(r)
  PROVE  AccInv'
<1>0. AccTyped /\ acc[r].step \in {"settings.create", "settings.update"}
  BY DEF AccInv, SettingsCreate, SettingsUpdate, AccAt
<1>1. /\ acc[r].user \in Users /\ AccShape(acc[r], settings)
      /\ AccIdle.step = "idle" /\ AccIdle.user = None /\ AccIdle.name = None
  BY <1>0, NextShape
<1>2. PICK u \in Users : u = acc[r].user
  BY <1>1
<1>3. /\ username' = username /\ died' = died /\ stored' = stored /\ stored \subseteq Users
      /\ UNCHANGED <<external, overlapped, clashed>> /\ acc' = [acc EXCEPT ![r] = AccIdle]
  BY <1>0 DEF SettingsCreate, SettingsUpdate, AccTyped, AccFinish
<1>4. AccShape(AccIdle, settings') /\ Defaults \in SettingsRow
  BY AccIdleShape
<1>5. /\ settings \in [Users -> Seq(SettingsRow)] /\ changed \in [Users -> SettingsRow]
      /\ \A v \in Users : Len(settings[v]) \in Nat /\ Len(settings[v]) <= MaxRows
  BY <1>0 DEF AccTyped
<1>6. CASE SettingsCreate(r)
  <2>1. /\ acc[r].step = "settings.create" /\ Len(settings[u]) < MaxRows /\ changed' = changed
        /\ settings' = [settings EXCEPT ![u] = Append(settings[u], Defaults)]
    BY <1>2, <1>6 DEF SettingsCreate, AccAt
  <2>2. PICK w \in Seq(SettingsRow) : w = settings[u]
    BY <1>5
  <2>3. /\ Append(w, Defaults) \in Seq(SettingsRow) /\ Len(Append(w, Defaults)) = Len(w) + 1
        /\ w = <<>> => Append(w, Defaults) = <<Defaults>>
    <3>1. Append(w, Defaults) \in Seq(SettingsRow) /\ Len(Append(w, Defaults)) = Len(w) + 1
      BY <1>4, <2>2
    <3>2. Append(<<>>, Defaults) = <<Defaults>>
      OBVIOUS
    <3> QED
      BY <3>1, <3>2
  <2>4. /\ settings' \in [Users -> Seq(SettingsRow)] /\ settings'[u] = Append(w, Defaults)
        /\ \A v \in Users \ {u} : settings'[v] = settings[v]
    BY <1>5, <2>1, <2>2, <2>3
  <2>5. \A v \in Users : Len(settings[v]) <= Len(settings'[v]) /\ Len(settings'[v]) <= MaxRows
    <3> SUFFICES ASSUME NEW v \in Users
                 PROVE  Len(settings[v]) <= Len(settings'[v]) /\ Len(settings'[v]) <= MaxRows
      OBVIOUS
    <3>1. CASE v = u
      BY <1>5, <2>1, <2>2, <2>3, <2>4, <3>1, AccountsAssumption DEF AccountsAssumption
    <3>2. CASE v # u
      BY <1>5, <2>4, <3>2
    <3> QED
      BY <3>1, <3>2
  <2>6. Goes(r, AccIdle)
    BY <1>0, <1>1, <1>2, <1>3, <1>4, <1>5, <2>1, <2>4, <2>5 DEF Goes
  <2>7. acc'[r] = AccIdle /\ \A s \in Requests \ {r} : acc'[s] = acc[s]
    BY <1>0, <2>6, GoesTyped
  <2>8. u \notin overlapped => Provided(u)' /\ OneRow(u)'
    <3> SUFFICES ASSUME u \notin overlapped PROVE Provided(u)' /\ OneRow(u)'
      OBVIOUS
    <3>1. OneRow(u) /\ Sole(u) /\ None \notin Users
      BY AccountsAssumption DEF AccInv, AccountsAssumption
    <3>2. w = <<>> /\ changed[u] = Defaults
      BY <1>2, <2>1, <2>2, <3>1 DEF OneRow, AccAt
    <3>3. settings'[u] = <<Defaults>> /\ changed'[u] = Defaults
      BY <2>1, <2>3, <2>4, <3>2
    <3>4. \A s \in Requests : acc'[s].user # u
      BY <1>1, <1>2, <2>7, <3>1 DEF Sole
    <3>5. settings'[u] # <<>> /\ Len(settings'[u]) = 1 /\ DOMAIN settings'[u] = {1}
          /\ settings'[u][1] = Defaults
      BY <3>3
    <3>6. Provided(u)'
      BY <3>5 DEF Provided
    <3>7. OneRow(u)'
      BY <3>3, <3>4, <3>5 DEF OneRow
    <3> QED
      BY <3>6, <3>7
  <2> QED
    BY <1>2, <2>6, <2>8, GoesKeeps
<1>7. CASE SettingsUpdate(r)
  <2>1. PICK f, i, x : f = acc[r].field /\ i = acc[r].row /\ x = acc[r].value
    OBVIOUS
  <2>2. /\ acc[r].step = "settings.update"
        /\ settings' = [settings EXCEPT ![u][i] = x]
        /\ changed' = [changed EXCEPT ![u][f] = x[f]]
    BY <1>2, <1>7, <2>1 DEF SettingsUpdate, AccAt
  <2>3. f \in Fields /\ i \in 1 .. Len(settings[u]) /\ x \in SettingsRow
    BY <1>1, <1>2, <2>1, <2>2 DEF AccShape, AccRow
  <2>4. PICK w \in Seq(SettingsRow), c \in SettingsRow : w = settings[u] /\ c = changed[u]
    BY <1>5
  <2>5. /\ [w EXCEPT ![i] = x] \in Seq(SettingsRow) /\ Len([w EXCEPT ![i] = x]) = Len(w)
        /\ [w EXCEPT ![i] = x][i] = x
    BY <2>3, <2>4
  <2>6. [c EXCEPT ![f] = x[f]] \in SettingsRow
    BY <2>3, <2>4 DEF SettingsRow
  <2>7. /\ settings' \in [Users -> Seq(SettingsRow)] /\ settings'[u] = [w EXCEPT ![i] = x]
        /\ \A v \in Users \ {u} : settings'[v] = settings[v]
    BY <1>5, <2>2, <2>4, <2>5
  <2>8. /\ changed' \in [Users -> SettingsRow] /\ changed'[u] = [c EXCEPT ![f] = x[f]]
        /\ \A v \in Users \ {u} : changed'[v] = changed[v]
    BY <1>5, <2>2, <2>4, <2>6
  <2>9. \A v \in Users : Len(settings'[v]) = Len(settings[v])
    BY <2>4, <2>5, <2>7
  <2>10. \A v \in Users : Len(settings[v]) <= Len(settings'[v]) /\ Len(settings'[v]) <= MaxRows
    BY <1>5, <2>9
  <2>11. Goes(r, AccIdle)
    BY <1>0, <1>1, <1>2, <1>3, <1>4, <2>7, <2>8, <2>10 DEF Goes
  <2>12. acc'[r] = AccIdle /\ \A s \in Requests \ {r} : acc'[s] = acc[s]
    BY <1>0, <2>11, GoesTyped
  <2>13. u \notin overlapped => Provided(u)' /\ OneRow(u)'
    <3> SUFFICES ASSUME u \notin overlapped PROVE Provided(u)' /\ OneRow(u)'
      OBVIOUS
    <3>1. OneRow(u) /\ Sole(u) /\ None \notin Users
      BY AccountsAssumption DEF AccInv, AccountsAssumption
    <3>2. /\ Len(w) \in Nat /\ Len(w) <= 1 /\ i \in 1 .. Len(w)
          /\ \A g \in Fields : g # f => x[g] = c[g]
      BY <1>2, <2>1, <2>2, <2>3, <2>4, <3>1 DEF OneRow, AccAt
    <3>3. i = 1 /\ Len(w) = 1
      <4>1. PICK k \in Nat : k = Len(w) /\ k <= 1 /\ i \in 1 .. k
        BY <3>2
      <4>2. k = 1 /\ i = 1
        BY <4>1
      <4> QED
        BY <4>1, <4>2
    <3>4. Len(settings'[u]) = 1 /\ settings'[u] # <<>> /\ DOMAIN settings'[u] = {1} /\ settings'[u][1] = x
      BY <2>5, <2>7, <3>3
    <3>5. changed'[u] = x
      BY <2>3, <2>4, <2>8, <3>2 DEF SettingsRow
    <3>6. \A s \in Requests : acc'[s].user # u
      BY <1>1, <1>2, <2>12, <3>1 DEF Sole
    <3>7. Provided(u)'
      BY <3>4 DEF Provided
    <3>8. OneRow(u)'
      BY <3>4, <3>5, <3>6 DEF OneRow
    <3> QED
      BY <3>7, <3>8
  <2> QED
    BY <1>2, <2>11, <2>13, GoesKeeps
<1> QED
  BY <1>6, <1>7

LEMMA DiesAccInv ==
  ASSUME AccountsAssumption, AccInv, NEW r \in Requests, RequestDies(r)
  PROVE  AccInv'
<1>0. AccTyped /\ acc[r].step # "idle"
  BY DEF AccInv, RequestDies, AccAt
<1>1. /\ acc[r].user \in Users /\ AccShape(acc[r], settings) /\ AccShape(AccIdle, settings)
      /\ AccIdle.step = "idle" /\ AccIdle.user = None /\ AccIdle.name = None
  BY <1>0, NextShape
<1>2. PICK u \in Users : u = acc[r].user
  BY <1>1
<1>3. /\ username' = username /\ stored' = stored /\ stored \subseteq Users
      /\ UNCHANGED <<external, overlapped, settings, changed, clashed>> /\ acc' = [acc EXCEPT ![r] = AccIdle]
  BY <1>0 DEF RequestDies, AccTyped, AccFinish
<1>4. CASE acc[r].step \in CreateSteps
  <2>1. died' = died \cup {acc[r].user}
    BY <1>4 DEF RequestDies
  <2> QED
    BY <1>0, <1>1, <1>2, <1>3, <2>1, StepKeeps
<1>5. CASE acc[r].step \notin CreateSteps
  <2>1. died' = died /\ ~Settling(r, u)
    BY <1>5 DEF RequestDies, CreateSteps, Settling
  <2> QED
    BY <1>0, <1>1, <1>2, <1>3, <2>1, StepKeeps
<1> QED
  BY <1>4, <1>5

LEMMA UpdateBegins ==
  ASSUME AccountsAssumption, AccInv, NEW r \in Requests, NEW u \in Users, NEW f \in Fields,
         UpdatePrivacySettings(r, u, f)
  PROVE  AccInv'
<1>0. AccTyped /\ changed[u][f] < MaxValue /\ None \notin Users
  BY AccountsAssumption DEF AccInv, UpdatePrivacySettings, AccountsAssumption
<1>1. PICK i \in DOMAIN settings[u] :
        /\ acc[r].step = "idle"
        /\ acc' = [acc EXCEPT ![r] = [AccIdle EXCEPT !.step = "settings.update", !.user = u,
                     !.row = i, !.field = f,
                     !.value = [settings[u][i] EXCEPT ![f] = changed[u][f] + 1]]]
        /\ overlapped' = IF Busy(u) THEN overlapped \cup {u} ELSE overlapped
  BY DEF UpdatePrivacySettings, AccAt
<1>2. PICK w, n : w = settings[u] /\ n = changed[u][f]
  OBVIOUS
<1>3. /\ w \in Seq(SettingsRow) /\ Len(w) \in Nat /\ Len(w) <= MaxRows /\ i \in 1 .. Len(w)
      /\ n \in 0 .. MaxValue /\ n < MaxValue /\ MaxValue \in Nat /\ MaxRows \in Nat
  BY <1>0, <1>1, <1>2, AccountsAssumption DEF AccTyped, SettingsRow, AccountsAssumption
<1>4. w[i] \in SettingsRow /\ n + 1 \in 0 .. MaxValue /\ i \in 0 .. MaxRows
  BY <1>3
<1>5. PICK x : x = [w[i] EXCEPT ![f] = n + 1]
  OBVIOUS
<1>6. x \in SettingsRow /\ \A g \in Fields : g # f => x[g] = w[i][g]
  BY <1>4, <1>5 DEF SettingsRow
<1>7. AccIdle \in AccRow
  BY AccIdleShape DEF AccShape
<1> DEFINE q == [AccIdle EXCEPT !.step = "settings.update", !.user = u, !.row = i, !.field = f, !.value = x]
<1>8. /\ q \in AccRow /\ q.step = "settings.update" /\ q.user = u /\ q.row = i /\ q.field = f
      /\ q.value = x /\ q.name = None
  <2>1. AccIdle.name = None
    BY DEF AccIdle
  <2> QED
    BY <1>4, <1>6, <1>7, <2>1 DEF AccRow, AccSteps
<1>9. acc' = [acc EXCEPT ![r] = q]
  BY <1>1, <1>2, <1>5
<1> HIDE DEF q
<1>10. AccShape(q, settings)
  BY <1>2, <1>3, <1>8 DEF AccShape
<1>11. overlapped \subseteq overlapped' /\ overlapped' \subseteq Users
  BY <1>0, <1>1 DEF AccTyped
<1>12. \A s \in Requests :
         acc[s].user = u \/ (q.name # None /\ acc[s].name = q.name) => {u, acc[s].user} \subseteq overlapped'
  BY <1>1, <1>8 DEF Busy
<1>13. UNCHANGED <<username, external, stored, settings, changed, died, clashed>>
  BY DEF UpdatePrivacySettings
<1>14. \E j \in DOMAIN settings[u] : \A g \in Fields : g # q.field => q.value[g] = settings[u][j][g]
  BY <1>2, <1>6, <1>8
<1>15. Begins(r, u, q)
  BY <1>1, <1>8, <1>9, <1>10, <1>11, <1>12, <1>13, <1>14 DEF Begins
<1> QED
  BY <1>15, BeginsKeeps

LEMMA BeginAccInv ==
  ASSUME AccountsAssumption, AccInv, NEW r \in Requests, NEW u \in Users,
         (\E n \in Usernames : Register(r, u, n)) \/ LoginWithOAuth(r, u) \/ CreatePrivacySettings(r, u)
  PROVE  AccInv'
<1>0. AccTyped
  BY DEF AccInv
<1>1. PICK step, name :
        /\ step \in {"register.create", "external.create", "external.answer", "external.store", "settings.find"}
        /\ IF step = "register.create" THEN name \in Usernames /\ \A v \in Users : username[v] # name
           ELSE name = None
        /\ Begin(r, u, step, name)
        /\ UNCHANGED <<username, external, stored, settings, changed, died, clashed>>
  <2>1. CASE \E n \in Usernames : Register(r, u, n)
    BY <2>1 DEF Register
  <2>2. CASE LoginWithOAuth(r, u)
    BY <2>2 DEF LoginWithOAuth
  <2>3. CASE CreatePrivacySettings(r, u)
    BY <2>3 DEF CreatePrivacySettings
  <2> QED
    BY <2>1, <2>2, <2>3
<1>2. \E q : Begins(r, u, q)
  BY <1>0, <1>1, BeginsIt
<1> QED
  BY <1>2, BeginsKeeps

LEMMA NextAccInv == ASSUME AccountsAssumption, AccInv, [AccNext]_accVars PROVE AccInv'
<1>1. CASE UNCHANGED accVars
  BY <1>1 DEF AccInv, AccTyped, AccShape, AccRow, Sole, Provided, OneRow, OwnName, NameKept, Settling,
              Account, AccAt, accVars
<1>2. ASSUME NEW u \in Users, SessionsEnd(u) PROVE AccInv'
  BY <1>2 DEF SessionsEnd, AccInv, AccTyped, AccShape, AccRow, Sole, Provided, OneRow, OwnName, NameKept,
              Settling, Account, AccAt
<1>3. ASSUME NEW r \in Requests, NEW u \in Users,
             (\E n \in Usernames : Register(r, u, n)) \/ LoginWithOAuth(r, u) \/ CreatePrivacySettings(r, u)
      PROVE  AccInv'
  BY <1>3, BeginAccInv
<1>4. ASSUME NEW r \in Requests, NEW u \in Users, NEW f \in Fields, UpdatePrivacySettings(r, u, f)
      PROVE  AccInv'
  BY <1>4, UpdateBegins
<1>5. ASSUME NEW r \in Requests,
             \/ RegisterCreate(r) \/ RegisterSession(r)
             \/ ExternalCreate(r) \/ ExternalAnswer(r) \/ ExternalStore(r)
      PROVE  AccInv'
  BY <1>5, RegisterAccInv
<1>6. ASSUME NEW r \in Requests, SettingsFind(r) PROVE AccInv'
  BY <1>6, FindAccInv
<1>7. ASSUME NEW r \in Requests, SettingsCreate(r) \/ SettingsUpdate(r) PROVE AccInv'
  BY <1>7, WriteAccInv
<1>8. ASSUME NEW r \in Requests, RequestDies(r) PROVE AccInv'
  BY <1>8, DiesAccInv
<1> QED
  BY <1>1, <1>2, <1>3, <1>4, <1>5, <1>6, <1>7, <1>8 DEF AccNext

LEMMA InitAccInv == ASSUME AccountsAssumption, AccInit PROVE AccInv
<1>1. AccShape(AccIdle, settings) /\ Defaults \in SettingsRow /\ AccIdle \in AccRow
      /\ AccIdle.step = "idle" /\ AccIdle.user = None /\ AccIdle.name = None
  BY AccIdleShape DEF AccIdle, AccShape
<1>2. /\ \A u \in Users : username[u] = None /\ settings[u] = <<>> /\ changed[u] = Defaults
      /\ \A r \in Requests : acc[r] = AccIdle
      /\ died = {} /\ overlapped = {} /\ clashed = {} /\ None \notin Users /\ MaxRows \in Nat
  BY AccountsAssumption DEF AccInit, AccountsAssumption
<1>3. AccTyped
  <2>1. <<>> \in Seq(SettingsRow) /\ Len(<<>>) = 0
    OBVIOUS
  <2>2. settings \in [Users -> Seq(SettingsRow)] /\ acc \in [Requests -> AccRow]
        /\ changed \in [Users -> SettingsRow] /\ username \in [Users -> Usernames \cup {None}]
    BY <1>1, <2>1 DEF AccInit
  <2>3. stored = {} /\ external \subseteq Users
    BY DEF AccInit
  <2> QED
    BY <1>1, <1>2, <2>1, <2>2, <2>3 DEF AccTyped
<1>4. ASSUME NEW u \in Users PROVE Sole(u) /\ Provided(u) /\ OneRow(u) /\ OwnName(u) /\ NameKept(u)
  <2>1. Sole(u)
    BY <1>1, <1>2 DEF Sole
  <2>2. Provided(u)
    BY <1>2 DEF Provided, Account
  <2>3. OneRow(u)
    <3>1. Len(settings[u]) = 0 /\ DOMAIN settings[u] = {}
      BY <1>2
    <3> QED
      BY <1>1, <1>2, <3>1 DEF OneRow, AccAt
  <2>4. OwnName(u) /\ NameKept(u)
    BY <1>1, <1>2 DEF OwnName, NameKept, Account, AccAt
  <2> QED
    BY <2>1, <2>2, <2>3, <2>4
<1> QED
  BY <1>3, <1>4 DEF AccInv

LEMMA AccImplies == ASSUME AccountsAssumption, AccInv PROVE AccTypeOK /\ SettingsFollowTheUser
<1>1. AccTypeOK
  BY DEF AccInv, AccTyped, AccTypeOK, AccRow, SettingsRow
<1>2. SettingsFollowTheUser
  <2> SUFFICES ASSUME NEW u \in Users \ overlapped
               PROVE  /\ (Account(u) /\ ~Busy(u) /\ u \notin died) => settings[u] # <<>>
                      /\ Len(settings[u]) <= 1
                      /\ \A i \in DOMAIN settings[u] : settings[u][i] = changed[u]
                      /\ u \notin clashed => \A v \in Users \ {u} : Account(u) => username[v] # username[u]
    BY DEF SettingsFollowTheUser
  <2>1. Provided(u) /\ OneRow(u) /\ (u \notin clashed => NameKept(u))
    BY DEF AccInv
  <2> QED
    BY <2>1 DEF Provided, OneRow, NameKept, Busy, Settling
<1> QED
  BY <1>1, <1>2

LEMMA AccSafe == AccSpec => [](AccTypeOK /\ SettingsFollowTheUser)
<1>1. AccInit => AccInv
  BY InitAccInv, AccountsAssumption
<1>2. AccInv /\ [AccNext]_accVars => AccInv'
  BY NextAccInv, AccountsAssumption
<1>3. AccInv => AccTypeOK /\ SettingsFollowTheUser
  BY AccImplies, AccountsAssumption
<1> QED
  BY <1>1, <1>2, <1>3, PTL DEF AccSpec

-----------------------------------------------------------------------------
(* The second factor of an account.                                          *)

MfaRow == [step : MfaSteps, row : FactorRow \cup {None}, code : BackupCode \cup {None}]

UsedCodes(u) == u \X CodeNumbers

\* What a request will write, and how, as long as nothing has mingled, it
\* goes with the row f it has read and the codes s that were spent.
MfaFits(q, f, s, u, mixed) ==
    /\ q \in MfaRow
    /\ q.step # "idle" => q.row \in FactorRow /\ q.row.codes \subseteq UsedCodes(u)
    /\ q.step \in {"qr", "enable"} => q.row.secret \in Secrets
    /\ q.step = "login" => q.code \in BackupCode \cap UsedCodes(u)
    /\ ~mixed =>
         /\ q.step = "qr" => ~f.enabled
         /\ q.step = "enable" => q.row.secret = f.secret
         /\ q.step = "login" => q.code \in f.codes /\ q.row.codes \subseteq f.codes \ {q.code}
         /\ q.step \in {"enable", "regenerate"} => q.row.codes \cap s = {}

FactorInv ==
    /\ factor \in FactorRow
    /\ used \subseteq Secrets \cup Batches
    /\ mfa \in [Requests -> MfaRow]
    /\ proved \subseteq Secrets
    /\ spent \subseteq BackupCode
    /\ twice \subseteq spent
    /\ mingled \in BOOLEAN
    /\ factor.codes \cup spent \subseteq UsedCodes(used)
    /\ \A r \in Requests : MfaFits(mfa[r], factor, spent, used, mingled)
    /\ SecondFactorHolds

\* A read decides what the request will write.
LEMMA DecideKeeps ==
  ASSUME FactorInv, NEW r \in Requests, NEW q,
         MfaFits(q, factor, spent, used', mingled),
         mfa' = [mfa EXCEPT ![r] = q], used \subseteq used', used' \subseteq Secrets \cup Batches,
         UNCHANGED <<factor, proved, spent, twice, mingled>>
  PROVE  FactorInv'
<1>1. \A s \in Requests : MfaFits(mfa'[s], factor', spent', used', mingled')
  BY DEF FactorInv, MfaFits, UsedCodes
<1>2. factor.codes \cup spent \subseteq UsedCodes(used')
  BY DEF FactorInv, UsedCodes
<1>3. SecondFactorHolds'
  BY DEF FactorInv, SecondFactorHolds
<1> QED
  BY <1>1, <1>2, <1>3 DEF FactorInv, MfaFits

\* After a write that mingled with nothing all others are idle.
LEMMA WriteKeeps ==
  ASSUME FactorInv, NEW r \in Requests, NEW row \in FactorRow, Write(r, row),
         UNCHANGED used, proved' \subseteq Secrets, spent' \subseteq BackupCode, twice' \subseteq spent',
         row.codes \cup spent' \subseteq UsedCodes(used),
         ~mingled => twice' = {} /\ row.codes \cap spent' = {} /\ (row.enabled => row.secret \in proved')
  PROVE  FactorInv'
<1>0. /\ factor' = row /\ mfa' = [mfa EXCEPT ![r] = MfaIdle] /\ mingled' \in BOOLEAN
      /\ mingled' = (mingled \/ \E q \in Requests \ {r} : ~MfaAt(q, "idle"))
  BY DEF Write, FactorInv
<1>1. MfaIdle \in MfaRow /\ MfaIdle.step = "idle"
  BY DEF MfaIdle, MfaRow, MfaSteps
<1>2. mfa' \in [Requests -> MfaRow] /\ mfa'[r] = MfaIdle /\ \A s \in Requests \ {r} : mfa'[s] = mfa[s]
  BY <1>0, <1>1 DEF FactorInv
<1>3. ASSUME NEW s \in Requests PROVE MfaFits(mfa'[s], factor', spent', used', mingled')
  <2>1. CASE s = r
    BY <1>1, <1>2, <2>1 DEF MfaFits
  <2>2. CASE s # r
    <3>1. mfa'[s] = mfa[s] /\ MfaFits(mfa[s], factor, spent, used, mingled)
      BY <1>2, <2>2 DEF FactorInv
    <3>2. mingled' \/ mfa[s].step = "idle"
      BY <1>0, <2>2 DEF MfaAt
    <3> QED
      BY <3>1, <3>2 DEF MfaFits
  <2> QED
    BY <2>1, <2>2
<1>4. mingled => mingled'
  BY <1>0
<1>5. SecondFactorHolds'
  BY <1>0, <1>4 DEF SecondFactorHolds
<1> QED
  BY <1>0, <1>2, <1>3, <1>5 DEF FactorInv

LEMMA NextFactorInv ==
  ASSUME TwoFactorAssumption, FactorInv, [FactorNext]_factorVars PROVE FactorInv'
<1>0. /\ factor \in FactorRow /\ used \subseteq Secrets \cup Batches /\ proved \subseteq Secrets
      /\ spent \subseteq BackupCode /\ twice \subseteq spent /\ mfa \in [Requests -> MfaRow]
      /\ factor.codes \subseteq BackupCode /\ factor.enabled \in BOOLEAN
      /\ factor.secret \in Secrets \cup {None}
      /\ factor.codes \cup spent \subseteq UsedCodes(used)
      /\ \A r \in Requests : MfaFits(mfa[r], factor, spent, used, mingled)
  BY DEF FactorInv, FactorRow
<1>1. ASSUME NEW r \in Requests, NEW s \in Secrets, GenerateQrCode(r, s) PROVE FactorInv'
  <2> DEFINE row == [factor EXCEPT !.secret = s]
             q == [step |-> "qr", row |-> row, code |-> None]
  <2>1. row \in FactorRow /\ row.secret = s /\ row.codes = factor.codes
    BY <1>0 DEF FactorRow
  <2>2. /\ ~factor.enabled /\ used' = used \cup {s} /\ mfa' = [mfa EXCEPT ![r] = q]
        /\ UNCHANGED <<factor, proved, spent, twice, mingled>>
    BY <1>1 DEF GenerateQrCode, Decide
  <2> HIDE DEF row
  <2>3. q \in MfaRow /\ q.step = "qr" /\ q.row = row
    BY <2>1 DEF MfaRow, MfaSteps
  <2> HIDE DEF q
  <2>4. MfaFits(q, factor, spent, used', mingled)
    BY <1>0, <2>1, <2>2, <2>3 DEF MfaFits, UsedCodes
  <2> QED
    BY <1>0, <2>2, <2>4, DecideKeeps
<1>2. ASSUME NEW r \in Requests, NEW b \in Batches, VerifyMfaCode(r, b) PROVE FactorInv'
  <2> DEFINE row == [factor EXCEPT !.enabled = TRUE, !.codes = Batch(b)]
             q == [step |-> "enable", row |-> row, code |-> None]
  <2>1. row \in FactorRow /\ row.secret = factor.secret /\ row.codes = {b} \X CodeNumbers
    BY <1>0 DEF FactorRow, Batch, BackupCode
  <2>2. /\ factor.secret # None /\ b \notin used /\ used' = used \cup {b} /\ mfa' = [mfa EXCEPT ![r] = q]
        /\ UNCHANGED <<factor, proved, spent, twice, mingled>>
    BY <1>2 DEF VerifyMfaCode, Decide
  <2> HIDE DEF row
  <2>3. q \in MfaRow /\ q.step = "enable" /\ q.row = row
    BY <2>1 DEF MfaRow, MfaSteps
  <2> HIDE DEF q
  <2>4. MfaFits(q, factor, spent, used', mingled)
    BY <1>0, <2>1, <2>2, <2>3 DEF MfaFits, UsedCodes
  <2> QED
    BY <1>0, <2>2, <2>4, DecideKeeps
<1>3. ASSUME NEW r \in Requests, NEW b \in Batches, GenerateNewBackupCodes(r, b) PROVE FactorInv'
  <2> DEFINE row == [factor EXCEPT !.codes = Batch(b)]
             q == [step |-> "regenerate", row |-> row, code |-> None]
  <2>1. row \in FactorRow /\ row.codes = {b} \X CodeNumbers
    BY <1>0 DEF FactorRow, Batch, BackupCode
  <2>2. /\ b \notin used /\ used' = used \cup {b} /\ mfa' = [mfa EXCEPT ![r] = q]
        /\ UNCHANGED <<factor, proved, spent, twice, mingled>>
    BY <1>3 DEF GenerateNewBackupCodes, Decide
  <2> HIDE DEF row
  <2>3. q \in MfaRow /\ q.step = "regenerate" /\ q.row = row
    BY <2>1 DEF MfaRow, MfaSteps
  <2> HIDE DEF q
  <2>4. MfaFits(q, factor, spent, used', mingled)
    BY <1>0, <2>1, <2>2, <2>3 DEF MfaFits, UsedCodes
  <2> QED
    BY <1>0, <2>2, <2>4, DecideKeeps
<1>4. ASSUME NEW r \in Requests, NEW c \in BackupCode, VerifyMfa(r, c) PROVE FactorInv'
  <2> DEFINE row == [factor EXCEPT !.codes = factor.codes \ {c}]
             q == [step |-> "login", row |-> row, code |-> c]
  <2>1. row \in FactorRow /\ row.codes = factor.codes \ {c}
    BY <1>0 DEF FactorRow
  <2>2. /\ c \in factor.codes /\ used' = used /\ mfa' = [mfa EXCEPT ![r] = q]
        /\ UNCHANGED <<factor, proved, spent, twice, mingled>>
    BY <1>4 DEF VerifyMfa, Decide
  <2> HIDE DEF row
  <2>3. q \in MfaRow /\ q.step = "login" /\ q.row = row /\ q.code = c
    BY <2>1 DEF MfaRow, MfaSteps
  <2> HIDE DEF q
  <2>4. MfaFits(q, factor, spent, used', mingled)
    BY <1>0, <2>1, <2>2, <2>3 DEF MfaFits
  <2> QED
    BY <1>0, <2>2, <2>4, DecideKeeps
<1>5. ASSUME NEW r \in Requests, DisableMfa(r) PROVE FactorInv'
  <2> DEFINE q == [step |-> "disable", row |-> NoFactor, code |-> None]
  <2>1. NoFactor \in FactorRow /\ NoFactor.codes = {}
    BY DEF FactorRow, NoFactor
  <2>2. /\ used' = used /\ mfa' = [mfa EXCEPT ![r] = q]
        /\ UNCHANGED <<factor, proved, spent, twice, mingled>>
    BY <1>5 DEF DisableMfa, Decide
  <2>3. q \in MfaRow /\ q.step = "disable" /\ q.row = NoFactor
    BY <2>1 DEF MfaRow, MfaSteps
  <2> HIDE DEF q
  <2>4. MfaFits(q, factor, spent, used', mingled)
    BY <1>0, <2>1, <2>2, <2>3 DEF MfaFits
  <2> QED
    BY <1>0, <2>2, <2>4, DecideKeeps
<1>6. ~mingled => /\ twice = {} /\ factor.codes \cap spent = {}
                  /\ factor.enabled => factor.secret \in proved
  BY DEF FactorInv, SecondFactorHolds
<1>7. ASSUME NEW r \in Requests, WriteSecret(r) PROVE FactorInv'
  <2> DEFINE row == [factor EXCEPT !.secret = mfa[r].row.secret]
  <2>1. MfaFits(mfa[r], factor, spent, used, mingled) /\ mfa[r].step = "qr"
    BY <1>0, <1>7 DEF WriteSecret, MfaAt
  <2>2. mfa[r].row.secret \in Secrets /\ (~mingled => ~factor.enabled)
    BY <2>1 DEF MfaFits
  <2>3. row \in FactorRow /\ row.codes = factor.codes /\ row.enabled = factor.enabled
    BY <1>0, <2>2 DEF FactorRow
  <2>4. Write(r, row) /\ UNCHANGED <<used, proved, spent, twice>>
    BY <1>7 DEF WriteSecret
  <2> HIDE DEF row
  <2> QED
    BY <1>0, <1>6, <2>2, <2>3, <2>4, WriteKeeps
<1>8. ASSUME NEW r \in Requests, WriteEnabled(r) PROVE FactorInv'
  <2> DEFINE row == [factor EXCEPT !.enabled = TRUE, !.codes = mfa[r].row.codes]
  <2>1. MfaFits(mfa[r], factor, spent, used, mingled) /\ mfa[r].step = "enable"
    BY <1>0, <1>8 DEF WriteEnabled, MfaAt
  <2>2. /\ mfa[r].row \in FactorRow /\ mfa[r].row.codes \subseteq UsedCodes(used)
        /\ mfa[r].row.secret \in Secrets /\ mfa[r].row.codes \subseteq BackupCode
        /\ ~mingled => mfa[r].row.secret = factor.secret /\ mfa[r].row.codes \cap spent = {}
    BY <2>1 DEF MfaFits, FactorRow
  <2>3. row \in FactorRow /\ row.codes = mfa[r].row.codes /\ row.secret = factor.secret
    BY <1>0, <2>2 DEF FactorRow
  <2>4. Write(r, row) /\ proved' = proved \cup {mfa[r].row.secret} /\ UNCHANGED <<used, spent, twice>>
    BY <1>8 DEF WriteEnabled
  <2> HIDE DEF row
  <2> QED
    BY <1>0, <1>6, <2>2, <2>3, <2>4, WriteKeeps
<1>9. ASSUME NEW r \in Requests, WriteRemaining(r) PROVE FactorInv'
  <2> DEFINE row == [factor EXCEPT !.codes = mfa[r].row.codes]
  <2>1. MfaFits(mfa[r], factor, spent, used, mingled) /\ mfa[r].step = "login"
    BY <1>0, <1>9 DEF WriteRemaining, MfaAt
  <2>2. /\ mfa[r].row \in FactorRow /\ mfa[r].row.codes \subseteq UsedCodes(used)
        /\ mfa[r].row.codes \subseteq BackupCode /\ mfa[r].code \in BackupCode \cap UsedCodes(used)
        /\ ~mingled => mfa[r].code \in factor.codes /\ mfa[r].row.codes \subseteq factor.codes \ {mfa[r].code}
    BY <2>1 DEF MfaFits, FactorRow
  <2>3. /\ row \in FactorRow /\ row.codes = mfa[r].row.codes /\ row.secret = factor.secret
        /\ row.enabled = factor.enabled
    BY <1>0, <2>2 DEF FactorRow
  <2>4. /\ Write(r, row) /\ spent' = spent \cup {mfa[r].code}
        /\ twice' = twice \cup ({mfa[r].code} \cap spent) /\ UNCHANGED <<used, proved>>
    BY <1>9 DEF WriteRemaining
  <2> HIDE DEF row
  <2>5. ~mingled => twice' = {} /\ row.codes \cap spent' = {} /\ (row.enabled => row.secret \in proved')
    BY <1>6, <2>2, <2>3, <2>4
  <2>6. twice' \subseteq spent' /\ spent' \subseteq BackupCode /\ row.codes \cup spent' \subseteq UsedCodes(used)
    BY <1>0, <2>2, <2>3, <2>4
  <2> QED
    BY <1>0, <2>3, <2>4, <2>5, <2>6, WriteKeeps
<1>10. ASSUME NEW r \in Requests, WriteNewCodes(r) PROVE FactorInv'
  <2> DEFINE row == [factor EXCEPT !.codes = mfa[r].row.codes]
  <2>1. MfaFits(mfa[r], factor, spent, used, mingled) /\ mfa[r].step = "regenerate"
    BY <1>0, <1>10 DEF WriteNewCodes, MfaAt
  <2>2. /\ mfa[r].row \in FactorRow /\ mfa[r].row.codes \subseteq UsedCodes(used)
        /\ mfa[r].row.codes \subseteq BackupCode
        /\ ~mingled => mfa[r].row.codes \cap spent = {}
    BY <2>1 DEF MfaFits, FactorRow
  <2>3. /\ row \in FactorRow /\ row.codes = mfa[r].row.codes /\ row.secret = factor.secret
        /\ row.enabled = factor.enabled
    BY <1>0, <2>2 DEF FactorRow
  <2>4. Write(r, row) /\ UNCHANGED <<used, proved, spent, twice>>
    BY <1>10 DEF WriteNewCodes
  <2> HIDE DEF row
  <2> QED
    BY <1>0, <1>6, <2>2, <2>3, <2>4, WriteKeeps
<1>11. ASSUME NEW r \in Requests, WriteDisabled(r) PROVE FactorInv'
  <2>1. /\ NoFactor \in FactorRow /\ NoFactor.codes = {} /\ NoFactor.enabled = FALSE
    BY DEF FactorRow, NoFactor
  <2>2. Write(r, NoFactor) /\ UNCHANGED <<used, proved, spent, twice>>
    BY <1>11 DEF WriteDisabled
  <2> QED
    BY <1>0, <1>6, <2>1, <2>2, WriteKeeps
<1>12. CASE UNCHANGED factorVars
  BY <1>12 DEF factorVars, FactorInv, SecondFactorHolds
<1> QED
  BY <1>1, <1>2, <1>3, <1>4, <1>5, <1>7, <1>8, <1>9, <1>10, <1>11, <1>12 DEF FactorNext

LEMMA FactorSafe == FactorSpec => [](FactorTypeOK /\ SecondFactorHolds)
<1>1. ASSUME FactorInit PROVE FactorInv
  <2>1. NoFactor \in FactorRow /\ NoFactor.codes = {} /\ NoFactor.enabled = FALSE
    BY DEF NoFactor, FactorRow
  <2>2. MfaIdle \in MfaRow /\ MfaIdle.step = "idle"
    BY DEF MfaIdle, MfaRow, MfaSteps
  <2> QED
    BY <1>1, <2>1, <2>2 DEF FactorInit, FactorInv, MfaFits, SecondFactorHolds
<1>2. ASSUME FactorInv, [FactorNext]_factorVars PROVE FactorInv'
  BY <1>2, NextFactorInv, TwoFactorAssumption
<1>3. ASSUME FactorInv PROVE FactorTypeOK /\ SecondFactorHolds
  BY <1>3 DEF FactorInv, FactorTypeOK, MfaRow
<1> QED
  BY <1>1, <1>2, <1>3, PTL DEF FactorSpec

-----------------------------------------------------------------------------
(* Photos, albums and their cached lists.                                    *)

Lists == [Items -> Titles \cup {None}]

MediaRow == [step : {"idle", "drop", "keep"}, kind : Shelves, list : Lists \cup {None}]

\* A reader on its way to cache a list has one.
MediaShape(q) == q \in MediaRow /\ (q.step = "keep" => q.list \in Lists)

Fresh(kind) ==
    kept[kind] # None /\ kind \notin overtaken =>
      kept[kind] = shelf[kind] \/ \E r \in Requests : media[r].step = "drop" /\ media[r].kind = kind

Sorted ==
    \A i \in Items : album[i] \subseteq Have("albums") /\ (album[i] # {} => i \in Have("photos"))

MediaInv ==
    /\ shelf \in [Shelves -> Lists]
    /\ album \in [Items -> SUBSET Items]
    /\ kept \in [Shelves -> Lists \cup {None}]
    /\ media \in [Requests -> MediaRow]
    /\ overtaken \subseteq Shelves
    /\ \A r \in Requests : MediaShape(media[r])
    /\ \A kind \in Shelves : Fresh(kind)
    /\ Sorted

\* A write of a kind by a request that will drop its list.
LEMMA WriteDrops ==
  ASSUME MediaInv, NEW r \in Requests, MediaAt(r, "idle"), NEW kind \in Shelves, NEW list \in Lists,
         shelf' = [shelf EXCEPT ![kind] = list], Wrote(r, kind), UNCHANGED <<kept, overtaken>>,
         album' \in [Items -> SUBSET Items], Sorted'
  PROVE  MediaInv'
<1> DEFINE q == [NoMedia EXCEPT !.step = "drop", !.kind = kind]
<1>1. MediaShape(q) /\ q.step = "drop" /\ q.kind = kind /\ media' = [media EXCEPT ![r] = q]
  BY DEF Wrote, NoMedia, MediaShape, MediaRow, Shelves
<1> HIDE DEF q
<1>2. /\ media' \in [Requests -> MediaRow] /\ media'[r] = q
      /\ \A s \in Requests \ {r} : media'[s] = media[s] /\ media[r].step = "idle"
  BY <1>1 DEF MediaInv, MediaShape, MediaAt
<1>3. \A s \in Requests : MediaShape(media'[s])
  BY <1>1, <1>2 DEF MediaInv
<1>4. shelf' \in [Shelves -> Lists] /\ \A k \in Shelves \ {kind} : shelf'[k] = shelf[k]
  BY DEF MediaInv
<1>5. ASSUME NEW k \in Shelves PROVE Fresh(k)'
  <2>1. CASE k = kind
    BY <1>1, <1>2, <2>1 DEF Fresh
  <2>2. CASE k # kind
    <3>1. Fresh(k) /\ media[r].step = "idle"
      BY DEF MediaInv, MediaAt
    <3> QED
      BY <1>2, <1>4, <2>2, <3>1 DEF Fresh
  <2> QED
    BY <2>1, <2>2
<1> QED
  BY <1>2, <1>3, <1>4, <1>5 DEF MediaInv

LEMMA NextMediaInv == ASSUME MediaAssumption, MediaInv, [MediaNext]_mediaVars PROVE MediaInv'
<1>0. /\ shelf \in [Shelves -> Lists] /\ album \in [Items -> SUBSET Items]
      /\ kept \in [Shelves -> Lists \cup {None}] /\ media \in [Requests -> MediaRow]
      /\ overtaken \subseteq Shelves /\ "photos" \in Shelves /\ "albums" \in Shelves
      /\ shelf["photos"] \in Lists /\ shelf["albums"] \in Lists
      /\ \A r \in Requests : MediaShape(media[r])
      /\ \A kind \in Shelves : Fresh(kind)
      /\ \A i \in Items : album[i] \subseteq Have("albums") /\ (album[i] # {} => i \in Have("photos"))
  BY DEF MediaInv, Sorted, Shelves
<1>1. ASSUME NEW r \in Requests, NEW new \in SUBSET Items, NEW given \in Titles,
             NEW albums \in SUBSET Items, CreatePhotos(r, new, given, albums)
      PROVE  MediaInv'
  <2> DEFINE list == [i \in Items |-> IF i \in new THEN given ELSE shelf["photos"][i]]
  <2>1. list \in Lists
    BY <1>0 DEF Lists
  <2>2. shelf' = [shelf EXCEPT !["photos"] = list] /\ albums \subseteq Have("albums")
        /\ album' = [i \in Items |-> IF i \in new THEN albums ELSE album[i]]
    BY <1>1 DEF CreatePhotos
  <2>3. \A i \in Items : list[i] = IF i \in new THEN given ELSE shelf["photos"][i]
    OBVIOUS
  <2> HIDE DEF list
  <2>4. shelf'["albums"] = shelf["albums"] /\ shelf'["photos"] = list
    BY <1>0, <2>2
  <2>5. Have("albums")' = Have("albums") /\ Have("photos") \cup new \subseteq Have("photos")'
    BY <1>0, <2>3, <2>4, MediaAssumption DEF Have, MediaAssumption
  <2>6. Sorted'
    BY <1>0, <2>2, <2>5 DEF Sorted
  <2> QED
    BY <1>0, <1>1, <2>1, <2>2, <2>6, WriteDrops DEF CreatePhotos
<1>2. ASSUME NEW r \in Requests, NEW kind \in Shelves, NEW i \in Items, NEW given \in Titles,
             Update(r, kind, i, given) \/ (kind = "albums" /\ CreateAlbum(r, i, given))
      PROVE  MediaInv'
  <2> DEFINE list == [shelf[kind] EXCEPT ![i] = given]
  <2>1. list \in Lists /\ list[i] = given /\ \A j \in Items \ {i} : list[j] = shelf[kind][j]
    BY <1>0 DEF Lists
  <2>2. shelf' = [shelf EXCEPT ![kind] = list] /\ UNCHANGED album
    BY <1>0, <1>2 DEF Update, CreateAlbum
  <2> HIDE DEF list
  <2>4. shelf'[kind] = list /\ \A k \in Shelves \ {kind} : shelf'[k] = shelf[k]
    BY <1>0, <2>2
  <2>5. ASSUME NEW k \in Shelves PROVE Have(k) \subseteq Have(k)'
    BY <2>1, <2>4, MediaAssumption DEF Have, MediaAssumption
  <2>6. Sorted'
    BY <1>0, <2>2, <2>5 DEF Sorted
  <2> QED
    BY <1>0, <1>2, <2>1, <2>2, <2>6, WriteDrops DEF Update, CreateAlbum
<1>3. ASSUME NEW r \in Requests, NEW gone \in SUBSET Items, DeletePhotos(r, gone) PROVE MediaInv'
  <2> DEFINE list == [i \in Items |-> IF i \in gone THEN None ELSE shelf["photos"][i]]
  <2>1. list \in Lists
    BY <1>0 DEF Lists
  <2>2. shelf' = [shelf EXCEPT !["photos"] = list]
        /\ album' = [i \in Items |-> IF i \in gone THEN {} ELSE album[i]]
    BY <1>3 DEF DeletePhotos
  <2>3. \A i \in Items : list[i] = IF i \in gone THEN None ELSE shelf["photos"][i]
    OBVIOUS
  <2> HIDE DEF list
  <2>4. shelf'["albums"] = shelf["albums"] /\ shelf'["photos"] = list
    BY <1>0, <2>2
  <2>5. Have("albums")' = Have("albums") /\ Have("photos") \ gone \subseteq Have("photos")'
    BY <1>0, <2>3, <2>4 DEF Have
  <2>6. Sorted'
    BY <1>0, <2>2, <2>5 DEF Sorted
  <2> QED
    BY <1>0, <1>3, <2>1, <2>2, <2>6, WriteDrops DEF DeletePhotos
<1>4. ASSUME NEW r \in Requests, NEW i \in Items, DeleteAlbum(r, i) PROVE MediaInv'
  <2> DEFINE list == [shelf["albums"] EXCEPT ![i] = None]
  <2>1. list \in Lists /\ \A j \in Items \ {i} : list[j] = shelf["albums"][j]
    BY <1>0 DEF Lists
  <2>2. shelf' = [shelf EXCEPT !["albums"] = list] /\ album' = [j \in Items |-> album[j] \ {i}]
    BY <1>0, <1>4 DEF DeleteAlbum
  <2> HIDE DEF list
  <2>4. shelf'["photos"] = shelf["photos"] /\ shelf'["albums"] = list
    BY <1>0, <2>2
  <2>5. Have("photos")' = Have("photos") /\ Have("albums") \ {i} \subseteq Have("albums")'
    BY <2>1, <2>4 DEF Have
  <2>6. Sorted'
    BY <1>0, <2>2, <2>5 DEF Sorted
  <2>7. album' \in [Items -> SUBSET Items]
    BY <1>0, <2>2
  <2> QED
    BY <1>0, <1>4, <2>1, <2>2, <2>6, <2>7, WriteDrops DEF DeleteAlbum
<1>5. NoMedia \in MediaRow /\ NoMedia.step = "idle" /\ MediaShape(NoMedia)
  BY DEF NoMedia, MediaRow, MediaShape, Shelves
<1>6. ASSUME NEW r \in Requests, DropList(r) PROVE MediaInv'
  <2>1. PICK kind \in Shelves : kind = media[r].kind
    BY <1>0 DEF MediaRow
  <2>2. /\ kept' = [kept EXCEPT ![kind] = None] /\ overtaken' = overtaken \ {kind}
        /\ media' = [media EXCEPT ![r] = NoMedia] /\ UNCHANGED <<shelf, album>>
    BY <1>6, <2>1 DEF DropList
  <2>3. ASSUME NEW k \in Shelves PROVE Fresh(k)'
    <3>1. CASE k = kind
      BY <1>0, <2>2, <3>1 DEF Fresh
    <3>2. CASE k # kind
      <4>1. Fresh(k) /\ kept'[k] = kept[k] /\ (k \in overtaken <=> k \in overtaken')
        BY <1>0, <2>2, <3>2
      <4>2. \A s \in Requests : media[s].kind = k => media'[s] = media[s]
        BY <1>0, <2>1, <2>2, <3>2
      <4> QED
        BY <2>2, <4>1, <4>2 DEF Fresh
    <3> QED
      BY <3>1, <3>2
  <2>4. \A s \in Requests : MediaShape(media'[s])
    BY <1>0, <1>5, <2>2
  <2> QED
    BY <1>0, <1>5, <2>2, <2>3, <2>4 DEF MediaInv, Sorted, Have
<1>7. ASSUME NEW r \in Requests, NEW kind \in Shelves, GetMissed(r, kind) PROVE MediaInv'
  <2> DEFINE q == [step |-> "keep", kind |-> kind, list |-> shelf[kind]]
  <2>1. MediaShape(q) /\ q.step = "keep" /\ q \in MediaRow
    BY <1>0 DEF MediaShape, MediaRow
  <2>2. media' = [media EXCEPT ![r] = q] /\ UNCHANGED <<shelf, album, kept, overtaken>>
        /\ media[r].step = "idle"
    BY <1>7 DEF GetMissed, MediaAt
  <2> HIDE DEF q
  <2>3. ASSUME NEW k \in Shelves PROVE Fresh(k)'
    <3>1. Fresh(k) /\ \A s \in Requests : media[s].step = "drop" => media'[s] = media[s]
      BY <1>0, <2>2
    <3> QED
      BY <2>2, <3>1 DEF Fresh
  <2>4. \A s \in Requests : MediaShape(media'[s])
    BY <1>0, <2>1, <2>2
  <2> QED
    BY <1>0, <2>1, <2>2, <2>3, <2>4 DEF MediaInv, Sorted, Have
<1>8. ASSUME NEW r \in Requests, KeepList(r) PROVE MediaInv'
  <2>1. PICK kind \in Shelves, list \in Lists : kind = media[r].kind /\ list = media[r].list
    BY <1>0, <1>8 DEF KeepList, MediaAt, MediaShape, MediaRow
  <2>2. /\ kept' = [kept EXCEPT ![kind] = list]
        /\ overtaken' = IF list = shelf[kind] THEN overtaken \ {kind} ELSE overtaken \cup {kind}
        /\ media' = [media EXCEPT ![r] = NoMedia] /\ UNCHANGED <<shelf, album>> /\ media[r].step = "keep"
    BY <1>8, <2>1 DEF KeepList, MediaAt
  <2>3. ASSUME NEW k \in Shelves PROVE Fresh(k)'
    <3>1. CASE k = kind
      BY <1>0, <2>2, <3>1 DEF Fresh
    <3>2. CASE k # kind
      <4>1. Fresh(k) /\ kept'[k] = kept[k] /\ (k \in overtaken <=> k \in overtaken')
        BY <1>0, <2>2, <3>2
      <4>2. \A s \in Requests : media[s].step = "drop" => media'[s] = media[s]
        BY <1>0, <2>2
      <4> QED
        BY <2>2, <4>1, <4>2 DEF Fresh
    <3> QED
      BY <3>1, <3>2
  <2>4. \A s \in Requests : MediaShape(media'[s])
    BY <1>0, <1>5, <2>2
  <2>5. overtaken' \subseteq Shelves /\ kept' \in [Shelves -> Lists \cup {None}]
        /\ media' \in [Requests -> MediaRow]
    BY <1>0, <1>5, <2>1, <2>2
  <2> QED
    BY <1>0, <2>2, <2>3, <2>4, <2>5 DEF MediaInv, Sorted, Have
<1>9. ASSUME NEW kind \in Shelves, ListExpires(kind) PROVE MediaInv'
  <2>1. /\ kept' = [kept EXCEPT ![kind] = None] /\ overtaken' = overtaken \ {kind}
        /\ UNCHANGED <<shelf, album, media>>
    BY <1>9 DEF ListExpires
  <2>2. ASSUME NEW k \in Shelves PROVE Fresh(k)'
    <3>1. Fresh(k) /\ (k # kind => kept'[k] = kept[k]) /\ (k = kind => kept'[k] = None)
      BY <1>0, <2>1
    <3> QED
      BY <2>1, <3>1 DEF Fresh
  <2> QED
    BY <1>0, <2>1, <2>2 DEF MediaInv, Sorted, Have
<1>10. CASE UNCHANGED mediaVars
  BY <1>10 DEF mediaVars, MediaInv, Fresh, Sorted, Have
<1> QED
  BY <1>0, <1>1, <1>2, <1>3, <1>4, <1>6, <1>7, <1>8, <1>9, <1>10 DEF MediaNext

LEMMA MediaSafe == MediaSpec => [](MediaTypeOK /\ ListsAreFresh)
<1>1. ASSUME MediaInit PROVE MediaInv
  <2>1. NoRow \in Lists /\ NoMedia \in MediaRow /\ NoMedia.step = "idle"
    BY DEF NoRow, Lists, NoMedia, MediaRow, Shelves
  <2> QED
    BY <1>1, <2>1 DEF MediaInit, MediaInv, MediaShape, Fresh, Sorted
<1>2. ASSUME MediaInv, [MediaNext]_mediaVars PROVE MediaInv'
  BY <1>2, NextMediaInv, MediaAssumption
<1>3. ASSUME MediaInv PROVE MediaTypeOK /\ ListsAreFresh
  BY <1>3 DEF MediaInv, MediaTypeOK, ListsAreFresh, Lists, MediaRow, Fresh, Sorted
<1> QED
  BY <1>1, <1>2, <1>3, PTL DEF MediaSpec

-----------------------------------------------------------------------------
(* Credentials and variables of an agent.                                    *)

PartRows == [Rows -> PartNames \cup {None}]

CredentialRows == [Rows -> Credentials \cup {None}]

Doings == {"add", "update", "delete", "add variable", "update variable", "delete variable"}

VariableDoings == {"add variable", "update variable", "delete variable"}

ChangeRow ==
    [step : {"idle", "exists", "delete", "store"}, does : Doings \cup {None},
     row : Rows \cup {None}, old : Credentials \cup {None},
     part : PartNames \cup Credentials \cup {None}]

\* What each step needs of its locals; only an update that has deleted knows
\* an old credential.
ChangeShape(q) ==
    /\ q \in ChangeRow
    /\ q.old # None => q.step = "store" /\ q.does = "update"
    /\ q.step # "idle" =>
         /\ q.does \in {"add", "update"} => q.part \in Credentials
         /\ q.does \in {"add variable", "update variable"} => q.part \in PartNames
         /\ q.does \in {"update", "delete", "update variable", "delete variable"} => q.row \in Rows
    /\ q.step = "store" /\ q.does = "update" => q.old \in Credentials
    /\ q.step = "exists" => q.does \in Doings \ {"add", "add variable"}
    /\ q.step = "delete" => q.does \in {"update", "delete"}
    /\ q.step = "store" => q.does \in {"add", "update"} \cup VariableDoings

\* Names are unique among rows.
Apart(rows) == \A x, y \in Rows : rows[x] = rows[y] /\ x # y => rows[x] = None

NamesApart(rows) ==
    \A x, y \in Rows : rows[x] # None /\ rows[y] # None /\ x # y => rows[x].name # rows[y].name

Gap == {change[r].old : r \in {r \in Requests : ChangeAt(r, "store")}}

PartsInv ==
    /\ agentRow \in BOOLEAN
    /\ credential \in CredentialRows /\ variable \in PartRows
    /\ change \in [Requests -> ChangeRow]
    /\ wanted \cup lost \cup overwritten \subseteq Credentials
    /\ \A r \in Requests : ChangeShape(change[r])
    /\ wanted \subseteq Kept(credential) \cup Gap \cup lost \cup overwritten
    /\ NamesApart(credential) /\ Apart(variable)
    /\ ~agentRow => Kept(credential) \cup Kept(variable) = {}

LEMMA NoChangeFits == ChangeShape(NoChange) /\ NoChange.old = None /\ NoChange.step = "idle"
  BY DEF NoChange, ChangeShape, ChangeRow, Doings, VariableDoings

\* One request moves on.
LEMMA ChangesTyped ==
  ASSUME PartsInv, NEW r \in Requests, NEW q, ChangeShape(q), change' = [change EXCEPT ![r] = q]
  PROVE  /\ change' \in [Requests -> ChangeRow] /\ \A s \in Requests : ChangeShape(change'[s])
         /\ change'[r] = q /\ \A s \in Requests \ {r} : change'[s] = change[s]
  BY DEF PartsInv, ChangeShape

\* A step of a request that had no old name and changes no rows.
LEMMA QuietChange ==
  ASSUME PartsAssumption, PartsInv, NEW r \in Requests, NEW q, ChangeShape(q),
         change' = [change EXCEPT ![r] = q], change[r].old = None,
         UNCHANGED <<agentRow, credential, variable, wanted, lost, overwritten>>
  PROVE  PartsInv'
<1>1. /\ change' \in [Requests -> ChangeRow] /\ \A s \in Requests : ChangeShape(change'[s])
      /\ \A s \in Requests \ {r} : change'[s] = change[s]
  BY ChangesTyped
<1>2. ASSUME NEW n \in Gap, n # None PROVE n \in Gap'
  BY <1>1, <1>2 DEF Gap, ChangeAt
<1>3. wanted \subseteq Kept(credential) \cup Gap' \cup lost \cup overwritten
  BY <1>2, PartsAssumption DEF PartsInv, PartsAssumption
<1>4. Kept(credential)' = Kept(credential) /\ Kept(variable)' = Kept(variable)
  BY DEF Kept
<1> QED
  BY <1>1, <1>3, <1>4 DEF PartsInv, Apart, NamesApart

LEMMA OwnerChanges ==
  ASSUME PartsAssumption, PartsInv, NEW r \in Requests, NEW does \in Doings,
         NEW row \in Rows \cup {None}, NEW part \in PartNames \cup Credentials \cup {None},
         does \in {"add", "update"} => part \in Credentials,
         does \in {"add variable", "update variable"} => part \in PartNames,
         does \in {"add", "add variable"} <=> row = None,
         VerifyAgentOwnership(r, does, row, part)
  PROVE  PartsInv'
<1>1. PICK step \in {"store", "exists"} : step = IF row = None THEN "store" ELSE "exists"
  OBVIOUS
<1> DEFINE q == [NoChange EXCEPT !.step = step, !.does = does, !.row = row, !.part = part]
<1>2. /\ q \in ChangeRow /\ q.step = step /\ q.does = does /\ q.row = row /\ q.part = part
      /\ q.old = None
  BY DEF ChangeRow, NoChange
<1>3. change' = [change EXCEPT ![r] = q] /\ change[r].step = "idle"
      /\ UNCHANGED <<agentRow, credential, variable, wanted, lost, overwritten>>
  BY <1>1 DEF VerifyAgentOwnership, ChangeAt
<1> HIDE DEF q
<1>4. ChangeShape(q)
  BY <1>1, <1>2 DEF ChangeShape, Doings, VariableDoings
<1>5. change[r].old = None
  BY <1>3 DEF PartsInv, ChangeShape
<1> QED
  BY <1>3, <1>4, <1>5, QuietChange

LEMMA NextPartsInv == ASSUME PartsAssumption, PartsInv, [PartsNext]_partVars PROVE PartsInv'
<1>0. /\ agentRow \in BOOLEAN /\ credential \in CredentialRows /\ variable \in PartRows
      /\ change \in [Requests -> ChangeRow]
      /\ wanted \subseteq Credentials /\ lost \subseteq Credentials /\ overwritten \subseteq Credentials
      /\ None \notin PartNames /\ None \notin Credentials /\ None \notin Rows
      /\ \A r \in Requests : change[r] \in ChangeRow /\ ChangeShape(change[r])
      /\ NamesApart(credential) /\ Apart(variable)
      /\ wanted \subseteq Kept(credential) \cup Gap \cup lost \cup overwritten
      /\ ~agentRow => Kept(credential) \cup Kept(variable) = {}
  BY DEF PartsInv, PartsAssumption
<1>1. ASSUME NEW r \in Requests, NEW new \in Credentials, AddCredential(r, new) PROVE PartsInv'
  <2>1. VerifyAgentOwnership(r, "add", None, new)
    BY <1>1 DEF AddCredential
  <2> QED
    BY <1>0, <2>1, OwnerChanges DEF Doings
<1>2. ASSUME NEW r \in Requests, NEW name \in PartNames, AddVariable(r, name) PROVE PartsInv'
  <2>1. VerifyAgentOwnership(r, "add variable", None, name)
    BY <1>2 DEF AddVariable
  <2> QED
    BY <1>0, <2>1, OwnerChanges DEF Doings
<1>3. ASSUME NEW r \in Requests, NEW new \in Credentials, NEW x \in Rows, UpdateCredential(r, x, new)
      PROVE  PartsInv'
  <2>1. VerifyAgentOwnership(r, "update", x, new)
    BY <1>3 DEF UpdateCredential
  <2> QED
    BY <1>0, <2>1, OwnerChanges DEF Doings
<1>4. ASSUME NEW r \in Requests, NEW name \in PartNames, NEW x \in Rows, UpdateVariable(r, x, name)
      PROVE  PartsInv'
  <2>1. VerifyAgentOwnership(r, "update variable", x, name)
    BY <1>4 DEF UpdateVariable
  <2> QED
    BY <1>0, <2>1, OwnerChanges DEF Doings
<1>5. ASSUME NEW r \in Requests, NEW x \in Rows, DeleteCredential(r, x) PROVE PartsInv'
  <2>1. VerifyAgentOwnership(r, "delete", x, None)
    BY <1>5 DEF DeleteCredential
  <2> QED
    BY <1>0, <2>1, OwnerChanges DEF Doings
<1>6. ASSUME NEW r \in Requests, NEW x \in Rows, DeleteVariable(r, x) PROVE PartsInv'
  <2>1. VerifyAgentOwnership(r, "delete variable", x, None)
    BY <1>6 DEF DeleteVariable
  <2> QED
    BY <1>0, <2>1, OwnerChanges DEF Doings
<1>7. ASSUME NEW r \in Requests, VerifyExists(r) PROVE PartsInv'
  <2>0. change[r].step = "exists" /\ change[r].old = None /\ change[r] \in ChangeRow /\ ChangeShape(change[r])
    BY <1>0, <1>7 DEF VerifyExists, ChangeAt, ChangeShape
  <2>1. CASE ChangeEnds(r)
    BY <1>7, <2>0, <2>1, NoChangeFits, QuietChange DEF ChangeEnds, VerifyExists
  <2>2. CASE ChangeGoes(r, IF OnVariable(r) THEN "store" ELSE "delete")
    <3>1. PICK step \in {"store", "delete"} : step = IF OnVariable(r) THEN "store" ELSE "delete"
      OBVIOUS
    <3> DEFINE q == [change[r] EXCEPT !.step = step]
    <3>2. /\ q \in ChangeRow /\ q.step = step /\ q.does = change[r].does /\ q.row = change[r].row
          /\ q.part = change[r].part /\ q.old = None
      BY <2>0 DEF ChangeRow
    <3>3. change' = [change EXCEPT ![r] = q]
      BY <2>2, <3>1 DEF ChangeGoes
    <3> HIDE DEF q
    <3>4. ChangeShape(q)
      BY <2>0, <3>1, <3>2 DEF ChangeShape, OnVariable, Doings, VariableDoings
    <3> QED
      BY <1>7, <2>0, <3>3, <3>4, QuietChange DEF VerifyExists
  <2> QED
    BY <1>7, <2>1, <2>2 DEF VerifyExists
<1>8. ASSUME NEW r \in Requests, DeleteCredentialRow(r) PROVE PartsInv'
  <2>0. /\ change[r].step = "delete" /\ change[r].old = None /\ change[r] \in ChangeRow
        /\ ChangeShape(change[r]) /\ change[r].row \in Rows /\ change[r].does \in {"update", "delete"}
    BY <1>0, <1>8 DEF DeleteCredentialRow, ChangeAt, ChangeShape
  <2>1. PICK c \in Rows : c = change[r].row
    BY <2>0
  <2>2. CASE credential[c] = None
    BY <1>8, <2>0, <2>1, <2>2, NoChangeFits, QuietChange DEF ChangeEnds, DeleteCredentialRow
  <2>3. CASE credential[c] # None
    <3>1. credential' = [credential EXCEPT ![c] = None] /\ UNCHANGED <<agentRow, variable, lost, overwritten>>
      BY <1>8, <2>1, <2>3 DEF DeleteCredentialRow
    <3>2. credential' \in CredentialRows /\ NamesApart(credential')
      BY <1>0, <3>1 DEF CredentialRows, NamesApart
    <3>3. Kept(credential') \subseteq Kept(credential) /\ Kept(credential) \subseteq Kept(credential') \cup {credential[c]}
      BY <1>0, <3>1 DEF CredentialRows, Kept
    <3>4. CASE change[r].does = "update"
      <4> DEFINE q == [change[r] EXCEPT !.step = "store", !.old = credential[c]]
      <4>1. credential[c] \in Credentials
        BY <1>0, <2>3 DEF CredentialRows
      <4>2. /\ q \in ChangeRow /\ q.step = "store" /\ q.does = "update" /\ q.row = change[r].row
            /\ q.part = change[r].part /\ q.old = credential[c]
        BY <2>0, <3>4, <4>1 DEF ChangeRow
      <4>3. change' = [change EXCEPT ![r] = q] /\ wanted' = wanted
        BY <1>8, <2>1, <2>3, <3>4 DEF DeleteCredentialRow
      <4> HIDE DEF q
      <4>4. ChangeShape(q)
        BY <2>0, <3>4, <4>1, <4>2 DEF ChangeShape, Doings, VariableDoings
      <4>5. /\ change' \in [Requests -> ChangeRow] /\ \A s \in Requests : ChangeShape(change'[s])
            /\ change'[r] = q /\ \A s \in Requests \ {r} : change'[s] = change[s]
        BY <4>3, <4>4, ChangesTyped
      <4>6. Gap \cup {credential[c]} \subseteq Gap'
        BY <2>0, <4>2, <4>5 DEF Gap, ChangeAt
      <4> QED
        BY <1>0, <3>1, <3>2, <3>3, <4>3, <4>5, <4>6 DEF PartsInv
    <3>5. CASE change[r].does # "update"
      <4>1. change' = [change EXCEPT ![r] = NoChange] /\ wanted' = wanted \ {credential[c]}
        BY <1>8, <2>1, <2>3, <3>5 DEF DeleteCredentialRow, ChangeEnds
      <4>2. /\ change' \in [Requests -> ChangeRow] /\ \A s \in Requests : ChangeShape(change'[s])
            /\ \A s \in Requests \ {r} : change'[s] = change[s]
        BY <4>1, NoChangeFits, ChangesTyped
      <4>3. Gap \subseteq Gap'
        BY <2>0, <4>2 DEF Gap, ChangeAt
      <4> QED
        BY <1>0, <3>1, <3>2, <3>3, <4>1, <4>2, <4>3 DEF PartsInv
    <3> QED
      BY <3>4, <3>5
  <2> QED
    BY <2>2, <2>3
\* A request that stores leaves the gap with its old credential.
<1>9. ASSUME NEW r \in Requests, change[r].step = "store", ChangeEnds(r)
      PROVE  /\ change' \in [Requests -> ChangeRow] /\ \A s \in Requests : ChangeShape(change'[s])
             /\ Gap \ {change[r].old} \subseteq Gap'
  <2>1. /\ change' \in [Requests -> ChangeRow] /\ \A s \in Requests : ChangeShape(change'[s])
        /\ \A s \in Requests \ {r} : change'[s] = change[s]
    BY <1>9, NoChangeFits, ChangesTyped DEF ChangeEnds
  <2> QED
    BY <2>1 DEF Gap, ChangeAt
<1>10. ASSUME NEW r \in Requests, StoreCredential(r) PROVE PartsInv'
  <2>0. /\ change[r].step = "store" /\ change[r] \in ChangeRow /\ ChangeShape(change[r])
        /\ change[r].does \in {"add", "update"} /\ change[r].part \in Credentials
        /\ agentRow
    BY <1>0, <1>10 DEF StoreCredential, ChangeAt, ChangeShape, OnVariable, VariableDoings
  <2>1. PICK new \in Credentials : new = change[r].part
    BY <2>0
  <2>2. PICK over : over = {credential[c] : c \in Holding(new.name)}
    OBVIOUS
  <2>3. /\ wanted' = (wanted \ {change[r].old}) \cup {new} /\ lost' = lost \ {new}
        /\ overwritten' = (overwritten \cup over) \ {new}
        /\ ChangeEnds(r) /\ UNCHANGED <<agentRow, variable>>
    BY <1>10, <2>1, <2>2 DEF StoreCredential, Stored
  <2>4. PICK c \in Rows :
          /\ c \in Holding(new.name) \/ (Holding(new.name) = {} /\ credential[c] = None)
          /\ credential' = [credential EXCEPT ![c] = new]
    BY <1>10, <2>1 DEF StoreCredential
  <2>5. credential' \in CredentialRows /\ credential'[c] = new /\ \A x \in Rows \ {c} : credential'[x] = credential[x]
    BY <1>0, <2>4 DEF CredentialRows
  <2>6. \A x \in Rows \ {c} : credential[x] # None => credential[x].name # new.name
    <3>1. CASE c \in Holding(new.name)
      BY <1>0, <3>1 DEF Holding, NamesApart
    <3>2. CASE Holding(new.name) = {}
      BY <3>2 DEF Holding
    <3> QED
      BY <2>4, <3>1, <3>2
  <2>7. NamesApart(credential')
    BY <1>0, <2>5, <2>6 DEF NamesApart
  <2>8. new \in Kept(credential')
    BY <1>0, <2>5 DEF Kept
  <2>9. Kept(credential) \subseteq Kept(credential') \cup over
    <3>1. ASSUME NEW x \in Rows, credential[x] # None PROVE credential[x] \in Kept(credential') \cup over
      <4>1. CASE x = c
        BY <2>2, <2>4, <3>1, <4>1
      <4>2. CASE x # c
        BY <2>5, <3>1, <4>2 DEF Kept
      <4> QED
        BY <4>1, <4>2
    <3> QED
      BY <3>1 DEF Kept
  <2>10. over \subseteq Credentials
    BY <1>0, <2>2 DEF Holding, CredentialRows
  <2>11. wanted' \subseteq Kept(credential') \cup Gap' \cup lost' \cup overwritten'
    BY <1>0, <1>9, <2>0, <2>3, <2>8, <2>9
  <2>12. wanted' \cup lost' \cup overwritten' \subseteq Credentials
    BY <1>0, <2>3, <2>10
  <2> QED
    BY <1>0, <1>9, <2>0, <2>3, <2>5, <2>7, <2>11, <2>12 DEF PartsInv
<1>11. ASSUME NEW r \in Requests, StoreFails(r) PROVE PartsInv'
  <2>0. /\ change[r].step = "store" /\ change[r] \in ChangeRow /\ ChangeShape(change[r])
        /\ change[r].old \in Credentials \cup {None} /\ (change[r].old # None => change[r].does = "update")
        /\ change[r].does = "update" => change[r].old \in Credentials
    BY <1>0, <1>11 DEF StoreFails, ChangeAt, ChangeShape, ChangeRow
  <2>1. /\ lost' = IF change[r].does = "update" THEN lost \cup {change[r].old} ELSE lost
        /\ ChangeEnds(r) /\ UNCHANGED <<agentRow, credential, variable, wanted, overwritten>>
    BY <1>11 DEF StoreFails
  <2>2. wanted \subseteq Kept(credential) \cup Gap' \cup lost' \cup overwritten
    BY <1>0, <1>9, <2>0, <2>1
  <2>4. lost' \subseteq Credentials
    BY <1>0, <2>0, <2>1
  <2> QED
    BY <1>0, <1>9, <2>0, <2>1, <2>2, <2>4 DEF PartsInv
<1>12. ASSUME NEW r \in Requests, StoreVariable(r) PROVE PartsInv'
  <2>0. /\ change[r].step = "store" /\ change[r] \in ChangeRow /\ ChangeShape(change[r])
        /\ change[r].does \in VariableDoings /\ change[r].old = None
    BY <1>0, <1>12 DEF StoreVariable, ChangeAt, ChangeShape, OnVariable, VariableDoings
  <2>1. ChangeEnds(r) /\ UNCHANGED <<agentRow, credential, wanted, lost, overwritten>>
    BY <1>12 DEF StoreVariable
  <2>2. /\ variable' \in PartRows /\ Apart(variable') /\ (~agentRow => Kept(variable') = {})
    <3>1. CASE variable' = variable
      BY <1>0, <3>1
    <3>2. CASE WriteVariable(r)
      <4>1. PICK v \in Rows, name \in PartNames \cup {None} :
              /\ variable' = [variable EXCEPT ![v] = name]
              /\ \A x \in Rows \ {v} : variable[x] # name \/ name = None
              /\ agentRow \/ variable[v] # None
        <5>1. CASE /\ change[r].does = "add variable" /\ agentRow /\ change[r].part \notin Kept(variable)
                   /\ \E w \in {w \in Rows : variable[w] = None} : variable' = [variable EXCEPT ![w] = change[r].part]
          <6>1. change[r].part \in PartNames
            BY <2>0, <5>1 DEF ChangeShape
          <6>2. \A x \in Rows : variable[x] # change[r].part
            BY <1>0, <5>1, <6>1 DEF Kept
          <6>3. PICK w \in Rows : variable[w] = None /\ variable' = [variable EXCEPT ![w] = change[r].part]
            BY <5>1
          <6> QED
            BY <5>1, <6>1, <6>2, <6>3
        <5>2. CASE /\ change[r].does = "update variable" /\ variable[change[r].row] # None
                   /\ change[r].part \notin Kept([variable EXCEPT ![change[r].row] = None])
                   /\ variable' = [variable EXCEPT ![change[r].row] = change[r].part]
          <6>1. change[r].part \in PartNames /\ change[r].row \in Rows
            BY <2>0, <5>2 DEF ChangeShape
          <6>2. PICK rows : rows = [variable EXCEPT ![change[r].row] = None]
            OBVIOUS
          <6>3. \A x \in Rows \ {change[r].row} : rows[x] = variable[x]
            BY <1>0, <6>1, <6>2 DEF PartRows
          <6>4. change[r].part \notin Kept(rows)
            BY <5>2, <6>2
          <6>5. \A x \in Rows \ {change[r].row} : variable[x] # change[r].part
            BY <1>0, <6>1, <6>3, <6>4 DEF Kept
          <6> QED
            BY <5>2, <6>1, <6>5
        <5>3. CASE /\ change[r].does = "delete variable" /\ variable[change[r].row] # None
                   /\ variable' = [variable EXCEPT ![change[r].row] = None]
          <6>1. change[r].row \in Rows
            BY <2>0, <5>3 DEF ChangeShape
          <6> QED
            BY <5>3, <6>1
        <5> QED
          BY <3>2, <5>1, <5>2, <5>3 DEF WriteVariable
      <4>2. variable' \in PartRows /\ variable'[v] = name /\ \A x \in Rows \ {v} : variable'[x] = variable[x]
        BY <1>0, <4>1 DEF PartRows
      <4>3. Apart(variable')
        BY <1>0, <4>1, <4>2 DEF Apart
      <4>4. variable[v] # None => Kept(variable) # {}
        BY DEF Kept
      <4> QED
        BY <1>0, <4>1, <4>2, <4>3, <4>4
    <3> QED
      BY <1>12, <3>1, <3>2 DEF StoreVariable
  <2>3. wanted \subseteq Kept(credential) \cup Gap' \cup lost \cup overwritten
    BY <1>0, <1>9, <2>0, <2>1
  <2> QED
    BY <1>0, <1>9, <2>0, <2>1, <2>2, <2>3 DEF PartsInv
<1>13. CASE DeleteAgent
  <2>1. /\ agentRow' = FALSE /\ credential' = [c \in Rows |-> None] /\ variable' = [v \in Rows |-> None]
        /\ wanted' = {} /\ lost' = {} /\ overwritten' = {} /\ change' = change
    BY <1>13 DEF DeleteAgent
  <2>2. /\ credential' \in CredentialRows /\ variable' \in PartRows
        /\ NamesApart(credential') /\ Apart(variable')
    BY <2>1 DEF PartRows, CredentialRows, Apart, NamesApart
  <2>3. Kept(credential') \cup Kept(variable') = {}
    BY <2>1 DEF Kept
  <2> QED
    BY <1>0, <2>1, <2>2, <2>3 DEF PartsInv
<1>14. CASE UNCHANGED partVars
  BY <1>14 DEF partVars, PartsInv, Kept, Gap, ChangeAt, Apart, NamesApart
<1> QED
  BY <1>1, <1>2, <1>3, <1>4, <1>5, <1>6, <1>7, <1>8, <1>10, <1>11, <1>12, <1>13, <1>14 DEF PartsNext

LEMMA PartsSafe == PartsSpec => [](PartsTypeOK /\ CredentialsAreKept)
<1>1. ASSUME PartsInit PROVE PartsInv
  <2>1. \A r \in Requests : change[r] = NoChange
    BY <1>1 DEF PartsInit
  <2> QED
    BY <1>1, <2>1, NoChangeFits DEF PartsInit, PartsInv, PartRows, CredentialRows, Apart, NamesApart, ChangeShape
<1>2. ASSUME PartsInv, [PartsNext]_partVars PROVE PartsInv'
  BY <1>2, NextPartsInv, PartsAssumption
<1>3. ASSUME PartsInv PROVE PartsTypeOK /\ CredentialsAreKept
  <2>1. PartsTypeOK
    BY <1>3 DEF PartsInv, PartsTypeOK, PartRows, CredentialRows, ChangeRow, Doings
  <2>2. CredentialsAreKept
    BY <1>3 DEF PartsInv, CredentialsAreKept, Gap, Apart, NamesApart
  <2> QED
    BY <2>1, <2>2
<1> QED
  BY <1>1, <1>2, <1>3, PTL DEF PartsSpec

-----------------------------------------------------------------------------
(* Cached lookups.                                                           *)

LookupRow ==
    [step : {"idle", "lookup", "wait", "perform", "pages", "fetch", "model", "keep"},
     kind : Lookups \cup {None}, attempt : 0..Retries, urls : 0..3, answer : Answers \cup {None}]

\* Which kinds of lookup a step is of, and what it may come to keep.
LookupShape(q) ==
    /\ q \in LookupRow
    /\ q.step \in {"lookup", "fetch", "keep"} => q.kind \in Lookups
    /\ q.step \in {"wait", "perform", "pages"} => q.kind = "search"
    /\ q.step = "model" => q.kind \in {"url", "search"} /\ q.answer \in Texts
    /\ q.step = "keep" =>
         /\ q.answer \in Answers
         /\ q.kind \in {"url", "search", "raw"} => q.answer # "nothing"

Performs(q) == q.kind = "search" /\ q.step = "perform"

Pays(q) == q.kind = "ai-search" /\ q.step \in {"lookup", "fetch", "keep"}

Performing == {r \in Requests : Performs(lookup[r])}

Paying == {r \in Requests : Pays(lookup[r])}

KeptAnswers(c) ==
    /\ c \in [Lookups -> Answers \cup {None}]
    /\ \A kind \in {"url", "search", "raw"} : c[kind] # "nothing"

CacheInv ==
    /\ KeptAnswers(cached)
    /\ lookup \in [Requests -> LookupRow]
    /\ \A r \in Requests : LookupShape(lookup[r])
    /\ IsFiniteSet(Performing) /\ activeRequests = Cardinality(Performing)
    /\ activeRequests <= ConcurrencyLimit
    /\ IsFiniteSet(Paying) /\ paid = Cardinality(Paying)

\* A set that differs from another one in one element at most.
LEMMA OneApart ==
  ASSUME NEW S, NEW T, NEW r, IsFiniteSet(S), S \ {r} = T \ {r}
  PROVE  /\ IsFiniteSet(T) /\ Cardinality(S) \in Nat
         /\ (r \in S <=> r \in T) => Cardinality(T) = Cardinality(S)
         /\ r \notin S /\ r \in T => Cardinality(T) = Cardinality(S) + 1
         /\ r \in S /\ r \notin T => Cardinality(T) = Cardinality(S) - 1
<1>1. Cardinality(S) \in Nat
  BY FS_CardinalityType
<1>2. CASE r \in S <=> r \in T
  <2>1. T = S
    BY <1>2
  <2> QED
    BY <1>1, <1>2, <2>1
<1>3. CASE r \notin S /\ r \in T
  <2>1. T = S \cup {r}
    BY <1>3
  <2>2. IsFiniteSet(T) /\ Cardinality(T) = Cardinality(S) + 1
    BY <1>3, <2>1, FS_AddElement
  <2> QED
    BY <1>1, <1>3, <2>2
<1>4. CASE r \in S /\ r \notin T
  <2>1. T = S \ {r}
    BY <1>4
  <2>2. IsFiniteSet(T) /\ Cardinality(T) = Cardinality(S) - 1
    BY <1>4, <2>1, FS_RemoveElement
  <2> QED
    BY <1>1, <1>4, <2>2
<1> QED
  BY <1>2, <1>3, <1>4

\* A lookup moves, and the counters with it.
LEMMA LookupMoves ==
  ASSUME PageCacheAssumption, CacheInv, NEW r \in Requests, NEW q, LookupShape(q),
         lookup' = [lookup EXCEPT ![r] = q], KeptAnswers(cached'),
         activeRequests' = IF Performs(q) /\ ~Performs(lookup[r]) THEN activeRequests + 1
                           ELSE IF Performs(lookup[r]) /\ ~Performs(q) THEN activeRequests - 1
                           ELSE activeRequests,
         Performs(q) /\ ~Performs(lookup[r]) => activeRequests < ConcurrencyLimit,
         paid' = IF Pays(q) /\ ~Pays(lookup[r]) THEN paid + 1
                 ELSE IF Pays(lookup[r]) /\ ~Pays(q) THEN paid - 1
                 ELSE paid
  PROVE  CacheInv'
<1>1. /\ lookup' \in [Requests -> LookupRow] /\ lookup'[r] = q
      /\ \A s \in Requests \ {r} : lookup'[s] = lookup[s]
  BY DEF CacheInv, LookupShape
<1>2. \A s \in Requests : LookupShape(lookup'[s])
  BY <1>1 DEF CacheInv
<1>3. PICK A, B : A = Performing /\ B = Performing'
  OBVIOUS
<1>4. PICK C, D : C = Paying /\ D = Paying'
  OBVIOUS
<1>5. IsFiniteSet(A) /\ A \ {r} = B \ {r} /\ IsFiniteSet(C) /\ C \ {r} = D \ {r}
  BY <1>1, <1>3, <1>4 DEF CacheInv, Performing, Paying
<1>6. /\ r \in A <=> Performs(lookup[r])
      /\ r \in B <=> Performs(q)
      /\ r \in C <=> Pays(lookup[r])
      /\ r \in D <=> Pays(q)
  BY <1>1, <1>3, <1>4 DEF Performing, Paying
<1>7. /\ activeRequests = Cardinality(A) /\ activeRequests <= ConcurrencyLimit
      /\ paid = Cardinality(C) /\ ConcurrencyLimit \in Nat
  BY <1>3, <1>4, PageCacheAssumption DEF CacheInv, PageCacheAssumption
<1>8. IsFiniteSet(B) /\ Cardinality(A) \in Nat
      /\ activeRequests' = Cardinality(B) /\ activeRequests' <= ConcurrencyLimit
  <2>1. /\ IsFiniteSet(B) /\ Cardinality(A) \in Nat
        /\ (r \in A <=> r \in B) => Cardinality(B) = Cardinality(A)
        /\ r \notin A /\ r \in B => Cardinality(B) = Cardinality(A) + 1
        /\ r \in A /\ r \notin B => Cardinality(B) = Cardinality(A) - 1
    BY <1>5, OneApart
  <2>2. CASE Performs(q) /\ ~Performs(lookup[r])
    BY <1>6, <1>7, <2>1, <2>2
  <2>3. CASE Performs(lookup[r]) /\ ~Performs(q)
    BY <1>6, <1>7, <2>1, <2>3
  <2>4. CASE Performs(lookup[r]) <=> Performs(q)
    BY <1>6, <1>7, <2>1, <2>4
  <2> QED
    BY <2>2, <2>3, <2>4
<1>9. IsFiniteSet(D) /\ paid' = Cardinality(D)
  <2>1. /\ IsFiniteSet(D) /\ Cardinality(C) \in Nat
        /\ (r \in C <=> r \in D) => Cardinality(D) = Cardinality(C)
        /\ r \notin C /\ r \in D => Cardinality(D) = Cardinality(C) + 1
        /\ r \in C /\ r \notin D => Cardinality(D) = Cardinality(C) - 1
    BY <1>5, OneApart
  <2>2. CASE Pays(q) /\ ~Pays(lookup[r])
    BY <1>6, <1>7, <2>1, <2>2
  <2>3. CASE Pays(lookup[r]) /\ ~Pays(q)
    BY <1>6, <1>7, <2>1, <2>3
  <2>4. CASE Pays(lookup[r]) <=> Pays(q)
    BY <1>6, <1>7, <2>1, <2>4
  <2> QED
    BY <2>2, <2>3, <2>4
<1> QED
  BY <1>1, <1>2, <1>3, <1>4, <1>8, <1>9 DEF CacheInv

LEMMA NoLookupShape == ASSUME PageCacheAssumption PROVE LookupShape(NoLookup) /\ ~Performs(NoLookup) /\ ~Pays(NoLookup)
<1>1. 0 \in 0 .. Retries
  BY PageCacheAssumption DEF PageCacheAssumption
<1>2. NoLookup \in LookupRow /\ NoLookup.step = "idle"
  BY <1>1 DEF NoLookup, LookupRow
<1>3. LookupShape(NoLookup)
  BY <1>2 DEF LookupShape
<1> QED
  BY <1>2, <1>3 DEF Performs, Pays

LEMMA NextLookup ==
  ASSUME CacheInv, NEW r \in Requests
  PROVE  /\ lookup[r] \in LookupRow /\ LookupShape(lookup[r])
         /\ \A q : lookup' = [lookup EXCEPT ![r] = q] => lookup'[r] = q
<1>1. lookup[r] \in LookupRow /\ LookupShape(lookup[r])
  BY DEF CacheInv
<1>2. \A q : lookup' = [lookup EXCEPT ![r] = q] => lookup'[r] = q
  BY DEF CacheInv
<1> QED
  BY <1>1, <1>2

\* A lookup that ends is counted out.
LEMMA EndKeeps ==
  ASSUME PageCacheAssumption, CacheInv, NEW r \in Requests, LookupEnds(r), KeptAnswers(cached'),
         lookup[r].step \in {"lookup", "pages", "fetch", "keep"}, activeRequests' = activeRequests
  PROVE  CacheInv'
<1>1. LookupShape(NoLookup) /\ ~Performs(NoLookup) /\ ~Pays(NoLookup)
  BY NoLookupShape
<1>2. LookupShape(lookup[r])
  BY NextLookup
<1>3. ~Performs(lookup[r]) /\ (Pays(lookup[r]) <=> lookup[r].kind = "ai-search")
  BY <1>2 DEF Performs, Pays, LookupShape
<1>4. lookup' = [lookup EXCEPT ![r] = NoLookup]
      /\ paid' = IF lookup[r].kind = "ai-search" THEN paid - 1 ELSE paid
  BY DEF LookupEnds
<1> QED
  BY <1>1, <1>3, <1>4, LookupMoves

\* One that goes on without beginning or ending a search is not.
LEMMA OnKeeps ==
  ASSUME PageCacheAssumption, CacheInv, NEW r \in Requests, NEW q, LookupShape(q),
         lookup' = [lookup EXCEPT ![r] = q], UNCHANGED <<cached, activeRequests, paid>>,
         q.kind = lookup[r].kind, q.step # "perform", lookup[r].step # "perform",
         (lookup[r].step \in {"lookup", "fetch"} /\ q.step \in {"fetch", "keep"}) \/ q.kind \in {"url", "search", "raw"}
  PROVE  CacheInv'
<1>1. KeptAnswers(cached') /\ activeRequests' = activeRequests /\ paid' = paid
  BY DEF CacheInv
<1>2. ~Performs(q) /\ ~Performs(lookup[r]) /\ (Pays(q) <=> Pays(lookup[r]))
  BY DEF Performs, Pays
<1> QED
  BY <1>1, <1>2, LookupMoves

LEMMA NextCacheInv == ASSUME PageCacheAssumption, CacheInv, [CacheNext]_cacheVars PROVE CacheInv'
<1>0. KeptAnswers(cached) /\ PageCacheAssumption
  BY DEF CacheInv
<1>1. CASE UNCHANGED cacheVars
  BY <1>1 DEF CacheInv, KeptAnswers, Performing, Paying, cacheVars
<1>2. ASSUME NEW r \in Requests, NEW kind \in Lookups,
             (kind # "ai-search" /\ LookUp(r, kind)) \/ (kind = "ai-search" /\ AiSearch(r))
      PROVE  CacheInv'
  <2> DEFINE q == [NoLookup EXCEPT !.step = "lookup", !.kind = kind]
  <2>1. q \in LookupRow /\ q.step = "lookup" /\ q.kind = kind
    BY NoLookupShape DEF LookupShape, LookupRow, NoLookup
  <2>2. /\ lookup[r].step = "idle" /\ lookup' = [lookup EXCEPT ![r] = q]
        /\ cached' = cached /\ activeRequests' = activeRequests
        /\ paid' = IF kind = "ai-search" THEN paid + 1 ELSE paid
    BY <1>2 DEF LookUp, AiSearch
  <2> HIDE DEF q
  <2>3. LookupShape(q)
    BY <2>1 DEF LookupShape
  <2>4. ~Performs(q) /\ ~Performs(lookup[r]) /\ ~Pays(lookup[r]) /\ (Pays(q) <=> kind = "ai-search")
    BY <2>1, <2>2 DEF Performs, Pays
  <2> QED
    BY <1>0, <2>2, <2>3, <2>4, LookupMoves
<1>3. ASSUME NEW r \in Requests, Hit(r) PROVE CacheInv'
  BY <1>0, <1>3, EndKeeps DEF Hit
<1>4. ASSUME NEW r \in Requests, Miss(r) PROVE CacheInv'
  <2>1. lookup[r].step = "lookup" /\ LookupShape(lookup[r])
    BY <1>4, NextLookup DEF Miss
  <2>2. PICK st \in {"wait", "fetch"} : st = (IF lookup[r].kind = "search" THEN "wait" ELSE "fetch")
    OBVIOUS
  <2>30. PICK q : q = [lookup[r] EXCEPT !.step = st]
    OBVIOUS
  <2>3. q \in LookupRow /\ q.step = st /\ q.kind = lookup[r].kind
    <3>1. lookup[r] \in LookupRow
      BY NextLookup
    <3> QED
      BY <2>30, <3>1 DEF LookupRow, Answers
  <2>4. lookup' = [lookup EXCEPT ![r] = q] /\ UNCHANGED <<cached, activeRequests, paid>>
    BY <1>4, <2>2, <2>30 DEF Miss, LookupGoes, CacheInv
  <2>5. LookupShape(q)
    BY <2>1, <2>2, <2>3 DEF LookupShape
  <2> QED
    BY <2>1, <2>2, <2>3, <2>4, <2>5, OnKeeps
<1>5. ASSUME NEW r \in Requests, WithConcurrencyLimit(r) PROVE CacheInv'
  <2>1. lookup[r].step = "wait" /\ lookup[r].kind = "search" /\ LookupShape(lookup[r])
    BY <1>5, NextLookup DEF WithConcurrencyLimit, LookupAt
  <2>20. PICK q : q = [lookup[r] EXCEPT !.step = "perform"]
    OBVIOUS
  <2>2. q \in LookupRow /\ q.step = "perform" /\ q.kind = lookup[r].kind
    <3>1. lookup[r] \in LookupRow
      BY NextLookup
    <3> QED
      BY <2>20, <3>1 DEF LookupRow, Answers
  <2>3. /\ lookup' = [lookup EXCEPT ![r] = q] /\ cached' = cached /\ paid' = paid
        /\ activeRequests < ConcurrencyLimit /\ activeRequests' = activeRequests + 1
    BY <1>5, <2>20 DEF WithConcurrencyLimit, LookupGoes, CacheInv
  <2>4. LookupShape(q)
    BY <2>1, <2>2 DEF LookupShape
  <2>5. Performs(q) /\ ~Performs(lookup[r]) /\ ~Pays(q) /\ ~Pays(lookup[r])
    BY <2>1, <2>2 DEF Performs, Pays
  <2> QED
    BY <1>0, <2>3, <2>4, <2>5, LookupMoves
<1>6. ASSUME NEW r \in Requests, PerformSearch(r) PROVE CacheInv'
  <2>1. lookup[r].step = "perform" /\ lookup[r].kind = "search" /\ LookupShape(lookup[r])
    BY <1>6, NextLookup DEF PerformSearch, LookupAt
  <2>2. PICK links \in 0 .. 3 : lookup' = [lookup EXCEPT ![r].step = "pages", ![r].urls = links]
    BY <1>6 DEF PerformSearch
  <2>30. PICK q : q = [lookup[r] EXCEPT !.step = "pages", !.urls = links]
    OBVIOUS
  <2>3. q \in LookupRow /\ q.step = "pages" /\ q.kind = lookup[r].kind
    <3>1. lookup[r] \in LookupRow
      BY NextLookup
    <3> QED
      BY <2>30, <3>1 DEF LookupRow, Answers
  <2>4. /\ lookup' = [lookup EXCEPT ![r] = q] /\ cached' = cached /\ paid' = paid
        /\ activeRequests' = activeRequests - 1
    BY <1>6, <2>2, <2>30 DEF PerformSearch, CacheInv
  <2>5. LookupShape(q)
    BY <2>1, <2>3 DEF LookupShape
  <2>6. ~Performs(q) /\ Performs(lookup[r]) /\ ~Pays(q) /\ ~Pays(lookup[r])
    BY <2>1, <2>3 DEF Performs, Pays
  <2> QED
    BY <1>0, <2>4, <2>5, <2>6, LookupMoves
\* A lookup has what it will keep.
<1>7. ASSUME NEW r \in Requests, NEW st \in {"model", "keep"}, NEW answer \in Answers,
             lookup' = [lookup EXCEPT ![r].step = st, ![r].answer = answer],
             UNCHANGED <<cached, activeRequests, paid>>,
             lookup[r].step \in {"pages", "fetch", "model"},
             st = "model" => lookup[r].kind \in {"url", "search"} /\ answer \in Texts,
             lookup[r].kind \in {"url", "search", "raw"} => answer # "nothing"
      PROVE  CacheInv'
  <2>1. LookupShape(lookup[r])
    BY NextLookup
  <2>20. PICK q : q = [lookup[r] EXCEPT !.step = st, !.answer = answer]
    OBVIOUS
  <2>2. q \in LookupRow /\ q.step = st /\ q.kind = lookup[r].kind /\ q.answer = answer
    <3>1. lookup[r] \in LookupRow
      BY NextLookup
    <3> QED
      BY <2>20, <3>1 DEF LookupRow, Answers
  <2>3. lookup' = [lookup EXCEPT ![r] = q]
    BY <1>7, <2>20 DEF CacheInv
  <2>4. lookup[r].kind \in Lookups
    BY <1>7, <2>1 DEF LookupShape, Lookups
  <2>5. LookupShape(q)
    BY <1>7, <2>2, <2>4 DEF LookupShape
  <2>6. (lookup[r].step \in {"lookup", "fetch"} /\ q.step \in {"fetch", "keep"}) \/ q.kind \in {"url", "search", "raw"}
    BY <1>7, <2>1, <2>2 DEF LookupShape
  <2> QED
    BY <1>7, <2>2, <2>3, <2>5, <2>6, OnKeeps
<1>8. ASSUME NEW r \in Requests, SearchAndProcess(r) PROVE CacheInv'
  <2>1. lookup[r].step = "pages" /\ lookup[r].kind = "search" /\ UNCHANGED <<cached, activeRequests>>
    BY <1>8 DEF SearchAndProcess, LookupAt
  <2>2. CASE LookupEnds(r)
    BY <1>0, <2>1, <2>2, EndKeeps
  <2>3. ASSUME NEW text \in Texts, paid' = paid,
               lookup' = [lookup EXCEPT ![r].step = "model", ![r].answer = text]
        PROVE  CacheInv'
    BY <1>7, <2>1, <2>3 DEF Answers, Texts
  <2> QED
    BY <1>8, <2>2, <2>3 DEF SearchAndProcess, PageTexts
<1>9. ASSUME NEW r \in Requests, FetchAndProcessUrl(r) PROVE CacheInv'
  <2>1. lookup[r].step = "fetch" /\ lookup[r].kind = "url" /\ UNCHANGED <<cached, activeRequests>>
    BY <1>9 DEF FetchAndProcessUrl, LookupAt
  <2>2. CASE LookupEnds(r)
    BY <1>0, <2>1, <2>2, EndKeeps
  <2>3. ASSUME NEW text \in Texts, paid' = paid,
               lookup' = [lookup EXCEPT ![r].step = "model", ![r].answer = text]
        PROVE  CacheInv'
    BY <1>7, <2>1, <2>3 DEF Answers, Texts
  <2> QED
    BY <1>9, <2>2, <2>3 DEF FetchAndProcessUrl, PageTexts
<1>10. ASSUME NEW r \in Requests, ProcessWithAI(r) PROVE CacheInv'
  <2>1. lookup[r].step = "model" /\ LookupShape(lookup[r]) /\ UNCHANGED <<cached, activeRequests, paid>>
    BY <1>10, NextLookup DEF ProcessWithAI
  <2>2. PICK answer \in {lookup[r].answer, "apology"} :
          lookup' = [lookup EXCEPT ![r].step = "keep", ![r].answer = answer]
    BY <1>10 DEF ProcessWithAI
  <2>3. answer # "nothing" /\ answer \in Answers /\ lookup[r].kind \in {"url", "search"}
    BY <2>1, <2>2 DEF LookupShape, Answers, Texts
  <2> QED
    BY <1>7, <2>1, <2>2, <2>3
<1>11. ASSUME NEW r \in Requests, FetchWithRetry(r) PROVE CacheInv'
  <2>1. /\ lookup[r].step = "fetch" /\ lookup[r].kind = "raw" /\ UNCHANGED <<cached, activeRequests>>
        /\ LookupShape(lookup[r]) /\ lookup[r] \in LookupRow
    BY <1>11, NextLookup DEF FetchWithRetry, LookupAt
  <2>2. ASSUME NEW text \in Texts, paid' = paid,
               lookup' = [lookup EXCEPT ![r].step = "keep", ![r].answer = text]
        PROVE  CacheInv'
    BY <1>7, <2>1, <2>2 DEF Answers, Texts
  <2>3. CASE /\ lookup[r].attempt < Retries /\ paid' = paid
             /\ lookup' = [lookup EXCEPT ![r].attempt = @ + 1]
    <3>1. PICK n \in 0 .. Retries : n = lookup[r].attempt + 1
      BY <2>1, <2>3, PageCacheAssumption DEF LookupRow, PageCacheAssumption
    <3> DEFINE q == [lookup[r] EXCEPT !.attempt = n]
    <3>2. q \in LookupRow /\ q.step = "fetch" /\ q.kind = "raw"
      BY <2>1 DEF LookupRow
    <3>3. lookup' = [lookup EXCEPT ![r] = q]
      BY <2>3, <3>1 DEF CacheInv
    <3> HIDE DEF q
    <3>4. LookupShape(q)
      BY <3>2 DEF LookupShape, Lookups
    <3> QED
      BY <2>1, <2>3, <3>2, <3>3, <3>4, OnKeeps
  <2>4. CASE LookupEnds(r)
    BY <1>0, <2>1, <2>4, EndKeeps
  <2> QED
    BY <1>11, <2>2, <2>3, <2>4 DEF FetchWithRetry, PageTexts, Texts
<1>12. ASSUME NEW r \in Requests, Gather(r) PROVE CacheInv'
  <2>1. /\ lookup[r].kind \in {"raw-search", "ai-search"} /\ lookup[r].step = "fetch"
        /\ UNCHANGED <<cached, activeRequests, paid>>
        /\ \E answer \in {"found", "nothing"} :
             lookup' = [lookup EXCEPT ![r].step = "keep", ![r].answer = answer]
    BY <1>12 DEF Gather
  <2> QED
    BY <1>7, <2>1 DEF Answers, Texts
<1>13. ASSUME NEW r \in Requests, SetCache(r) PROVE CacheInv'
  <2>1. /\ lookup[r].step = "keep" /\ LookupShape(lookup[r]) /\ LookupEnds(r)
        /\ activeRequests' = activeRequests
        /\ cached' = [cached EXCEPT ![lookup[r].kind] = lookup[r].answer]
    BY <1>13, NextLookup DEF SetCache
  <2>2. PICK kind \in Lookups, answer \in Answers : kind = lookup[r].kind /\ answer = lookup[r].answer
    BY <2>1 DEF LookupShape
  <2>3. kind \in {"url", "search", "raw"} => answer # "nothing"
    BY <2>1, <2>2 DEF LookupShape
  <2>4. KeptAnswers(cached')
    BY <1>0, <2>1, <2>2, <2>3 DEF KeptAnswers, Lookups
  <2> QED
    BY <2>1, <2>4, EndKeeps
<1>14. ASSUME NEW kind \in Lookups, CacheExpires(kind) PROVE CacheInv'
  <2>1. cached' = [cached EXCEPT ![kind] = None] /\ UNCHANGED <<lookup, activeRequests, paid>>
    BY <1>14 DEF CacheExpires
  <2>2. KeptAnswers(cached')
    BY <1>0, <2>1, PageCacheAssumption DEF KeptAnswers, Lookups, PageCacheAssumption
  <2> QED
    BY <2>1, <2>2 DEF CacheInv, Performing, Paying
<1> QED
  <2>1. ASSUME NEW r \in Requests, AiSearch(r) PROVE CacheInv'
    BY <1>2, <2>1 DEF Lookups
  <2>2. ASSUME NEW r \in Requests, NEW kind \in Lookups, LookUp(r, kind) PROVE CacheInv'
    <3>1. kind # "ai-search" /\ LookUp(r, kind)
      BY <2>2 DEF LookUp
    <3> QED
      BY <1>2, <3>1
  <2> QED
    BY <1>1, <1>3, <1>4, <1>5, <1>6, <1>8, <1>9, <1>10, <1>11, <1>12, <1>13, <1>14, <2>1, <2>2
       DEF CacheNext

LEMMA CacheImplies == ASSUME PageCacheAssumption, CacheInv PROVE CacheTypeOK /\ LookupsAreCounted
<1>1. activeRequests \in Nat /\ paid \in Nat
  BY FS_CardinalityType DEF CacheInv
<1>2. CacheTypeOK
  BY <1>1 DEF CacheInv, CacheTypeOK, KeptAnswers, LookupRow
<1>3. /\ Performing = {r \in Requests : lookup[r].kind \in {"search"} /\ lookup[r].step \in {"perform"}}
      /\ Paying = {r \in Requests : lookup[r].kind \in {"ai-search"}
                                      /\ lookup[r].step \in {"lookup", "fetch", "keep"}}
  BY DEF Performing, Paying, Performs, Pays
<1>4. \A kind \in {"url", "search", "raw"} : cached[kind] # "nothing"
  BY DEF CacheInv, KeptAnswers
<1>5. LookupsAreCounted
  BY <1>3, <1>4 DEF LookupsAreCounted, CacheInv, KeptAnswers
<1> QED
  BY <1>2, <1>5

LEMMA CacheSafe == CacheSpec => [](CacheTypeOK /\ LookupsAreCounted)
<1>1. ASSUME CacheInit PROVE CacheInv
  <2>1. LookupShape(NoLookup) /\ ~Performs(NoLookup) /\ ~Pays(NoLookup)
    BY NoLookupShape, PageCacheAssumption
  <2>2. lookup \in [Requests -> LookupRow] /\ \A r \in Requests : lookup[r] = NoLookup
    BY <1>1, <2>1 DEF CacheInit, LookupShape
  <2>3. Performing = {} /\ Paying = {}
    BY <2>1, <2>2 DEF Performing, Paying
  <2>4. KeptAnswers(cached)
    BY <1>1, PageCacheAssumption DEF CacheInit, KeptAnswers, Lookups, PageCacheAssumption
  <2>5. ConcurrencyLimit \in Nat /\ IsFiniteSet({}) /\ Cardinality({}) = 0
    BY FS_EmptySet, PageCacheAssumption DEF PageCacheAssumption
  <2> QED
    BY <1>1, <2>1, <2>2, <2>3, <2>4, <2>5 DEF CacheInit, CacheInv
<1>2. ASSUME CacheInv, [CacheNext]_cacheVars PROVE CacheInv'
  BY <1>2, NextCacheInv, PageCacheAssumption
<1>3. ASSUME CacheInv PROVE CacheTypeOK /\ LookupsAreCounted
  BY <1>3, CacheImplies, PageCacheAssumption
<1> QED
  BY <1>1, <1>2, <1>3, PTL DEF CacheSpec

-----------------------------------------------------------------------------
(* The calls of an agent's tools.                                            *)

FileRow == [content : Nat, isDeleted : BOOLEAN]

CallRow == [tool : AgentTools \cup {None}, path : PipePaths \cup {None}, found : BOOLEAN]

Copies == [PipePaths -> Nat \cup {None}]

PipeRow ==
    [step : {"idle", "model", "calls", "tool", "log", "reread", "error", "done"}, calls : 0..MaxCalls,
     call : CallRow, copy : Copies]

TalkKinds == {"user", "system", "log", "assistant", "error"}

PipeTyped ==
    /\ disk \in [PipePaths -> FileRow \cup {None}]
    /\ written \in 0..MaxContents
    /\ pipe \in PipeRow
    /\ ran \in Nat
    /\ report \in [PipePaths -> {"edited", "deleted", "failed", None}]
    /\ elsewhere \subseteq PipePaths

\* What the call q.call needs of the files d.
CallShape(q, d) ==
    /\ q.step \in {"tool", "log", "reread"} =>
         /\ q.call.path \in PipePaths
         /\ ~q.call.found => q.copy[q.call.path] = None
    /\ q.step \in {"log", "reread"} => d[q.call.path] # None /\ q.call.tool \in {"edit_file", "delete_file"}
    /\ q.step = "reread" => q.call.tool = "edit_file"

\* The copy c has of a file f what is said of it.
Agrees(said, c, f) ==
    /\ said = "deleted" => c = None /\ f.isDeleted
    /\ said = "edited" => f # None /\ c \in {f.content, None}
    /\ said = None => c = IF f = None THEN None ELSE f.content

\* So it is for every file nobody else wrote but the one being changed; a
\* deletion that is not yet reported has been copied.
CopyShape(q, d, rep, others) ==
    /\ q.step = "idle" => \A p \in PipePaths : rep[p] = None
    /\ q.step \in {"model", "calls", "tool"} =>
         \A p \in PipePaths \ others : Agrees(rep[p], q.copy[p], d[p])
    /\ q.step \in {"log", "reread"} =>
         \A p \in PipePaths \ others : p # q.call.path => Agrees(rep[p], q.copy[p], d[p])
    /\ q.step = "log" /\ q.call.tool = "delete_file" /\ q.call.path \notin others =>
         q.copy[q.call.path] = None /\ d[q.call.path].isDeleted

\* The rows of the thread at a step, n calls having been recorded.
TalkShape(step, t, n) ==
    /\ t \in Seq(TalkKinds)
    /\ step = "idle" => t = <<>> /\ n = 0
    /\ step # "idle" => Len(t) > 0 /\ t[1] = "user"
    /\ step \notin {"idle", "error", "done"} => \A i \in 2 .. Len(t) : t[i] = "system"
    /\ step = "error" =>
         \A i \in 2 .. Len(t) : t[i] = "system" \/ (i = Len(t) /\ t[i] = "log" /\ n > 0)
    /\ step = "done" =>
         /\ Len(t) > 1 /\ t[Len(t)] \in {"assistant", "error"}
         /\ \A i \in 2 .. Len(t) - 1 : t[i] = "system" \/ (i = Len(t) - 1 /\ t[i] = "log" /\ n > 0)
         /\ t[Len(t)] = "assistant" /\ n > 0 => Len(t) > 2 /\ t[Len(t) - 1] = "log"

PipeInv ==
    /\ PipeTyped
    /\ CallShape(pipe, disk)
    /\ CopyShape(pipe, disk, report, elsewhere)
    /\ TalkShape(pipe.step, talk, ran)

LEMMA Writes ==
  ASSUME PipeAssumption, PipeTyped, NEW p \in PipePaths, NEW b \in BOOLEAN, WriteFile(p, b)
  PROVE  /\ disk' \in [PipePaths -> FileRow \cup {None}] /\ written' \in 0..MaxContents
         /\ disk'[p] # None /\ disk'[p].isDeleted = b
         /\ \A o \in PipePaths \ {p} : disk'[o] = disk[o]
         /\ \A o \in PipePaths : disk[o] # None => disk'[o] # None
<1>1. PICK n : n = written + 1
  OBVIOUS
<1>2. n \in 0..MaxContents /\ n \in Nat /\ written' = n
  BY <1>1, PipeAssumption DEF WriteFile, PipeTyped, PipeAssumption
<1>3. PICK f : f = [content |-> n, isDeleted |-> b]
  OBVIOUS
<1>4. f \in FileRow /\ f.isDeleted = b
  BY <1>2, <1>3 DEF FileRow
<1>5. f # None
  BY <1>4, PipeAssumption DEF FileRow, PipeAssumption
<1>6. disk' = [disk EXCEPT ![p] = f]
  BY <1>1, <1>3 DEF WriteFile
<1> QED
  BY <1>2, <1>4, <1>5, <1>6 DEF PipeTyped

\* Rows are added to the thread one at a time.
LEMMA TalkGrows ==
  ASSUME NEW t \in Seq(TalkKinds), NEW x \in TalkKinds
  PROVE  /\ Append(t, x) \in Seq(TalkKinds) /\ Len(Append(t, x)) = Len(t) + 1 /\ Len(t) \in Nat
         /\ Append(t, x)[Len(t) + 1] = x
         /\ \A i \in 1 .. Len(t) : Append(t, x)[i] = t[i]
OBVIOUS

\* Nothing is said, or a row about a call is added, and the request goes on.
LEMMA TalkGoesOn ==
  ASSUME NEW s, NEW n \in Nat, NEW t, TalkShape(s, t, n), NEW s1, NEW n1 \in Nat,
         s \in {"model", "calls", "tool", "log", "reread"}, s1 \in {"calls", "tool", "log", "reread", "error"}
  PROVE  TalkShape(s1, t, n1) /\ TalkShape(s1, Append(t, "system"), n1)
<1>1. t \in Seq(TalkKinds) /\ Len(t) > 0 /\ t[1] = "user" /\ \A i \in 2 .. Len(t) : t[i] = "system"
  BY DEF TalkShape
<1>2. TalkShape(s1, t, n1)
  BY <1>1 DEF TalkShape
<1>3. PICK u : u = Append(t, "system")
  OBVIOUS
<1>4. /\ u \in Seq(TalkKinds) /\ Len(u) = Len(t) + 1 /\ Len(t) \in Nat /\ u[Len(t) + 1] = "system"
      /\ \A i \in 1 .. Len(t) : u[i] = t[i]
  BY <1>1, <1>3, TalkGrows DEF TalkKinds
<1>5. Len(u) > 0 /\ u[1] = "user" /\ \A i \in 2 .. Len(u) : u[i] = "system"
  BY <1>1, <1>4
<1>6. TalkShape(s1, u, n1)
  BY <1>4, <1>5 DEF TalkShape
<1> QED
  BY <1>2, <1>3, <1>6

\* The end of the thread.
LEMMA TalkEnds ==
  ASSUME NEW t, NEW n \in Nat, NEW x \in {"assistant", "error"},
         \/ TalkShape("error", t, n) /\ x = "error"
         \/ TalkShape("calls", t, n) /\ (x = "assistant" => n = 0)
  PROVE  TalkShape("done", Append(t, x), n)
<1>1. /\ t \in Seq(TalkKinds) /\ Len(t) > 0 /\ t[1] = "user"
      /\ \A i \in 2 .. Len(t) : t[i] = "system" \/ (i = Len(t) /\ t[i] = "log" /\ n > 0)
      /\ x = "assistant" => n = 0
  BY DEF TalkShape
<1>2. PICK u : u = Append(t, x)
  OBVIOUS
<1>3. /\ u \in Seq(TalkKinds) /\ Len(u) = Len(t) + 1 /\ Len(t) \in Nat /\ u[Len(t) + 1] = x
      /\ \A i \in 1 .. Len(t) : u[i] = t[i]
  BY <1>1, <1>2, TalkGrows DEF TalkKinds
<1>4. \A i \in 2 .. Len(u) - 1 : u[i] = "system" \/ (i = Len(u) - 1 /\ u[i] = "log" /\ n > 0)
  BY <1>1, <1>3
<1>5. Len(u) > 1 /\ u[1] = "user" /\ u[Len(u)] = x
  BY <1>1, <1>3
<1>6. ~(u[Len(u)] = "assistant" /\ n > 0)
  BY <1>1, <1>5
<1> QED
  BY <1>2, <1>3, <1>4, <1>5, <1>6 DEF TalkShape

\* The log before it.
LEMMA TalkLogs ==
  ASSUME NEW t, NEW n \in Nat, n > 0, TalkShape("calls", t, n)
  PROVE  TalkShape("error", Append(t, "log"), n) /\ TalkShape("done", Append(Append(t, "log"), "assistant"), n)
<1>1. t \in Seq(TalkKinds) /\ Len(t) > 0 /\ t[1] = "user" /\ \A i \in 2 .. Len(t) : t[i] = "system"
  BY DEF TalkShape
<1>2. PICK u : u = Append(t, "log")
  OBVIOUS
<1>3. /\ u \in Seq(TalkKinds) /\ Len(u) = Len(t) + 1 /\ Len(t) \in Nat /\ u[Len(t) + 1] = "log"
      /\ \A i \in 1 .. Len(t) : u[i] = t[i]
  BY <1>1, <1>2, TalkGrows DEF TalkKinds
<1>4. PICK v : v = Append(u, "assistant")
  OBVIOUS
<1>5. /\ v \in Seq(TalkKinds) /\ Len(v) = Len(u) + 1 /\ v[Len(u) + 1] = "assistant"
      /\ \A i \in 1 .. Len(u) : v[i] = u[i]
  BY <1>3, <1>4, TalkGrows DEF TalkKinds
<1>6. \A i \in 2 .. Len(u) : u[i] = "system" \/ (i = Len(u) /\ u[i] = "log" /\ n > 0)
  BY <1>1, <1>3
<1>7. \A i \in 2 .. Len(v) - 1 : v[i] = "system" \/ (i = Len(v) - 1 /\ v[i] = "log" /\ n > 0)
  BY <1>3, <1>5, <1>6
<1>8. /\ Len(u) > 0 /\ u[1] = "user"
      /\ Len(v) > 2 /\ v[1] = "user" /\ v[Len(v)] = "assistant" /\ v[Len(v) - 1] = "log"
  BY <1>1, <1>3, <1>5
<1>9. TalkShape("error", u, n)
  BY <1>3, <1>6, <1>8 DEF TalkShape
<1>10. TalkShape("done", v, n)
  BY <1>5, <1>7, <1>8 DEF TalkShape
<1> QED
  BY <1>2, <1>4, <1>9, <1>10

LEMMA NoCallTyped == NoCall \in CallRow
BY DEF NoCall, CallRow

LEMMA OthersPipeInv ==
  ASSUME PipeAssumption, PipeInv, NEW p \in PipePaths, OthersWrite(p) PROVE PipeInv'
<1>1. PICK b \in {TRUE, disk[p] # None /\ disk[p].isDeleted} : WriteFile(p, b)
  BY DEF OthersWrite
<1>2. PipeTyped /\ CallShape(pipe, disk) /\ CopyShape(pipe, disk, report, elsewhere) /\ TalkShape(pipe.step, talk, ran)
      /\ elsewhere' = elsewhere \cup {p} /\ UNCHANGED <<pipe, ran, report, talk>>
  BY DEF PipeInv, OthersWrite
<1>3. b \in BOOLEAN
  <2>1. (disk[p] # None /\ disk[p].isDeleted) \in BOOLEAN
    OBVIOUS
  <2> QED
    BY <1>1, <2>1
<1>4. /\ disk' \in [PipePaths -> FileRow \cup {None}] /\ written' \in 0..MaxContents
      /\ \A o \in PipePaths \ {p} : disk'[o] = disk[o]
      /\ \A o \in PipePaths : disk[o] # None => disk'[o] # None
  BY <1>1, <1>2, <1>3, Writes
<1>5. PipeTyped'
  BY <1>2, <1>4 DEF PipeTyped
<1>6. CallShape(pipe, disk')
  BY <1>2, <1>4 DEF CallShape
<1>7. PICK E : E = elsewhere'
  OBVIOUS
<1>8. \A o \in PipePaths \ E : o \notin elsewhere /\ disk'[o] = disk[o]
  BY <1>2, <1>4, <1>7
<1>9. CopyShape(pipe, disk', report, E)
  <2>1. pipe.step \in {"log"} => pipe.call.path \in PipePaths
    BY <1>2 DEF CallShape
  <2>2. ASSUME NEW o \in PipePaths \ E, Agrees(report[o], pipe.copy[o], disk[o])
        PROVE  Agrees(report[o], pipe.copy[o], disk'[o])
    BY <1>8, <2>2
  <2>3. pipe.step \in {"model", "calls", "tool"} =>
          \A o \in PipePaths \ E : Agrees(report[o], pipe.copy[o], disk'[o])
    BY <1>2, <1>8, <2>2 DEF CopyShape
  <2>4. pipe.step \in {"log", "reread"} =>
          \A o \in PipePaths \ E : o # pipe.call.path => Agrees(report[o], pipe.copy[o], disk'[o])
    BY <1>2, <1>8, <2>2 DEF CopyShape
  <2>5. pipe.step = "log" /\ pipe.call.tool = "delete_file" /\ pipe.call.path \notin E =>
          pipe.copy[pipe.call.path] = None /\ disk'[pipe.call.path].isDeleted
    BY <1>2, <1>8, <2>1 DEF CopyShape
  <2>6. pipe.step = "idle" => \A o \in PipePaths : report[o] = None
    BY <1>2 DEF CopyShape
  <2> QED
    BY <2>3, <2>4, <2>5, <2>6 DEF CopyShape
<1> QED
  BY <1>2, <1>5, <1>6, <1>7, <1>9 DEF PipeInv

\* A step of the request, whose call, copy and report are given, that leaves
\* the files as they are.
LEMMA PipeMoves ==
  ASSUME PipeInv, NEW q, pipe' = q, q \in PipeRow, CallShape(q, disk), UNCHANGED <<disk, written>>,
         ran' \in Nat, report' \in [PipePaths -> {"edited", "deleted", "failed", None}],
         elsewhere' \subseteq PipePaths, CopyShape(q, disk, report', elsewhere'),
         TalkShape(q.step, talk', ran')
  PROVE  PipeInv'
<1>1. disk' = disk /\ written' = written /\ pipe' = q
  OBVIOUS
<1> QED
  BY <1>1 DEF PipeInv, PipeTyped

\* One that goes on within the answer's calls, all the rest being as it was.
LEMMA PipeSteps ==
  ASSUME PipeInv, NEW st \in {"calls", "error"}, PipeGoes(st), UNCHANGED <<disk, written, ran, report, elsewhere>>,
         pipe.step \in {"model", "calls"}, TalkShape(st, talk', ran)
  PROVE  PipeInv'
<1>0. pipe \in PipeRow /\ CopyShape(pipe, disk, report, elsewhere) /\ PipeTyped
  BY DEF PipeInv, PipeTyped
<1> DEFINE q == [pipe EXCEPT !.step = st]
<1>1. q \in PipeRow /\ q.step = st /\ q.copy = pipe.copy /\ q.call = pipe.call
  BY <1>0 DEF PipeRow
<1>2. pipe' = q
  BY DEF PipeGoes
<1> HIDE DEF q
<1>3. CallShape(q, disk)
  BY <1>1 DEF CallShape
<1>4. CopyShape(q, disk, report, elsewhere)
  BY <1>0, <1>1 DEF CopyShape
<1>5. ran' \in Nat /\ report' = report /\ elsewhere' = elsewhere /\ ran' = ran
      /\ report \in [PipePaths -> {"edited", "deleted", "failed", None}] /\ elsewhere \subseteq PipePaths
  BY <1>0 DEF PipeTyped
<1> QED
  BY <1>1, <1>2, <1>3, <1>4, <1>5, PipeMoves

\* A call ends; a change of a file has been reported.
LEMMA CallKeeps ==
  ASSUME PipeInv, NEW q, pipe' = q, q \in PipeRow, q.step = "calls",
         pipe.step \in {"tool", "log", "reread"},
         \A p \in PipePaths \ elsewhere : p # pipe.call.path => q.copy[p] = pipe.copy[p],
         UNCHANGED <<disk, written, elsewhere>>, ran' \in Nat, talk' \in {talk, Append(talk, "system")},
         \/ report' = report /\ pipe.step = "tool" /\ q.copy = pipe.copy
         \/ \E said \in {"edited", "deleted", "failed"} :
              /\ report' = [report EXCEPT ![pipe.call.path] = said]
              /\ pipe.call.path \notin elsewhere =>
                   Agrees(said, q.copy[pipe.call.path], disk[pipe.call.path])
  PROVE  PipeInv'
<1>0. /\ pipe \in PipeRow /\ CallShape(pipe, disk) /\ CopyShape(pipe, disk, report, elsewhere) /\ PipeTyped
      /\ TalkShape(pipe.step, talk, ran) /\ ran \in Nat
      /\ report \in [PipePaths -> {"edited", "deleted", "failed", None}] /\ elsewhere \subseteq PipePaths
  BY DEF PipeInv, PipeTyped
<1>1. PICK x \in PipePaths : x = pipe.call.path
  BY <1>0 DEF CallShape
<1>2. CallShape(q, disk)
  BY DEF CallShape
<1>3. report' \in [PipePaths -> {"edited", "deleted", "failed", None}]
  BY <1>0, <1>1
<1>4. CopyShape(q, disk, report', elsewhere)
  <2> SUFFICES ASSUME NEW p \in PipePaths \ elsewhere PROVE Agrees(report'[p], q.copy[p], disk[p])
    BY DEF CopyShape
  <2>1. CASE report' = report /\ pipe.step = "tool" /\ q.copy = pipe.copy
    BY <1>0, <2>1 DEF CopyShape
  <2>2. ASSUME NEW said \in {"edited", "deleted", "failed"},
               report' = [report EXCEPT ![pipe.call.path] = said],
               pipe.call.path \notin elsewhere =>
                   Agrees(said, q.copy[pipe.call.path], disk[pipe.call.path])
        PROVE  Agrees(report'[p], q.copy[p], disk[p])
    <3>1. CASE p = x
      <4>1. report'[p] = said
        BY <1>0, <1>1, <2>2, <3>1
      <4> QED
        BY <1>1, <2>2, <3>1, <4>1
    <3>2. CASE p # x
      <4>1. report'[p] = report[p] /\ q.copy[p] = pipe.copy[p]
        BY <1>0, <1>1, <2>2, <3>2
      <4>2. Agrees(report[p], pipe.copy[p], disk[p])
        BY <1>0, <1>1, <3>2 DEF CopyShape
      <4> QED
        BY <4>1, <4>2
    <3> QED
      BY <3>1, <3>2
  <2> QED
    BY <2>1, <2>2
<1>5. TalkShape("calls", talk', ran')
  <2>1. PICK n \in Nat : n = ran'
    OBVIOUS
  <2>2. TalkShape("calls", talk, n) /\ TalkShape("calls", Append(talk, "system"), n)
    BY <1>0, TalkGoesOn
  <2> QED
    BY <2>1, <2>2
<1>6. elsewhere' = elsewhere
  OBVIOUS
<1> QED
  BY <1>0, <1>2, <1>3, <1>4, <1>5, <1>6, PipeMoves

\* The request after a call.
LEMMA AfterCall ==
  ASSUME PipeTyped, NEW c \in Copies
  PROVE  LET q == [pipe EXCEPT !.step = "calls", !.call = NoCall, !.copy = c]
         IN q \in PipeRow /\ q.step = "calls" /\ q.copy = c
BY NoCallTyped DEF PipeTyped, PipeRow

LEMMA CallsPipeInv ==
  ASSUME PipeAssumption, PipeInv, Look \/ ReadFile \/ Note \/ ToolFails PROVE PipeInv'
<1>0. pipe \in PipeRow /\ PipeTyped /\ ran \in Nat /\ NoCall \in CallRow
  BY NoCallTyped DEF PipeInv, PipeTyped
<1> DEFINE q == [pipe EXCEPT !.step = "calls", !.call = NoCall]
<1>1. q \in PipeRow /\ q.step = "calls" /\ q.copy = pipe.copy
  BY <1>0 DEF PipeRow
<1>2. pipe' = q /\ pipe.step = "tool" /\ UNCHANGED <<disk, written, elsewhere>>
  BY DEF Look, ReadFile, Note, ToolFails, Calls, CallEnds, ChangeReported
<1> HIDE DEF q
<1>3. ran' \in Nat /\ talk' \in {talk, Append(talk, "system")}
  BY <1>0 DEF Look, ReadFile, Note, ToolFails, CallEnds, ChangeReported
<1>4. CASE Look \/ ReadFile \/ Note
  <2>1. report' = report
    BY <1>4 DEF Look, ReadFile, Note
  <2> QED
    BY <1>1, <1>2, <1>3, <2>1, CallKeeps
<1>5. CASE ToolFails
  <2>1. report' = [report EXCEPT ![pipe.call.path] = "failed"]
    BY <1>5 DEF ToolFails, ChangeReported
  <2>2. Agrees("failed", q.copy[pipe.call.path], disk[pipe.call.path])
    BY PipeAssumption DEF Agrees, PipeAssumption
  <2> QED
    BY <1>1, <1>2, <1>3, <2>1, <2>2, CallKeeps
<1> QED
  BY <1>4, <1>5

LEMMA LogPipeInv == ASSUME PipeAssumption, PipeInv, LogEdit PROVE PipeInv'
<1>0. pipe \in PipeRow /\ PipeTyped /\ ran \in Nat /\ NoCall \in CallRow /\ pipe.step = "log"
      /\ CallShape(pipe, disk) /\ CopyShape(pipe, disk, report, elsewhere) /\ TalkShape("log", talk, ran)
      /\ UNCHANGED <<disk, written, elsewhere>>
      /\ report \in [PipePaths -> {"edited", "deleted", "failed", None}] /\ elsewhere \subseteq PipePaths
  BY NoCallTyped DEF PipeInv, PipeTyped, LogEdit
<1>1. CASE PipeGoes("reread") /\ ran' = ran /\ report' = report /\ pipe.call.tool = "edit_file"
           /\ talk' = Append(talk, "system")
  <2> DEFINE q == [pipe EXCEPT !.step = "reread"]
  <2>1. q \in PipeRow /\ q.step = "reread" /\ q.copy = pipe.copy /\ q.call = pipe.call
    BY <1>0 DEF PipeRow
  <2>2. pipe' = q
    BY <1>1 DEF PipeGoes
  <2> HIDE DEF q
  <2>3. CallShape(q, disk)
    BY <1>0, <1>1, <2>1 DEF CallShape
  <2>4. CopyShape(q, disk, report, elsewhere)
    BY <1>0, <2>1 DEF CopyShape
  <2>5. TalkShape("reread", talk', ran)
    BY <1>0, <1>1, TalkGoesOn
  <2>6. report' = report /\ elsewhere' = elsewhere /\ ran' = ran /\ disk' = disk /\ written' = written
    BY <1>0, <1>1
  <2> QED
    BY <1>0, <2>1, <2>2, <2>3, <2>4, <2>5, <2>6, PipeMoves
<1> DEFINE q == [pipe EXCEPT !.step = "calls", !.call = NoCall]
<1>2. q \in PipeRow /\ q.step = "calls" /\ q.copy = pipe.copy
  BY <1>0 DEF PipeRow
<1>3. CallEnds => pipe' = q /\ ran' \in Nat
  BY <1>0 DEF CallEnds
<1> HIDE DEF q
<1>4. CASE ChangeReported("deleted") /\ pipe.call.tool # "edit_file" /\ talk' = Append(talk, "system")
  <2>1. report' = [report EXCEPT ![pipe.call.path] = "deleted"] /\ pipe' = q /\ ran' \in Nat
    BY <1>3, <1>4 DEF ChangeReported
  <2>2. pipe.call.tool = "delete_file"
    BY <1>0, <1>4 DEF CallShape
  <2>3. pipe.call.path \notin elsewhere => Agrees("deleted", q.copy[pipe.call.path], disk[pipe.call.path])
    BY <1>0, <1>2, <2>2, PipeAssumption DEF CopyShape, Agrees, PipeAssumption
  <2> QED
    BY <1>0, <1>2, <1>4, <2>1, <2>3, CallKeeps
<1>5. CASE ChangeReported("failed") /\ talk' = talk
  <2>1. report' = [report EXCEPT ![pipe.call.path] = "failed"] /\ pipe' = q /\ ran' \in Nat
    BY <1>3, <1>5 DEF ChangeReported
  <2>2. Agrees("failed", q.copy[pipe.call.path], disk[pipe.call.path])
    BY PipeAssumption DEF Agrees, PipeAssumption
  <2> QED
    BY <1>0, <1>2, <1>5, <2>1, <2>2, CallKeeps
<1> QED
  BY <1>1, <1>4, <1>5 DEF LogEdit

LEMMA RereadPipeInv == ASSUME PipeAssumption, PipeInv, RereadFile PROVE PipeInv'
<1>0. pipe \in PipeRow /\ PipeTyped /\ ran \in Nat /\ NoCall \in CallRow /\ pipe.step = "reread"
      /\ CallShape(pipe, disk) /\ UNCHANGED <<disk, written, talk, elsewhere>>
  BY NoCallTyped DEF PipeInv, PipeTyped, RereadFile
<1>1. PICK p \in PipePaths : p = pipe.call.path
  BY <1>0 DEF CallShape
<1>2. disk[p] # None /\ disk[p] \in FileRow /\ (~pipe.call.found => pipe.copy[p] = None)
  BY <1>0, <1>1 DEF CallShape, PipeTyped
<1>3. PICK n : n = IF pipe.call.found THEN disk[p].content ELSE pipe.copy[p]
  OBVIOUS
<1>4. n \in Nat \cup {None} /\ n \in {disk[p].content, None}
  BY <1>2, <1>3 DEF FileRow
<1> DEFINE q == [pipe EXCEPT !.step = "calls", !.call = NoCall, !.copy = [pipe.copy EXCEPT ![p] = n]]
<1>5. pipe.copy \in Copies
  BY <1>0 DEF PipeRow
<1>6. q \in PipeRow /\ q.step = "calls" /\ q.copy = [pipe.copy EXCEPT ![p] = n]
  <2>1. [pipe.copy EXCEPT ![p] = n] \in Copies
    BY <1>4, <1>5 DEF Copies
  <2> QED
    BY <1>0, <2>1 DEF PipeRow
<1>7. q.copy[p] = n /\ \A o \in PipePaths : o # p => q.copy[o] = pipe.copy[o]
  BY <1>5, <1>6 DEF Copies
<1>8. /\ pipe' = [pipe EXCEPT !.step = "calls", !.call = NoCall, !.copy[p] = n]
      /\ report' = [report EXCEPT ![p] = "edited"] /\ ran' = ran + 1
  BY <1>1, <1>3 DEF RereadFile
<1>9. pipe' = q
  BY <1>0, <1>8 DEF PipeRow
<1> HIDE DEF q
<1>10. Agrees("edited", q.copy[p], disk[p])
  BY <1>2, <1>4, <1>7, PipeAssumption DEF Agrees, PipeAssumption
<1>11. ran' \in Nat
  BY <1>0, <1>8
<1>12. /\ report' = [report EXCEPT ![pipe.call.path] = "edited"]
       /\ Agrees("edited", q.copy[pipe.call.path], disk[pipe.call.path])
       /\ \A o \in PipePaths \ elsewhere : o # pipe.call.path => q.copy[o] = pipe.copy[o]
  BY <1>1, <1>7, <1>8, <1>10
<1>13. talk' \in {talk, Append(talk, "system")}
  BY <1>0
<1> QED
  BY <1>0, <1>6, <1>9, <1>11, <1>12, <1>13, CallKeeps


LEMMA BeginPipeInv == ASSUME PipeAssumption, PipeInv, ExecuteAgentPipeline PROVE PipeInv'
<1>0. /\ pipe \in PipeRow /\ PipeTyped /\ pipe.step = "idle" /\ CopyShape(pipe, disk, report, elsewhere)
      /\ UNCHANGED <<disk, written, ran, report>> /\ talk' = <<"user">> /\ elsewhere' = {}
  BY DEF PipeInv, PipeTyped, ExecuteAgentPipeline
<1>1. PICK c : c = [p \in PipePaths |-> IF disk[p] = None THEN None ELSE disk[p].content]
  OBVIOUS
<1>2. c \in Copies
  <2>1. \A p \in PipePaths : (IF disk[p] = None THEN None ELSE disk[p].content) \in Nat \cup {None}
    BY <1>0 DEF PipeTyped, FileRow
  <2> QED
    BY <1>1, <2>1 DEF Copies
<1> DEFINE q == [pipe EXCEPT !.step = "model", !.copy = c]
<1>3. q \in PipeRow /\ q.step = "model" /\ q.copy = c
  BY <1>0, <1>2 DEF PipeRow
<1>4. pipe' = q
  BY <1>1 DEF ExecuteAgentPipeline
<1> HIDE DEF q
<1>5. CallShape(q, disk)
  BY <1>3 DEF CallShape
<1>6. CopyShape(q, disk, report, {})
  <2> SUFFICES ASSUME NEW p \in PipePaths PROVE Agrees(report[p], c[p], disk[p])
    BY <1>3 DEF CopyShape
  <2>1. report[p] = None /\ c[p] = IF disk[p] = None THEN None ELSE disk[p].content
    BY <1>0, <1>1 DEF CopyShape
  <2> QED
    BY <2>1, PipeAssumption DEF Agrees, PipeAssumption
<1>7. TalkShape("model", talk', ran)
  <2>1. PICK t : t = <<"user">>
    OBVIOUS
  <2>2. t \in Seq(TalkKinds) /\ Len(t) = 1 /\ t[1] = "user"
    BY <2>1 DEF TalkKinds
  <2>3. \A i \in 2 .. Len(t) : t[i] = "system"
    BY <2>2
  <2>4. TalkShape("model", t, ran)
    BY <2>2, <2>3 DEF TalkShape
  <2> QED
    BY <1>0, <2>1, <2>4
<1>8. /\ ran' \in Nat /\ report' \in [PipePaths -> {"edited", "deleted", "failed", None}]
      /\ elsewhere' \subseteq PipePaths /\ ran' = ran /\ report' = report /\ elsewhere' = {}
      /\ UNCHANGED <<disk, written>>
  BY <1>0 DEF PipeTyped
<1> QED
  BY <1>3, <1>4, <1>5, <1>6, <1>7, <1>8, PipeMoves

LEMMA AnswerPipeInv ==
  ASSUME PipeAssumption, PipeInv, GenerateFunctionCallingContent \/ SaveFails PROVE PipeInv'
<1>0. /\ TalkShape(pipe.step, talk, ran) /\ ran \in Nat
      /\ UNCHANGED <<disk, written, ran, report, elsewhere>>
  BY DEF PipeInv, PipeTyped, GenerateFunctionCallingContent, SaveFails
<1>1. CASE GenerateFunctionCallingContent
  <2>1. PICK st \in {"calls", "error"} : PipeGoes(st)
    BY <1>1 DEF GenerateFunctionCallingContent
  <2>2. pipe.step = "model" /\ talk' = talk
    BY <1>1 DEF GenerateFunctionCallingContent
  <2>3. TalkShape(st, talk, ran)
    BY <1>0, <2>2, TalkGoesOn
  <2> QED
    BY <1>0, <2>1, <2>2, <2>3, PipeSteps
<1>2. CASE SaveFails
  <2>1. /\ pipe.step = "calls" /\ PipeGoes("error")
        /\ talk' = talk \/ (ran # 0 /\ talk' = Append(talk, "log"))
    BY <1>2 DEF SaveFails
  <2>2. TalkShape("error", talk, ran)
    BY <1>0, <2>1, TalkGoesOn
  <2>3. ran # 0 => TalkShape("error", Append(talk, "log"), ran)
    <3>1. ran # 0 => ran > 0
      BY <1>0
    <3> QED
      BY <1>0, <2>1, <3>1, TalkLogs
  <2>4. TalkShape("error", talk', ran)
    BY <2>1, <2>2, <2>3
  <2> QED
    BY <1>0, <2>1, <2>4, PipeSteps
<1> QED
  BY <1>1, <1>2

LEMMA CallPipeInv ==
  ASSUME PipeAssumption, PipeInv, NEW tool \in AgentTools, NEW path \in PipePaths, NextCall(tool, path)
  PROVE  PipeInv'
<1>0. /\ pipe \in PipeRow /\ PipeTyped /\ pipe.step = "calls" /\ CopyShape(pipe, disk, report, elsewhere)
      /\ TalkShape("calls", talk, ran) /\ ran \in Nat
      /\ UNCHANGED <<disk, written, ran, report, talk, elsewhere>>
  BY DEF PipeInv, PipeTyped, NextCall
<1>1. PICK n : n = pipe.calls + 1
  OBVIOUS
<1>2. n \in 0..MaxCalls
  BY <1>0, <1>1, PipeAssumption DEF NextCall, PipeRow, PipeAssumption
<1>3. PICK call : call = [tool |-> tool, path |-> path, found |-> pipe.copy[path] # None]
  OBVIOUS
<1>4. (pipe.copy[path] # None) \in BOOLEAN
  OBVIOUS
<1>5. call \in CallRow /\ call.path = path /\ (~call.found => pipe.copy[path] = None)
  BY <1>3, <1>4 DEF CallRow
<1> DEFINE q == [pipe EXCEPT !.step = "tool", !.calls = n, !.call = call]
<1>6. q \in PipeRow /\ q.step = "tool" /\ q.copy = pipe.copy /\ q.call = call
  BY <1>0, <1>2, <1>5 DEF PipeRow
<1>7. pipe' = q
  BY <1>1, <1>3 DEF NextCall
<1> HIDE DEF q
<1>8. CallShape(q, disk)
  BY <1>5, <1>6 DEF CallShape
<1>9. CopyShape(q, disk, report, elsewhere)
  BY <1>0, <1>6 DEF CopyShape
<1>10. TalkShape("tool", talk, ran)
  BY <1>0, TalkGoesOn
<1>11. /\ ran' \in Nat /\ report' \in [PipePaths -> {"edited", "deleted", "failed", None}]
       /\ elsewhere' \subseteq PipePaths
       /\ ran' = ran /\ report' = report /\ elsewhere' = elsewhere /\ talk' = talk
  BY <1>0 DEF PipeTyped
<1> QED
  BY <1>0, <1>6, <1>7, <1>8, <1>9, <1>10, <1>11, PipeMoves

\* A tool has written the file of its call.
LEMMA ChangePipeInv == ASSUME PipeAssumption, PipeInv, EditFile \/ DeleteFile PROVE PipeInv'
<1>0. /\ pipe \in PipeRow /\ PipeTyped /\ pipe.step = "tool" /\ CopyShape(pipe, disk, report, elsewhere)
      /\ CallShape(pipe, disk) /\ TalkShape("tool", talk, ran) /\ ran \in Nat
      /\ UNCHANGED <<ran, report, talk, elsewhere>>
      /\ elsewhere \subseteq PipePaths /\ pipe.copy \in Copies /\ pipe.call \in CallRow
  BY DEF PipeInv, PipeTyped, PipeRow, EditFile, DeleteFile, Calls
<1>1. PICK p \in PipePaths : p = pipe.call.path
  BY <1>0 DEF CallShape
<1>2. PICK E : E = elsewhere
  OBVIOUS
<1>3. ASSUME NEW b \in BOOLEAN, WriteFile(p, b), NEW c \in Copies, NEW call \in CallRow,
             call.path = p, call.tool \in {"edit_file", "delete_file"}, ~call.found => c[p] = None,
             pipe' = [pipe EXCEPT !.step = "log", !.call = call, !.copy = c],
             \A o \in PipePaths : o # p => c[o] = pipe.copy[o],
             call.tool = "delete_file" => c[p] = None /\ b = TRUE
      PROVE  PipeInv'
  <2>1. /\ disk' \in [PipePaths -> FileRow \cup {None}] /\ written' \in 0..MaxContents
        /\ disk'[p] # None /\ disk'[p].isDeleted = b
        /\ \A o \in PipePaths \ {p} : disk'[o] = disk[o]
    BY <1>0, <1>3, Writes
  <2> DEFINE q == [pipe EXCEPT !.step = "log", !.call = call, !.copy = c]
  <2>2. q \in PipeRow /\ q.step = "log" /\ q.copy = c /\ q.call = call
    BY <1>0, <1>3 DEF PipeRow
  <2>3. pipe' = q
    BY <1>3
  <2> HIDE DEF q
  <2>4. CallShape(q, disk')
    BY <1>3, <2>1, <2>2 DEF CallShape
  <2>5. CopyShape(q, disk', report, E)
    <3>1. ASSUME NEW o \in PipePaths \ E, o # p PROVE Agrees(report[o], c[o], disk'[o])
      <4>1. Agrees(report[o], pipe.copy[o], disk[o])
        BY <1>0, <1>2, <3>1 DEF CopyShape
      <4> QED
        BY <1>3, <2>1, <3>1, <4>1
    <3>2. call.tool = "delete_file" => c[p] = None /\ disk'[p].isDeleted
      BY <1>3, <2>1
    <3> QED
      BY <1>3, <2>2, <3>1, <3>2 DEF CopyShape
  <2>6. TalkShape("log", talk, ran)
    BY <1>0, TalkGoesOn
  <2>7. ran' = ran /\ report' = report /\ elsewhere' = E /\ talk' = talk
        /\ report \in [PipePaths -> {"edited", "deleted", "failed", None}]
    BY <1>0, <1>2 DEF PipeTyped
  <2>8. PipeTyped'
    BY <1>0, <1>2, <2>1, <2>2, <2>3, <2>7 DEF PipeTyped
  <2> QED
    BY <2>2, <2>3, <2>4, <2>5, <2>6, <2>7, <2>8 DEF PipeInv
<1>4. CASE EditFile
  <2>1. PICK b : b = (disk[p] # None /\ disk[p].isDeleted)
    OBVIOUS
  <2>2. b \in BOOLEAN /\ WriteFile(p, b)
    BY <1>1, <1>4, <2>1 DEF EditFile
  <2>3. PICK f : f = (pipe.call.found \/ disk[p] = None)
    OBVIOUS
  <2>4. f \in BOOLEAN /\ (~f => ~pipe.call.found)
    BY <2>3
  <2> DEFINE call == [pipe.call EXCEPT !.found = f]
  <2>5. call \in CallRow /\ call.path = p /\ call.tool = pipe.call.tool /\ call.found = f
    BY <1>0, <1>1, <2>4 DEF CallRow
  <2>6. pipe.call.tool = "edit_file"
    BY <1>4 DEF EditFile, Calls
  <2>7. pipe' = [pipe EXCEPT !.step = "log", !.call = call, !.copy = pipe.copy]
    <3>1. pipe' = [pipe EXCEPT !.step = "log", !.call.found = f]
      BY <1>1, <1>4, <2>3 DEF EditFile
    <3> QED
      BY <1>0, <3>1 DEF PipeRow
  <2> HIDE DEF call
  <2>8. ~call.found => pipe.copy[p] = None
    BY <1>0, <1>1, <2>4, <2>5 DEF CallShape
  <2> QED
    BY <1>0, <1>3, <2>2, <2>5, <2>6, <2>7, <2>8
<1>5. CASE DeleteFile
  <2>1. WriteFile(p, TRUE) /\ pipe.call.tool = "delete_file"
    BY <1>1, <1>5 DEF DeleteFile, Calls
  <2> DEFINE c == [pipe.copy EXCEPT ![p] = None]
  <2>2. c \in Copies /\ c[p] = None /\ \A o \in PipePaths : o # p => c[o] = pipe.copy[o]
    BY <1>0 DEF Copies
  <2>3. pipe' = [pipe EXCEPT !.step = "log", !.call = pipe.call, !.copy = c]
    <3>1. pipe' = [pipe EXCEPT !.step = "log", !.copy[p] = None]
      BY <1>1, <1>5 DEF DeleteFile
    <3> QED
      BY <1>0, <3>1 DEF PipeRow
  <2> HIDE DEF c
  <2> QED
    BY <1>0, <1>1, <1>3, <2>1, <2>2, <2>3
<1> QED
  BY <1>4, <1>5

LEMMA EndPipeInv == ASSUME PipeAssumption, PipeInv, SaveAnswer \/ SaveError PROVE PipeInv'
<1>0. /\ pipe \in PipeRow /\ PipeTyped /\ TalkShape(pipe.step, talk, ran) /\ ran \in Nat /\ PipeGoes("done")
      /\ UNCHANGED <<disk, written, ran, report, elsewhere>>
  BY DEF PipeInv, PipeTyped, SaveAnswer, SaveError
<1> DEFINE q == [pipe EXCEPT !.step = "done"]
<1>1. q \in PipeRow /\ q.step = "done"
  BY <1>0 DEF PipeRow
<1>2. pipe' = q
  BY <1>0 DEF PipeGoes
<1> HIDE DEF q
<1>3. CallShape(q, disk) /\ CopyShape(q, disk, report, elsewhere)
  BY <1>1 DEF CallShape, CopyShape
<1>4. TalkShape("done", talk', ran)
  <2>1. CASE SaveError
    <3>1. pipe.step = "error" /\ talk' = Append(talk, "error")
      BY <2>1 DEF SaveError
    <3> QED
      BY <1>0, <3>1, TalkEnds
  <2>2. CASE SaveAnswer
    <3>1. /\ pipe.step = "calls"
          /\ talk' = talk \o (IF ran = 0 THEN <<>> ELSE <<"log">>) \o <<"assistant">>
      BY <2>2 DEF SaveAnswer
    <3>2. PICK t \in Seq(TalkKinds) : t = talk
      BY <1>0 DEF TalkShape
    <3>3. CASE ran = 0
      <4>1. t \o <<>> = t
        BY <3>2, ConcatEmptySeq
      <4>2. t \o <<"assistant">> = Append(t, "assistant")
        BY <3>2, AppendIsConcat DEF TalkKinds
      <4>3. talk' = Append(talk, "assistant")
        BY <3>1, <3>2, <3>3, <4>1, <4>2
      <4>4. PICK n \in Nat : n = ran
        BY <1>0
      <4>5. TalkShape("done", Append(talk, "assistant"), n)
        BY <1>0, <3>1, <3>3, <4>4, TalkEnds
      <4> QED
        BY <4>3, <4>4, <4>5
    <3>4. CASE ran # 0
      <4>1. t \o <<"log">> = Append(t, "log") /\ Append(t, "log") \in Seq(TalkKinds)
        BY <3>2, AppendIsConcat DEF TalkKinds
      <4>2. Append(t, "log") \o <<"assistant">> = Append(Append(t, "log"), "assistant")
        BY <4>1, AppendIsConcat DEF TalkKinds
      <4>3. talk' = Append(Append(talk, "log"), "assistant")
        BY <3>1, <3>2, <3>4, <4>1, <4>2
      <4>4. ran > 0
        BY <1>0, <3>4
      <4>5. TalkShape("done", Append(Append(talk, "log"), "assistant"), ran)
        BY <1>0, <3>1, <4>4, TalkLogs
      <4> QED
        BY <4>3, <4>5
    <3> QED
      BY <3>3, <3>4
  <2> QED
    BY <2>1, <2>2
<1>5. /\ ran' \in Nat /\ report' \in [PipePaths -> {"edited", "deleted", "failed", None}]
      /\ elsewhere' \subseteq PipePaths /\ ran' = ran /\ report' = report /\ elsewhere' = elsewhere
      /\ UNCHANGED <<disk, written>>
  BY <1>0 DEF PipeTyped
<1> QED
  BY <1>1, <1>2, <1>3, <1>4, <1>5, PipeMoves

LEMMA NextPipeInv == ASSUME PipeAssumption, PipeInv, [PipeNext]_pipeVars PROVE PipeInv'
<1>1. CASE UNCHANGED pipeVars
  BY <1>1 DEF PipeInv, PipeTyped, pipeVars
<1>2. ASSUME NEW p \in PipePaths, OthersWrite(p) PROVE PipeInv'
  BY <1>2, OthersPipeInv
<1>3. ASSUME NEW p \in PipePaths, NEW tool \in AgentTools, NextCall(tool, p) PROVE PipeInv'
  BY <1>3, CallPipeInv
<1>4. CASE ExecuteAgentPipeline
  BY <1>4, BeginPipeInv
<1>5. CASE GenerateFunctionCallingContent \/ SaveFails
  BY <1>5, AnswerPipeInv
<1>6. CASE Look \/ ReadFile \/ Note \/ ToolFails
  BY <1>6, CallsPipeInv
<1>7. CASE EditFile \/ DeleteFile
  BY <1>7, ChangePipeInv
<1>8. CASE LogEdit
  BY <1>8, LogPipeInv
<1>9. CASE RereadFile
  BY <1>9, RereadPipeInv
<1>10. CASE SaveAnswer \/ SaveError
  BY <1>10, EndPipeInv
<1> QED
  BY <1>1, <1>2, <1>3, <1>4, <1>5, <1>6, <1>7, <1>8, <1>9, <1>10 DEF PipeNext

LEMMA InitPipeInv == ASSUME PipeAssumption, PipeInit PROVE PipeInv
<1>1. NoCall \in CallRow
  BY NoCallTyped
<1>2. 0 \in 0..MaxContents /\ 0 \in 0..MaxCalls /\ [p \in PipePaths |-> None] \in Copies
  BY PipeAssumption DEF PipeAssumption, Copies
<1>3. pipe \in PipeRow /\ pipe.step = "idle"
  BY <1>1, <1>2 DEF PipeInit, PipeRow
<1>4. PipeTyped
  BY <1>2, <1>3 DEF PipeInit, PipeTyped
<1>5. CallShape(pipe, disk) /\ CopyShape(pipe, disk, report, elsewhere)
  BY <1>3 DEF CallShape, CopyShape, PipeInit
<1>6. TalkShape("idle", talk, ran)
  BY DEF PipeInit, TalkShape
<1> QED
  BY <1>3, <1>4, <1>5, <1>6 DEF PipeInv

LEMMA PipeImplies == ASSUME PipeAssumption, PipeInv PROVE PipeTypeOK /\ CopyFollowsReports
<1>0. PipeTyped /\ CopyShape(pipe, disk, report, elsewhere) /\ TalkShape(pipe.step, talk, ran)
      /\ talk \in Seq(TalkKinds) /\ Len(talk) \in Nat
      /\ pipe.step \in {"idle", "model", "calls", "tool", "log", "reread", "error", "done"}
  BY DEF PipeInv, PipeTyped, TalkShape, PipeRow
<1>1. PipeTypeOK
  BY <1>0 DEF PipeTyped, PipeTypeOK, FileRow, PipeRow, CallRow, Copies, TalkKinds
<1>2. ASSUME pipe.step = "calls", NEW p \in PipePaths \ elsewhere
      PROVE  CASE report[p] = "failed" -> TRUE
               [] report[p] = "deleted" -> pipe.copy[p] = None /\ disk[p].isDeleted
               [] report[p] = "edited" -> disk[p] # None /\ pipe.copy[p] \in {disk[p].content, None}
               [] OTHER -> pipe.copy[p] = IF disk[p] = None THEN None ELSE disk[p].content
  <2>1. Agrees(report[p], pipe.copy[p], disk[p])
    BY <1>0, <1>2 DEF CopyShape
  <2>2. report[p] \in {"edited", "deleted", "failed", None}
    BY <1>0 DEF PipeTyped
  <2>3. CASE report[p] = "failed"
    BY <2>3
  <2>4. CASE report[p] = "deleted"
    BY <2>1, <2>4 DEF Agrees
  <2>5. CASE report[p] = "edited"
    BY <2>1, <2>5 DEF Agrees
  <2>6. CASE report[p] = None
    <3>1. report[p] # "failed" /\ report[p] # "deleted" /\ report[p] # "edited"
      BY <2>6, PipeAssumption DEF PipeAssumption
    <3>2. pipe.copy[p] = IF disk[p] = None THEN None ELSE disk[p].content
      BY <2>1, <2>6 DEF Agrees
    <3> QED
      BY <3>1, <3>2
  <2> QED
    BY <2>2, <2>3, <2>4, <2>5, <2>6
<1>3. \A i \in DOMAIN talk : i \in 1 .. Len(talk)
  BY <1>0
<1>4. pipe.step # "idle" => talk[1] = "user" /\ \A i \in DOMAIN talk : talk[i] = "user" => i = 1
  BY <1>0, <1>3 DEF TalkShape
<1>5. {i \in DOMAIN talk : talk[i] \in {"assistant", "error"}} = IF pipe.step = "done" THEN {Len(talk)} ELSE {}
  <2>1. CASE pipe.step = "idle"
    BY <1>0, <2>1 DEF TalkShape
  <2>2. CASE pipe.step \in {"model", "calls", "tool", "log", "reread", "error"}
    BY <1>0, <1>3, <2>2 DEF TalkShape
  <2>3. CASE pipe.step = "done"
    BY <1>0, <1>3, <2>3 DEF TalkShape
  <2> QED
    BY <1>0, <2>1, <2>2, <2>3
<1>6. /\ {i \in DOMAIN talk : talk[i] = "log"} \subseteq {Len(talk), Len(talk) - 1}
      /\ {i \in DOMAIN talk : talk[i] = "log"} # {} => ran > 0
  <2>1. CASE pipe.step = "idle"
    BY <1>0, <2>1 DEF TalkShape
  <2>2. CASE pipe.step \in {"model", "calls", "tool", "log", "reread", "error"}
    BY <1>0, <1>3, <2>2 DEF TalkShape
  <2>3. CASE pipe.step = "done"
    BY <1>0, <1>3, <2>3 DEF TalkShape
  <2> QED
    BY <1>0, <2>1, <2>2, <2>3
<1>7. pipe.step = "done" /\ talk[Len(talk)] = "assistant" =>
        ({i \in DOMAIN talk : talk[i] = "log"} # {} <=> ran > 0)
  <2> SUFFICES ASSUME pipe.step = "done", talk[Len(talk)] = "assistant", ran > 0
               PROVE  {i \in DOMAIN talk : talk[i] = "log"} # {}
    BY <1>6
  <2>1. Len(talk) > 2 /\ talk[Len(talk) - 1] = "log"
    BY <1>0 DEF TalkShape
  <2>2. Len(talk) - 1 \in DOMAIN talk
    BY <1>0, <2>1
  <2> QED
    BY <2>1, <2>2
<1>8. CopyFollowsReports
  BY <1>2, <1>4, <1>5, <1>6, <1>7 DEF CopyFollowsReports
<1> QED
  BY <1>1, <1>8

LEMMA PipeSafe == PipeSpec => [](PipeTypeOK /\ CopyFollowsReports)
<1>1. PipeInit => PipeInv
  BY InitPipeInv, PipeAssumption
<1>2. PipeInv /\ [PipeNext]_pipeVars => PipeInv'
  BY NextPipeInv, PipeAssumption
<1>3. PipeInv => PipeTypeOK /\ CopyFollowsReports
  BY PipeImplies, PipeAssumption
<1> QED
  BY <1>1, <1>2, <1>3, PTL DEF PipeSpec

-----------------------------------------------------------------------------
(* Folds.  A set of numbers that is not empty has a least one, as less-than  *)
(* is well-founded; induction over sets follows, and from it that a fold     *)
(* takes one element after the other.                                        *)

LEMMA LeastNumber ==
  ASSUME NEW T \in SUBSET Nat, T # {} PROVE \E m \in T : \A k \in T : m <= k
<1>1. PICK R : R = {pair \in Nat \X Nat : pair[1] < pair[2]}
  OBVIOUS
<1>2. IsWellFoundedOn(R, Nat)
  BY <1>1, NatLessThanWellFounded DEF OpToRel
<1>3. PICK m \in T : \A k \in T : <<k, m>> \notin R
  BY <1>2, WFMin
<1>4. ASSUME NEW k \in T PROVE m <= k
  <2>1. m \in Nat /\ k \in Nat
    OBVIOUS
  <2>2. ASSUME k < m PROVE FALSE
    <3>1. <<k, m>> \in R
      BY <1>1, <2>1, <2>2
    <3> QED
      BY <1>3, <3>1
  <2> QED
    BY <2>1, <2>2
<1> QED
  BY <1>4

LEMMA NumbersInduct ==
  ASSUME NEW S, 0 \in S, \A n \in Nat : n \in S => n + 1 \in S PROVE Nat \subseteq S
<1> SUFFICES ASSUME Nat \ S # {} PROVE FALSE
  OBVIOUS
<1>1. PICK m \in Nat \ S : \A k \in Nat \ S : m <= k
  BY LeastNumber
<1>2. m # 0 /\ m - 1 \in Nat
  BY <1>1
<1>3. m - 1 \in S
  BY <1>1, <1>2
<1> QED
  BY <1>1, <1>2, <1>3

LEMMA LargestNumber ==
  ASSUME NEW n \in Nat, NEW T \in SUBSET (1 .. n), T # {}
  PROVE  Max(T) \in T /\ \A k \in T : k <= Max(T)
<1>1. n \in {b \in Nat : \A t \in T : t <= b}
  OBVIOUS
<1>2. PICK m \in {b \in Nat : \A t \in T : t <= b} : \A k \in {b \in Nat : \A t \in T : t <= b} : m <= k
  BY <1>1, LeastNumber
<1>3. m \in T
  <2> SUFFICES ASSUME m \notin T PROVE FALSE
    OBVIOUS
  <2>1. \A t \in T : t \in Nat /\ t <= m /\ t # m /\ t > 0
    BY <1>2
  <2>2. m \in Nat /\ m > 0 /\ m - 1 \in Nat
    <3>1. m \in Nat
      BY <1>2
    <3>2. PICK t \in T : TRUE
      OBVIOUS
    <3>3. t \in Nat /\ t <= m /\ t > 0
      BY <2>1
    <3> QED
      BY <3>1, <3>3
  <2>3. m - 1 \in {b \in Nat : \A t \in T : t <= b}
    BY <2>1, <2>2
  <2> QED
    BY <1>2, <2>2, <2>3
<1>4. \E x \in T : \A y \in T : x >= y
  BY <1>2, <1>3
<1>5. Max(T) \in T /\ \A y \in T : Max(T) >= y
  BY <1>4 DEF Max
<1> QED
  BY <1>5

LEMMA LargestIsLast == ASSUME NEW n \in Nat, n > 0 PROVE Max(1 .. n) = n /\ (1 .. n) \ {n} = 1 .. n - 1
<1>1. Max(1 .. n) \in 1 .. n /\ \A k \in 1 .. n : k <= Max(1 .. n)
  <2>1. (1 .. n) \in SUBSET (1 .. n) /\ 1 .. n # {}
    <3>1. 1 \in 1 .. n
      OBVIOUS
    <3> QED
      BY <3>1
  <2>2. PICK T : T = 1 .. n
    OBVIOUS
  <2>3. T \in SUBSET (1 .. n) /\ T # {}
    BY <2>1, <2>2
  <2>4. Max(T) \in T /\ \A k \in T : k <= Max(T)
    BY <2>3, LargestNumber
  <2> QED
    BY <2>2, <2>4
<1>2. PICK m \in 1 .. n : m = Max(1 .. n)
  BY <1>1
<1>3. n <= m
  BY <1>1, <1>2
<1> QED
  BY <1>2, <1>3

LEMMA NumbersUpTo ==
  ASSUME NEW n \in Nat, NEW S, 0 \in S, \A k \in 1 .. n : k - 1 \in S => k \in S
  PROVE  0 .. n \subseteq S
<1> DEFINE U == {k \in Nat : k <= n => k \in S}
<1>1. 0 \in U
  OBVIOUS
<1>2. ASSUME NEW k \in Nat, k \in U PROVE k + 1 \in U
  <2>1. k + 1 \in Nat /\ (k + 1) - 1 = k
    OBVIOUS
  <2> SUFFICES ASSUME k + 1 <= n PROVE k + 1 \in S
    BY <2>1
  <2>2. k + 1 \in 1 .. n /\ k <= n
    OBVIOUS
  <2>3. k \in S
    BY <1>2, <2>2
  <2> QED
    BY <2>1, <2>2, <2>3
<1>3. Nat \subseteq U
  <2> HIDE DEF U
  <2> QED
    BY <1>1, <1>2, NumbersInduct
<1> QED
  BY <1>3

\* g is defined by recursion over the parts of 1 .. n, each taking its largest
\* element last, as FoldLeft is.  There is such a function.
Recurs(g, base, F, n, s) ==
  \A T \in SUBSET (1 .. n) : g[T] = IF T = {} THEN base ELSE F[<<g[T \ {Max(T)}], s[Max(T)]>>]

LEMMA FoldExists ==
  ASSUME NEW A, NEW E, NEW base \in A, NEW F \in [A \X E -> A], NEW n \in Nat, NEW s \in [1 .. n -> E]
  PROVE  \E g \in [SUBSET (1 .. n) -> A] : Recurs(g, base, F, n, s)
<1> DEFINE D == SUBSET (1 .. n)
           By(g, T) == IF T = {} THEN base ELSE F[<<g[T \ {Max(T)}], s[Max(T)]>>]
           Upto(k) == \E g \in [D -> A] : \A T \in D : Cardinality(T) <= k => g[T] = By(g, T)
<1>1. ASSUME NEW T \in D
      PROVE  /\ IsFiniteSet(T) /\ Cardinality(T) \in Nat /\ Cardinality(T) <= n
             /\ T # {} => /\ Max(T) \in 1 .. n /\ T \ {Max(T)} \in D
                          /\ Cardinality(T \ {Max(T)}) = Cardinality(T) - 1
             /\ Cardinality(T) = 0 => T = {}
  <2>1. IsFiniteSet(1 .. n) /\ Cardinality(1 .. n) = n
    BY FS_Interval
  <2>a. IsFiniteSet(T) /\ Cardinality(T) <= Cardinality(1 .. n)
    BY <2>1, FS_Subset
  <2>2. IsFiniteSet(T) /\ Cardinality(T) <= n /\ Cardinality(T) \in Nat
    BY <2>1, <2>a, FS_CardinalityType
  <2>3. T # {} => Max(T) \in T
    BY LargestNumber
  <2>4. T # {} => Cardinality(T \ {Max(T)}) = Cardinality(T) - 1
    BY <2>2, <2>3, FS_RemoveElement
  <2>5. Cardinality(T) = 0 => T = {}
    BY <2>2, FS_EmptySet
  <2> QED
    BY <2>2, <2>3, <2>4, <2>5
<1>2. ASSUME NEW g \in [D -> A], NEW T \in D PROVE By(g, T) \in A
  BY <1>1
<1>3. Upto(0)
  <2>1. PICK g : g = [T \in D |-> base]
    OBVIOUS
  <2>2. g \in [D -> A] /\ \A T \in D : g[T] = base
    BY <2>1
  <2>3. ASSUME NEW T \in D, Cardinality(T) <= 0 PROVE g[T] = By(g, T)
    <3>0. Cardinality(T) \in Nat
      <4> HIDE DEF D
      <4> QED
        BY <1>1, <2>3
    <3>1. Cardinality(T) = 0
      BY <2>3, <3>0
    <3>2. T = {}
      BY <1>1, <3>1
    <3> QED
      BY <2>2, <3>2
  <2> QED
    BY <2>2, <2>3
<1>4. ASSUME NEW k \in Nat, Upto(k) PROVE Upto(k + 1)
  <2>1. PICK g \in [D -> A] : \A T \in D : Cardinality(T) <= k => g[T] = By(g, T)
    BY <1>4
  <2>2. PICK h : h = [T \in D |-> By(g, T)]
    OBVIOUS
  <2>3. h \in [D -> A] /\ \A T \in D : h[T] = By(g, T)
    <3> HIDE DEF By
    <3> QED
      BY <1>2, <2>2
  <2>4. ASSUME NEW T \in D, Cardinality(T) <= k + 1 PROVE h[T] = By(h, T)
    <3>1. CASE T = {}
      BY <2>3, <3>1
    <3>2. CASE T # {}
      <4>0. T \ {Max(T)} \in D /\ Cardinality(T \ {Max(T)}) = Cardinality(T) - 1 /\ Cardinality(T) \in Nat
        <5> HIDE DEF D
        <5> QED
          BY <1>1, <3>2
      <4>1. T \ {Max(T)} \in D /\ Cardinality(T \ {Max(T)}) <= k
        <5> HIDE DEF D
        <5> QED
          BY <2>4, <4>0
      <4>2. g[T \ {Max(T)}] = h[T \ {Max(T)}]
        <5> HIDE DEF By, D
        <5> QED
          BY <2>1, <2>3, <4>1
      <4> QED
        BY <2>3, <3>2, <4>2
    <3> QED
      BY <3>1, <3>2
  <2> HIDE DEF By, D
  <2> QED
    BY <2>3, <2>4
<1>5. Upto(n)
  <2> HIDE DEF Upto
  <2>1. Nat \subseteq {k \in Nat : Upto(k)}
    <3> DEFINE S == {k \in Nat : Upto(k)}
    <3>1. 0 \in S /\ \A k \in Nat : k \in S => k + 1 \in S
      BY <1>3, <1>4
    <3> HIDE DEF S
    <3>2. Nat \subseteq S
      BY <3>1, NumbersInduct
    <3> QED
      BY <3>2 DEF S
  <2> QED
    BY <2>1
<1>6. PICK g \in [D -> A] : \A T \in D : Cardinality(T) <= n => g[T] = By(g, T)
  BY <1>5
<1>7. \A T \in D : g[T] = By(g, T)
  <2> HIDE DEF By, D
  <2> QED
    BY <1>1, <1>6
<1> QED
  BY <1>6, <1>7 DEF Recurs

\* What adding the sources one after the other leads to, as a function of how
\* many were added.
SourceRow == [url : Addresses, source : Engines, length : 0 .. MaxLength]

Pruned == [kept : Seq(SourceRow), total : Nat]

LEMMA AddSourceIsTyped ==
  ASSUME SearchAssumption, NEW sum \in Pruned, NEW s \in SourceRow
  PROVE  AddSource(sum, s) \in Pruned
<1>1. PICK those \in Seq(SourceRow), total \in Nat : sum = [kept |-> those, total |-> total]
  BY DEF Pruned
<1>2. s.length \in Nat
  BY DEF SourceRow, SearchAssumption
<1>3. total + s.length \in Nat /\ Append(those, s) \in Seq(SourceRow)
  BY <1>2
<1>4. [sum EXCEPT !.kept = Append(@, s)] = [kept |-> Append(those, s), total |-> total]
  BY <1>1
<1> QED
  BY <1>1, <1>3, <1>4 DEF AddSource, Pruned

LEMMA FoldingSources ==
  ASSUME SearchAssumption, NEW s \in Seq(SourceRow)
  PROVE  \E h \in [0 .. Len(s) -> Pruned] :
           /\ h[0] = [kept |-> <<>>, total |-> 0]
           /\ \A k \in 1 .. Len(s) : h[k] = AddSource(h[k - 1], s[k])
           /\ Prune(s) = h[Len(s)].kept
<1> DEFINE base == [kept |-> <<>>, total |-> 0]
           n == Len(s)
           F == [p \in Pruned \X SourceRow |-> AddSource(p[1], p[2])]
<1>1. n \in Nat /\ s \in [1 .. n -> SourceRow] /\ DOMAIN s = 1 .. n /\ base \in Pruned
  BY DEF Pruned
<1>2. F \in [Pruned \X SourceRow -> Pruned]
  BY AddSourceIsTyped
<1>3. PICK g \in [SUBSET (1 .. n) -> Pruned] : Recurs(g, base, F, n, s)
  <2> HIDE DEF F, n, base
  <2> QED
    BY <1>1, <1>2, FoldExists
<1>4. ASSUME NEW T \in SUBSET (1 .. n)
      PROVE  g[T] = IF T = {} THEN base ELSE AddSource(g[T \ {Max(T)}], s[Max(T)])
  <2>1. CASE T = {}
    BY <1>3, <2>1 DEF Recurs
  <2>2. CASE T # {}
    <3>1. Max(T) \in T
      BY <1>1, <2>2, LargestNumber
    <3>2. g[T \ {Max(T)}] \in Pruned /\ s[Max(T)] \in SourceRow
      BY <1>1, <1>3, <3>1
    <3>3. g[T] = F[<<g[T \ {Max(T)}], s[Max(T)]>>]
      BY <1>3, <2>2 DEF Recurs
    <3> QED
      BY <2>2, <3>2, <3>3
  <2> QED
    BY <2>1, <2>2
<1> DEFINE Iterates(f) == f = [T \in SUBSET (1 .. n) |-> IF T = {} THEN base ELSE AddSource(f[T \ {Max(T)}], s[Max(T)])]
<1>5. PICK f : Iterates(f) /\ FoldLeft(AddSource, base, s) = f[1 .. n]
  <2>1. Iterates(g)
    <3> HIDE DEF base, n
    <3> QED
      BY <1>3, <1>4
  <2>2. FoldLeft(AddSource, base, s) = (CHOOSE f : Iterates(f))[1 .. n]
    BY <1>1 DEF FoldLeft, MapThenFoldSet
  <2> HIDE DEF Iterates
  <2> QED
    BY <2>1, <2>2
<1>6. f[1 .. 0] = base
  BY <1>5
<1>7. ASSUME NEW k \in 1 .. n PROVE f[1 .. k] = AddSource(f[1 .. k - 1], s[k])
  <2>1. k \in Nat /\ k > 0 /\ 1 .. k \in SUBSET (1 .. n) /\ 1 .. k # {}
    <3>1. k \in 1 .. k /\ k \in Nat /\ k > 0 /\ 1 .. k \subseteq 1 .. n
      BY <1>1
    <3> QED
      BY <3>1
  <2>2. Max(1 .. k) = k /\ (1 .. k) \ {k} = 1 .. k - 1
    BY <2>1, LargestIsLast
  <2> HIDE DEF base, n
  <2>3. PICK T : T = 1 .. k
    OBVIOUS
  <2>4. f[T] = AddSource(f[T \ {Max(T)}], s[Max(T)])
    BY <1>5, <2>1, <2>3
  <2> QED
    BY <2>2, <2>3, <2>4
<1>8. 0 .. n \subseteq {k \in 0 .. n : f[1 .. k] \in Pruned}
  <2> DEFINE S == {k \in 0 .. n : f[1 .. k] \in Pruned}
  <2>1. 0 \in S
    BY <1>1, <1>6
  <2>2. ASSUME NEW k \in 1 .. n, k - 1 \in S PROVE k \in S
    <3>1. f[1 .. k - 1] \in Pruned /\ s[k] \in SourceRow /\ k \in 0 .. n
      BY <1>1, <2>2
    <3> HIDE DEF Iterates, n, base
    <3> QED
      BY <1>7, <3>1, AddSourceIsTyped
  <2>3. 0 .. n \subseteq S
    <3> HIDE DEF S, n
    <3> QED
      BY <1>1, <2>1, <2>2, NumbersUpTo
  <2> QED
    BY <2>3
<1>9. PICK h : h = [k \in 0 .. n |-> f[1 .. k]]
  OBVIOUS
<1>10. h \in [0 .. n -> Pruned] /\ \A k \in 0 .. n : h[k] = f[1 .. k]
  <2> HIDE DEF Iterates, n, base
  <2> QED
    BY <1>8, <1>9
<1>11. h[0] = base /\ h[n] = FoldLeft(AddSource, base, s)
  <2>1. 0 \in 0 .. n /\ n \in 0 .. n
    BY <1>1
  <2> HIDE DEF Iterates, n, base
  <2> QED
    BY <1>5, <1>6, <1>10, <2>1
<1>12. ASSUME NEW k \in 1 .. n PROVE h[k] = AddSource(h[k - 1], s[k])
  <2>1. k \in 0 .. n /\ k - 1 \in 0 .. n
    BY <1>1
  <2> HIDE DEF Iterates, n, base
  <2> QED
    BY <1>7, <1>10, <2>1
<1>13. Prune(s) = h[n].kept
  BY <1>11 DEF Prune
<1> QED
  BY <1>10, <1>11, <1>12, <1>13
LEMMA AddLengthIsTyped ==
  ASSUME SearchAssumption, NEW sum \in Nat, NEW s \in SourceRow
  PROVE  AddLength(sum, s) \in Nat
BY DEF AddLength, SourceRow, SearchAssumption

LEMMA FoldingLengths ==
  ASSUME SearchAssumption, NEW s \in Seq(SourceRow)
  PROVE  \E h \in [0 .. Len(s) -> Nat] :
           /\ h[0] = 0
           /\ \A k \in 1 .. Len(s) : h[k] = h[k - 1] + s[k].length
           /\ TotalLength(s) = h[Len(s)]
<1> DEFINE n == Len(s)
           F == [p \in Nat \X SourceRow |-> AddLength(p[1], p[2])]
<1>1. n \in Nat /\ s \in [1 .. n -> SourceRow] /\ DOMAIN s = 1 .. n
  OBVIOUS
<1>2. F \in [Nat \X SourceRow -> Nat]
  BY AddLengthIsTyped
<1>3. PICK g \in [SUBSET (1 .. n) -> Nat] : Recurs(g, 0, F, n, s)
  <2> HIDE DEF F, n
  <2> QED
    BY <1>1, <1>2, FoldExists
<1>4. ASSUME NEW T \in SUBSET (1 .. n)
      PROVE  g[T] = IF T = {} THEN 0 ELSE AddLength(g[T \ {Max(T)}], s[Max(T)])
  <2>1. CASE T = {}
    BY <1>3, <2>1 DEF Recurs
  <2>2. CASE T # {}
    <3>1. Max(T) \in T
      BY <1>1, <2>2, LargestNumber
    <3>2. g[T \ {Max(T)}] \in Nat /\ s[Max(T)] \in SourceRow
      BY <1>1, <1>3, <3>1
    <3>3. g[T] = F[<<g[T \ {Max(T)}], s[Max(T)]>>]
      BY <1>3, <2>2 DEF Recurs
    <3> QED
      BY <2>2, <3>2, <3>3
  <2> QED
    BY <2>1, <2>2
<1> DEFINE Iterates(f) == f = [T \in SUBSET (1 .. n) |-> IF T = {} THEN 0 ELSE AddLength(f[T \ {Max(T)}], s[Max(T)])]
<1>5. PICK f : Iterates(f) /\ FoldLeft(AddLength, 0, s) = f[1 .. n]
  <2>1. Iterates(g)
    <3> HIDE DEF n
    <3> QED
      BY <1>3, <1>4
  <2>2. FoldLeft(AddLength, 0, s) = (CHOOSE f : Iterates(f))[1 .. n]
    BY <1>1 DEF FoldLeft, MapThenFoldSet
  <2> HIDE DEF Iterates
  <2> QED
    BY <2>1, <2>2
<1>6. f[1 .. 0] = 0
  BY <1>5
<1>7. ASSUME NEW k \in 1 .. n PROVE f[1 .. k] = AddLength(f[1 .. k - 1], s[k])
  <2>1. k \in Nat /\ k > 0 /\ 1 .. k \in SUBSET (1 .. n) /\ 1 .. k # {}
    <3>1. k \in 1 .. k /\ k \in Nat /\ k > 0 /\ 1 .. k \subseteq 1 .. n
      BY <1>1
    <3> QED
      BY <3>1
  <2>2. Max(1 .. k) = k /\ (1 .. k) \ {k} = 1 .. k - 1
    BY <2>1, LargestIsLast
  <2> HIDE DEF n
  <2>3. PICK T : T = 1 .. k
    OBVIOUS
  <2>4. f[T] = AddLength(f[T \ {Max(T)}], s[Max(T)])
    BY <1>5, <2>1, <2>3
  <2> QED
    BY <2>2, <2>3, <2>4
<1>8. 0 .. n \subseteq {k \in 0 .. n : f[1 .. k] \in Nat}
  <2> DEFINE S == {k \in 0 .. n : f[1 .. k] \in Nat}
  <2>1. 0 \in S
    BY <1>1, <1>6
  <2>2. ASSUME NEW k \in 1 .. n, k - 1 \in S PROVE k \in S
    <3>1. f[1 .. k - 1] \in Nat /\ s[k] \in SourceRow /\ k \in 0 .. n
      BY <1>1, <2>2
    <3> HIDE DEF Iterates, n
    <3> QED
      BY <1>7, <3>1, AddLengthIsTyped
  <2>3. 0 .. n \subseteq S
    <3> HIDE DEF S, n
    <3> QED
      BY <1>1, <2>1, <2>2, NumbersUpTo
  <2> QED
    BY <2>3
<1>9. PICK h : h = [k \in 0 .. n |-> f[1 .. k]]
  OBVIOUS
<1>10. h \in [0 .. n -> Nat] /\ \A k \in 0 .. n : h[k] = f[1 .. k]
  <2> HIDE DEF Iterates, n
  <2> QED
    BY <1>8, <1>9
<1>11. h[0] = 0 /\ h[n] = FoldLeft(AddLength, 0, s)
  <2>1. 0 \in 0 .. n /\ n \in 0 .. n
    BY <1>1
  <2> HIDE DEF Iterates, n
  <2> QED
    BY <1>5, <1>6, <1>10, <2>1
<1>12. ASSUME NEW k \in 1 .. n PROVE h[k] = AddLength(h[k - 1], s[k])
  <2>1. k \in 0 .. n /\ k - 1 \in 0 .. n
    BY <1>1
  <2> HIDE DEF Iterates, n
  <2> QED
    BY <1>7, <1>10, <2>1
<1>13. TotalLength(s) = h[n]
  BY <1>11 DEF TotalLength
<1>14. ASSUME NEW k \in 1 .. n PROVE h[k] = h[k - 1] + s[k].length
  BY <1>12 DEF AddLength
<1> QED
  BY <1>10, <1>11, <1>13, <1>14

LEMMA TotalOfAppend ==
  ASSUME SearchAssumption, NEW s \in Seq(SourceRow), NEW e \in SourceRow
  PROVE  TotalLength(Append(s, e)) = TotalLength(s) + e.length
<1>1. PICK t : t = Append(s, e)
  OBVIOUS
<1>2. PICK n \in Nat : n = Len(s)
  OBVIOUS
<1>3. t \in Seq(SourceRow) /\ Len(t) = n + 1 /\ t[n + 1] = e /\ \A k \in 1 .. n : t[k] = s[k]
  BY <1>1, <1>2
<1>4. PICK g \in [0 .. n -> Nat] :
        /\ g[0] = 0 /\ TotalLength(s) = g[n]
        /\ \A k \in 1 .. n : g[k] = g[k - 1] + s[k].length
  BY <1>2, FoldingLengths
<1>a. PICK m \in Nat : m = Len(t) /\ m = n + 1
  BY <1>3
<1>5. PICK h \in [0 .. m -> Nat] :
        /\ h[0] = 0 /\ TotalLength(t) = h[m]
        /\ \A k \in 1 .. m : h[k] = h[k - 1] + t[k].length
  <2>1. t \in Seq(SourceRow) /\ m = Len(t)
    BY <1>3, <1>a
  <2> QED
    BY <2>1, FoldingLengths
<1>6. 0 .. n \subseteq {k \in 0 .. n : g[k] = h[k]}
  <2> DEFINE S == {k \in 0 .. n : g[k] = h[k]}
  <2>1. 0 \in S
    BY <1>4, <1>5
  <2>2. ASSUME NEW k \in 1 .. n, k - 1 \in S PROVE k \in S
    <3>1. k \in 0 .. n /\ k \in 1 .. m /\ g[k - 1] = h[k - 1]
      BY <1>a, <2>2
    <3>2. g[k] = g[k - 1] + s[k].length
      BY <1>4
    <3>3. h[k] = h[k - 1] + t[k].length
      BY <1>5, <3>1
    <3>4. g[k] = h[k]
      BY <1>3, <3>1, <3>2, <3>3
    <3> QED
      BY <3>1, <3>4
  <2>3. 0 .. n \subseteq S
    <3> HIDE DEF S
    <3> QED
      BY <2>1, <2>2, NumbersUpTo
  <2> QED
    BY <2>3
<1>7. h[n] = g[n] /\ h[m] = h[n] + t[m].length /\ t[m] = e
  <2>1. n \in 0 .. n /\ m \in 1 .. m /\ m - 1 = n /\ t[m] = e
    BY <1>3, <1>a
  <2> QED
    BY <1>5, <1>6, <2>1
<1> QED
  BY <1>1, <1>4, <1>5, <1>7

LEMMA TotalOfNone == ASSUME SearchAssumption PROVE TotalLength(<<>>) = 0
<1>1. <<>> \in Seq(SourceRow) /\ Len(<<>>) = 0
  OBVIOUS
<1> QED
  BY <1>1, FoldingLengths

\* What is kept fits, and images and empty texts are kept.
LEMMA PruneKeeps ==
  ASSUME SearchAssumption, NEW s \in Seq(SourceRow),
         \A i \in 1 .. Len(s) : s[i].source = "tavily_image" => s[i].length = 0
  PROVE  /\ Prune(s) \in Seq(SourceRow) /\ TotalLength(Prune(s)) <= MaxTotal
         /\ \A i \in 1 .. Len(s) : s[i].source = "tavily_image" \/ s[i].length = 0 => s[i] \in Range(Prune(s))
<1>1. PICK n \in Nat : n = Len(s)
  OBVIOUS
<1>2. PICK h \in [0 .. n -> Pruned] :
        /\ h[0] = [kept |-> <<>>, total |-> 0]
        /\ \A k \in 1 .. n : h[k] = AddSource(h[k - 1], s[k])
        /\ Prune(s) = h[n].kept
  BY <1>1, FoldingSources
<1> DEFINE Good(k) == /\ TotalLength(h[k].kept) = h[k].total /\ h[k].total <= MaxTotal
                      /\ \A i \in 1 .. k : s[i].source = "tavily_image" \/ s[i].length = 0
                                            => s[i] \in Range(h[k].kept)
           S == {k \in 0 .. n : Good(k)}
<1>3. 0 \in S
  <2>1. h[0].kept = <<>> /\ h[0].total = 0 /\ 0 <= MaxTotal /\ 0 \in 0 .. n /\ 1 .. 0 = {}
    BY <1>2 DEF SearchAssumption
  <2> QED
    BY <2>1, TotalOfNone
<1>4. ASSUME NEW k \in 1 .. n, k - 1 \in S PROVE k \in S
  <2>1. Good(k - 1) /\ k \in 0 .. n /\ h[k - 1] \in Pruned /\ h[k] = AddSource(h[k - 1], s[k])
    BY <1>2, <1>4
  <2>2. PICK those \in Seq(SourceRow), total \in Nat : h[k - 1] = [kept |-> those, total |-> total]
    BY <2>1 DEF Pruned
  <2>3. TotalLength(those) = total /\ total <= MaxTotal
        /\ \A i \in 1 .. k - 1 : s[i].source = "tavily_image" \/ s[i].length = 0 => s[i] \in Range(those)
    BY <2>1, <2>2
  <2>4. s[k] \in SourceRow /\ s[k].length \in Nat /\ MaxTotal \in Nat
        /\ (s[k].source = "tavily_image" => s[k].length = 0)
    <3>1. s[k] \in SourceRow
      BY <1>1
    <3>2. s[k].length \in 0 .. MaxLength
      BY <3>1 DEF SourceRow
    <3> QED
      BY <1>1, <3>1, <3>2 DEF SearchAssumption
  <2>5. PICK more : more = Append(those, s[k])
    OBVIOUS
  <2>6. /\ more \in Seq(SourceRow) /\ TotalLength(more) = total + s[k].length
        /\ s[k] \in Range(more) /\ Range(those) \subseteq Range(more)
    <3>1. TotalLength(more) = total + s[k].length
      BY <2>3, <2>4, <2>5, TotalOfAppend
    <3>2. PICK m \in Nat : m = Len(those)
      OBVIOUS
    <3>3. more \in Seq(SourceRow) /\ DOMAIN more = 1 .. m + 1 /\ DOMAIN those = 1 .. m
          /\ more[m + 1] = s[k] /\ \A i \in 1 .. m : more[i] = those[i]
      BY <2>4, <2>5, <3>2
    <3>4. m + 1 \in DOMAIN more /\ DOMAIN those \subseteq DOMAIN more
      BY <3>2, <3>3
    <3> QED
      BY <3>1, <3>3, <3>4 DEF Range
  <2> HIDE DEF Good
  <2>7. SUFFICES Good(k)
    BY <2>1
  <2> USE DEF Good
  <2>8. ASSUME NEW i \in 1 .. k PROVE i \in 1 .. k - 1 \/ i = k
    OBVIOUS
  <2>9. CASE s[k].source = "tavily_image"
    <3>1. h[k] = [kept |-> more, total |-> total]
      <4>1. PICK sum : sum = h[k - 1]
        OBVIOUS
      <4>2. AddSource(sum, s[k]) = [sum EXCEPT !.kept = Append(sum.kept, s[k])]
        BY <2>9 DEF AddSource
      <4>3. sum = [kept |-> those, total |-> total]
        BY <2>2, <4>1
      <4>4. sum.kept = those
        BY <4>3
      <4>5. [sum EXCEPT !.kept = more] = [kept |-> more, total |-> total]
        BY <4>3
      <4> QED
        BY <2>1, <2>5, <4>1, <4>2, <4>4, <4>5
    <3> QED
      BY <3>1, <2>3, <2>4, <2>6, <2>8, <2>9
  <2>10. CASE s[k].source # "tavily_image" /\ total + s[k].length > MaxTotal
    <3>1. h[k] = [kept |-> those, total |-> total]
      BY <2>1, <2>2, <2>10 DEF AddSource
    <3>2. s[k].length # 0
      BY <2>3, <2>4, <2>10
    <3> QED
      BY <3>1, <3>2, <2>3, <2>8, <2>10
  <2>11. CASE s[k].source # "tavily_image" /\ ~(total + s[k].length > MaxTotal)
    <3>1. h[k] = [kept |-> more, total |-> total + s[k].length]
      BY <2>1, <2>2, <2>5, <2>11 DEF AddSource
    <3>2. total + s[k].length <= MaxTotal
      BY <2>3, <2>4, <2>11
    <3> QED
      BY <3>1, <3>2, <2>3, <2>6, <2>8
  <2> QED
    BY <2>9, <2>10, <2>11
<1>5. Good(n)
  <2>1. 0 .. n \subseteq S
    <3> HIDE DEF S
    <3> QED
      BY <1>3, <1>4, NumbersUpTo
  <2>2. n \in 0 .. n
    OBVIOUS
  <2> QED
    BY <2>1, <2>2
<1>6. h[n].kept \in Seq(SourceRow) /\ n \in 0 .. n
  BY <1>2 DEF Pruned
<1> QED
  BY <1>1, <1>2, <1>5, <1>6

-----------------------------------------------------------------------------
(* A search.  What a fetch that is awaited may still add must not be among   *)
(* the sources, nor be given up.                                             *)

FetchedOf(s) == {i \in DOMAIN s : s[i].source \in {"wikipedia", "duckduckgo"}}

SourcesTold(s, told) ==
  \A i \in FetchedOf(s) : told[Cardinality({j \in FetchedOf(s) : j <= i})] = s[i].url

\* The sources s, the fetches that are awaited (aw), timed out (to) and under
\* way (op), the events (told) and the rows sv of a search at a step.
Sound(step, s, r, aw, to, op, told, sv) ==
  /\ aw \subseteq op /\ aw \cap to = {}
  /\ aw # {} => step = "fetch"
  /\ step \in {"idle", "search", "refused"} => s = <<>> /\ op = {} /\ to = {}
  /\ Len(told) = Cardinality(FetchedOf(s)) + (IF step \in {"done", "failed", "refused"} THEN 1 ELSE 0)
  /\ step \in {"done", "failed", "refused"} =>
       told[Len(told)] = IF step = "done" THEN "completed" ELSE "error"
  /\ SourcesTold(s, told)
  /\ \A i \in FetchedOf(s) :
       /\ s[i].url \notin to
       /\ s[i].url \notin op
       /\ \A j \in FetchedOf(s) \ {i} : s[j].url # s[i].url
  /\ Cardinality(FetchedOf(s)) + Cardinality(aw) <= MaxSources
  /\ \A i \in DOMAIN s : s[i].source = "tavily_image" => s[i].length = 0
  /\ sv # <<>> => sv = FirstOf(s) /\ step \in {"answer", "done"}
  /\ step = "done" => r = Prune(s)

Steps == {"idle", "search", "fetch", "answer", "done", "failed", "refused"}

SearchInv ==
  \E st \in Steps, w \in SUBSET Addresses, s \in Seq(SourceRow), r \in Seq(SourceRow),
     aw \in SUBSET Addresses, to \in SUBSET Addresses, op \in SUBSET Addresses,
     told \in Seq(Addresses \cup {"completed", "error"}), sv \in Seq(SourceRow) :
       /\ search = [step |-> st, wikipedia |-> w, sources |-> s, result |-> r]
       /\ pages = [awaited |-> aw, timedOut |-> to, open |-> op] /\ events = told /\ saved = sv
       /\ Sound(st, s, r, aw, to, op, told, sv)

LEMMA FetchedIsFinite ==
  ASSUME NEW s \in Seq(SourceRow)
  PROVE  /\ IsFiniteSet(FetchedOf(s)) /\ Cardinality(FetchedOf(s)) \in Nat
         /\ \A i \in FetchedOf(s) :
              /\ IsFiniteSet({j \in FetchedOf(s) : j <= i})
              /\ Cardinality({j \in FetchedOf(s) : j <= i}) \in 1 .. Cardinality(FetchedOf(s))
<1>1. PICK n \in Nat : n = Len(s)
  OBVIOUS
<1>2. IsFiniteSet(1 .. n) /\ FetchedOf(s) \subseteq 1 .. n
  BY <1>1, FS_Interval DEF FetchedOf
<1>3. IsFiniteSet(FetchedOf(s))
  BY <1>2, FS_Subset
<1>4. Cardinality(FetchedOf(s)) \in Nat
  BY <1>3, FS_CardinalityType
<1>5. ASSUME NEW i \in FetchedOf(s)
      PROVE  /\ IsFiniteSet({j \in FetchedOf(s) : j <= i})
             /\ Cardinality({j \in FetchedOf(s) : j <= i}) \in 1 .. Cardinality(FetchedOf(s))
  <2>1. PICK T : T = {j \in FetchedOf(s) : j <= i}
    OBVIOUS
  <2>2. T \subseteq FetchedOf(s) /\ i \in T
    BY <1>2, <2>1
  <2>3. IsFiniteSet(T) /\ Cardinality(T) <= Cardinality(FetchedOf(s))
    BY <1>3, <2>2, FS_Subset
  <2>4. Cardinality(T) \in Nat /\ Cardinality(T) # 0
    BY <2>2, <2>3, FS_CardinalityType, FS_EmptySet
  <2> QED
    BY <1>4, <2>1, <2>3, <2>4
<1> QED
  BY <1>3, <1>4, <1>5

\* A page that arrives is one more fetched source, told last.
LEMMA OneMoreFetched ==
  ASSUME SearchAssumption, NEW s \in Seq(SourceRow), NEW e \in SourceRow,
         e.source \in {"wikipedia", "duckduckgo"}, NEW told \in Seq(Addresses \cup {"completed", "error"}),
         Len(told) = Cardinality(FetchedOf(s)), SourcesTold(s, told)
  PROVE  /\ FetchedOf(Append(s, e)) = FetchedOf(s) \cup {Len(s) + 1} /\ Len(s) + 1 \notin FetchedOf(s)
         /\ Cardinality(FetchedOf(Append(s, e))) = Cardinality(FetchedOf(s)) + 1
         /\ Len(Append(told, e.url)) = Cardinality(FetchedOf(s)) + 1
         /\ SourcesTold(Append(s, e), Append(told, e.url))
<1>1. PICK n \in Nat : n = Len(s)
  OBVIOUS
<1>2. PICK t : t = Append(s, e)
  OBVIOUS
<1>3. t \in Seq(SourceRow) /\ DOMAIN t = 1 .. n + 1 /\ DOMAIN s = 1 .. n /\ t[n + 1] = e /\ \A i \in 1 .. n : t[i] = s[i]
  BY <1>1, <1>2
<1>4. FetchedOf(t) = FetchedOf(s) \cup {n + 1} /\ n + 1 \notin FetchedOf(s)
      /\ FetchedOf(s) \subseteq 1 .. n
  <2>1. n + 1 \in 1 .. n + 1 /\ n + 1 \notin 1 .. n /\ \A i \in 1 .. n + 1 : i \in 1 .. n \/ i = n + 1
    OBVIOUS
  <2>2. 1 .. n \subseteq 1 .. n + 1
    OBVIOUS
  <2> QED
    BY <1>3, <2>1, <2>2 DEF FetchedOf
<1>5. PICK c \in Nat : c = Cardinality(FetchedOf(s))
  BY FetchedIsFinite
<1>6. Cardinality(FetchedOf(t)) = c + 1
  BY <1>4, <1>5, FetchedIsFinite, FS_AddElement
<1>7. PICK more : more = Append(told, e.url)
  OBVIOUS
<1>8. e.url \in Addresses
  BY DEF SourceRow
<1>9. Len(more) = c + 1 /\ more[c + 1] = e.url /\ \A k \in 1 .. c : more[k] = told[k]
  BY <1>5, <1>7, <1>8
<1>10. ASSUME NEW i \in FetchedOf(t) PROVE more[Cardinality({j \in FetchedOf(t) : j <= i})] = t[i].url
  <2>1. CASE i = n + 1
    <3>1. {j \in FetchedOf(t) : j <= i} = FetchedOf(t)
      BY <1>4, <2>1
    <3> QED
      BY <1>3, <1>6, <1>9, <2>1, <3>1
  <2>2. CASE i # n + 1
    <3>1. i \in FetchedOf(s) /\ i \in 1 .. n
      BY <1>4, <2>2
    <3>2. {j \in FetchedOf(t) : j <= i} = {j \in FetchedOf(s) : j <= i}
      BY <1>4, <3>1
    <3>3. Cardinality({j \in FetchedOf(s) : j <= i}) \in 1 .. c
      BY <1>5, <3>1, FetchedIsFinite
    <3>4. told[Cardinality({j \in FetchedOf(s) : j <= i})] = s[i].url
      BY <3>1 DEF SourcesTold
    <3> QED
      BY <1>3, <1>9, <3>1, <3>2, <3>3, <3>4
  <2> QED
    BY <2>1, <2>2
<1>11. SourcesTold(t, more)
  BY <1>10 DEF SourcesTold
<1> QED
  BY <1>1, <1>2, <1>4, <1>5, <1>6, <1>7, <1>9, <1>11

\* The end is told after the sources.
LEMMA EndIsLast ==
  ASSUME NEW s \in Seq(SourceRow), NEW told \in Seq(Addresses \cup {"completed", "error"}),
         NEW said \in {"completed", "error"}, Len(told) = Cardinality(FetchedOf(s)), SourcesTold(s, told)
  PROVE  /\ Len(Append(told, said)) = Cardinality(FetchedOf(s)) + 1
         /\ Append(told, said)[Len(Append(told, said))] = said
         /\ SourcesTold(s, Append(told, said))
<1>1. PICK c \in Nat : c = Cardinality(FetchedOf(s))
  BY FetchedIsFinite
<1>2. PICK more : more = Append(told, said)
  OBVIOUS
<1>3. Len(more) = c + 1 /\ more[c + 1] = said /\ \A k \in 1 .. c : more[k] = told[k]
  BY <1>1, <1>2
<1>4. ASSUME NEW i \in FetchedOf(s) PROVE more[Cardinality({j \in FetchedOf(s) : j <= i})] = s[i].url
  <2>1. Cardinality({j \in FetchedOf(s) : j <= i}) \in 1 .. c
    BY <1>1, FetchedIsFinite
  <2>2. told[Cardinality({j \in FetchedOf(s) : j <= i})] = s[i].url
    BY DEF SourcesTold
  <2> QED
    BY <1>3, <2>1, <2>2
<1> QED
  BY <1>1, <1>2, <1>3, <1>4 DEF SourcesTold

LEMMA SetToSeqListsIt ==
  ASSUME NEW S, IsFiniteSet(S)
  PROVE  Cardinality(S) \in Nat /\ SetToSeq(S) \in [1 .. Cardinality(S) -> S]
<1>1. Cardinality(S) \in Nat /\ ExistsBijection(1 .. Cardinality(S), S)
  BY FS_CardinalityType
<1>2. PICK f \in [1 .. Cardinality(S) -> S] : IsInjective(f)
  BY <1>1 DEF ExistsBijection, Bijection, Injection, IsInjective
<1> QED
  BY <1>1, <1>2 DEF SetToSeq

LEMMA SearchBecomes ==
  ASSUME NEW st \in Steps, NEW w \in SUBSET Addresses, NEW s \in Seq(SourceRow), NEW r \in Seq(SourceRow),
         NEW aw \in SUBSET Addresses, NEW to \in SUBSET Addresses, NEW op \in SUBSET Addresses,
         NEW told \in Seq(Addresses \cup {"completed", "error"}), NEW sv \in Seq(SourceRow),
         search' = [step |-> st, wikipedia |-> w, sources |-> s, result |-> r],
         pages' = [awaited |-> aw, timedOut |-> to, open |-> op], events' = told, saved' = sv,
         Sound(st, s, r, aw, to, op, told, sv)
  PROVE  SearchInv'
BY DEF SearchInv

LEMMA OfEither ==
  ASSUME NEW p \in Seq(SourceRow), NEW q \in Seq(SourceRow)
  PROVE  /\ p \o q \in Seq(SourceRow)
         /\ \A i \in DOMAIN (p \o q) :
              (\E j \in DOMAIN p : (p \o q)[i] = p[j]) \/ (\E j \in DOMAIN q : (p \o q)[i] = q[j])
<1>1. PICK m \in Nat, k \in Nat : m = Len(p) /\ k = Len(q)
  OBVIOUS
<1>2. PICK t : t = p \o q
  OBVIOUS
<1>3. t \in Seq(SourceRow) /\ Len(t) = m + k /\ \A i \in 1 .. m + k : t[i] = IF i <= m THEN p[i] ELSE q[i - m]
  BY <1>1, <1>2, ConcatProperties
<1>4. DOMAIN t = 1 .. m + k /\ DOMAIN p = 1 .. m /\ DOMAIN q = 1 .. k
  BY <1>1, <1>3
<1>5. ASSUME NEW i \in 1 .. m + k
      PROVE  (\E j \in 1 .. m : t[i] = p[j]) \/ (\E j \in 1 .. k : t[i] = q[j])
  <2>1. CASE i <= m
    BY <1>3, <2>1
  <2>2. CASE ~(i <= m)
    <3>1. i - m \in 1 .. k /\ t[i] = q[i - m]
      BY <1>3, <2>2
    <3> QED
      BY <3>1
  <2> QED
    BY <2>1, <2>2
<1> QED
  BY <1>2, <1>3, <1>4, <1>5, Zenon

LEMMA EnginesAnswerIsSound ==
  ASSUME SearchAssumption, NEW tavily \in SearchTavily, NEW s,
         s = [i \in 1..Cardinality(DOMAIN tavily.results) |->
                LET url == SetToSeq(DOMAIN tavily.results)[i]
                IN Source(url, "tavily", tavily.results[url])]
             \o [i \in 1..Cardinality(tavily.images) |->
                   Source(SetToSeq(tavily.images)[i], "tavily_image", 0)]
  PROVE  /\ s \in Seq(SourceRow) /\ FetchedOf(s) = {}
         /\ \A i \in DOMAIN s : s[i].source = "tavily_image" => s[i].length = 0
<1>1. PICK texts, images : tavily = [results |-> texts, images |-> images]
        /\ texts \in UNION {[S -> 0..MaxLength] : S \in SUBSET Addresses} /\ images \in SUBSET Addresses
  BY DEF SearchTavily
<1>2. PICK T \in SUBSET Addresses : texts \in [T -> 0 .. MaxLength]
  BY <1>1
<1>3. IsFiniteSet(T) /\ IsFiniteSet(images)
  BY <1>1, <1>2, FS_Subset DEF SearchAssumption
<1>4. PICK m \in Nat, k \in Nat : m = Cardinality(T) /\ k = Cardinality(images)
  BY <1>3, FS_CardinalityType
<1>5. PICK f \in [1 .. m -> T], g \in [1 .. k -> images] : f = SetToSeq(T) /\ g = SetToSeq(images)
  BY <1>3, <1>4, SetToSeqListsIt
<1>6. PICK p : p = [i \in 1 .. m |-> [url |-> f[i], source |-> "tavily", length |-> texts[f[i]]]]
  OBVIOUS
<1>7. PICK q : q = [i \in 1 .. k |-> [url |-> g[i], source |-> "tavily_image", length |-> 0]]
  OBVIOUS
<1>8. p \in Seq(SourceRow) /\ Len(p) = m /\ \A i \in 1 .. m : p[i].source = "tavily"
  BY <1>2, <1>6 DEF SourceRow, Engines
<1>9. q \in Seq(SourceRow) /\ Len(q) = k /\ \A i \in 1 .. k : q[i].source = "tavily_image" /\ q[i].length = 0
  BY <1>1, <1>7 DEF SourceRow, Engines, SearchAssumption
<1>10. tavily.results = texts /\ DOMAIN texts = T /\ tavily.images = images
  BY <1>1, <1>2
<1>11. s = p \o q
  BY <1>4, <1>5, <1>6, <1>7, <1>10 DEF Source
<1>12. s \in Seq(SourceRow) /\ \A i \in DOMAIN s : (\E j \in DOMAIN p : s[i] = p[j]) \/ (\E j \in DOMAIN q : s[i] = q[j])
  <2>1. /\ p \o q \in Seq(SourceRow)
        /\ \A i \in DOMAIN (p \o q) :
             (\E j \in DOMAIN p : (p \o q)[i] = p[j]) \/ (\E j \in DOMAIN q : (p \o q)[i] = q[j])
    BY <1>8, <1>9, OfEither
  <2> QED
    BY <1>11, <2>1, Zenon
<1>a. DOMAIN p = 1 .. m /\ DOMAIN q = 1 .. k
  BY <1>6, <1>7
<1>13. ASSUME NEW i \in DOMAIN s
       PROVE  s[i].source \in {"tavily", "tavily_image"} /\ (s[i].source = "tavily_image" => s[i].length = 0)
  <2>1. CASE \E j \in 1 .. m : s[i] = p[j]
    BY <1>8, <2>1
  <2>2. CASE \E j \in 1 .. k : s[i] = q[j]
    BY <1>9, <2>2
  <2> QED
    BY <1>12, <1>a, <2>1, <2>2, Zenon
<1>14. \A i \in DOMAIN s : s[i].source \notin {"wikipedia", "duckduckgo"}
  BY <1>13
<1> QED
  BY <1>12, <1>13, <1>14, Zenon DEF FetchedOf

LEMMA SearchSteps == ASSUME SearchAssumption, SearchInv, SearchNext PROVE SearchInv'
<1> DEFINE SourceRows == Seq(SourceRow)
           Tellings == Seq(Addresses \cup {"completed", "error"})
<1>1. PICK st \in Steps, w \in SUBSET Addresses, s \in SourceRows, r \in SourceRows,
           aw \in SUBSET Addresses, to \in SUBSET Addresses, op \in SUBSET Addresses, told \in Tellings, sv \in SourceRows :
        /\ search = [step |-> st, wikipedia |-> w, sources |-> s, result |-> r]
        /\ pages = [awaited |-> aw, timedOut |-> to, open |-> op] /\ events = told /\ saved = sv
        /\ Sound(st, s, r, aw, to, op, told, sv)
  BY DEF SearchInv
<1>6. IsFiniteSet(aw) /\ Cardinality(aw) \in Nat /\ MaxSources \in Nat
  BY FS_Subset, FS_CardinalityType DEF SearchAssumption
<1>7. IsFiniteSet(FetchedOf(s)) /\ Cardinality(FetchedOf(s)) \in Nat
  BY FetchedIsFinite
<1>8. /\ search.step = st /\ search.wikipedia = w /\ search.sources = s /\ search.result = r
      /\ pages.awaited = aw /\ pages.timedOut = to /\ pages.open = op
  BY <1>1
<1>9. CASE AiSearchStream
  <2>1. st = "idle" /\ UNCHANGED <<pages, saved>>
    BY <1>8, <1>9 DEF AiSearchStream
  <2>2. s = <<>> /\ FetchedOf(s) = {} /\ aw = {} /\ op = {} /\ to = {} /\ sv = <<>> /\ Cardinality(FetchedOf(s)) = 0
    <3>1. s = <<>> /\ aw = {} /\ op = {} /\ to = {} /\ sv = <<>>
      BY <1>1, <2>1 DEF Sound
    <3>2. FetchedOf(<<>>) = {}
      BY DEF FetchedOf
    <3> QED
      BY <3>1, <3>2, FS_EmptySet
  <2>a. Len(told) = Cardinality(FetchedOf(s)) /\ SourcesTold(s, told)
    <3>1. Len(told) = Cardinality(FetchedOf(s)) + 0 /\ SourcesTold(s, told)
      BY <1>1, <2>1 DEF Sound
    <3> QED
      BY <1>7, <3>1
  <2>3. CASE search' = [search EXCEPT !.step = "search"] /\ UNCHANGED events
    <3>1. search' = [step |-> "search", wikipedia |-> w, sources |-> s, result |-> r]
      BY <1>1, <2>3
    <3>2. Sound("search", s, r, aw, to, op, told, sv)
      BY <1>1, <2>1, <2>2 DEF Sound
    <3> QED
      BY <1>1, <2>1, <2>3, <3>1, <3>2, SearchBecomes DEF Steps
  <2>4. CASE search' = [search EXCEPT !.step = "refused"] /\ events' = Append(events, "error")
    <3>1. search' = [step |-> "refused", wikipedia |-> w, sources |-> s, result |-> r]
      BY <1>1, <2>4
    <3>2. PICK more : more = Append(told, "error")
      OBVIOUS
    <3>3. more \in Tellings /\ events' = more
      BY <1>1, <2>4, <3>2
    <3>4. Len(more) = Cardinality(FetchedOf(s)) + 1 /\ more[Len(more)] = "error" /\ SourcesTold(s, more)
      BY <2>a, <3>2, EndIsLast
    <3>5. Sound("refused", s, r, aw, to, op, more, sv)
      BY <1>1, <2>1, <2>2, <3>4 DEF Sound
    <3> QED
      BY <1>1, <2>1, <3>1, <3>3, <3>5, SearchBecomes DEF Steps
  <2> QED
    BY <1>9, <2>3, <2>4 DEF AiSearchStream
<1>10. CASE EnginesAnswer
  <2>1. /\ st = "search" /\ UNCHANGED <<events, saved>>
        /\ \E tavily \in SearchTavily, wikipedia \in SearchWikipedia, duckduckgo \in SearchDuckDuckGo :
           \E urls \in UniqueUrls(wikipedia, duckduckgo) :
             /\ search' = [search EXCEPT
                  !.step = "fetch", !.wikipedia = wikipedia,
                  !.sources = [i \in 1..Cardinality(DOMAIN tavily.results) |->
                                 LET url == SetToSeq(DOMAIN tavily.results)[i]
                                 IN Source(url, "tavily", tavily.results[url])]
                              \o [i \in 1..Cardinality(tavily.images) |->
                                    Source(SetToSeq(tavily.images)[i], "tavily_image", 0)]]
             /\ pages' = [NoPages EXCEPT !.awaited = urls, !.open = urls]
    BY <1>8, <1>10 DEF EnginesAnswer
  <2>2. PICK tavily \in SearchTavily, wikipedia \in SearchWikipedia, duckduckgo \in SearchDuckDuckGo :
           \E urls \in UniqueUrls(wikipedia, duckduckgo) :
             /\ search' = [search EXCEPT
                  !.step = "fetch", !.wikipedia = wikipedia,
                  !.sources = [i \in 1..Cardinality(DOMAIN tavily.results) |->
                                 LET url == SetToSeq(DOMAIN tavily.results)[i]
                                 IN Source(url, "tavily", tavily.results[url])]
                              \o [i \in 1..Cardinality(tavily.images) |->
                                    Source(SetToSeq(tavily.images)[i], "tavily_image", 0)]]
             /\ pages' = [NoPages EXCEPT !.awaited = urls, !.open = urls]
    BY <2>1
  <2>3. PICK t : t = [i \in 1..Cardinality(DOMAIN tavily.results) |->
                       LET url == SetToSeq(DOMAIN tavily.results)[i]
                       IN Source(url, "tavily", tavily.results[url])]
                     \o [i \in 1..Cardinality(tavily.images) |->
                          Source(SetToSeq(tavily.images)[i], "tavily_image", 0)]
    OBVIOUS
  <2>4. /\ t \in SourceRows /\ FetchedOf(t) = {}
        /\ \A i \in DOMAIN t : t[i].source = "tavily_image" => t[i].length = 0
    BY <2>3, EnginesAnswerIsSound
  <2>5. PICK urls \in UniqueUrls(wikipedia, duckduckgo) :
          /\ search' = [search EXCEPT !.step = "fetch", !.wikipedia = wikipedia, !.sources = t]
          /\ pages' = [NoPages EXCEPT !.awaited = urls, !.open = urls]
    BY <2>2, <2>3, Zenon
  <2>6. wikipedia \in SUBSET Addresses /\ urls \in SUBSET Addresses
    BY DEF SearchWikipedia, SearchDuckDuckGo, UniqueUrls
  <2>7. Cardinality(urls) <= MaxSources
    <3>1. PICK all : all = wikipedia \cup duckduckgo
      OBVIOUS
    <3>2. Cardinality(urls) = IF Cardinality(all) < MaxSources THEN Cardinality(all) ELSE MaxSources
      BY <3>1 DEF UniqueUrls
    <3>3. IsFiniteSet(all) /\ Cardinality(all) \in Nat
      <4>1. all \subseteq Addresses
        BY <3>1 DEF SearchWikipedia, SearchDuckDuckGo
      <4> QED
        BY <4>1, FS_Subset, FS_CardinalityType DEF SearchAssumption
    <3> QED
      BY <1>6, <3>2, <3>3
  <2>8. IsFiniteSet(urls) /\ Cardinality(urls) \in Nat
    BY <2>6, FS_Subset, FS_CardinalityType DEF SearchAssumption
  <2>9. /\ search' = [step |-> "fetch", wikipedia |-> wikipedia, sources |-> t, result |-> r]
        /\ pages' = [awaited |-> urls, timedOut |-> {}, open |-> urls] /\ events' = told /\ saved' = sv
    BY <1>1, <2>1, <2>5 DEF NoPages
  <2>10. Sound("fetch", t, r, urls, {}, urls, told, sv)
    <3>1. FetchedOf(<<>>) = {} /\ Cardinality({}) = 0
      BY FS_EmptySet DEF FetchedOf
    <3>2. s = <<>> /\ sv = <<>>
      BY <1>1, <2>1 DEF Sound
    <3>3. Len(told) = Cardinality(FetchedOf(s)) + 0
      BY <1>1, <2>1 DEF Sound
    <3>4. Len(told) = Cardinality(FetchedOf(t)) + 0
      BY <2>4, <3>1, <3>2, <3>3
    <3>5. Cardinality(FetchedOf(t)) + Cardinality(urls) <= MaxSources
      BY <2>4, <2>7, <2>8, <3>1
    <3>6. SourcesTold(t, told)
      BY <2>4 DEF SourcesTold
    <3> QED
      BY <2>4, <3>2, <3>4, <3>5, <3>6, Zenon DEF Sound
  <2> QED
    BY <2>4, <2>6, <2>9, <2>10, SearchBecomes DEF Steps
<1>11. CASE \E url \in Addresses : FetchContentForAI(url)
  <2>1. PICK url \in Addresses : FetchContentForAI(url)
    BY <1>11
  <2>2. pages' = [awaited |-> aw \ {url}, timedOut |-> to, open |-> op \ {url}] /\ saved' = sv /\ url \in op
    BY <1>1, <2>1 DEF FetchContentForAI
  <2>3. IsFiniteSet(aw \ {url}) /\ Cardinality(aw \ {url}) \in Nat /\ Cardinality(aw \ {url}) <= Cardinality(aw)
        /\ (url \in aw => Cardinality(aw \ {url}) = Cardinality(aw) - 1)
    BY <1>6, FS_Subset, FS_CardinalityType, FS_RemoveElement
  <2>4. aw \ {url} \subseteq op \ {url} /\ (aw \ {url}) \cap to = {} /\ (aw \ {url} # {} => aw # {})
        /\ (op = {} => op \ {url} = {}) /\ \A x : x \notin op => x \notin op \ {url}
    BY <1>1 DEF Sound
  <2>5. CASE url \notin aw
    <3>1. search' = [step |-> st, wikipedia |-> w, sources |-> s, result |-> r] /\ events' = told
      BY <1>1, <2>1, <2>5 DEF FetchContentForAI
    <3>2. Cardinality(FetchedOf(s)) + Cardinality(aw \ {url}) <= MaxSources
      BY <1>1, <1>6, <1>7, <2>3 DEF Sound
    <3>3. Sound(st, s, r, aw \ {url}, to, op \ {url}, told, sv)
      BY <1>1, <2>4, <3>2, Zenon DEF Sound
    <3> QED
      BY <2>2, <3>1, <3>3, SearchBecomes
  <2>6. CASE url \in aw
    <3>1. PICK length \in ExtractText :
            search' = [search EXCEPT !.sources = Append(@,
                        Source(url, IF url \in search.wikipedia THEN "wikipedia" ELSE "duckduckgo", length))]
      BY <1>1, <2>1, <2>6 DEF FetchContentForAI
    <3>2. PICK e : e = Source(url, IF url \in w THEN "wikipedia" ELSE "duckduckgo", length)
      OBVIOUS
    <3>3. e \in SourceRow /\ e.source \in {"wikipedia", "duckduckgo"} /\ e.url = url
      BY <3>2 DEF Source, SourceRow, Engines, ExtractText
    <3>4. PICK t : t = Append(s, e)
      OBVIOUS
    <3>5. search' = [step |-> st, wikipedia |-> w, sources |-> t, result |-> r]
      BY <1>1, <1>8, <3>1, <3>2, <3>4
    <3>6. PICK more : more = Append(told, url)
      OBVIOUS
    <3>7. events' = more /\ more \in Tellings /\ t \in SourceRows
      BY <1>1, <2>1, <2>6, <3>3, <3>4, <3>6 DEF FetchContentForAI
    <3>8. st = "fetch"
      BY <1>1, <2>6 DEF Sound
    <3>9. Len(told) = Cardinality(FetchedOf(s)) /\ SourcesTold(s, told)
      <4>1. Len(told) = Cardinality(FetchedOf(s)) + 0 /\ SourcesTold(s, told)
        BY <1>1, <3>8 DEF Sound
      <4> QED
        BY <1>7, <4>1
    <3>10. PICK n \in Nat : n = Len(s)
      OBVIOUS
    <3>11. /\ FetchedOf(t) = FetchedOf(s) \cup {n + 1} /\ n + 1 \notin FetchedOf(s)
           /\ Cardinality(FetchedOf(t)) = Cardinality(FetchedOf(s)) + 1
           /\ Len(more) = Cardinality(FetchedOf(s)) + 1 /\ SourcesTold(t, more)
      <4>1. /\ FetchedOf(Append(s, e)) = FetchedOf(s) \cup {Len(s) + 1} /\ Len(s) + 1 \notin FetchedOf(s)
            /\ Cardinality(FetchedOf(Append(s, e))) = Cardinality(FetchedOf(s)) + 1
            /\ Len(Append(told, e.url)) = Cardinality(FetchedOf(s)) + 1
            /\ SourcesTold(Append(s, e), Append(told, e.url))
        BY <3>3, <3>9, OneMoreFetched
      <4> QED
        BY <3>3, <3>4, <3>6, <3>10, <4>1, Zenon
    <3>12. t[n + 1] = e /\ DOMAIN t = 1 .. n + 1 /\ DOMAIN s = 1 .. n /\ \A i \in 1 .. n : t[i] = s[i]
      BY <3>3, <3>4, <3>10
    <3>13. Len(more) = Cardinality(FetchedOf(t)) + 0
      BY <1>7, <3>11
    <3>14. Cardinality(FetchedOf(t)) + Cardinality(aw \ {url}) <= MaxSources
      BY <1>1, <1>6, <1>7, <2>3, <2>6, <3>11 DEF Sound
    <3>15. \A i \in FetchedOf(s) : i \in 1 .. n /\ t[i] = s[i] /\ s[i].url # url
      <4>1. FetchedOf(s) \subseteq 1 .. n
        BY <3>12 DEF FetchedOf
      <4>2. \A i \in FetchedOf(s) : s[i].url \notin op
        BY <1>1 DEF Sound
      <4> QED
        BY <2>2, <3>12, <4>1, <4>2
    <3>16. ASSUME NEW i \in FetchedOf(t)
           PROVE  /\ t[i].url \notin to /\ t[i].url \notin op \ {url}
                  /\ \A j \in FetchedOf(t) \ {i} : t[j].url # t[i].url
      <4>1. url \notin to
        BY <1>1, <2>6 DEF Sound
      <4>2. CASE i = n + 1
        BY <3>3, <3>11, <3>12, <3>15, <4>1, <4>2
      <4>3. CASE i # n + 1
        <5>1. i \in FetchedOf(s) /\ t[i] = s[i] /\ s[i].url # url
          BY <3>11, <3>15, <4>3
        <5>2. /\ s[i].url \notin to /\ s[i].url \notin op
              /\ \A j \in FetchedOf(s) \ {i} : s[j].url # s[i].url
          BY <1>1, <5>1 DEF Sound
        <5>3. ASSUME NEW j \in FetchedOf(t) \ {i} PROVE t[j].url # t[i].url
          <6>1. CASE j = n + 1
            BY <3>3, <3>12, <5>1, <6>1
          <6>2. CASE j # n + 1
            BY <3>11, <3>15, <5>1, <5>2, <6>2
          <6> QED
            BY <6>1, <6>2
        <5> QED
          BY <5>1, <5>2, <5>3
      <4> QED
        BY <4>2, <4>3
    <3>17. ASSUME NEW i \in DOMAIN t, t[i].source = "tavily_image" PROVE t[i].length = 0
      <4>1. i \in 1 .. n \/ i = n + 1
        BY <3>12
      <4>2. i # n + 1
        BY <3>3, <3>12, <3>17
      <4>3. \A k \in DOMAIN s : s[k].source = "tavily_image" => s[k].length = 0
        BY <1>1 DEF Sound
      <4> QED
        BY <3>12, <3>17, <4>1, <4>2, <4>3
    <3>18. sv = <<>>
      BY <1>1, <3>8 DEF Sound
    <3>19. Sound(st, t, r, aw \ {url}, to, op \ {url}, more, sv)
      <4>1. st \notin {"idle", "search", "refused"} /\ st \notin {"done", "failed", "refused"} /\ st # "done"
        BY <3>8
      <4> QED
        BY <2>4, <3>8, <3>11, <3>13, <3>14, <3>16, <3>17, <3>18, <4>1, Zenon DEF Sound
    <3> QED
      BY <2>2, <3>5, <3>7, <3>19, SearchBecomes
  <2> QED
    BY <2>5, <2>6
<1>12. CASE \E url \in Addresses : PageFails(url)
  <2>1. PICK url \in Addresses : PageFails(url)
    BY <1>12
  <2>2. /\ search' = [step |-> st, wikipedia |-> w, sources |-> s, result |-> r]
        /\ pages' = [awaited |-> aw \ {url}, timedOut |-> to, open |-> op \ {url}] /\ events' = told /\ saved' = sv
    BY <1>1, <2>1 DEF PageFails
  <2>3. IsFiniteSet(aw \ {url}) /\ Cardinality(aw \ {url}) \in Nat /\ Cardinality(aw \ {url}) <= Cardinality(aw)
    BY <1>6, FS_Subset, FS_CardinalityType
  <2>4. Cardinality(FetchedOf(s)) + Cardinality(aw \ {url}) <= MaxSources
    BY <1>1, <1>6, <1>7, <2>3 DEF Sound
  <2>5. Sound(st, s, r, aw \ {url}, to, op \ {url}, told, sv)
    <3>1. aw \ {url} \subseteq op \ {url} /\ (aw \ {url}) \cap to = {} /\ (aw \ {url} # {} => aw # {})
          /\ (op = {} => op \ {url} = {}) /\ \A x : x \notin op => x \notin op \ {url}
      BY <1>1 DEF Sound
    <3> QED
      BY <1>1, <2>4, <3>1, Zenon DEF Sound
  <2> QED
    BY <2>2, <2>5, SearchBecomes
<1>13. CASE \E url \in Addresses : DynamicTimeout(url)
  <2>1. PICK url \in Addresses : DynamicTimeout(url)
    BY <1>13
  <2>2. /\ search' = [step |-> st, wikipedia |-> w, sources |-> s, result |-> r]
        /\ pages' = [awaited |-> aw \ {url}, timedOut |-> to \cup {url}, open |-> op]
        /\ events' = told /\ saved' = sv /\ url \in aw
    BY <1>1, <2>1 DEF DynamicTimeout
  <2>3. IsFiniteSet(aw \ {url}) /\ Cardinality(aw \ {url}) \in Nat /\ Cardinality(aw \ {url}) <= Cardinality(aw)
    BY <1>6, FS_Subset, FS_CardinalityType
  <2>4. Cardinality(FetchedOf(s)) + Cardinality(aw \ {url}) <= MaxSources
    BY <1>1, <1>6, <1>7, <2>3 DEF Sound
  <2>5. st = "fetch" /\ url \in op
    BY <1>1, <2>2 DEF Sound
  <2>6. Sound(st, s, r, aw \ {url}, to \cup {url}, op, told, sv)
    <3>1. aw \ {url} \subseteq op /\ (aw \ {url}) \cap (to \cup {url}) = {}
      BY <1>1 DEF Sound
    <3>2. \A i \in FetchedOf(s) : s[i].url \notin to \cup {url}
      BY <1>1, <2>5 DEF Sound
    <3>3. st \notin {"idle", "search", "refused"} /\ st \notin {"done", "failed", "refused"} /\ st # "done"
      BY <2>5
    <3> QED
      BY <1>1, <2>4, <2>5, <3>1, <3>2, <3>3, Zenon DEF Sound
  <2> QED
    BY <2>2, <2>6, SearchBecomes
<1>a. ASSUME st \notin {"done", "failed", "refused"}
      PROVE  Len(told) = Cardinality(FetchedOf(s)) /\ SourcesTold(s, told)
  <2>1. Len(told) = Cardinality(FetchedOf(s)) + 0 /\ SourcesTold(s, told)
    BY <1>1, <1>a DEF Sound
  <2> QED
    BY <1>7, <2>1
<1>14. CASE SaveSources
  <2>1. st = "fetch" /\ aw = {}
    BY <1>8, <1>14 DEF SaveSources
  <2>2. PICK rows : rows \in {FirstOf(s), <<>>} /\ saved' = rows
    BY <1>8, <1>14 DEF SaveSources
  <2>3. rows \in SourceRows
    <3>1. PICK n \in Nat : n = Len(s)
      OBVIOUS
    <3>2. PICK m \in Nat : m = (IF n < MaxSources THEN n ELSE MaxSources) /\ m <= n
      BY <1>6
    <3>3. SubSeq(s, 1, m) \in SourceRows
      BY <3>1, <3>2
    <3>4. FirstOf(s) \in SourceRows
      BY <3>1, <3>2, <3>3 DEF FirstOf
    <3>5. <<>> \in SourceRows
      OBVIOUS
    <3> QED
      BY <2>2, <3>4, <3>5
  <2>4. /\ search' = [step |-> "answer", wikipedia |-> w, sources |-> s, result |-> r]
        /\ pages' = [awaited |-> aw, timedOut |-> to, open |-> op] /\ events' = told
    BY <1>1, <1>14 DEF SaveSources
  <2>5. Sound("answer", s, r, aw, to, op, told, rows)
    <3>1. Len(told) = Cardinality(FetchedOf(s)) + 0
      BY <1>1, <2>1 DEF Sound
    <3> QED
      BY <1>1, <2>1, <2>2, <3>1, Zenon DEF Sound
  <2> QED
    BY <2>2, <2>3, <2>4, <2>5, SearchBecomes DEF Steps
<1>15. CASE Completed
  <2>1. st = "answer" /\ aw = {}
    BY <1>1, <1>8, <1>15 DEF Completed, Sound
  <2>2. PICK more : more = Append(told, "completed")
    OBVIOUS
  <2>3. more \in Tellings /\ events' = more
    BY <1>1, <1>15, <2>2 DEF Completed
  <2>4. \A i \in 1 .. Len(s) : s[i].source = "tavily_image" => s[i].length = 0
    BY <1>1 DEF Sound
  <2>5. Prune(s) \in SourceRows
    BY <2>4, PruneKeeps
  <2>6. /\ search' = [step |-> "done", wikipedia |-> w, sources |-> s, result |-> Prune(s)]
        /\ pages' = [awaited |-> aw, timedOut |-> to, open |-> op] /\ saved' = sv
    BY <1>1, <1>8, <1>15 DEF Completed
  <2>7. Len(more) = Cardinality(FetchedOf(s)) + 1 /\ more[Len(more)] = "completed" /\ SourcesTold(s, more)
    BY <1>a, <2>1, <2>2, EndIsLast
  <2>8. Sound("done", s, Prune(s), aw, to, op, more, sv)
    BY <1>1, <2>1, <2>7 DEF Sound
  <2> QED
    BY <2>3, <2>5, <2>6, <2>8, SearchBecomes DEF Steps
<1>16. CASE SearchFails
  <2>1. st \in {"search", "fetch"} /\ aw = {}
    BY <1>8, <1>16 DEF SearchFails
  <2>2. PICK more : more = Append(told, "error")
    OBVIOUS
  <2>3. more \in Tellings /\ events' = more
    BY <1>1, <1>16, <2>2 DEF SearchFails
  <2>4. /\ search' = [step |-> "failed", wikipedia |-> w, sources |-> s, result |-> s]
        /\ pages' = [awaited |-> aw, timedOut |-> to, open |-> op] /\ saved' = sv
    BY <1>1, <1>8, <1>16 DEF SearchFails
  <2>5. Len(more) = Cardinality(FetchedOf(s)) + 1 /\ more[Len(more)] = "error" /\ SourcesTold(s, more)
    BY <1>a, <2>1, <2>2, EndIsLast
  <2>6. sv = <<>>
    BY <1>1, <2>1 DEF Sound
  <2>7. Sound("failed", s, s, aw, to, op, more, sv)
    BY <1>1, <2>1, <2>5, <2>6 DEF Sound
  <2> QED
    BY <2>3, <2>4, <2>7, SearchBecomes DEF Steps
<1> QED
  BY <1>9, <1>10, <1>11, <1>12, <1>13, <1>14, <1>15, <1>16 DEF SearchNext

LEMMA SearchStarts == ASSUME SearchAssumption, SearchInit PROVE SearchInv
<1>1. FetchedOf(<<>>) = {} /\ Cardinality({}) = 0
  BY FS_EmptySet DEF FetchedOf
<1>2. <<>> \in Seq(SourceRow) /\ <<>> \in Seq(Addresses \cup {"completed", "error"}) /\ "idle" \in Steps
      /\ {} \in SUBSET Addresses
  BY DEF Steps
<1>3. Len(<<>>) = Cardinality(FetchedOf(<<>>)) + 0 /\ Cardinality(FetchedOf(<<>>)) + Cardinality({}) <= MaxSources
  <2>1. Len(<<>>) = 0 /\ 0 + 0 <= MaxSources
    BY DEF SearchAssumption
  <2>2. Cardinality(FetchedOf(<<>>)) = 0 /\ Cardinality({}) = 0
    BY <1>1, Zenon
  <2> QED
    BY <2>1, <2>2
<1>4. SourcesTold(<<>>, <<>>)
  BY <1>1 DEF SourcesTold
<1>5. Sound("idle", <<>>, <<>>, {}, {}, {}, <<>>, <<>>)
  BY <1>1, <1>3, <1>4 DEF Sound
<1> QED
  BY <1>2, <1>5, Zenon DEF SearchInit, NoSearch, NoPages, SearchInv

LEMMA SearchMeans == ASSUME SearchAssumption, SearchInv PROVE SearchTypeOK /\ SearchEndsOnce
<1>1. PICK st \in Steps, w \in SUBSET Addresses, s \in Seq(SourceRow), r \in Seq(SourceRow),
           aw \in SUBSET Addresses, to \in SUBSET Addresses, op \in SUBSET Addresses,
           told \in Seq(Addresses \cup {"completed", "error"}), sv \in Seq(SourceRow) :
        /\ search = [step |-> st, wikipedia |-> w, sources |-> s, result |-> r]
        /\ pages = [awaited |-> aw, timedOut |-> to, open |-> op] /\ events = told /\ saved = sv
        /\ Sound(st, s, r, aw, to, op, told, sv)
  BY DEF SearchInv
<1>2. SearchTypeOK
  BY <1>1 DEF SearchTypeOK, SourceRow, Steps
<1>3. /\ search.step = st /\ search.sources = s /\ search.result = r /\ pages.timedOut = to
  BY <1>1
<1>4. Cardinality(FetchedOf(s)) <= MaxSources
  <2>1. IsFiniteSet(aw) /\ Cardinality(aw) \in Nat
    BY FS_Subset, FS_CardinalityType DEF SearchAssumption
  <2>2. Cardinality(FetchedOf(s)) \in Nat /\ Cardinality(FetchedOf(s)) + Cardinality(aw) <= MaxSources
    BY <1>1, FetchedIsFinite DEF Sound
  <2> QED
    BY <2>1, <2>2 DEF SearchAssumption
<1>5. st = "done" =>
        /\ TotalLength(r) <= MaxTotal
        /\ \A e \in Range(s) : e.source = "tavily_image" \/ e.length = 0 => e \in Range(r)
  <2>1. \A i \in 1 .. Len(s) : s[i].source = "tavily_image" => s[i].length = 0
    BY <1>1 DEF Sound
  <2>2. /\ TotalLength(Prune(s)) <= MaxTotal
        /\ \A i \in 1 .. Len(s) : s[i].source = "tavily_image" \/ s[i].length = 0 => s[i] \in Range(Prune(s))
    BY <2>1, PruneKeeps
  <2>3. \A e \in Range(s) : \E i \in 1 .. Len(s) : e = s[i]
    BY DEF Range
  <2>4. st = "done" => r = Prune(s)
    BY <1>1 DEF Sound
  <2> QED
    BY <2>2, <2>3, <2>4
<1>6. SearchEndsOnce
  <2> DEFINE fetched == {i \in DOMAIN search.sources : search.sources[i].source \in {"wikipedia", "duckduckgo"}}
             ended == search.step \in {"done", "failed", "refused"}
  <2>1. fetched = FetchedOf(s)
    BY <1>3 DEF FetchedOf
  <2> HIDE DEF fetched
  <2>2. Len(events) = Cardinality(fetched) + (IF ended THEN 1 ELSE 0)
    BY <1>1, <1>3, <2>1 DEF Sound
  <2>3. ended => events[Len(events)] = IF search.step = "done" THEN "completed" ELSE "error"
    BY <1>1, <1>3 DEF Sound
  <2>4. ASSUME NEW i \in fetched
        PROVE  /\ events[Cardinality({j \in fetched : j <= i})] = search.sources[i].url
               /\ search.sources[i].url \notin pages.timedOut
               /\ \A j \in fetched \ {i} : search.sources[j].url # search.sources[i].url
    <3>1. i \in FetchedOf(s) /\ {j \in fetched : j <= i} = {j \in FetchedOf(s) : j <= i}
      BY <2>1
    <3>2. told[Cardinality({j \in FetchedOf(s) : j <= i})] = s[i].url
      BY <1>1, <3>1 DEF Sound, SourcesTold
    <3>3. s[i].url \notin to /\ \A j \in FetchedOf(s) \ {i} : s[j].url # s[i].url
      BY <1>1, <3>1 DEF Sound
    <3> QED
      BY <1>1, <1>3, <2>1, <3>1, <3>2, <3>3
  <2>5. saved # <<>> => saved = FirstOf(search.sources) /\ search.step \in {"answer", "done"}
    BY <1>1, <1>3 DEF Sound
  <2>6. Cardinality(fetched) <= MaxSources
    BY <1>4, <2>1
  <2>7. search.step = "done" =>
          /\ TotalLength(search.result) <= MaxTotal
          /\ \A e \in Range(search.sources) :
               e.source = "tavily_image" \/ e.length = 0 => e \in Range(search.result)
    BY <1>3, <1>5
  <2> QED
    BY <2>2, <2>3, <2>4, <2>5, <2>6, <2>7, Zenon DEF SearchEndsOnce, fetched
<1> QED
  BY <1>2, <1>6

LEMMA SearchSafe == SearchSpec => [](SearchTypeOK /\ SearchEndsOnce)
<1>1. SearchAssumption
  BY SearchAssumption
<1>2. SearchInit => SearchInv
  BY <1>1, SearchStarts
<1>3. SearchInv /\ [SearchNext]_searchVars => SearchInv'
  <2> SUFFICES ASSUME SearchInv, [SearchNext]_searchVars PROVE SearchInv'
    OBVIOUS
  <2>1. CASE SearchNext
    BY <1>1, <2>1, SearchSteps
  <2>2. CASE UNCHANGED searchVars
    <3>1. PICK st \in Steps, w \in SUBSET Addresses, s \in Seq(SourceRow), r \in Seq(SourceRow),
               aw \in SUBSET Addresses, to \in SUBSET Addresses, op \in SUBSET Addresses,
               told \in Seq(Addresses \cup {"completed", "error"}), sv \in Seq(SourceRow) :
            /\ search = [step |-> st, wikipedia |-> w, sources |-> s, result |-> r]
            /\ pages = [awaited |-> aw, timedOut |-> to, open |-> op] /\ events = told /\ saved = sv
            /\ Sound(st, s, r, aw, to, op, told, sv)
      BY DEF SearchInv
    <3> QED
      BY <2>2, <3>1, SearchBecomes DEF searchVars
  <2> QED
    BY <2>1, <2>2
<1>4. SearchInv => SearchTypeOK /\ SearchEndsOnce
  BY <1>1, SearchMeans
<1> QED
  BY <1>2, <1>3, <1>4, PTL DEF SearchSpec

-----------------------------------------------------------------------------
(* Accounts whose requests did not overlap have one row of settings with each *)
(* confirmed change, and a name of their own unless an external user was      *)
(* given it; while no handler wrote between another's read and write, a       *)
(* backup code opens one session and an enabled second factor has a secret    *)
(* the user has shown a code of; a credential the owner keeps is there with   *)
(* its value but between the two writes of its own update, after such an      *)
(* update failed, or after another was stored under its name; a cached list   *)
(* is that of the rows until a write is to drop it or a reader was overtaken. *)
THEOREM UserDataKept == MCSpec => []UserDataHolds
<1>1. UserDataHolds <=> /\ SettingsFollowTheUser /\ SecondFactorHolds
                        /\ CredentialsAreKept /\ ListsAreFresh
  BY DEF UserDataHolds
<1> QED
  BY <1>1, Composed, AccSafe, FactorSafe, PartsSafe, MediaSafe, PTL

(* Whatever fails, a message to the assistant ends once for its client and   *)
(* is paid for a second time only after its research fell back; memories the *)
(* user cleared and titles the user chose come back only through what was    *)
(* already running; as many instructions too many as were created at once,   *)
(* less one, are the most there are; a loop of drafts ends within its bound  *)
(* and tells each batch.  For any number of requests and instructions.       *)
THEOREM ConversationsEnd == MCSpec => []ConversationHolds
<1>1. ConversationHolds <=> /\ MessageEndsOnce /\ ContextFollowsUser
                            /\ InstructionsLimited /\ ReasoningEnds
  BY DEF ConversationHolds
<1> QED
  BY <1>1, Composed, GatewaySafe, ContextSafe, InstructionsSafe, ReasoningSafe, PTL

(* Searches and agents tell their client what happened, once and in order,   *)
(* whatever pages, tools and queries fail, and count and charge what is      *)
(* under way (aiSearchStream, the cached lookups, the editing loop of an     *)
(* agent, which follows its reports on files nobody else has written).       *)
THEOREM SearchesEnd == MCSpec => []SearchHolds
<1>1. SearchHolds <=> SearchEndsOnce /\ LookupsAreCounted /\ CopyFollowsReports
  BY DEF SearchHolds
<1> QED
  BY <1>1, Composed, SearchSafe, CacheSafe, PipeSafe, PTL

(* Every component stays in its types, the ones that rest included.          *)
THEOREM TypesCorrect == MCSpec => []PlatformTypesOK
<1> DEFINE Chosen == component \in {"oauth", "accounts", "factor", "gateway", "context", "instructions",
                                    "reasoning", "billing", "prices", "websearch", "pages", "nodes",
                                    "news", "parts", "media", "pipeline"}
<1>1. MCInit => Chosen
  BY Zenon DEF MCInit
<1>2. Chosen /\ [MCNext]_allVars => Chosen'
  BY Zenon DEF MCNext, allVars
<1>3. /\ OAuthTypeOK /\ AccTypeOK /\ FactorTypeOK /\ GatewayTypeOK /\ ContextTypeOK /\ InstructionsTypeOK
      /\ ReasoningTypeOK /\ BillTypeOK /\ PriceTypeOK /\ SearchTypeOK /\ CacheTypeOK /\ NodesTypeOK
      /\ NewsTypeOK /\ PartsTypeOK /\ MediaTypeOK /\ PipeTypeOK /\ Chosen
      => PlatformTypesOK
  BY Zenon DEF PlatformTypesOK
<1> HIDE DEF Chosen
<1>4. MCSpec => []Chosen
  BY <1>1, <1>2, PTL DEF MCSpec
<1> QED
  BY <1>3, <1>4, Composed, CodesYieldOnce, AccSafe, FactorSafe, GatewaySafe, ContextSafe,
     InstructionsSafe, ReasoningSafe, BillSafe, PriceSafe, SearchSafe, CacheSafe, NodesSafe,
     NewsSafe, PartsSafe, MediaSafe, PipeSafe, PTL

=============================================================================
