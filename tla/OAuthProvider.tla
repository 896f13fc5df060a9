---------------------------- MODULE OAuthProvider ----------------------------
(***************************************************************************)
(* The provider's side of OAuth: src/auth/app.oauth.service.ts behind       *)
(* src/auth/oauth.controller.ts.                                            *)
(*                                                                          *)
(* A developer has one application (userId is unique in OAuthClient), so an *)
(* application stands for its owner.  Secrets are left out: the promise of  *)
(* their comparison is not awaited and lets every exchange through.  The    *)
(* refresh token an exchange hands out is never stored, as Prisma sends no  *)
(* query nobody awaits: the refresh grant finds no row and revokeAccess no  *)
(* token.  A refusal through `response` of express throws.                  *)
(***************************************************************************)
EXTENDS Actors, Naturals

CONSTANTS
    Clients,       \* applications (OAuthClient)
    Codes,         \* identities of AuthorizationCode rows (bounds the rows)
    RedirectUris,  \* addresses an application may register
    Scopes         \* scopes it may be allowed

ASSUME OAuthAssumption == None \notin Users \cup Clients \cup Codes \cup RedirectUris

VARIABLES
    application,  \* application[c]: its editable columns, or None
    code,         \* code[k]: an AuthorizationCode row
    consent,      \* consent[<<u, c>>]: how many UserConsent rows are not revoked
    oauth,        \* oauth[r]: step and locals of request r
    issued,       \* history: how often code k was exchanged for tokens
    raced         \* history: codes and consents two requests handled at once

oauthVars == <<application, code, consent, oauth, issued, raced>>

Columns == [redirect : RedirectUris, allowed : SUBSET Scopes]

NoCode == [status |-> "unused", client |-> None, user |-> None, scope |-> {}]

OAuthSteps == {"idle", "edit", "authorize", "exchange", "grant"}

OAuthIdle == [step |-> "idle", client |-> None, user |-> None, code |-> None,
              columns |-> None, scope |-> {}]

OAuthRequest == [step : OAuthSteps, client : Clients \cup {None}, user : Users \cup {None},
                 code : Codes \cup {None}, columns : Columns \cup {None}, scope : SUBSET Scopes]

OAuthInit ==
    /\ application = [c \in Clients |-> None]
    /\ code = [k \in Codes |-> NoCode]
    /\ consent = [p \in Users \X Clients |-> 0]
    /\ oauth = [r \in Requests |-> OAuthIdle]
    /\ issued = [k \in Codes |-> 0]
    /\ raced = {}

-----------------------------------------------------------------------------
OAuthAt(r, step) == oauth[r].step = step

OAuthFinish(r) == oauth' = [oauth EXCEPT ![r] = OAuthIdle]

Registered(c) == application[c] # None

RegisterApplication(c, redirect, allowed) ==
    /\ ~Registered(c)
    /\ application' = [application EXCEPT ![c] = [redirect |-> redirect, allowed |-> allowed]]
    /\ UNCHANGED <<code, consent, oauth, issued, raced>>

\* What an edit will write: the columns it names and, for the others (None),
\* what it has just read.
EditUserApplication(r, c, redirect, allowed) ==
    /\ OAuthAt(r, "idle")
    /\ Registered(c)
    /\ oauth' = [oauth EXCEPT ![r] = [OAuthIdle EXCEPT !.step = "edit", !.client = c, !.columns =
                  [redirect |-> IF redirect = None THEN application[c].redirect ELSE redirect,
                   allowed |-> IF allowed = None THEN application[c].allowed ELSE allowed]]]
    /\ UNCHANGED <<application, code, consent, issued, raced>>

EditWrite(r) ==
    /\ OAuthAt(r, "edit")
    /\ application' = [application EXCEPT ![oauth[r].client] = oauth[r].columns]
    /\ OAuthFinish(r)
    /\ UNCHANGED <<code, consent, issued, raced>>

-----------------------------------------------------------------------------
(* Authorization and exchange *)

\* validateClient and validateScopes look at the application of this moment;
\* whether the user has consented is not asked.
HandleAuthorizationRequest(r, u, c, redirect, scope) ==
    /\ OAuthAt(r, "idle")
    /\ Registered(c)
    /\ redirect = application[c].redirect
    /\ scope \subseteq application[c].allowed
    /\ oauth' = [oauth EXCEPT ![r] = [OAuthIdle EXCEPT !.step = "authorize", !.user = u,
                                                       !.client = c, !.scope = scope]]
    /\ UNCHANGED <<application, code, consent, issued, raced>>

AuthorizeCreate(r, k) ==
    /\ OAuthAt(r, "authorize")
    /\ code[k] = NoCode
    /\ code' = [code EXCEPT ![k] = [status |-> "live", client |-> oauth[r].client,
                                    user |-> oauth[r].user, scope |-> oauth[r].scope]]
    /\ OAuthFinish(r)
    /\ UNCHANGED <<application, consent, issued, raced>>

\* Ten minutes pass.
ExpireCode(k) ==
    /\ code[k].status = "live"
    /\ code' = [code EXCEPT ![k].status = "expired"]
    /\ UNCHANGED <<application, consent, oauth, issued, raced>>

\* Mutant: the lookup forgets `used: false`.
HandleAuthorizationCodeGrantUsed(r, k) ==
    /\ OAuthAt(r, "idle")
    /\ code[k].status \in {"live", "used"}
    /\ oauth' = [oauth EXCEPT ![r] = [OAuthIdle EXCEPT !.step = "exchange", !.code = k]]
    /\ raced' = IF \E q \in Requests : OAuthAt(q, "exchange") /\ oauth[q].code = k
                THEN raced \cup {k} ELSE raced
    /\ UNCHANGED <<application, code, consent, issued>>

HandleAuthorizationCodeGrant(r, k) ==
    /\ OAuthAt(r, "idle")
    /\ code[k].status = "live"
    /\ oauth' = [oauth EXCEPT ![r] = [OAuthIdle EXCEPT !.step = "exchange", !.code = k]]
    /\ raced' = IF \E q \in Requests : OAuthAt(q, "exchange") /\ oauth[q].code = k
                THEN raced \cup {k} ELSE raced
    /\ UNCHANGED <<application, code, consent, issued>>

\* The row found is marked, used or expired meanwhile as it may be, and the
\* tokens are signed.
MarkCodeUsed(r) ==
    LET k == oauth[r].code
    IN /\ OAuthAt(r, "exchange")
       /\ code' = [code EXCEPT ![k].status = "used"]
       /\ issued' = [issued EXCEPT ![k] = @ + 1]
       /\ OAuthFinish(r)
       /\ UNCHANGED <<application, consent, raced>>

-----------------------------------------------------------------------------
(* Consent *)

Granting(u, c) == \E q \in Requests : OAuthAt(q, "grant") /\ oauth[q].user = u /\ oauth[q].client = c

\* updateMany: whatever is active ends.
GrantConsent(r, u, c) ==
    /\ OAuthAt(r, "idle")
    /\ Registered(c)
    /\ consent' = [consent EXCEPT ![<<u, c>>] = 0]
    /\ oauth' = [oauth EXCEPT ![r] = [OAuthIdle EXCEPT !.step = "grant", !.user = u, !.client = c]]
    /\ raced' = IF Granting(u, c) THEN raced \cup {<<u, c>>} ELSE raced
    /\ UNCHANGED <<application, code, issued>>

GrantCreate(r) ==
    /\ OAuthAt(r, "grant")
    /\ consent' = [consent EXCEPT ![<<oauth[r].user, oauth[r].client>>] = @ + 1]
    /\ OAuthFinish(r)
    /\ UNCHANGED <<application, code, issued, raced>>

RevokeAccess(u, c) ==
    /\ Registered(c)
    /\ consent[<<u, c>>] > 0
    /\ consent' = [consent EXCEPT ![<<u, c>>] = 0]
    /\ UNCHANGED <<application, code, oauth, issued, raced>>

OAuthNext ==
    \/ \E c \in Clients :
         \/ \E d \in RedirectUris, a \in SUBSET Scopes : RegisterApplication(c, d, a)
         \/ \E u \in Users : RevokeAccess(u, c)
    \/ \E k \in Codes : ExpireCode(k)
    \/ \E r \in Requests :
         \/ \E c \in Clients, d \in RedirectUris \cup {None}, a \in (SUBSET Scopes) \cup {None} :
              EditUserApplication(r, c, d, a)
         \/ \E u \in Users, c \in Clients, d \in RedirectUris, s \in SUBSET Scopes :
              HandleAuthorizationRequest(r, u, c, d, s)
         \/ \E u \in Users, c \in Clients : GrantConsent(r, u, c)
         \/ \E k \in Codes : AuthorizeCreate(r, k) \/ HandleAuthorizationCodeGrant(r, k)
         \/ EditWrite(r)
         \/ MarkCodeUsed(r)
         \/ GrantCreate(r)

-----------------------------------------------------------------------------
(* The types of the rows and the requests. *)
OAuthTypeOK ==
    /\ application \in [Clients -> Columns \cup {None}]
    /\ code \in [Codes -> [status : {"unused", "live", "used", "expired"},
                           client : Clients \cup {None}, user : Users \cup {None},
                           scope : SUBSET Scopes]]
    /\ consent \in [Users \X Clients -> Nat]
    /\ oauth \in [Requests -> OAuthRequest]
    /\ issued \in [Codes -> Nat]
    /\ raced \subseteq Codes \cup (Users \X Clients)

(* An authorization code yields tokens at most once, and a user has at most  *)
(* one active consent for an application, however authorizations, edits,     *)
(* grants and revocations interleave; only two exchanges of one code, or two *)
(* grants of one consent, that overlap can double them.                      *)
GrantsAreSingle ==
    /\ \A k \in Codes \ raced : issued[k] <= 1
    /\ \A p \in (Users \X Clients) \ raced : consent[p] <= 1
=============================================================================
