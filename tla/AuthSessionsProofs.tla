-------------------------- MODULE AuthSessionsProofs --------------------------
(* Theorems about AuthSessions, for every value of its constants.            *)
EXTENDS AuthSessions, TLAPS

-----------------------------------------------------------------------------
(* The inductive invariants.                                                 *)

(* What the locals q of a request hold at each of its steps. *)
Shape(q) ==
    /\ q.step \in {"login.tokens", "login.create", "login.respond", "mfa.create",
                   "change.user", "change.write", "change.create", "reset.user",
                   "reset.write", "reset.delete", "reset.mail"}
         => q.user \in Users
    /\ q.step \in {"login.tokens", "login.create", "mfa.create", "change.token",
                   "change.user", "change.write", "change.create",
                   "reset.write", "reset.delete", "reset.mail"}
         => q.password \in Passwords
    /\ q.step \in {"login.tokens", "login.create", "mfa.create", "change.token",
                   "change.user", "change.write", "change.create"}
         => q.agent \in Agents
    /\ q.step \in {"login.respond", "change.token"} => q.token \in Token
    /\ q.step = "revoke.update" => q.session \in Sessions /\ Stored(q.session)
    /\ q.step \in {"reset.user", "reset.write", "reset.delete", "reset.mail"}
         => q.reset \in Resets /\ passwordReset[q.reset] # None

RequestShape == \A r \in Requests : Shape(req[r])

TypeInv == TypeOK /\ RequestShape

(* Evidence (user u, version v, password p) is behind the stored account:    *)
(* its version is not ahead, and if it is the current one, so is p.          *)
Behind(u, v, p) ==
    ~overlapped[u] => /\ v <= user[u].tokenVersion
                      /\ v = user[u].tokenVersion => p = user[u].password

(* The evidence a request will record: what it read, or what it wrote.       *)
WillRecord(q) ==
    /\ q.step \in {"login.tokens", "login.create", "mfa.create"}
         => Behind(q.user, q.version, q.password)
    /\ q.step \in {"change.create", "reset.delete", "reset.mail"}
         => Behind(q.user, q.version + 1, q.password)

(* Every row, every mail and every request that will create one is behind.   *)
EvidenceInv ==
    /\ \A t \in Sessions : Stored(t) =>
         Behind(refreshToken[t].user, refreshToken[t].tokenVersion, refreshToken[t].proved)
    /\ \A m \in mailed : Behind(m.user, m.tokenVersion, m.password)
    /\ \A r \in Requests : WillRecord(req[r])

-----------------------------------------------------------------------------
(* Three of the locals of a request set at once. *)
LEMMA StartWrite ==
  ASSUME NEW q \in Request, NEW s \in Steps, NEW p \in Passwords, NEW v \in Nat
  PROVE  [q EXCEPT !.step = s, !.password = p, !.version = v] \in Request
  BY DEF Request

(* A request that returns a token to its caller. *)
LEMMA RespondTyped ==
  ASSUME NEW r \in Requests, req \in [Requests -> Request], req[r].user \in Users,
         NEW t \in Token, RespondWith(r, t)
  PROVE  /\ req' \in [Requests -> Request]
         /\ Shape(req[r])'
         /\ \A q \in Requests \ {r} : req'[q] = req[q]
  <1>1. [IdleRequest EXCEPT !.step = "login.respond", !.user = req[r].user, !.token = t] \in Request
    BY DEF IdleRequest, Request, Steps
  <1>2. req' = [req EXCEPT ![r] = [IdleRequest EXCEPT !.step = "login.respond",
                                      !.user = req[r].user, !.token = t]]
    BY DEF RespondWith
  <1>3. req'[r] = [IdleRequest EXCEPT !.step = "login.respond", !.user = req[r].user, !.token = t]
    BY <1>2
  <1>4. req'[r].step = "login.respond" /\ req'[r].user \in Users /\ req'[r].token \in Token
    BY <1>3 DEF IdleRequest
  <1>5. QED
    BY <1>1, <1>2, <1>4 DEF Shape

(* A token a request signs is its user's, and as old as its last await. *)
LEMMA SignedTyped ==
  ASSUME NEW r \in Requests, req \in [Requests -> Request], now \in Nat,
         req[r].user \in Users, NEW t \in Signed(r)
  PROVE  t \in Token /\ t.sub = req[r].user /\ t.iat >= req[r].second
  <1>1. PICK i \in req[r].second..now : t = [sub |-> req[r].user, iat |-> i]
    BY DEF Signed
  <1>2. req[r].second \in Nat
    BY DEF Request
  <1>3. i \in Nat /\ i >= req[r].second
    BY <1>1, <1>2
  <1>4. QED
    BY <1>1, <1>3 DEF Token

(* A row with such a token has the type of a row. *)
LEMMA NewRowTyped ==
  ASSUME NEW r \in Requests, req \in [Requests -> Request], now \in Nat,
         req[r].user \in Users, req[r].password \in Passwords, req[r].agent \in Agents,
         NEW v \in Nat, NEW t \in Signed(r)
  PROVE  NewRow(req[r].user, t, v, req[r].agent, req[r].password) \in TokenRow
  BY SignedTyped DEF NewRow, TokenRow

(* The locals of a request that is about to sign a token. *)
LEMMA SignSoon ==
  ASSUME NEW q \in Request, NEW s \in Steps, NEW i \in Nat
  PROVE  [q EXCEPT !.step = s, !.second = i] \in Request
  BY DEF Request

(* The locals of a password change that has found its session. *)
LEMMA FoundSession ==
  ASSUME NEW q \in Request, NEW u \in Users
  PROVE  [q EXCEPT !.step = "change.user", !.token = None, !.user = u, !.version = 0] \in Request
  BY DEF Request, Steps

(* Where three of the steps lead, and what they keep of the locals. *)
LEMMA LoginFindTokensMoves ==
  ASSUME req \in [Requests -> Request], NEW r \in Requests, LoginFindTokens(r)
  PROVE  /\ \A q \in Requests \ {r} : req'[q] = req[q]
         /\ \/ req'[r].step = "login.respond"
            \/ /\ req'[r].step = "login.create" /\ req'[r].second = now
               /\ req'[r].user = req[r].user /\ req'[r].version = req[r].version
               /\ req'[r].password = req[r].password
  <1>1. CASE \E s \in Sessions : RespondWith(r, refreshToken[s].token)
    BY <1>1 DEF RespondWith, IdleRequest
  <1>2. CASE req' = [req EXCEPT ![r].step = "login.create", ![r].second = now]
    <2>1. req[r] \in Request
      OBVIOUS
    <2>2. PICK q : q = [req[r] EXCEPT !.step = "login.create", !.second = now]
      OBVIOUS
    <2>3. /\ q.step = "login.create" /\ q.second = now /\ q.user = req[r].user
          /\ q.version = req[r].version /\ q.password = req[r].password
      BY <2>1, <2>2 DEF Request
    <2>4. req'[r] = q /\ \A x \in Requests \ {r} : req'[x] = req[x]
      BY <1>2, <2>2
    <2>5. QED
      BY <2>3, <2>4
  <1>3. QED
    BY <1>1, <1>2 DEF LoginFindTokens, Reusable

LEMMA ChangeFindTokenMoves ==
  ASSUME req \in [Requests -> Request], NEW r \in Requests, ChangeFindToken(r)
  PROVE  /\ \A q \in Requests \ {r} : req'[q] = req[q]
         /\ req'[r].step \in {"idle", "change.user"}
  <1>1. CASE Finish(r)
    BY <1>1 DEF Finish, IdleRequest
  <1>2. ASSUME NEW s \in Sessions,
               req' = [req EXCEPT ![r] = [req[r] EXCEPT !.step = "change.user", !.token = None,
                                            !.user = refreshToken[s].user, !.version = 0]]
        PROVE  /\ \A q \in Requests \ {r} : req'[q] = req[q]
               /\ req'[r].step \in {"idle", "change.user"}
    <2>1. req[r] \in Request
      OBVIOUS
    <2>2. PICK q : q = [req[r] EXCEPT !.step = "change.user", !.token = None,
                                      !.user = refreshToken[s].user, !.version = 0]
      OBVIOUS
    <2>3. q.step = "change.user"
      BY <2>1, <2>2 DEF Request
    <2>4. req'[r] = q /\ \A x \in Requests \ {r} : req'[x] = req[x]
      BY <1>2, <2>2
    <2>5. QED
      BY <2>3, <2>4
  <1>3. QED
    BY <1>1, <1>2 DEF ChangeFindToken

LEMMA ChangeFindUserMoves ==
  ASSUME req \in [Requests -> Request], NEW r \in Requests, ChangeFindUser(r)
  PROVE  /\ \A q \in Requests \ {r} : req'[q] = req[q]
         /\ req'[r].step \in {"idle", "change.write"}
  <1>1. CASE Finish(r)
    BY <1>1 DEF Finish, IdleRequest
  <1>2. CASE req' = [req EXCEPT ![r] = [req[r] EXCEPT !.step = "change.write", !.old = None,
                                      !.version = user[req[r].user].tokenVersion]]
    <2>1. req[r] \in Request
      OBVIOUS
    <2>2. PICK q : q = [req[r] EXCEPT !.step = "change.write", !.old = None,
                                      !.version = user[req[r].user].tokenVersion]
      OBVIOUS
    <2>3. q.step = "change.write"
      BY <2>1, <2>2 DEF Request
    <2>4. req'[r] = q /\ \A x \in Requests \ {r} : req'[x] = req[x]
      BY <1>2, <2>2
    <2>5. QED
      BY <2>3, <2>4
  <1>3. QED
    BY <1>1, <1>2 DEF ChangeFindUser

(* A request set back to idle. *)
LEMMA FinishTyped ==
  ASSUME req \in [Requests -> Request], NEW r \in Requests, Finish(r)
  PROVE  req' \in [Requests -> Request]
  <1>1. IdleRequest \in Request
    BY DEF IdleRequest, Request, Steps
  <1>2. QED
    BY <1>1 DEF Finish

(* A request moved to its next step. *)
LEMMA StepTyped ==
  ASSUME NEW r \in Requests, req \in [Requests -> Request], NEW s \in Steps
  PROVE  [req EXCEPT ![r].step = s] \in [Requests -> Request]
  <1>1. [req[r] EXCEPT !.step = s] \in Request
    BY DEF Request
  <1>2. QED
    BY <1>1

LEMMA InitTypeInv == ASSUME AuthAssumption, Init PROVE TypeInv
  BY DEF AuthAssumption, Init, TypeInv, TypeOK, RequestShape, Shape, UserRow, Request,
         IdleRequest, Steps

LEMMA NextTypeOK == ASSUME TypeInv, [Next]_vars PROVE TypeOK'
  <1> USE DEF TypeInv
  <1>1. ASSUME NEW r \in Requests, LoginNext(r) PROVE TypeOK'
    <2>1. ASSUME NEW u \in Users, NEW p \in Passwords, NEW a \in Agents, LoginFindUser(r, u, p, a) PROVE TypeOK'
      BY <2>1 DEF LoginFindUser, TypeOK, Request, Steps, IdleRequest, UserRow
    <2>2. ASSUME NEW u \in Users, NEW p \in Passwords, NEW a \in Agents, VerifyMfaFindUser(r, u, p, a) PROVE TypeOK'
      BY <2>2 DEF VerifyMfaFindUser, TypeOK, Request, Steps, IdleRequest, UserRow
    <2>3. CASE LoginFindTokens(r)
      <3>1. req[r].user \in Users
        BY <2>3 DEF LoginFindTokens, RequestShape, Shape, At
      <3>2. ASSUME NEW e \in Sessions, Stored(e), RespondWith(r, refreshToken[e].token)
            PROVE  req' \in [Requests -> Request]
        BY <3>1, <3>2, RespondTyped DEF TypeOK, Stored, TokenRow
      <3>3. ASSUME req' = [req EXCEPT ![r].step = "login.create", ![r].second = now]
            PROVE  req' \in [Requests -> Request]
        <4>1. [req[r] EXCEPT !.step = "login.create", !.second = now] \in Request
          BY SignSoon DEF TypeOK, Steps
        <4>2. QED
          BY <3>3, <4>1 DEF TypeOK
      <3>4. req' \in [Requests -> Request]
        BY <2>3, <3>2, <3>3 DEF LoginFindTokens, Reusable, Usable
      <3>5. QED
        BY <2>3, <3>4 DEF LoginFindTokens, TypeOK
    <2>4. CASE LoginCreate(r)
      <3>1. req[r].user \in Users /\ req[r].password \in Passwords /\ req[r].agent \in Agents
            /\ req[r].version \in Nat
        BY <2>4 DEF LoginCreate, TypeOK, RequestShape, Shape, At, Request
      <3>2. req' \in [Requests -> Request]
        BY <2>4, <3>1, RespondTyped, SignedTyped DEF LoginCreate, TypeOK
      <3>3. refreshToken' \in [Sessions -> TokenRow \cup {None}]
        BY <2>4, <3>1, NewRowTyped DEF LoginCreate, TypeOK
      <3>4. QED
        BY <2>4, <3>2, <3>3 DEF LoginCreate, TypeOK
    <2>5. CASE LoginRespond(r)
      BY <2>5 DEF LoginRespond, TypeOK, RequestShape, Shape, At, Finish, Request, Steps,
         IdleRequest
    <2>6. CASE VerifyMfaCreate(r)
      <3>1. req[r].user \in Users /\ req[r].password \in Passwords /\ req[r].agent \in Agents
            /\ req[r].version \in Nat
        BY <2>6 DEF VerifyMfaCreate, TypeOK, RequestShape, Shape, At, Request
      <3>2. req' \in [Requests -> Request]
        BY <2>6, FinishTyped DEF VerifyMfaCreate, TypeOK
      <3>3. PICK e \in Sessions, t \in Signed(r) :
              /\ refreshToken' = [refreshToken EXCEPT ![e] =
                    NewRow(req[r].user, t, req[r].version, req[r].agent, req[r].password)]
              /\ cookies' = cookies \cup {t}
        BY <2>6 DEF VerifyMfaCreate
      <3>4. refreshToken' \in [Sessions -> TokenRow \cup {None}] /\ cookies' \subseteq Token
        BY <3>1, <3>3, NewRowTyped, SignedTyped DEF TypeOK
      <3>5. QED
        BY <2>6, <3>2, <3>4 DEF VerifyMfaCreate, TypeOK
    <2>7. QED
      BY <1>1, <2>1, <2>2, <2>3, <2>4, <2>5, <2>6 DEF LoginNext
  <1>2. ASSUME NEW r \in Requests, SessionNext(r) PROVE TypeOK'
    <2>1. ASSUME NEW t \in cookies, NEW e \in Sessions, RefreshFindToken(r, t, e) PROVE TypeOK'
      BY <2>1 DEF RefreshFindToken, TypeOK, Request, Steps, IdleRequest
    <2>2. ASSUME NEW t \in cookies, NEW e \in Sessions, LogoutFindToken(r, t, e) PROVE TypeOK'
      BY <2>2 DEF LogoutFindToken, TypeOK, Request, Steps, IdleRequest
    <2>3. ASSUME NEW u \in Users, NEW t \in Sessions, RevokeFindToken(r, u, t) PROVE TypeOK'
      BY <2>3 DEF RevokeFindToken, TypeOK, Request, Steps, IdleRequest
    <2>4. CASE RefreshIssue(r)
      BY <2>4 DEF RefreshIssue, TypeOK, Finish, Request, Steps, IdleRequest
    <2>5. CASE RevokeUpdate(r)
      <3>1. req[r].session \in Sessions /\ refreshToken[req[r].session] \in TokenRow
        BY <2>5 DEF RevokeUpdate, TypeOK, RequestShape, Shape, At, Stored
      <3>2. refreshToken' \in [Sessions -> TokenRow \cup {None}]
        BY <2>5, <3>1 DEF RevokeUpdate, TypeOK, TokenRow
      <3>3. req' \in [Requests -> Request]
        BY <2>5 DEF RevokeUpdate, TypeOK, Finish, Request, Steps, IdleRequest
      <3>4. QED
        BY <2>5, <3>2, <3>3 DEF RevokeUpdate, TypeOK
    <2>6. QED
      BY <1>2, <2>1, <2>2, <2>3, <2>4, <2>5 DEF SessionNext
  <1>3. ASSUME NEW r \in Requests, ChangeNext(r) PROVE TypeOK'
    <2>1. ASSUME NEW u \in Users, NEW t \in cookies, NEW old \in Passwords,
                 NEW new \in Passwords, NEW a \in Agents, ChangeGuard(r, u, t, old, new, a) PROVE TypeOK'
      BY <2>1 DEF ChangeGuard, TypeOK, Request, Steps, IdleRequest, UserRow
    <2>2. CASE ChangeFindToken(r)
      <3>1. ASSUME NEW e \in Sessions, Stored(e),
                   req' = [req EXCEPT ![r] = [req[r] EXCEPT !.step = "change.user", !.token = None,
                                                !.user = refreshToken[e].user, !.version = 0]]
            PROVE  req' \in [Requests -> Request]
        <4>1. refreshToken[e].user \in Users
          BY <3>1 DEF TypeOK, Stored, TokenRow
        <4>2. [req[r] EXCEPT !.step = "change.user", !.token = None,
                             !.user = refreshToken[e].user, !.version = 0] \in Request
          BY <4>1, FoundSession DEF TypeOK
        <4>3. QED
          BY <3>1, <4>2 DEF TypeOK
      <3>2. req' \in [Requests -> Request]
        BY <2>2, <3>1, FinishTyped DEF ChangeFindToken, TypeOK, Holds, Usable
      <3>3. QED
        BY <2>2, <3>2 DEF ChangeFindToken, TypeOK
    <2>3. CASE ChangeFindUser(r)
      <3>1. req[r].user \in Users /\ req[r] \in Request
        BY <2>3 DEF ChangeFindUser, TypeOK, RequestShape, Shape, At
      <3>2. user[req[r].user].tokenVersion \in Nat
        BY <3>1 DEF TypeOK, UserRow
      <3>3. req' \in [Requests -> Request]
        <4>1. CASE Finish(r)
          BY <4>1, FinishTyped DEF TypeOK
        <4>2. CASE req' = [req EXCEPT ![r] = [req[r] EXCEPT !.step = "change.write", !.old = None,
                                      !.version = user[req[r].user].tokenVersion]]
          <5>1. [req[r] EXCEPT !.step = "change.write", !.old = None,
                               !.version = user[req[r].user].tokenVersion] \in Request
            BY <3>1, <3>2 DEF Request, Steps
          <5>2. QED
            BY <4>2, <5>1 DEF TypeOK
        <4>3. QED
          BY <2>3, <4>1, <4>2 DEF ChangeFindUser
      <3>4. QED
        BY <2>3, <3>3 DEF ChangeFindUser, TypeOK
    <2>4. CASE ChangeWrite(r)
      <3>1. req[r].version + 1 \in Nat /\ req[r].user \in Users /\ req[r].password \in Passwords
        BY <2>4 DEF ChangeWrite, TypeOK, RequestShape, Shape, At, Request
      <3>2. user' \in [Users -> UserRow]
        BY <2>4, <3>1 DEF ChangeWrite, WritePassword, TypeOK, UserRow
      <3>3. req' \in [Requests -> Request]
        <4>1. [req[r] EXCEPT !.step = "change.create", !.second = now] \in Request
          BY SignSoon DEF TypeOK, Steps
        <4>2. QED
          BY <2>4, <4>1 DEF ChangeWrite, TypeOK
      <3>4. overlapped' \in [Users -> BOOLEAN]
        BY <2>4, <3>1 DEF ChangeWrite, WritePassword, TypeOK
      <3>5. QED
        BY <2>4, <3>2, <3>3, <3>4 DEF ChangeWrite, TypeOK
    <2>5. CASE ChangeCreate(r)
      <3>1. req[r].user \in Users /\ req[r].password \in Passwords /\ req[r].agent \in Agents
            /\ req[r].version + 1 \in Nat
        BY <2>5 DEF ChangeCreate, TypeOK, RequestShape, Shape, At, Request
      <3>2. req' \in [Requests -> Request]
        BY <2>5, FinishTyped DEF ChangeCreate, TypeOK
      <3>3. PICK e \in Sessions, t \in Signed(r) :
              /\ refreshToken' = [refreshToken EXCEPT ![e] =
                    NewRow(req[r].user, t, req[r].version + 1, req[r].agent, req[r].password)]
              /\ cookies' = cookies \cup {t}
        BY <2>5 DEF ChangeCreate
      <3>4. refreshToken' \in [Sessions -> TokenRow \cup {None}] /\ cookies' \subseteq Token
        BY <3>1, <3>3, NewRowTyped, SignedTyped DEF TypeOK
      <3>5. QED
        BY <2>5, <3>2, <3>4 DEF ChangeCreate, TypeOK
    <2>6. QED
      BY <1>3, <2>1, <2>2, <2>3, <2>4, <2>5 DEF ChangeNext
  <1>4. ASSUME NEW r \in Requests, ResetNext(r) PROVE TypeOK'
    <2>1. ASSUME NEW l \in Links, NEW s \in Resets, ResetFindToken(r, l, s) PROVE TypeOK'
      BY <2>1 DEF ResetFindToken, TypeOK, Request, Steps, IdleRequest, ResetRow
    <2>2. ASSUME NEW p \in Passwords, ResetFindUser(r, p) PROVE TypeOK'
      <3>1. user[req[r].user].tokenVersion \in Nat
        BY <2>2 DEF ResetFindUser, TypeOK, RequestShape, Shape, At, UserRow
      <3>2. req' = [req EXCEPT ![r] = [req[r] EXCEPT !.step = "reset.write", !.password = p,
                                           !.version = user[req[r].user].tokenVersion]]
        BY <2>2 DEF ResetFindUser, TypeOK
      <3>3. [req[r] EXCEPT !.step = "reset.write", !.password = p,
                           !.version = user[req[r].user].tokenVersion] \in Request
        BY <3>1, StartWrite DEF TypeOK, Steps
      <3>4. QED
        BY <2>2, <3>2, <3>3 DEF ResetFindUser, TypeOK
    <2>3. CASE ResetWrite(r)
      <3>1. req[r].version + 1 \in Nat /\ req[r].user \in Users /\ req[r].password \in Passwords
        BY <2>3 DEF ResetWrite, TypeOK, RequestShape, Shape, At, Request
      <3>2. user' \in [Users -> UserRow]
        BY <2>3, <3>1 DEF ResetWrite, WritePassword, TypeOK, UserRow
      <3>3. req' \in [Requests -> Request]
        <4>1. [req[r] EXCEPT !.step = "reset.delete"] \in Request
          BY DEF TypeOK, Request, Steps
        <4>2. QED
          BY <2>3, <4>1 DEF ResetWrite, TypeOK
      <3>4. overlapped' \in [Users -> BOOLEAN]
        BY <2>3, <3>1 DEF ResetWrite, WritePassword, TypeOK
      <3>5. QED
        BY <2>3, <3>2, <3>3, <3>4 DEF ResetWrite, TypeOK
    <2>4. CASE ResetDelete(r)
      <3>1. req[r].reset \in Resets /\ passwordReset[req[r].reset] \in ResetRow
        BY <2>4 DEF ResetDelete, TypeOK, RequestShape, Shape, At
      <3>2. [passwordReset[req[r].reset] EXCEPT !.status = "deleted"] \in ResetRow
        BY <3>1 DEF ResetRow
      <3>3. passwordReset' \in [Resets -> ResetRow \cup {None}]
        BY <2>4, <3>2 DEF ResetDelete, TypeOK
      <3>4. req' \in [Requests -> Request]
        <4>1. CASE Finish(r)
          BY <4>1, FinishTyped DEF TypeOK
        <4>2. CASE req' = [req EXCEPT ![r].step = "reset.mail"]
          BY <4>2, StepTyped DEF TypeOK, Steps
        <4>3. QED
          BY <2>4, <4>1, <4>2 DEF ResetDelete
      <3>5. QED
        BY <2>4, <3>3, <3>4 DEF ResetDelete, TypeOK
    <2>5. CASE ResetMail(r)
      BY <2>5 DEF ResetMail, TypeOK, RequestShape, Shape, At, Finish, Request, Steps,
         IdleRequest, Mail
    <2>6. QED
      BY <1>4, <2>1, <2>2, <2>3, <2>4, <2>5 DEF ResetNext
  <1>5. ASSUME NEW u \in Users, NEW s \in Resets, NEW l \in Links, ForgotPassword(u, s, l) PROVE TypeOK'
    BY <1>5 DEF ForgotPassword, TypeOK, ResetRow
  <1>6. ASSUME NEW t \in Sessions, ExpireToken(t) PROVE TypeOK'
    BY <1>6 DEF ExpireToken, TypeOK, Stored, TokenRow
  <1>7. ASSUME NEW s \in Resets, ExpireReset(s) PROVE TypeOK'
    BY <1>7 DEF ExpireReset, TypeOK, ResetRow
  <1>8. CASE Tick
    BY <1>8 DEF Tick, TypeOK
  <1>9. CASE UNCHANGED vars
    BY <1>9 DEF vars, TypeOK
  <1>10. QED
    BY <1>1, <1>2, <1>3, <1>4, <1>5, <1>6, <1>7, <1>8, <1>9 DEF Next

(* No step deletes a token row or forgets a reset row. *)
RowsKept ==
    /\ \A t \in Sessions : Stored(t) => Stored(t)'
    /\ \A s \in Resets : passwordReset[s] # None => passwordReset'[s] # None

(* A step of request r that keeps the rows keeps the shape of the others. *)
LEMMA OneRequest ==
  ASSUME TypeOK, RequestShape, RowsKept, NEW r \in Requests,
         \A q \in Requests \ {r} : req'[q] = req[q], Shape(req[r])'
  PROVE  RequestShape'
  <1>1. ASSUME NEW q \in Requests, q # r PROVE Shape(req[q])'
    <2>1. req'[q] = req[q] /\ Shape(req[q])
      BY <1>1 DEF RequestShape
    <2>2. QED
      BY <2>1 DEF Shape, RowsKept
  <1>2. QED
    BY <1>1 DEF RequestShape

LEMMA NextRequestShape == ASSUME AuthAssumption, TypeInv, TypeOK', [Next]_vars PROVE RequestShape'
  <1> USE DEF AuthAssumption, TypeInv
  <1>1. ASSUME NEW r \in Requests, LoginNext(r) PROVE RequestShape'
    <2>1. ASSUME NEW u \in Users, NEW p \in Passwords, NEW a \in Agents, LoginFindUser(r, u, p, a) PROVE RequestShape'
      BY <2>1 DEF LoginFindUser, TypeOK, RequestShape, Shape, At, Stored, IdleRequest, Finish
    <2>2. ASSUME NEW u \in Users, NEW p \in Passwords, NEW a \in Agents, VerifyMfaFindUser(r, u, p, a) PROVE RequestShape'
      BY <2>2 DEF VerifyMfaFindUser, TypeOK, RequestShape, Shape, At, Stored, IdleRequest,
         Finish
    <2>3. CASE LoginFindTokens(r)
      <3>1. RowsKept
        BY <2>3 DEF LoginFindTokens, RowsKept, TypeOK, Stored
      <3>2. req[r].user \in Users /\ Shape(req[r]) /\ req[r] \in Request
            /\ req[r].step = "login.tokens"
        BY <2>3 DEF LoginFindTokens, TypeOK, RequestShape, Shape, At
      <3>3. ASSUME NEW e \in Sessions, Stored(e), RespondWith(r, refreshToken[e].token)
            PROVE  RequestShape'
        <4>1. refreshToken[e].token \in Token
          BY <3>3 DEF TypeOK, Stored, TokenRow
        <4>2. QED
          BY <3>1, <3>2, <3>3, <4>1, RespondTyped, OneRequest DEF TypeOK
      <3>4. ASSUME req' = [req EXCEPT ![r].step = "login.create", ![r].second = now]
            PROVE  RequestShape'
        <4>1. Shape(req[r])'
          BY <3>2, <3>4 DEF TypeOK, Shape, Request
        <4>2. \A q \in Requests \ {r} : req'[q] = req[q]
          BY <3>4 DEF TypeOK
        <4>3. QED
          BY <3>1, <4>1, <4>2, OneRequest
      <3>5. QED
        BY <2>3, <3>3, <3>4 DEF LoginFindTokens, Reusable, Usable
    <2>4. CASE LoginCreate(r)
      <3>1. RowsKept
        BY <2>4 DEF LoginCreate, RowsKept, TypeOK, Stored
      <3>2. req[r].user \in Users
        BY <2>4 DEF LoginCreate, RequestShape, Shape, At
      <3>3. PICK t \in Signed(r) : RespondWith(r, t)
        BY <2>4 DEF LoginCreate
      <3>4. Shape(req[r])' /\ \A q \in Requests \ {r} : req'[q] = req[q]
        BY <3>2, <3>3, RespondTyped, SignedTyped DEF TypeOK
      <3>5. QED
        BY <3>1, <3>4, OneRequest
    <2>5. CASE LoginRespond(r)
      BY <2>5 DEF LoginRespond, TypeOK, RequestShape, Shape, At, Stored, IdleRequest, Finish
    <2>6. CASE VerifyMfaCreate(r)
      <3>1. RowsKept
        BY <2>6 DEF VerifyMfaCreate, RowsKept, TypeOK, Stored
      <3>2. \A q \in Requests \ {r} : req'[q] = req[q]
        BY <2>6 DEF VerifyMfaCreate, TypeOK, Finish
      <3>3. Shape(req[r])'
        BY <2>6 DEF VerifyMfaCreate, TypeOK, RequestShape, Shape, At, Finish, IdleRequest
      <3>4. QED
        BY <3>1, <3>2, <3>3, OneRequest
    <2>7. QED
      BY <1>1, <2>1, <2>2, <2>3, <2>4, <2>5, <2>6 DEF LoginNext
  <1>2. ASSUME NEW r \in Requests, SessionNext(r) PROVE RequestShape'
    <2>1. ASSUME NEW t \in cookies, NEW e \in Sessions, RefreshFindToken(r, t, e) PROVE RequestShape'
      BY <2>1 DEF RefreshFindToken, TypeOK, RequestShape, Shape, At, Stored, IdleRequest,
         Finish
    <2>2. ASSUME NEW t \in cookies, NEW e \in Sessions, LogoutFindToken(r, t, e) PROVE RequestShape'
      BY <2>2 DEF LogoutFindToken, TypeOK, RequestShape, Shape, At, Stored, IdleRequest,
         Finish, Holds, Usable
    <2>3. ASSUME NEW u \in Users, NEW t \in Sessions, RevokeFindToken(r, u, t) PROVE RequestShape'
      BY <2>3 DEF RevokeFindToken, TypeOK, RequestShape, Shape, At, Stored, IdleRequest, Finish
    <2>4. CASE RefreshIssue(r)
      BY <2>4 DEF RefreshIssue, TypeOK, RequestShape, Shape, At, Stored, IdleRequest, Finish
    <2>5. CASE RevokeUpdate(r)
      <3>1. RowsKept
        <4>1. req[r].session \in Sessions /\ refreshToken[req[r].session] \in TokenRow
          BY <2>5 DEF RevokeUpdate, TypeOK, RequestShape, Shape, At, Stored
        <4>2. [refreshToken[req[r].session] EXCEPT !.revoked = TRUE] \in TokenRow
          BY <4>1 DEF TokenRow
        <4>3. [refreshToken[req[r].session] EXCEPT !.revoked = TRUE] # None
          BY <4>2
        <4>4. refreshToken' = [refreshToken EXCEPT ![req[r].session] =
                                [refreshToken[req[r].session] EXCEPT !.revoked = TRUE]]
          BY <2>5 DEF RevokeUpdate
        <4>5. \A t \in Sessions : Stored(t) => Stored(t)'
          BY <4>1, <4>3, <4>4 DEF TypeOK, Stored
        <4>6. UNCHANGED passwordReset
          BY <2>5 DEF RevokeUpdate
        <4>7. QED
          BY <4>5, <4>6 DEF RowsKept
      <3>2. \A q \in Requests \ {r} : req'[q] = req[q]
        BY <2>5 DEF RevokeUpdate, TypeOK, Finish
      <3>3. Shape(req[r])'
        BY <2>5 DEF RevokeUpdate, TypeOK, RequestShape, Shape, At, Finish, IdleRequest
      <3>4. QED
        BY <3>1, <3>2, <3>3, OneRequest
    <2>6. QED
      BY <1>2, <2>1, <2>2, <2>3, <2>4, <2>5 DEF SessionNext
  <1>3. ASSUME NEW r \in Requests, ChangeNext(r) PROVE RequestShape'
    <2>1. ASSUME NEW u \in Users, NEW t \in cookies, NEW old \in Passwords,
                 NEW new \in Passwords, NEW a \in Agents, ChangeGuard(r, u, t, old, new, a) PROVE RequestShape'
      BY <2>1 DEF ChangeGuard, TypeOK, RequestShape, Shape, At, Stored, IdleRequest, Finish
    <2>2. CASE ChangeFindToken(r)
      <3>1. RowsKept
        BY <2>2 DEF ChangeFindToken, RowsKept, TypeOK, Stored
      <3>2. \A q \in Requests \ {r} : req'[q] = req[q]
        BY <2>2 DEF ChangeFindToken, TypeOK, Finish
      <3>3. Shape(req[r])'
        <4>1. Shape(req[r]) /\ req[r].step = "change.token" /\ req[r] \in Request
          BY <2>2 DEF ChangeFindToken, TypeOK, RequestShape, At
        <4>2. CASE Finish(r)
          BY <4>2 DEF Finish, TypeOK, Shape, IdleRequest
        <4>3. ASSUME NEW e \in Sessions, Stored(e),
                     req' = [req EXCEPT ![r] = [req[r] EXCEPT !.step = "change.user", !.token = None,
                                                  !.user = refreshToken[e].user, !.version = 0]]
              PROVE  Shape(req[r])'
          <5>1. refreshToken[e].user \in Users
            BY <4>1, <4>3 DEF Shape, TypeOK, TokenRow, Stored
          <5>2. QED
            BY <4>1, <4>3, <5>1 DEF TypeOK, Shape, Request
        <4>4. QED
          BY <2>2, <4>2, <4>3 DEF ChangeFindToken, Holds, Usable
      <3>4. QED
        BY <3>1, <3>2, <3>3, OneRequest
    <2>3. CASE ChangeFindUser(r)
      <3>1. RowsKept
        BY <2>3 DEF ChangeFindUser, RowsKept, TypeOK, Stored
      <3>2. \A q \in Requests \ {r} : req'[q] = req[q]
        BY <2>3 DEF ChangeFindUser, TypeOK, Finish
      <3>3. Shape(req[r])'
        <4>1. Shape(req[r]) /\ req[r].step = "change.user" /\ req[r] \in Request
          BY <2>3 DEF ChangeFindUser, TypeOK, RequestShape, At
        <4>2. CASE Finish(r)
          BY <4>2 DEF Finish, TypeOK, Shape, IdleRequest
        <4>3. CASE req' = [req EXCEPT ![r] = [req[r] EXCEPT !.step = "change.write", !.old = None,
                                      !.version = user[req[r].user].tokenVersion]]
          BY <4>1, <4>3 DEF TypeOK, Shape, Request
        <4>4. QED
          BY <2>3, <4>2, <4>3 DEF ChangeFindUser
      <3>4. QED
        BY <3>1, <3>2, <3>3, OneRequest
    <2>4. CASE ChangeWrite(r)
      BY <2>4 DEF ChangeWrite, TypeOK, RequestShape, Shape, At, Stored, IdleRequest, Finish,
         WritePassword
    <2>5. CASE ChangeCreate(r)
      <3>1. RowsKept
        BY <2>5 DEF ChangeCreate, RowsKept, TypeOK, Stored
      <3>2. \A q \in Requests \ {r} : req'[q] = req[q]
        BY <2>5 DEF ChangeCreate, TypeOK, Finish
      <3>3. Shape(req[r])'
        BY <2>5 DEF ChangeCreate, TypeOK, RequestShape, Shape, At, Finish, IdleRequest
      <3>4. QED
        BY <3>1, <3>2, <3>3, OneRequest
    <2>6. QED
      BY <1>3, <2>1, <2>2, <2>3, <2>4, <2>5 DEF ChangeNext
  <1>4. ASSUME NEW r \in Requests, ResetNext(r) PROVE RequestShape'
    <2>1. ASSUME NEW l \in Links, NEW s \in Resets, ResetFindToken(r, l, s) PROVE RequestShape'
      BY <2>1 DEF ResetFindToken, TypeOK, RequestShape, Shape, At, Stored, IdleRequest, Finish,
         ResetRow
    <2>2. ASSUME NEW p \in Passwords, ResetFindUser(r, p) PROVE RequestShape'
      BY <2>2 DEF ResetFindUser, TypeOK, RequestShape, Shape, At, Stored, IdleRequest, Finish
    <2>3. CASE ResetWrite(r)
      BY <2>3 DEF ResetWrite, TypeOK, RequestShape, Shape, At, Stored, IdleRequest, Finish,
         WritePassword
    <2>4. CASE ResetDelete(r)
      <3>1. RowsKept
        BY <2>4 DEF ResetDelete, RowsKept, TypeOK, Stored, RequestShape, Shape, At, ResetRow
      <3>2. \A q \in Requests \ {r} : req'[q] = req[q]
        BY <2>4 DEF ResetDelete, TypeOK, Finish
      <3>3. Shape(req[r])'
        <4>1. Shape(req[r]) /\ req[r].step = "reset.delete" /\ req[r] \in Request
          BY <2>4 DEF ResetDelete, TypeOK, RequestShape, At
        <4>2. CASE Finish(r)
          BY <4>2 DEF Finish, TypeOK, Shape, IdleRequest
        <4>3. CASE req' = [req EXCEPT ![r].step = "reset.mail"]
          BY <3>1, <4>1, <4>3 DEF RowsKept, TypeOK, Shape, Request
        <4>4. QED
          BY <2>4, <4>2, <4>3 DEF ResetDelete
      <3>4. QED
        BY <3>1, <3>2, <3>3, OneRequest
    <2>5. CASE ResetMail(r)
      BY <2>5 DEF ResetMail, TypeOK, RequestShape, Shape, At, Stored, IdleRequest, Finish
    <2>6. QED
      BY <1>4, <2>1, <2>2, <2>3, <2>4, <2>5 DEF ResetNext
  <1>5. ASSUME NEW u \in Users, NEW s \in Resets, NEW l \in Links, ForgotPassword(u, s, l) PROVE RequestShape'
    BY <1>5 DEF ForgotPassword, TypeOK, RequestShape, Shape, Stored
  <1>6. ASSUME NEW t \in Sessions, ExpireToken(t) PROVE RequestShape'
    <2>1. RowsKept
      <3>1. refreshToken[t] \in TokenRow
        BY <1>6 DEF ExpireToken, TypeOK, Stored
      <3>2. [refreshToken[t] EXCEPT !.expired = TRUE] \in TokenRow
        BY <3>1 DEF TokenRow
      <3>3. refreshToken' = [refreshToken EXCEPT ![t] = [refreshToken[t] EXCEPT !.expired = TRUE]]
        BY <1>6 DEF ExpireToken
      <3>4. \A v \in Sessions : Stored(v) => Stored(v)'
        BY <3>2, <3>3 DEF TypeOK, Stored
      <3>5. UNCHANGED passwordReset
        BY <1>6 DEF ExpireToken
      <3>6. QED
        BY <3>4, <3>5 DEF RowsKept
    <2>2. req' = req
      BY <1>6 DEF ExpireToken
    <2>3. QED
      BY <2>1, <2>2 DEF RowsKept, TypeOK, RequestShape, Shape
  <1>7. ASSUME NEW s \in Resets, ExpireReset(s) PROVE RequestShape'
    <2>1. RowsKept
      BY <1>7 DEF ExpireReset, RowsKept, TypeOK, Stored, ResetRow
    <2>2. req' = req
      BY <1>7 DEF ExpireReset
    <2>3. QED
      BY <2>1, <2>2 DEF RowsKept, TypeOK, RequestShape, Shape
  <1>8. CASE UNCHANGED vars \/ Tick
    BY <1>8 DEF vars, Tick, RequestShape, Shape, Stored
  <1>9. QED
    BY <1>1, <1>2, <1>3, <1>4, <1>5, <1>6, <1>7, <1>8 DEF Next

LEMMA NextTypeInv == ASSUME AuthAssumption, TypeInv, [Next]_vars PROVE TypeInv'
  BY NextTypeOK, NextRequestShape DEF TypeInv

(* Every reachable state has the types that TypeOK states.                   *)
THEOREM TypeCorrect == Spec => []TypeOK
  <1>1. Init => TypeInv
    BY InitTypeInv, AuthAssumption
  <1>2. TypeInv /\ [Next]_vars => TypeInv'
    BY NextTypeInv, AuthAssumption
  <1>3. TypeInv => TypeOK
    BY DEF TypeInv
  <1>4. QED
    BY <1>1, <1>2, <1>3, PTL DEF Spec

-----------------------------------------------------------------------------
(* A password write at a version that is no longer stored marks the account  *)
(* as overlapped; any other one leaves all older evidence behind.            *)
LEMMA WriteKeepsBehind ==
  ASSUME TypeInv, NEW r \in Requests, req[r].user \in Users, WritePassword(r),
         NEW u \in Users, NEW v \in Nat, NEW p \in Passwords, Behind(u, v, p)
  PROVE  Behind(u, v, p)'
  <1>1. req[r].version \in Nat /\ user[u].tokenVersion \in Nat
    BY DEF TypeInv, TypeOK, Request, UserRow
  <1>2. CASE u # req[r].user
    BY <1>2 DEF WritePassword, Behind, TypeInv, TypeOK
  <1>3. CASE u = req[r].user
    <2>1. /\ user'[u].tokenVersion = req[r].version + 1
          /\ ~overlapped'[u] => ~overlapped[u] /\ req[r].version = user[u].tokenVersion
      BY <1>3 DEF WritePassword, TypeInv, TypeOK
    <2>2. QED
      BY <1>1, <2>1 DEF Behind
  <1>4. QED
    BY <1>2, <1>3

(* A step that leaves the accounts alone needs an argument only for the rows *)
(* and mails it adds and for the request that takes it.                      *)
LEMMA EvidenceStep ==
  ASSUME EvidenceInv, NEW r \in Requests, UNCHANGED <<user, overlapped>>,
         \A t \in Sessions : Stored(t)' =>
            \/ Behind(refreshToken[t].user, refreshToken[t].tokenVersion, refreshToken[t].proved)'
            \/ /\ Stored(t)
               /\ refreshToken'[t].user = refreshToken[t].user
               /\ refreshToken'[t].tokenVersion = refreshToken[t].tokenVersion
               /\ refreshToken'[t].proved = refreshToken[t].proved,
         \A m \in mailed' : m \in mailed \/ Behind(m.user, m.tokenVersion, m.password),
         \A q \in Requests \ {r} : req'[q] = req[q],
         WillRecord(req[r])'
  PROVE  EvidenceInv'
  <1>1. \A u, v, p : Behind(u, v, p) => Behind(u, v, p)'
    BY DEF Behind
  <1>2. ASSUME NEW q \in Requests PROVE WillRecord(req[q])'
    <2>1. CASE q # r
      <3>1. req'[q] = req[q] /\ WillRecord(req[q])
        BY <2>1 DEF EvidenceInv
      <3>2. QED
        BY <3>1 DEF WillRecord, Behind
    <2>2. QED
      BY <2>1
  <1>3. \A t \in Sessions : Stored(t)' =>
          Behind(refreshToken[t].user, refreshToken[t].tokenVersion, refreshToken[t].proved)'
    BY DEF EvidenceInv, Behind
  <1>4. \A m \in mailed' : Behind(m.user, m.tokenVersion, m.password)'
    BY DEF EvidenceInv, Behind
  <1>5. QED
    BY <1>2, <1>3, <1>4 DEF EvidenceInv

(* A password write keeps all evidence behind, its own included.             *)
LEMMA EvidenceWrite ==
  ASSUME TypeInv, EvidenceInv, NEW r \in Requests, req[r].user \in Users, WritePassword(r),
         UNCHANGED <<refreshToken, mailed>>,
         \A q \in Requests \ {r} : req'[q] = req[q],
         req'[r].user = req[r].user, req'[r].version = req[r].version,
         req'[r].password = req[r].password,
         req'[r].step \in {"change.create", "reset.delete"}
  PROVE  EvidenceInv'
  <1>1. ASSUME NEW t \in Sessions, Stored(t)
        PROVE  Behind(refreshToken[t].user, refreshToken[t].tokenVersion, refreshToken[t].proved)'
    <2>1. refreshToken[t] \in TokenRow
      BY <1>1 DEF TypeInv, TypeOK, Stored
    <2>2. Behind(refreshToken[t].user, refreshToken[t].tokenVersion, refreshToken[t].proved)
      BY <1>1 DEF EvidenceInv
    <2>3. QED
      BY <2>1, <2>2, WriteKeepsBehind DEF TokenRow, Behind
  <1>2. ASSUME NEW m \in mailed PROVE Behind(m.user, m.tokenVersion, m.password)'
    <2>1. m \in Mail /\ Behind(m.user, m.tokenVersion, m.password)
      BY DEF TypeInv, TypeOK, EvidenceInv
    <2>2. QED
      BY <2>1, WriteKeepsBehind DEF Mail, Behind
  <1>3. ASSUME NEW q \in Requests, q # r PROVE WillRecord(req[q])'
    <2>1. req'[q] = req[q] /\ WillRecord(req[q]) /\ Shape(req[q]) /\ req[q].version \in Nat
      BY <1>3 DEF EvidenceInv, TypeInv, TypeOK, RequestShape, Request
    <2>2. CASE req[q].step \in {"login.tokens", "login.create", "mfa.create"}
      <3>1. /\ req[q].user \in Users /\ req[q].password \in Passwords
            /\ Behind(req[q].user, req[q].version, req[q].password)
        BY <2>1, <2>2 DEF Shape, WillRecord
      <3>2. Behind(req[q].user, req[q].version, req[q].password)'
        BY <2>1, <3>1, WriteKeepsBehind DEF Behind
      <3>3. QED
        BY <2>1, <2>2, <3>2 DEF WillRecord
    <2>3. CASE req[q].step \in {"change.create", "reset.delete", "reset.mail"}
      <3>1. /\ req[q].user \in Users /\ req[q].password \in Passwords
            /\ req[q].version + 1 \in Nat
            /\ Behind(req[q].user, req[q].version + 1, req[q].password)
        BY <2>1, <2>3 DEF Shape, WillRecord
      <3>2. Behind(req[q].user, req[q].version + 1, req[q].password)'
        BY <2>1, <3>1, WriteKeepsBehind DEF Behind
      <3>3. QED
        BY <2>1, <2>3, <3>2 DEF WillRecord
    <2>4. QED
      BY <2>1, <2>2, <2>3 DEF WillRecord
  <1>4. WillRecord(req[r])'
    <2>1. user'[req[r].user] = [password |-> req[r].password,
                                tokenVersion |-> req[r].version + 1]
      BY DEF WritePassword, TypeInv, TypeOK
    <2>2. Behind(req[r].user, req[r].version + 1, req[r].password)'
      <3>1. req[r].version + 1 <= req[r].version + 1
        BY DEF TypeInv, TypeOK, Request
      <3>2. /\ req'[r].version + 1 <= user'[req'[r].user].tokenVersion
            /\ req'[r].password = user'[req'[r].user].password
        BY <2>1, <3>1
      <3>3. QED
        BY <3>2 DEF Behind
    <2>3. QED
      BY <2>2 DEF WillRecord
  <1>5. QED
    BY <1>1, <1>2, <1>3, <1>4 DEF EvidenceInv, Stored

LEMMA NextEvidence ==
  ASSUME AuthAssumption, TypeInv, EvidenceInv, [Next]_vars
  PROVE  EvidenceInv'
  <1>1. ASSUME NEW r \in Requests, LoginNext(r) PROVE EvidenceInv'
    <2>1. ASSUME NEW u \in Users, NEW p \in Passwords, NEW a \in Agents, LoginFindUser(r, u, p, a)
          PROVE  EvidenceInv'
      <3>1. \A q \in Requests \ {r} : req'[q] = req[q]
        BY <2>1 DEF LoginFindUser, TypeInv, TypeOK
      <3>2. WillRecord(req[r])'
        <4>1. /\ req'[r].step = "login.tokens" /\ req'[r].user = u
              /\ req'[r].version = user[u].tokenVersion /\ req'[r].password = user[u].password
          BY <2>1 DEF LoginFindUser, TypeInv, TypeOK, IdleRequest
        <4>2. user' = user /\ user[u].tokenVersion \in Nat
          BY <2>1 DEF LoginFindUser, TypeInv, TypeOK, UserRow
        <4>3. QED
          BY <4>1, <4>2 DEF WillRecord, Behind
      <3>3. QED
        BY <2>1, <3>1, <3>2, EvidenceStep DEF LoginFindUser, Stored
    <2>2. ASSUME NEW u \in Users, NEW p \in Passwords, NEW a \in Agents, VerifyMfaFindUser(r, u, p, a)
          PROVE  EvidenceInv'
      <3>1. \A q \in Requests \ {r} : req'[q] = req[q]
        BY <2>2 DEF VerifyMfaFindUser, TypeInv, TypeOK
      <3>2. WillRecord(req[r])'
        <4>1. /\ req'[r].step = "mfa.create" /\ req'[r].user = u
              /\ req'[r].version = user[u].tokenVersion /\ req'[r].password = user[u].password
          BY <2>2 DEF VerifyMfaFindUser, TypeInv, TypeOK, IdleRequest
        <4>2. user' = user /\ user[u].tokenVersion \in Nat
          BY <2>2 DEF VerifyMfaFindUser, TypeInv, TypeOK, UserRow
        <4>3. QED
          BY <4>1, <4>2 DEF WillRecord, Behind
      <3>3. QED
        BY <2>2, <3>1, <3>2, EvidenceStep DEF VerifyMfaFindUser, Stored
    <2>3. CASE LoginFindTokens(r)
      <3>1. \A q \in Requests \ {r} : req'[q] = req[q]
        BY <2>3 DEF LoginFindTokens, RespondWith, TypeInv, TypeOK
      <3>2. WillRecord(req[r])'
        <4>1. req[r].step = "login.tokens" /\ WillRecord(req[r]) /\ UNCHANGED <<user, overlapped>>
          BY <2>3 DEF LoginFindTokens, At, EvidenceInv
        <4>2. QED
          BY <2>3, <4>1, LoginFindTokensMoves DEF WillRecord, Behind, TypeInv, TypeOK
      <3>3. QED
        BY <2>3, <3>1, <3>2, EvidenceStep DEF LoginFindTokens, Stored
    <2>4. CASE LoginCreate(r)
      <3>1. \A q \in Requests \ {r} : req'[q] = req[q]
        BY <2>4 DEF LoginCreate, RespondWith, TypeInv, TypeOK
      <3>2. WillRecord(req[r])'
        BY <2>4 DEF LoginCreate, At, RespondWith, IdleRequest, WillRecord, TypeInv, TypeOK
      <3>3. PICK t \in Sessions, k \in Signed(r) : refreshToken' = [refreshToken EXCEPT ![t] =
                  NewRow(req[r].user, k, req[r].version, req[r].agent, req[r].password)]
        BY <2>4 DEF LoginCreate
      <3>4. Behind(req[r].user, req[r].version, req[r].password)
        BY <2>4 DEF LoginCreate, At, EvidenceInv, WillRecord
      <3>5. Behind(refreshToken[t].user, refreshToken[t].tokenVersion, refreshToken[t].proved)'
        BY <2>4, <3>3, <3>4 DEF LoginCreate, Behind, NewRow, TypeInv, TypeOK
      <3>6. \A x \in Sessions \ {t} : refreshToken'[x] = refreshToken[x]
        BY <3>3 DEF TypeInv, TypeOK
      <3>7. QED
        BY <2>4, <3>1, <3>2, <3>5, <3>6, EvidenceStep DEF LoginCreate, Stored
    <2>5. CASE LoginRespond(r)
      <3>1. \A q \in Requests \ {r} : req'[q] = req[q]
        BY <2>5 DEF LoginRespond, TypeInv, TypeOK, Finish
      <3>2. WillRecord(req[r])'
        BY <2>5 DEF LoginRespond, At, WillRecord, Behind, EvidenceInv, TypeInv, TypeOK, Request, Finish, IdleRequest
      <3>3. QED
        BY <2>5, <3>1, <3>2, EvidenceStep DEF LoginRespond, Stored
    <2>6. CASE VerifyMfaCreate(r)
      <3>1. \A q \in Requests \ {r} : req'[q] = req[q]
        BY <2>6 DEF VerifyMfaCreate, TypeInv, TypeOK, Finish
      <3>2. WillRecord(req[r])'
        BY <2>6 DEF VerifyMfaCreate, At, WillRecord, Behind, EvidenceInv, TypeInv, TypeOK, Request, Finish, IdleRequest
      <3>3. PICK t \in Sessions, k \in Signed(r) : refreshToken' = [refreshToken EXCEPT ![t] =
                  NewRow(req[r].user, k, req[r].version, req[r].agent, req[r].password)]
        BY <2>6 DEF VerifyMfaCreate
      <3>4. Behind(req[r].user, req[r].version, req[r].password)
        BY <2>6 DEF VerifyMfaCreate, At, EvidenceInv, WillRecord
      <3>5. Behind(refreshToken[t].user, refreshToken[t].tokenVersion, refreshToken[t].proved)'
        BY <2>6, <3>3, <3>4 DEF VerifyMfaCreate, Behind, NewRow, TypeInv, TypeOK
      <3>6. \A x \in Sessions \ {t} : refreshToken'[x] = refreshToken[x]
        BY <3>3 DEF TypeInv, TypeOK
      <3>7. QED
        BY <2>6, <3>1, <3>2, <3>5, <3>6, EvidenceStep DEF VerifyMfaCreate, Stored
    <2>7. QED
      BY <1>1, <2>1, <2>2, <2>3, <2>4, <2>5, <2>6 DEF LoginNext
  <1>2. ASSUME NEW r \in Requests, SessionNext(r) PROVE EvidenceInv'
    <2>1. ASSUME NEW t \in cookies, NEW e \in Sessions, RefreshFindToken(r, t, e)
          PROVE  EvidenceInv'
      <3>1. \A q \in Requests \ {r} : req'[q] = req[q]
        BY <2>1 DEF RefreshFindToken, TypeInv, TypeOK
      <3>2. WillRecord(req[r])'
        BY <2>1 DEF RefreshFindToken, At, WillRecord, Behind, EvidenceInv, TypeInv, TypeOK, Request, IdleRequest
      <3>3. QED
        BY <2>1, <3>1, <3>2, EvidenceStep DEF RefreshFindToken, Stored
    <2>2. ASSUME NEW t \in cookies, NEW e \in Sessions, LogoutFindToken(r, t, e)
          PROVE  EvidenceInv'
      <3>1. \A q \in Requests \ {r} : req'[q] = req[q]
        BY <2>2 DEF LogoutFindToken, TypeInv, TypeOK
      <3>2. WillRecord(req[r])'
        BY <2>2 DEF LogoutFindToken, At, WillRecord, Behind, EvidenceInv, TypeInv, TypeOK, Request, IdleRequest
      <3>3. QED
        BY <2>2, <3>1, <3>2, EvidenceStep DEF LogoutFindToken, Stored
    <2>3. ASSUME NEW u \in Users, NEW t \in Sessions, RevokeFindToken(r, u, t)
          PROVE  EvidenceInv'
      <3>1. \A q \in Requests \ {r} : req'[q] = req[q]
        BY <2>3 DEF RevokeFindToken, TypeInv, TypeOK
      <3>2. WillRecord(req[r])'
        BY <2>3 DEF RevokeFindToken, At, WillRecord, Behind, EvidenceInv, TypeInv, TypeOK, Request, IdleRequest
      <3>3. QED
        BY <2>3, <3>1, <3>2, EvidenceStep DEF RevokeFindToken, Stored
    <2>4. CASE RefreshIssue(r)
      <3>1. \A q \in Requests \ {r} : req'[q] = req[q]
        BY <2>4 DEF RefreshIssue, TypeInv, TypeOK, Finish
      <3>2. WillRecord(req[r])'
        BY <2>4 DEF RefreshIssue, At, WillRecord, Behind, EvidenceInv, TypeInv, TypeOK, Request, Finish, IdleRequest
      <3>3. QED
        BY <2>4, <3>1, <3>2, EvidenceStep DEF RefreshIssue, Stored
    <2>5. CASE RevokeUpdate(r)
      <3>1. \A q \in Requests \ {r} : req'[q] = req[q]
        BY <2>5 DEF RevokeUpdate, TypeInv, TypeOK, Finish
      <3>2. WillRecord(req[r])'
        BY <2>5 DEF RevokeUpdate, At, WillRecord, Behind, EvidenceInv, TypeInv, TypeOK, Request, Finish, IdleRequest
      <3>3. \A t \in Sessions : Stored(t)' =>
              /\ Stored(t)
              /\ refreshToken'[t].user = refreshToken[t].user
              /\ refreshToken'[t].tokenVersion = refreshToken[t].tokenVersion
              /\ refreshToken'[t].proved = refreshToken[t].proved
        <4>1. req[r].session \in Sessions /\ refreshToken[req[r].session] \in TokenRow
          BY <2>5 DEF RevokeUpdate, At, TypeInv, TypeOK, RequestShape, Shape, Stored
        <4>2. QED
          BY <2>5, <4>1 DEF RevokeUpdate, TypeInv, TypeOK, TokenRow, Stored, AuthAssumption
      <3>4. QED
        BY <2>5, <3>1, <3>2, <3>3, EvidenceStep DEF RevokeUpdate
    <2>6. QED
      BY <1>2, <2>1, <2>2, <2>3, <2>4, <2>5 DEF SessionNext
  <1>3. ASSUME NEW r \in Requests, ChangeNext(r) PROVE EvidenceInv'
    <2>1. ASSUME NEW u \in Users, NEW t \in cookies, NEW old \in Passwords,
                 NEW new \in Passwords, NEW a \in Agents, ChangeGuard(r, u, t, old, new, a)
          PROVE  EvidenceInv'
      <3>1. \A q \in Requests \ {r} : req'[q] = req[q]
        BY <2>1 DEF ChangeGuard, TypeInv, TypeOK
      <3>2. WillRecord(req[r])'
        BY <2>1 DEF ChangeGuard, At, WillRecord, Behind, EvidenceInv, TypeInv, TypeOK, Request, IdleRequest
      <3>3. QED
        BY <2>1, <3>1, <3>2, EvidenceStep DEF ChangeGuard, Stored
    <2>2. CASE ChangeFindToken(r)
      <3>1. \A q \in Requests \ {r} : req'[q] = req[q]
        BY <2>2 DEF ChangeFindToken, TypeInv, TypeOK, Finish
      <3>2. WillRecord(req[r])'
        BY <2>2, ChangeFindTokenMoves DEF WillRecord, TypeInv, TypeOK
      <3>3. QED
        BY <2>2, <3>1, <3>2, EvidenceStep DEF ChangeFindToken, Stored
    <2>3. CASE ChangeFindUser(r)
      <3>1. \A q \in Requests \ {r} : req'[q] = req[q]
        BY <2>3 DEF ChangeFindUser, TypeInv, TypeOK, Finish
      <3>2. WillRecord(req[r])'
        BY <2>3, ChangeFindUserMoves DEF WillRecord, TypeInv, TypeOK
      <3>3. QED
        BY <2>3, <3>1, <3>2, EvidenceStep DEF ChangeFindUser, Stored
    <2>4. CASE ChangeWrite(r)
      <3>1. req[r].user \in Users
        BY <2>4 DEF ChangeWrite, At, TypeInv, RequestShape, Shape
      <3>2. /\ req'[r].user = req[r].user /\ req'[r].version = req[r].version
            /\ req'[r].password = req[r].password
            /\ req'[r].step \in {"change.create", "reset.delete"}
        BY <2>4 DEF ChangeWrite, TypeInv, TypeOK, Request
      <3>3. \A q \in Requests \ {r} : req'[q] = req[q]
        BY <2>4 DEF ChangeWrite, TypeInv, TypeOK
      <3>4. QED
        BY <2>4, <3>1, <3>2, <3>3, EvidenceWrite DEF ChangeWrite
    <2>5. CASE ChangeCreate(r)
      <3>1. \A q \in Requests \ {r} : req'[q] = req[q]
        BY <2>5 DEF ChangeCreate, TypeInv, TypeOK, Finish
      <3>2. WillRecord(req[r])'
        BY <2>5 DEF ChangeCreate, At, WillRecord, Behind, EvidenceInv, TypeInv, TypeOK, Request, Finish, IdleRequest
      <3>3. PICK t \in Sessions, k \in Signed(r) : refreshToken' = [refreshToken EXCEPT ![t] =
                  NewRow(req[r].user, k, req[r].version + 1, req[r].agent, req[r].password)]
        BY <2>5 DEF ChangeCreate
      <3>4. Behind(req[r].user, req[r].version + 1, req[r].password)
        BY <2>5 DEF ChangeCreate, At, EvidenceInv, WillRecord
      <3>5. Behind(refreshToken[t].user, refreshToken[t].tokenVersion, refreshToken[t].proved)'
        BY <2>5, <3>3, <3>4 DEF ChangeCreate, Behind, NewRow, TypeInv, TypeOK
      <3>6. \A x \in Sessions \ {t} : refreshToken'[x] = refreshToken[x]
        BY <3>3 DEF TypeInv, TypeOK
      <3>7. QED
        BY <2>5, <3>1, <3>2, <3>5, <3>6, EvidenceStep DEF ChangeCreate, Stored
    <2>6. QED
      BY <1>3, <2>1, <2>2, <2>3, <2>4, <2>5 DEF ChangeNext
  <1>4. ASSUME NEW r \in Requests, ResetNext(r) PROVE EvidenceInv'
    <2>1. ASSUME NEW l \in Links, NEW s \in Resets, ResetFindToken(r, l, s)
          PROVE  EvidenceInv'
      <3>1. \A q \in Requests \ {r} : req'[q] = req[q]
        BY <2>1 DEF ResetFindToken, TypeInv, TypeOK
      <3>2. WillRecord(req[r])'
        BY <2>1 DEF ResetFindToken, At, WillRecord, Behind, EvidenceInv, TypeInv, TypeOK, Request, IdleRequest
      <3>3. QED
        BY <2>1, <3>1, <3>2, EvidenceStep DEF ResetFindToken, Stored
    <2>2. ASSUME NEW p \in Passwords, ResetFindUser(r, p)
          PROVE  EvidenceInv'
      <3>1. \A q \in Requests \ {r} : req'[q] = req[q]
        BY <2>2 DEF ResetFindUser, TypeInv, TypeOK
      <3>2. WillRecord(req[r])'
        BY <2>2 DEF ResetFindUser, At, WillRecord, Behind, EvidenceInv, TypeInv, TypeOK, Request, IdleRequest
      <3>3. QED
        BY <2>2, <3>1, <3>2, EvidenceStep DEF ResetFindUser, Stored
    <2>3. CASE ResetWrite(r)
      <3>1. req[r].user \in Users
        BY <2>3 DEF ResetWrite, At, TypeInv, RequestShape, Shape
      <3>2. /\ req'[r].user = req[r].user /\ req'[r].version = req[r].version
            /\ req'[r].password = req[r].password
            /\ req'[r].step \in {"change.create", "reset.delete"}
        BY <2>3 DEF ResetWrite, TypeInv, TypeOK, Request
      <3>3. \A q \in Requests \ {r} : req'[q] = req[q]
        BY <2>3 DEF ResetWrite, TypeInv, TypeOK
      <3>4. QED
        BY <2>3, <3>1, <3>2, <3>3, EvidenceWrite DEF ResetWrite
    <2>4. CASE ResetDelete(r)
      <3>1. \A q \in Requests \ {r} : req'[q] = req[q]
        BY <2>4 DEF ResetDelete, TypeInv, TypeOK, Finish
      <3>2. WillRecord(req[r])'
        BY <2>4 DEF ResetDelete, At, WillRecord, Behind, EvidenceInv, TypeInv, TypeOK, Request, Finish, IdleRequest
      <3>3. QED
        BY <2>4, <3>1, <3>2, EvidenceStep DEF ResetDelete, Stored
    <2>5. CASE ResetMail(r)
      <3>1. \A q \in Requests \ {r} : req'[q] = req[q]
        BY <2>5 DEF ResetMail, TypeInv, TypeOK, Finish
      <3>2. WillRecord(req[r])'
        BY <2>5 DEF ResetMail, At, WillRecord, Behind, EvidenceInv, TypeInv, TypeOK, Request, Finish, IdleRequest
      <3>3. \A m \in mailed' : m \in mailed \/ Behind(m.user, m.tokenVersion, m.password)
        BY <2>5 DEF ResetMail, At, EvidenceInv, WillRecord
      <3>4. QED
        BY <2>5, <3>1, <3>2, <3>3, EvidenceStep DEF ResetMail, Stored
    <2>6. QED
      BY <1>4, <2>1, <2>2, <2>3, <2>4, <2>5 DEF ResetNext
  <1>5. ASSUME NEW u \in Users, NEW s \in Resets, NEW l \in Links, ForgotPassword(u, s, l) PROVE EvidenceInv'
    BY <1>5 DEF ForgotPassword, EvidenceInv, WillRecord, Behind, Stored
  <1>6. ASSUME NEW t \in Sessions, ExpireToken(t) PROVE EvidenceInv'
    <2>1. \A x \in Sessions : Stored(x)' =>
              /\ Stored(x)
              /\ refreshToken'[x].user = refreshToken[x].user
              /\ refreshToken'[x].tokenVersion = refreshToken[x].tokenVersion
              /\ refreshToken'[x].proved = refreshToken[x].proved
      <3>1. refreshToken[t] \in TokenRow
        BY <1>6 DEF ExpireToken, TypeInv, TypeOK, Stored
      <3>2. QED
        BY <1>6, <3>1 DEF ExpireToken, TypeInv, TypeOK, TokenRow, Stored
    <2>2. QED
      BY <1>6, <2>1 DEF ExpireToken, EvidenceInv, WillRecord, Behind
  <1>7. ASSUME NEW s \in Resets, ExpireReset(s) PROVE EvidenceInv'
    BY <1>7 DEF ExpireReset, EvidenceInv, WillRecord, Behind, Stored
  <1>8. CASE UNCHANGED vars \/ Tick
    BY <1>8 DEF vars, Tick, EvidenceInv, WillRecord, Behind, Stored
  <1>9. QED
    BY <1>1, <1>2, <1>3, <1>4, <1>5, <1>6, <1>7, <1>8 DEF Next

(* A valid session attests the stored password, unless two password writes   *)
(* of the account overlapped.                                                *)
THEOREM SessionsProvePassword == Spec => []SessionProvesCurrentPassword
  <1>1. Init => TypeInv /\ EvidenceInv
    BY InitTypeInv, AuthAssumption
    DEF Init, EvidenceInv, WillRecord, IdleRequest, Stored
  <1>2. TypeInv /\ EvidenceInv /\ [Next]_vars => (TypeInv /\ EvidenceInv)'
    BY NextTypeInv, NextEvidence, AuthAssumption
  <1>3. EvidenceInv => SessionProvesCurrentPassword
    BY DEF EvidenceInv, SessionProvesCurrentPassword, Behind
  <1>4. QED
    BY <1>1, <1>2, <1>3, PTL DEF Spec

(* A mailed password is the stored one at the version its reset wrote,       *)
(* unless two password writes of the account overlapped.                     *)
THEOREM MailsCarryPassword == Spec => []MailedPasswordIsCurrent
  <1>1. Init => TypeInv /\ EvidenceInv
    BY InitTypeInv, AuthAssumption
    DEF Init, EvidenceInv, WillRecord, IdleRequest, Stored
  <1>2. TypeInv /\ EvidenceInv /\ [Next]_vars => (TypeInv /\ EvidenceInv)'
    BY NextTypeInv, NextEvidence, AuthAssumption
  <1>3. EvidenceInv => MailedPasswordIsCurrent
    BY DEF EvidenceInv, MailedPasswordIsCurrent, Behind
  <1>4. QED
    BY <1>1, <1>2, <1>3, PTL DEF Spec

-----------------------------------------------------------------------------
(* One mail for each reset.                                                  *)

Mailing(r, s) == At(r, "reset.mail") /\ req[r].reset = s

(* A reset is deleted before its mail is sent, whoever is about to send the  *)
(* mail is the only one, and nobody is once it has been sent.                *)
MailerInv ==
    /\ \A r \in Requests : \A s \in Resets :
         Mailing(r, s) => /\ passwordReset[s].status = "deleted"
                          /\ \A q \in Requests : Mailing(q, s) => q = r
                          /\ \A m \in mailed : m.reset # s
    /\ \A m \in mailed : passwordReset[m.reset] # None /\ passwordReset[m.reset].status = "deleted"
    /\ OneMailPerReset

(* What every step but ResetDelete and ResetMail does: no request gets to    *)
(* the mail, no mail is sent, and a deleted reset stays deleted.             *)
Unmailed ==
    /\ mailed' = mailed
    /\ \A r \in Requests : At(r, "reset.mail")' => req'[r] = req[r]
    /\ \A s \in Resets : passwordReset[s] # None /\ passwordReset[s].status = "deleted"
                           => passwordReset'[s] = passwordReset[s]

LEMMA UnmailedKeepsMailer ==
  ASSUME TypeInv, MailerInv, Unmailed
  PROVE  MailerInv'
  <1>1. ASSUME NEW r \in Requests, NEW s \in Resets, Mailing(r, s)' PROVE Mailing(r, s)
    BY <1>1 DEF Mailing, At, Unmailed
  <1>2. ASSUME NEW r \in Requests, NEW s \in Resets, Mailing(r, s)
        PROVE  passwordReset[s] # None /\ passwordReset[s].status = "deleted"
    BY <1>2 DEF TypeInv, RequestShape, Shape, Mailing, At, MailerInv
  <1>3. ASSUME NEW r \in Requests, NEW s \in Resets, Mailing(r, s)'
        PROVE  /\ passwordReset'[s].status = "deleted"
               /\ \A q \in Requests : Mailing(q, s)' => q = r
               /\ \A m \in mailed' : m.reset # s
    <2>1. Mailing(r, s) /\ passwordReset'[s] = passwordReset[s]
      BY <1>1, <1>2, <1>3 DEF Unmailed
    <2>2. QED
      BY <1>1, <1>2, <2>1 DEF MailerInv, Unmailed
  <1>4. ASSUME NEW m \in mailed'
        PROVE  passwordReset'[m.reset] # None /\ passwordReset'[m.reset].status = "deleted"
    <2>1. m.reset \in Resets /\ m \in mailed
      BY <1>4 DEF Unmailed, TypeInv, TypeOK, Mail
    <2>2. QED
      BY <2>1 DEF MailerInv, Unmailed
  <1>5. OneMailPerReset'
    BY DEF MailerInv, OneMailPerReset, Unmailed
  <1>6. QED
    BY <1>3, <1>4, <1>5 DEF MailerInv

LEMMA NextMailer ==
  ASSUME AuthAssumption, TypeInv, MailerInv, [Next]_vars
  PROVE  MailerInv'
  <1> USE DEF TypeInv
  <1>1. ASSUME NEW r \in Requests, LoginNext(r) PROVE Unmailed
    <2>1. ASSUME NEW u \in Users, NEW p \in Passwords, NEW a \in Agents, LoginFindUser(r, u, p, a)
          PROVE  Unmailed
      BY <2>1 DEF LoginFindUser, Unmailed, At, TypeOK, IdleRequest
    <2>2. ASSUME NEW u \in Users, NEW p \in Passwords, NEW a \in Agents, VerifyMfaFindUser(r, u, p, a)
          PROVE  Unmailed
      BY <2>2 DEF VerifyMfaFindUser, Unmailed, At, TypeOK, IdleRequest
    <2>3. CASE LoginFindTokens(r)
      BY <2>3, LoginFindTokensMoves DEF LoginFindTokens, Unmailed, At, TypeOK
    <2>4. CASE LoginCreate(r)
      BY <2>4 DEF LoginCreate, RespondWith, Unmailed, At, TypeOK, Request, IdleRequest
    <2>5. CASE LoginRespond(r) \/ VerifyMfaCreate(r)
      BY <2>5 DEF LoginRespond, VerifyMfaCreate, Unmailed, At, TypeOK, Finish, IdleRequest
    <2>6. QED
      BY <1>1, <2>1, <2>2, <2>3, <2>4, <2>5 DEF LoginNext
  <1>2. ASSUME NEW r \in Requests, SessionNext(r) PROVE Unmailed
    <2>1. ASSUME NEW t \in cookies, NEW e \in Sessions, RefreshFindToken(r, t, e) PROVE Unmailed
      BY <2>1 DEF RefreshFindToken, Unmailed, At, TypeOK, IdleRequest
    <2>2. ASSUME NEW t \in cookies, NEW e \in Sessions, LogoutFindToken(r, t, e) PROVE Unmailed
      BY <2>2 DEF LogoutFindToken, Unmailed, At, TypeOK, IdleRequest
    <2>3. ASSUME NEW u \in Users, NEW t \in Sessions, RevokeFindToken(r, u, t) PROVE Unmailed
      BY <2>3 DEF RevokeFindToken, Unmailed, At, TypeOK, IdleRequest
    <2>4. CASE RefreshIssue(r) \/ RevokeUpdate(r)
      BY <2>4 DEF RefreshIssue, RevokeUpdate, Unmailed, At, TypeOK, Finish, IdleRequest
    <2>5. QED
      BY <1>2, <2>1, <2>2, <2>3, <2>4 DEF SessionNext
  <1>3. ASSUME NEW r \in Requests, ChangeNext(r) PROVE Unmailed
    <2>1. ASSUME NEW u \in Users, NEW t \in cookies, NEW old \in Passwords,
                 NEW new \in Passwords, NEW a \in Agents, ChangeGuard(r, u, t, old, new, a)
          PROVE  Unmailed
      BY <2>1 DEF ChangeGuard, Unmailed, At, TypeOK, IdleRequest
    <2>2. CASE ChangeFindToken(r)
      BY <2>2, ChangeFindTokenMoves DEF ChangeFindToken, Unmailed, At, TypeOK
    <2>3. CASE ChangeFindUser(r)
      BY <2>3, ChangeFindUserMoves DEF ChangeFindUser, Unmailed, At, TypeOK
    <2>4. CASE ChangeWrite(r)
      BY <2>4 DEF ChangeWrite, Unmailed, At, TypeOK, Request
    <2>5. CASE ChangeCreate(r)
      BY <2>5 DEF ChangeCreate, Unmailed, At, TypeOK, Finish, IdleRequest
    <2>6. QED
      BY <1>3, <2>1, <2>2, <2>3, <2>4, <2>5 DEF ChangeNext
  <1>4. ASSUME NEW r \in Requests, ResetNext(r) PROVE MailerInv'
    <2>1. ASSUME NEW l \in Links, NEW s \in Resets, ResetFindToken(r, l, s) PROVE Unmailed
      BY <2>1 DEF ResetFindToken, Unmailed, At, TypeOK, IdleRequest
    <2>2. ASSUME NEW p \in Passwords, ResetFindUser(r, p) PROVE Unmailed
      BY <2>2 DEF ResetFindUser, Unmailed, At, TypeOK, Request
    <2>3. CASE ResetWrite(r)
      BY <2>3, UnmailedKeepsMailer DEF ResetWrite, Unmailed, At, TypeOK, Request
    <2>4. CASE ResetDelete(r)
      <3> DEFINE s == req[r].reset
      <3>1. s \in Resets /\ passwordReset[s] \in ResetRow /\ passwordReset[s] # None
        BY <2>4 DEF ResetDelete, At, RequestShape, Shape, TypeOK
      <3>2. CASE passwordReset[s].status = "deleted"
        <4>1. Unmailed
          BY <2>4, <3>2 DEF ResetDelete, Unmailed, At, TypeOK, Finish, IdleRequest
        <4>2. QED
          BY <4>1, UnmailedKeepsMailer
      <3>3. CASE passwordReset[s].status # "deleted"
        <4>1. /\ passwordReset' = [passwordReset EXCEPT ![s].status = "deleted"]
              /\ req' = [req EXCEPT ![r].step = "reset.mail"]
              /\ mailed' = mailed
          BY <2>4, <3>3 DEF ResetDelete
        <4>2. /\ passwordReset'[s] # None /\ passwordReset'[s].status = "deleted"
              /\ \A x \in Resets \ {s} : passwordReset'[x] = passwordReset[x]
          <5>1. [passwordReset[s] EXCEPT !.status = "deleted"] \in ResetRow
            BY <3>1 DEF ResetRow
          <5>2. passwordReset'[s] = [passwordReset[s] EXCEPT !.status = "deleted"]
            BY <3>1, <4>1 DEF TypeOK
          <5>3. QED
            BY <3>1, <4>1, <5>1, <5>2 DEF TypeOK, ResetRow, AuthAssumption
        <4>3. \A q \in Requests, x \in Resets :
                Mailing(q, x)' => (q = r /\ x = s) \/ (q # r /\ Mailing(q, x))
          BY <4>1 DEF Mailing, At, TypeOK, Request
        <4>4. \A q \in Requests : ~Mailing(q, s)
          BY <3>1, <3>3 DEF MailerInv
        <4>5. \A m \in mailed : m.reset \in Resets /\ m.reset # s
          BY <3>3 DEF MailerInv, TypeOK, Mail
        <4>6. ASSUME NEW q \in Requests, NEW x \in Resets, Mailing(q, x)'
              PROVE  /\ passwordReset'[x].status = "deleted"
                     /\ \A y \in Requests : Mailing(y, x)' => y = q
                     /\ \A m \in mailed' : m.reset # x
          <5>1. CASE x = s
            BY <4>1, <4>2, <4>3, <4>4, <4>5, <4>6, <5>1
          <5>2. CASE x # s
            BY <4>1, <4>2, <4>3, <4>6, <5>2 DEF MailerInv
          <5>3. QED
            BY <5>1, <5>2
        <4>7. \A m \in mailed' : passwordReset'[m.reset] # None
                                 /\ passwordReset'[m.reset].status = "deleted"
          BY <4>1, <4>2, <4>5 DEF MailerInv
        <4>8. QED
          BY <4>1, <4>6, <4>7 DEF MailerInv, OneMailPerReset
      <3>4. QED
        BY <3>2, <3>3
    <2>5. CASE ResetMail(r)
      <3> DEFINE s == req[r].reset
                 m == [reset |-> req[r].reset, user |-> req[r].user,
                       password |-> req[r].password, tokenVersion |-> req[r].version + 1]
      <3>1. Mailing(r, s) /\ s \in Resets /\ passwordReset[s] # None
        BY <2>5 DEF ResetMail, Mailing, At, RequestShape, Shape
      <3>2. mailed' = mailed \cup {m} /\ passwordReset' = passwordReset
        BY <2>5 DEF ResetMail
      <3>3. \A q \in Requests, x \in Resets : Mailing(q, x)' => q # r /\ Mailing(q, x)
        BY <2>5 DEF ResetMail, Mailing, At, TypeOK, Finish, IdleRequest
      <3>4. /\ passwordReset[s].status = "deleted"
            /\ \A q \in Requests : Mailing(q, s) => q = r
            /\ \A n \in mailed : n.reset # s
        BY <3>1 DEF MailerInv
      <3>5. m.reset = s
        OBVIOUS
      <3>6. OneMailPerReset'
        BY <3>2, <3>4, <3>5 DEF MailerInv, OneMailPerReset
      <3>7. \A n \in mailed' : passwordReset'[n.reset] # None
                               /\ passwordReset'[n.reset].status = "deleted"
        BY <3>1, <3>2, <3>4, <3>5 DEF MailerInv
      <3>8. ASSUME NEW q \in Requests, NEW x \in Resets, Mailing(q, x)'
            PROVE  /\ passwordReset'[x].status = "deleted"
                   /\ \A y \in Requests : Mailing(y, x)' => y = q
                   /\ \A n \in mailed' : n.reset # x
        <4>1. x # s /\ Mailing(q, x)
          BY <3>3, <3>4, <3>8
        <4>2. QED
          BY <3>2, <3>3, <3>5, <4>1 DEF MailerInv
      <3>9. QED
        BY <3>6, <3>7, <3>8 DEF MailerInv
    <2>6. QED
      BY <1>4, <2>1, <2>2, <2>3, <2>4, <2>5, UnmailedKeepsMailer DEF ResetNext
  <1>5. ASSUME NEW u \in Users, NEW s \in Resets, NEW l \in Links, ForgotPassword(u, s, l) PROVE Unmailed
    BY <1>5 DEF ForgotPassword, Unmailed, At, TypeOK
  <1>6. ASSUME NEW t \in Sessions, ExpireToken(t) PROVE Unmailed
    BY <1>6 DEF ExpireToken, Unmailed, At
  <1>7. ASSUME NEW s \in Resets, ExpireReset(s) PROVE Unmailed
    BY <1>7 DEF ExpireReset, Unmailed, At, TypeOK
  <1>8. CASE UNCHANGED vars \/ Tick
    BY <1>8, UnmailedKeepsMailer DEF vars, Tick, Unmailed, At
  <1>9. QED
    BY <1>1, <1>2, <1>3, <1>4, <1>5, <1>6, <1>7, <1>8, UnmailedKeepsMailer DEF Next

(* However many requests follow the link of one reset at the same time, one  *)
(* mail with a password at most leaves the system for it.                    *)
THEOREM ResetsMailOnce == Spec => []OneMailPerReset
  <1>1. Init => TypeInv /\ MailerInv
    BY InitTypeInv, AuthAssumption
    DEF Init, MailerInv, Mailing, At, IdleRequest, OneMailPerReset
  <1>2. TypeInv /\ MailerInv /\ [Next]_vars => (TypeInv /\ MailerInv)'
    BY NextTypeInv, NextMailer, AuthAssumption
  <1>3. MailerInv => OneMailPerReset
    BY DEF MailerInv
  <1>4. QED
    BY <1>1, <1>2, <1>3, PTL DEF Spec

-----------------------------------------------------------------------------
(* What one step does to the accounts and to the session rows.               *)

(* A version only grows, unless the step is a password write that overlapped *)
(* another one; and that an account was overlapped is never forgotten.       *)
VersionsGrow ==
    \A u \in Users : /\ overlapped[u] => overlapped'[u]
                     /\ ~overlapped'[u] => user[u].tokenVersion <= user'[u].tokenVersion

(* A row keeps its owner, its token and its version, and its end.            *)
RowsEnd ==
    \A t \in Sessions : Stored(t) =>
        /\ refreshToken'[t].user = refreshToken[t].user
        /\ refreshToken'[t].token = refreshToken[t].token
        /\ refreshToken'[t].tokenVersion = refreshToken[t].tokenVersion
        /\ refreshToken[t].revoked => refreshToken'[t].revoked
        /\ refreshToken[t].expired => refreshToken'[t].expired

LEMMA WriteGrows ==
  ASSUME TypeInv, NEW r \in Requests, req[r].user \in Users, WritePassword(r)
  PROVE  VersionsGrow
  <1>1. req[r].version \in Nat /\ \A u \in Users : user[u].tokenVersion \in Nat
    BY DEF TypeInv, TypeOK, Request, UserRow
  <1>2. ASSUME NEW u \in Users, u # req[r].user
        PROVE  user'[u] = user[u] /\ overlapped'[u] = overlapped[u]
    BY <1>2 DEF WritePassword, TypeInv, TypeOK
  <1>3. ASSUME NEW u \in Users, u = req[r].user
        PROVE  /\ user'[u].tokenVersion = req[r].version + 1
               /\ overlapped[u] => overlapped'[u]
               /\ ~overlapped'[u] => req[r].version = user[u].tokenVersion
    BY <1>3 DEF WritePassword, TypeInv, TypeOK
  <1>4. \A u \in Users : /\ overlapped[u] => overlapped'[u]
                         /\ ~overlapped'[u] => user[u].tokenVersion <= user'[u].tokenVersion
    <2>1. ASSUME NEW u \in Users PROVE overlapped[u] => overlapped'[u]
      BY <1>2, <1>3
    <2>2. ASSUME NEW u \in Users, ~overlapped'[u] PROVE user[u].tokenVersion <= user'[u].tokenVersion
      <3>1. \/ user'[u].tokenVersion = user[u].tokenVersion
            \/ user'[u].tokenVersion = req[r].version + 1 /\ req[r].version = user[u].tokenVersion
        BY <1>2, <1>3, <2>2
      <3>2. QED
        BY <1>1, <3>1
    <2>3. QED
      BY <2>1, <2>2
  <1>5. QED
    BY <1>4 DEF VersionsGrow

LEMMA NextVersionsGrow == ASSUME TypeInv, [Next]_vars PROVE VersionsGrow
  <1>1. CASE UNCHANGED <<user, overlapped>>
    BY <1>1 DEF VersionsGrow, TypeInv, TypeOK, UserRow
  <1>2. ASSUME NEW r \in Requests, ChangeWrite(r) \/ ResetWrite(r) PROVE VersionsGrow
    BY <1>2, WriteGrows DEF ChangeWrite, ResetWrite, TypeInv, RequestShape, Shape, At
  <1>3. ASSUME NEW r \in Requests, LoginNext(r) \/ SessionNext(r) PROVE UNCHANGED <<user, overlapped>>
    BY <1>3 DEF LoginNext, LoginFindUser, VerifyMfaFindUser, LoginFindTokens, LoginCreate,
       LoginRespond, VerifyMfaCreate, SessionNext, RefreshFindToken, LogoutFindToken,
       RevokeFindToken, RefreshIssue, RevokeUpdate
  <1>4. ASSUME NEW r \in Requests, ChangeNext(r) \/ ResetNext(r)
        PROVE  UNCHANGED <<user, overlapped>> \/ ChangeWrite(r) \/ ResetWrite(r)
    BY <1>4 DEF ChangeNext, ChangeGuard, ChangeFindToken, ChangeFindUser, ChangeCreate,
       ResetNext, ResetFindToken, ResetFindUser, ResetDelete, ResetMail
  <1>5. (\E u \in Users, s \in Resets, l \in Links : ForgotPassword(u, s, l))
        \/ (\E t \in Sessions : ExpireToken(t)) \/ (\E s \in Resets : ExpireReset(s))
        => UNCHANGED <<user, overlapped>>
    BY DEF ForgotPassword, ExpireToken, ExpireReset
  <1>6. Tick \/ UNCHANGED vars => UNCHANGED <<user, overlapped>>
    BY DEF Tick, vars
  <1>7. QED
    BY <1>1, <1>2, <1>3, <1>4, <1>5, <1>6 DEF Next

(* A new row holds a token that the request which stores it has signed.      *)
RowsSigned ==
    \A t \in Sessions : (~Stored(t) /\ Stored(t)') =>
        \E r \in Requests : /\ Creating(r) /\ req[r].user \in Users
                             /\ refreshToken'[t].user = req[r].user
                             /\ refreshToken'[t].token \in Signed(r)

(* A row is created where there was none. *)
LEMMA NewRowEndsNone ==
  ASSUME TypeInv, NEW e \in Sessions, ~Stored(e), NEW r \in Requests, Creating(r),
         req[r].user \in Users, NEW t \in Signed(r), NEW v, NEW a, NEW p,
         refreshToken' = [refreshToken EXCEPT ![e] = NewRow(req[r].user, t, v, a, p)]
  PROVE  RowsEnd /\ RowsSigned
  <1>1. \A x \in Sessions \ {e} : refreshToken'[x] = refreshToken[x]
    BY DEF TypeInv, TypeOK
  <1>2. refreshToken'[e] = NewRow(req[r].user, t, v, a, p)
    BY DEF TypeInv, TypeOK
  <1>3. refreshToken'[e].user = req[r].user /\ refreshToken'[e].token = t
    BY <1>2 DEF NewRow
  <1>4. RowsEnd
    BY <1>1 DEF RowsEnd, Stored
  <1>5. RowsSigned
    BY <1>1, <1>3 DEF RowsSigned, Stored
  <1>6. QED
    BY <1>4, <1>5

LEMMA NextRowsEnd == ASSUME AuthAssumption, TypeInv, [Next]_vars PROVE RowsEnd /\ RowsSigned
  <1>1. CASE UNCHANGED refreshToken
    BY <1>1 DEF RowsEnd, RowsSigned, Stored
  <1>2. ASSUME NEW r \in Requests, LoginNext(r) PROVE UNCHANGED refreshToken \/ (RowsEnd /\ RowsSigned)
    <2>1. CASE LoginCreate(r)
      <3>1. Creating(r) /\ req[r].user \in Users
        BY <2>1 DEF LoginCreate, Creating, At, TypeInv, RequestShape, Shape
      <3>2. PICK e \in Sessions, t \in Signed(r) :
              /\ ~Stored(e)
              /\ refreshToken' = [refreshToken EXCEPT ![e] =
                    NewRow(req[r].user, t, req[r].version, req[r].agent, req[r].password)]
        BY <2>1 DEF LoginCreate
      <3>3. RowsEnd /\ RowsSigned
        BY <3>1, <3>2, NewRowEndsNone
      <3>4. QED
        BY <3>3
    <2>2. CASE VerifyMfaCreate(r)
      <3>1. Creating(r) /\ req[r].user \in Users
        BY <2>2 DEF VerifyMfaCreate, Creating, At, TypeInv, RequestShape, Shape
      <3>2. PICK e \in Sessions, t \in Signed(r) :
              /\ ~Stored(e)
              /\ refreshToken' = [refreshToken EXCEPT ![e] =
                    NewRow(req[r].user, t, req[r].version, req[r].agent, req[r].password)]
        BY <2>2 DEF VerifyMfaCreate
      <3>3. RowsEnd /\ RowsSigned
        BY <3>1, <3>2, NewRowEndsNone
      <3>4. QED
        BY <3>3
    <2>3. QED
      BY <1>2, <2>1, <2>2 DEF LoginNext, LoginFindUser, VerifyMfaFindUser, LoginFindTokens,
         LoginRespond
  <1>3. ASSUME NEW r \in Requests, SessionNext(r) PROVE UNCHANGED refreshToken \/ (RowsEnd /\ RowsSigned)
    <2>1. CASE RevokeUpdate(r)
      <3>1. req[r].session \in Sessions /\ refreshToken[req[r].session] \in TokenRow
        BY <2>1 DEF RevokeUpdate, At, TypeInv, TypeOK, RequestShape, Shape, Stored
      <3>2. refreshToken' = [refreshToken EXCEPT ![req[r].session] =
                               [refreshToken[req[r].session] EXCEPT !.revoked = TRUE]]
        BY <2>1 DEF RevokeUpdate
      <3>3. RowsEnd
        BY <3>1, <3>2 DEF RowsEnd, TypeInv, TypeOK, TokenRow
      <3>4. Stored(req[r].session)
        BY <2>1 DEF RevokeUpdate, At, TypeInv, RequestShape, Shape
      <3>5. RowsSigned
        BY <3>1, <3>2, <3>4 DEF RowsSigned, Stored, TypeInv, TypeOK
      <3>6. QED
        BY <3>3, <3>5
    <2>2. QED
      BY <1>3, <2>1 DEF SessionNext, RefreshFindToken, LogoutFindToken, RevokeFindToken,
         RefreshIssue
  <1>4. ASSUME NEW r \in Requests, ChangeNext(r) PROVE UNCHANGED refreshToken \/ (RowsEnd /\ RowsSigned)
    <2>1. CASE ChangeCreate(r)
      <3>1. Creating(r) /\ req[r].user \in Users
        BY <2>1 DEF ChangeCreate, Creating, At, TypeInv, RequestShape, Shape
      <3>2. PICK e \in Sessions, t \in Signed(r) :
              /\ ~Stored(e)
              /\ refreshToken' = [refreshToken EXCEPT ![e] =
                    NewRow(req[r].user, t, req[r].version + 1, req[r].agent, req[r].password)]
        BY <2>1 DEF ChangeCreate
      <3>3. RowsEnd /\ RowsSigned
        BY <3>1, <3>2, NewRowEndsNone
      <3>4. QED
        BY <3>3
    <2>2. QED
      BY <1>4, <2>1 DEF ChangeNext, ChangeGuard, ChangeFindToken, ChangeFindUser, ChangeWrite
  <1>5. ASSUME NEW r \in Requests, ResetNext(r) PROVE UNCHANGED refreshToken
    BY <1>5 DEF ResetNext, ResetFindToken, ResetFindUser, ResetWrite, ResetDelete, ResetMail
  <1>6. ASSUME NEW t \in Sessions, ExpireToken(t) PROVE RowsEnd /\ RowsSigned
    <2>1. refreshToken[t] \in TokenRow
      BY <1>6 DEF ExpireToken, Stored, TypeInv, TypeOK
    <2>2. refreshToken' = [refreshToken EXCEPT ![t] = [refreshToken[t] EXCEPT !.expired = TRUE]]
      BY <1>6 DEF ExpireToken
    <2>3. RowsEnd
      BY <2>1, <2>2 DEF RowsEnd, TypeInv, TypeOK, TokenRow
    <2>4. RowsSigned
      BY <1>6, <2>2 DEF RowsSigned, ExpireToken, Stored, TypeInv, TypeOK
    <2>5. QED
      BY <2>3, <2>4
  <1>7. (\E u \in Users, s \in Resets, l \in Links : ForgotPassword(u, s, l))
        \/ (\E s \in Resets : ExpireReset(s)) \/ Tick \/ UNCHANGED vars => UNCHANGED refreshToken
    BY DEF ForgotPassword, ExpireReset, Tick, vars
  <1>8. QED
    BY <1>1, <1>2, <1>3, <1>4, <1>5, <1>6, <1>7 DEF Next

(* No step makes an ended session valid again.                               *)
LEMMA EndsAreFinal ==
  ASSUME AuthAssumption, TypeInv, EvidenceInv, [Next]_vars, NEW t \in Sessions,
         Stored(t), ~SessionValid(t), ~overlapped'[refreshToken[t].user]
  PROVE  ~SessionValid(t)'
  <1> DEFINE u == refreshToken[t].user
             v == refreshToken[t].tokenVersion
  <1>1. refreshToken[t] \in TokenRow /\ u \in Users /\ v \in Nat
    BY DEF TypeInv, TypeOK, Stored, TokenRow
  <1>2. /\ refreshToken'[t].user = u /\ refreshToken'[t].tokenVersion = v
        /\ refreshToken[t].revoked => refreshToken'[t].revoked
        /\ refreshToken[t].expired => refreshToken'[t].expired
    BY NextRowsEnd DEF RowsEnd
  <1>3. /\ ~overlapped[u]
        /\ user[u].tokenVersion <= user'[u].tokenVersion
    BY <1>1, NextVersionsGrow DEF VersionsGrow
  <1>4. v <= user[u].tokenVersion
    BY <1>3 DEF EvidenceInv, Behind
  <1>5. user[u].tokenVersion \in Nat /\ user'[u].tokenVersion \in Nat
    <2>1. TypeInv'
      BY NextTypeInv
    <2>2. QED
      BY <1>1, <2>1 DEF TypeInv, TypeOK, UserRow
  <1>6. CASE refreshToken[t].revoked \/ refreshToken[t].expired
    BY <1>2, <1>6 DEF SessionValid, Usable
  <1>7. CASE v # user[u].tokenVersion
    <2>1. v # user'[u].tokenVersion
      BY <1>1, <1>3, <1>4, <1>5, <1>7
    <2>2. QED
      BY <1>2, <2>1 DEF SessionValid
  <1>8. QED
    BY <1>6, <1>7 DEF SessionValid, Usable

(* The token of a row was signed for the owner of the row.                   *)
OwnTokens ==
    \A t \in Sessions : Stored(t) => refreshToken[t].token.sub = refreshToken[t].user

LEMMA NextOwnTokens ==
  ASSUME AuthAssumption, TypeInv, OwnTokens, [Next]_vars
  PROVE  OwnTokens'
  <1>1. RowsEnd /\ RowsSigned
    BY NextRowsEnd
  <1>2. ASSUME NEW t \in Sessions, Stored(t)', Stored(t)
        PROVE  refreshToken'[t].token.sub = refreshToken'[t].user
    BY <1>1, <1>2 DEF RowsEnd, OwnTokens
  <1>3. ASSUME NEW t \in Sessions, Stored(t)', ~Stored(t)
        PROVE  refreshToken'[t].token.sub = refreshToken'[t].user
    <2>1. PICK r \in Requests : /\ req[r].user \in Users
                                /\ refreshToken'[t].user = req[r].user
                                /\ refreshToken'[t].token \in Signed(r)
      BY <1>1, <1>3 DEF RowsSigned
    <2>2. QED
      BY <2>1, SignedTyped DEF TypeInv, TypeOK
  <1>4. QED
    BY <1>2, <1>3 DEF OwnTokens

(* The clock does not go back, and a request that comes to sign a token signs *)
(* it now or later.                                                          *)
SignersLate ==
    /\ now <= now'
    /\ \A r \in Requests : Creating(r)' =>
         \/ req'[r].second = now
         \/ Creating(r) /\ req'[r].user = req[r].user /\ req'[r].second = req[r].second

LEMMA NextSignersLate == ASSUME AuthAssumption, TypeInv, [Next]_vars PROVE SignersLate
  <1> USE DEF TypeInv, TypeOK
  <1>1. CASE UNCHANGED now /\ \E r \in Requests :
                 /\ \A q \in Requests \ {r} : req'[q] = req[q]
                 /\ Creating(r)' => req'[r].second = now
    BY <1>1 DEF SignersLate, Creating
  <1>2. CASE now <= now' /\ UNCHANGED req
    BY <1>2 DEF SignersLate, Creating
  <1>3. ASSUME NEW r \in Requests, LoginNext(r)
        PROVE  /\ UNCHANGED now /\ \A q \in Requests \ {r} : req'[q] = req[q]
               /\ Creating(r)' => req'[r].second = now
    <2>1. ASSUME NEW u \in Users, NEW p \in Passwords, NEW a \in Agents,
                 LoginFindUser(r, u, p, a) \/ VerifyMfaFindUser(r, u, p, a)
          PROVE  /\ UNCHANGED now /\ \A q \in Requests \ {r} : req'[q] = req[q]
                 /\ Creating(r)' => req'[r].second = now
      <3>1. CASE LoginFindUser(r, u, p, a)
        BY <3>1 DEF LoginFindUser, Creating, IdleRequest
      <3>2. CASE VerifyMfaFindUser(r, u, p, a)
        BY <3>2 DEF VerifyMfaFindUser, Creating, IdleRequest
      <3>3. QED
        BY <2>1, <3>1, <3>2
    <2>2. CASE LoginFindTokens(r)
      <3>1. UNCHANGED now
        BY <2>2 DEF LoginFindTokens
      <3>2. QED
        BY <2>2, <3>1, LoginFindTokensMoves DEF Creating
    <2>3. CASE LoginCreate(r)
      BY <2>3 DEF LoginCreate, RespondWith, Creating, IdleRequest
    <2>4. CASE LoginRespond(r) \/ VerifyMfaCreate(r)
      BY <2>4 DEF LoginRespond, VerifyMfaCreate, Finish, Creating, IdleRequest
    <2>5. QED
      BY <1>3, <2>1, <2>2, <2>3, <2>4 DEF LoginNext
  <1>4. ASSUME NEW r \in Requests, SessionNext(r)
        PROVE  /\ UNCHANGED now /\ \A q \in Requests \ {r} : req'[q] = req[q]
               /\ Creating(r)' => req'[r].second = now
    <2>1. ASSUME NEW s \in Sessions, NEW t \in cookies,
                 RefreshFindToken(r, t, s) \/ LogoutFindToken(r, t, s)
          PROVE  /\ UNCHANGED now /\ \A q \in Requests \ {r} : req'[q] = req[q]
                 /\ Creating(r)' => req'[r].second = now
      <3>1. CASE RefreshFindToken(r, t, s)
        BY <3>1 DEF RefreshFindToken, Creating, IdleRequest
      <3>2. CASE LogoutFindToken(r, t, s)
        BY <3>2 DEF LogoutFindToken, Creating, IdleRequest
      <3>3. QED
        BY <2>1, <3>1, <3>2
    <2>4. ASSUME NEW s \in Sessions, NEW u \in Users, RevokeFindToken(r, u, s)
          PROVE  /\ UNCHANGED now /\ \A q \in Requests \ {r} : req'[q] = req[q]
                 /\ Creating(r)' => req'[r].second = now
      BY <2>4 DEF RevokeFindToken, Creating, IdleRequest
    <2>2. CASE RefreshIssue(r) \/ RevokeUpdate(r)
      BY <2>2 DEF RefreshIssue, RevokeUpdate, Finish, Creating, IdleRequest
    <2>3. QED
      BY <1>4, <2>1, <2>2, <2>4 DEF SessionNext
  <1>5. ASSUME NEW r \in Requests, ChangeNext(r)
        PROVE  /\ UNCHANGED now /\ \A q \in Requests \ {r} : req'[q] = req[q]
               /\ Creating(r)' => req'[r].second = now
    <2> req[r] \in Request
      OBVIOUS
    <2>1. ASSUME NEW u \in Users, NEW t \in cookies, NEW old \in Passwords,
                 NEW new \in Passwords, NEW a \in Agents, ChangeGuard(r, u, t, old, new, a)
          PROVE  /\ UNCHANGED now /\ \A q \in Requests \ {r} : req'[q] = req[q]
                 /\ Creating(r)' => req'[r].second = now
      BY <2>1 DEF ChangeGuard, Creating, IdleRequest
    <2>2. CASE ChangeFindToken(r)
      <3>1. UNCHANGED now
        BY <2>2 DEF ChangeFindToken
      <3>2. QED
        BY <2>2, <3>1, ChangeFindTokenMoves DEF Creating
    <2>3. CASE ChangeFindUser(r)
      <3>1. UNCHANGED now
        BY <2>3 DEF ChangeFindUser
      <3>2. QED
        BY <2>3, <3>1, ChangeFindUserMoves DEF Creating
    <2>4. CASE ChangeWrite(r)
      BY <2>4 DEF ChangeWrite, Creating, Request
    <2>5. CASE ChangeCreate(r)
      BY <2>5 DEF ChangeCreate, Finish, Creating, IdleRequest
    <2>6. QED
      BY <1>5, <2>1, <2>2, <2>3, <2>4, <2>5 DEF ChangeNext
  <1>6. ASSUME NEW r \in Requests, ResetNext(r)
        PROVE  /\ UNCHANGED now /\ \A q \in Requests \ {r} : req'[q] = req[q]
               /\ Creating(r)' => req'[r].second = now
    <2> req[r] \in Request
      OBVIOUS
    <2>1. CASE \E l \in Links, s \in Resets : ResetFindToken(r, l, s)
      BY <2>1 DEF ResetFindToken, Creating, IdleRequest
    <2>2. CASE \E p \in Passwords : ResetFindUser(r, p)
      BY <2>2 DEF ResetFindUser, Creating, Request
    <2>3. CASE ResetWrite(r) \/ ResetDelete(r) \/ ResetMail(r)
      BY <2>3 DEF ResetWrite, ResetDelete, ResetMail, Finish, Creating, IdleRequest, Request
    <2>4. QED
      BY <1>6, <2>1, <2>2, <2>3 DEF ResetNext
  <1>7. (\E u \in Users, s \in Resets, l \in Links : ForgotPassword(u, s, l))
        \/ (\E t \in Sessions : ExpireToken(t)) \/ (\E s \in Resets : ExpireReset(s))
        \/ Tick \/ UNCHANGED vars
        => now <= now' /\ UNCHANGED req
    BY DEF ForgotPassword, ExpireToken, ExpireReset, Tick, vars
  <1>8. QED
    BY <1>1, <1>2, <1>3, <1>4, <1>5, <1>6, <1>7 DEF Next

(* A token that has ended stays dead once its second is over.                *)
LEMMA TokensStayEnded ==
  ASSUME AuthAssumption, TypeInv, EvidenceInv, OwnTokens, [Next]_vars,
         NEW u \in Users, NEW i \in 0..now, ~overlapped'[u],
         Ended([sub |-> u, iat |-> i]), Over([sub |-> u, iat |-> i])
  PROVE  Ended([sub |-> u, iat |-> i])' /\ Over([sub |-> u, iat |-> i])'
  <1> DEFINE t == [sub |-> u, iat |-> i]
  <1>1. RowsEnd /\ RowsSigned /\ SignersLate
    BY NextRowsEnd, NextSignersLate
  <1>2. now \in Nat /\ now' \in Nat /\ i \in Nat /\ i < now
    <2>1. TypeInv'
      BY NextTypeInv
    <2>2. QED
      BY <2>1 DEF Over, TypeInv, TypeOK
  <1>3. ASSUME NEW e \in Sessions, Stored(e)', refreshToken'[e].token = t
        PROVE  ~SessionValid(e)'
    <2>1. CASE Stored(e)
      <3>1. refreshToken[e].token = t /\ refreshToken[e].user = u
        BY <1>1, <1>3, <2>1 DEF RowsEnd, OwnTokens
      <3>2. ~SessionValid(e)
        BY <2>1, <3>1 DEF Ended
      <3>3. QED
        BY <2>1, <3>1, <3>2, EndsAreFinal
    <2>2. CASE ~Stored(e)
      <3>1. PICK r \in Requests : /\ Creating(r) /\ req[r].user \in Users
                                  /\ refreshToken'[e].token \in Signed(r)
        BY <1>1, <1>3, <2>2 DEF RowsSigned
      <3>2. t.sub = req[r].user /\ t.iat >= req[r].second
        BY <1>3, <3>1, SignedTyped DEF TypeInv, TypeOK
      <3>3. req[r].second > i
        BY <3>1, <3>2 DEF Over
      <3>4. req[r].second \in Nat
        BY DEF TypeInv, TypeOK, Request
      <3>5. QED
        BY <1>2, <3>2, <3>3, <3>4
    <2>3. QED
      BY <2>1, <2>2
  <1>4. ASSUME NEW r \in Requests, Creating(r)', req'[r].user = u
        PROVE  req'[r].second > i
    BY <1>1, <1>2, <1>4 DEF SignersLate, Over
  <1>5. i < now'
    BY <1>1, <1>2 DEF SignersLate
  <1>6. QED
    BY <1>3, <1>4, <1>5 DEF Ended, Over

(* A session ended by logout, revocation, expiry or a password write never   *)
(* becomes valid again, unless two password writes of its account            *)
(* overlapped; and neither does its token, once the second in which it was   *)
(* signed is over and every request that signed it has stored its row.       *)
THEOREM EndedStayEnded == Spec => EndedSessionsStayEnded
  <1>1. Init => TypeInv /\ EvidenceInv /\ OwnTokens
    BY InitTypeInv, AuthAssumption
    DEF Init, EvidenceInv, WillRecord, IdleRequest, Stored, OwnTokens
  <1>2. TypeInv /\ EvidenceInv /\ OwnTokens /\ [Next]_vars
          => (TypeInv /\ EvidenceInv /\ OwnTokens)'
    BY NextTypeInv, NextEvidence, NextOwnTokens, AuthAssumption
  <1>3. TypeInv /\ EvidenceInv /\ OwnTokens /\ [Next]_vars =>
          [/\ \A s \in Sessions :
                (Stored(s) /\ ~SessionValid(s) /\ ~overlapped'[refreshToken[s].user])
                => ~SessionValid(s)'
           /\ \A u \in Users, i \in 0..now :
                LET t == [sub |-> u, iat |-> i]
                IN (Ended(t) /\ Over(t) /\ ~overlapped'[u]) => (Ended(t) /\ Over(t))']_vars
    <2>1. SUFFICES ASSUME TypeInv, EvidenceInv, OwnTokens, [Next]_vars
                   PROVE  /\ \A s \in Sessions :
                               (Stored(s) /\ ~SessionValid(s) /\ ~overlapped'[refreshToken[s].user])
                               => ~SessionValid(s)'
                          /\ \A u \in Users, i \in 0..now :
                               LET t == [sub |-> u, iat |-> i]
                               IN (Ended(t) /\ Over(t) /\ ~overlapped'[u])
                                  => (Ended(t) /\ Over(t))'
      OBVIOUS
    <2>2. \A s \in Sessions :
            (Stored(s) /\ ~SessionValid(s) /\ ~overlapped'[refreshToken[s].user])
            => ~SessionValid(s)'
      BY <2>1, EndsAreFinal, AuthAssumption
    <2>3. ASSUME NEW u \in Users, NEW i \in 0..now, ~overlapped'[u],
                 Ended([sub |-> u, iat |-> i]), Over([sub |-> u, iat |-> i])
          PROVE  (Ended([sub |-> u, iat |-> i]) /\ Over([sub |-> u, iat |-> i]))'
      <3>1. Ended([sub |-> u, iat |-> i])' /\ Over([sub |-> u, iat |-> i])'
        BY <2>1, <2>3, TokensStayEnded, AuthAssumption
      <3>2. QED
        BY <3>1
    <2>4. QED
      BY <2>2, <2>3
  <1>4. QED
    BY <1>1, <1>2, <1>3, PTL DEF Spec, EndedSessionsStayEnded
=============================================================================
