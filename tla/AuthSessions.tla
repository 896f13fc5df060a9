---------------------------- MODULE AuthSessions ----------------------------
(***************************************************************************)
(* Sessions of password users: src/auth/auth.service.ts and the command     *)
(* handlers of src/auth/handlers.                                           *)
(*                                                                          *)
(* A session is a row of the RefreshToken table.  A row carries the         *)
(* tokenVersion its user had when it was created; changing or resetting the *)
(* password increments User.tokenVersion, which is meant to end the older   *)
(* sessions.  None of the handlers uses a transaction: every `await` of a   *)
(* database call or of bcrypt is a point where other requests run.  A       *)
(* request is therefore a sequence of actions, and what it read earlier is  *)
(* kept in its record of req.                                               *)
(*                                                                          *)
(* A refresh token and a reset token are JWTs that carry the user and the   *)
(* second they were signed in and nothing else, and their columns are not   *)
(* unique: two rows of a user may hold one token.  Rows are therefore found *)
(* by token and known by an id of their own.                                *)
(***************************************************************************)
EXTENDS Naturals, FiniteSets

CONSTANTS
    Users,           \* accounts (rows of User); never deleted by this code
    TwoFactorUsers,  \* those with isTwoFactorEnabled
    Sessions,        \* ids of RefreshToken rows (bounds the rows)
    Resets,          \* ids of EmailPasswordReset rows (bounds the rows)
    Links,           \* tokens of the reset links that are mailed
    Passwords,       \* plain-text passwords; bcrypt is equality on them
    Agents,          \* values of the user-agent header
    Requests,        \* concurrent HTTP requests
    MaxVersion,      \* bound: no password write is started at this version
    MaxSecond,       \* bound: the last second of the clock
    None             \* absence of a value

VARIABLES
    user,          \* user[u]: password and tokenVersion of the account
    now,           \* the clock that tokens are stamped with, in seconds
    refreshToken,  \* refreshToken[s]: the row with id s, or None
    passwordReset, \* passwordReset[s]: the row with id s, or None
    cookies,       \* tokens some client was handed in a cookie
    req,           \* req[r]: step and locals of request r
    mailed,        \* history: the passwords sent by 'auth.forgot.reset'
    overlapped     \* history: overlapped[u] once a password write of u used a
                   \* tokenVersion that was no longer the stored one

vars == <<user, now, refreshToken, passwordReset, cookies, req, mailed, overlapped>>

Steps == {"idle", "login.tokens", "login.create", "login.respond", "mfa.create",
          "refresh.issue", "revoke.update", "change.token", "change.user",
          "change.write", "change.create", "reset.user", "reset.write",
          "reset.delete", "reset.mail"}

\* jwt.sign of the user's id: iat has the precision of a second, there is no jti.
Token == [sub : Users, iat : Nat]

UserRow == [password : Passwords, tokenVersion : Nat]

\* `proved` is no column: it is the password whose knowledge the row attests
\* (the one presented at login, or the one a password change installed).
TokenRow == [user : Users, token : Token, tokenVersion : Nat, userAgent : Agents,
             revoked : BOOLEAN, expired : BOOLEAN, proved : Passwords]

\* A reset row is created once, and deleted by the reset that consumes it.
ResetRow == [user : Users, token : Links, status : {"live", "expired", "deleted"}]

Mail == [reset : Resets, user : Users, password : Passwords, tokenVersion : Nat]

\* token: the one presented or to be handed out; second: when the request last
\* awaited the database before it signs a token.
Request == [step : Steps, user : Users \cup {None}, token : Token \cup {None},
            session : Sessions \cup {None}, reset : Resets \cup {None},
            version : Nat, second : Nat, password : Passwords \cup {None}, old : Passwords \cup {None},
            agent : Agents \cup {None}]

ASSUME AuthAssumption ==
    /\ TwoFactorUsers \subseteq Users
    /\ MaxVersion \in Nat /\ MaxSecond \in Nat
    /\ None \notin Users \cup Sessions \cup Resets \cup Passwords \cup Agents
    /\ None \notin TokenRow /\ None \notin ResetRow

IdleRequest == [step |-> "idle", user |-> None, token |-> None, session |-> None,
                reset |-> None, version |-> 0, second |-> 0, password |-> None,
                old |-> None, agent |-> None]

Init ==
    /\ user \in [Users -> [password : Passwords, tokenVersion : {0}]]
    /\ now = 0
    /\ refreshToken = [s \in Sessions |-> None]
    /\ passwordReset = [s \in Resets |-> None]
    /\ cookies = {}
    /\ req = [r \in Requests |-> IdleRequest]
    /\ mailed = {}
    /\ overlapped = [u \in Users |-> FALSE]

-----------------------------------------------------------------------------
(* The table RefreshToken. *)

Stored(s) == refreshToken[s] # None

\* where: { expires: { gte: now }, revoked: null }
Usable(s) == Stored(s) /\ ~refreshToken[s].expired /\ ~refreshToken[s].revoked

\* A row as getUserSessionStatus and GetUserInfo judge it when they find it.
SessionValid(s) ==
    Usable(s) /\ refreshToken[s].tokenVersion = user[refreshToken[s].user].tokenVersion

\* What findFirst may answer for a token: of two rows that hold it, either.
Holds(s, t) == Usable(s) /\ refreshToken[s].token = t

\* The tokens request r may sign: bcrypt, the queries and the insert take time,
\* so the second is any one since it last awaited the database.
Signed(r) == {[sub |-> req[r].user, iat |-> i] : i \in req[r].second..now}

NewRow(u, token, version, agent, proved) ==
    [user |-> u, token |-> token, tokenVersion |-> version, userAgent |-> agent,
     revoked |-> FALSE, expired |-> FALSE, proved |-> proved]

At(r, step) == req[r].step = step

\* About to sign a token and to store a row with it.
Creating(r) == req[r].step \in {"login.create", "mfa.create", "change.create"}

Finish(r) == req' = [req EXCEPT ![r] = IdleRequest]

-----------------------------------------------------------------------------
(* UserLoginHandler and AuthService.login *)

\* The user is read by e-mail and the password compared with that row.
LoginFindUser(r, u, p, a) ==
    /\ At(r, "idle")
    /\ p = user[u].password
    /\ req' = [req EXCEPT ![r] = [IdleRequest EXCEPT !.step = "login.tokens",
                 !.user = u, !.version = user[u].tokenVersion, !.password = p, !.agent = a]]
    /\ UNCHANGED <<user, now, refreshToken, passwordReset, cookies, mailed, overlapped>>

\* The active sessions of this user on this user agent, at the version that was read.
Reusable(r) ==
    {s \in Sessions : /\ Usable(s)
                      /\ refreshToken[s].user = req[r].user
                      /\ refreshToken[s].tokenVersion = req[r].version
                      /\ refreshToken[s].userAgent = req[r].agent}

\* The token is returned to AuthService.login, with the user.
RespondWith(r, t) ==
    req' = [req EXCEPT ![r] = [IdleRequest EXCEPT !.step = "login.respond",
                                                  !.user = req[r].user, !.token = t]]

\* findMany returns the rows; the first reusable one is touched and returned.
LoginFindTokens(r) ==
    /\ At(r, "login.tokens")
    /\ \/ \E s \in Reusable(r) :
            RespondWith(r, refreshToken[s].token)
       \/ /\ Reusable(r) = {}
          /\ req' = [req EXCEPT ![r].step = "login.create", ![r].second = now]
    /\ UNCHANGED <<user, now, refreshToken, passwordReset, cookies, mailed, overlapped>>

LoginCreate(r) ==
    /\ At(r, "login.create")
    /\ \E s \in Sessions, t \in Signed(r) :
         /\ ~Stored(s)
         /\ refreshToken' = [refreshToken EXCEPT ![s] =
                NewRow(req[r].user, t, req[r].version, req[r].agent, req[r].password)]
         /\ RespondWith(r, t)
    /\ UNCHANGED <<user, now, passwordReset, cookies, mailed, overlapped>>

\* The cookie is set, unless a two-factor user must present a code first: the
\* row then exists without anyone holding it.
LoginRespond(r) ==
    /\ At(r, "login.respond")
    /\ \/ cookies' = cookies \cup {req[r].token}
       \/ req[r].user \in TwoFactorUsers /\ UNCHANGED cookies
    /\ Finish(r)
    /\ UNCHANGED <<user, now, refreshToken, passwordReset, mailed, overlapped>>

-----------------------------------------------------------------------------
(* AuthService.verifyMfa: the login of a two-factor user, with a valid code *)

VerifyMfaFindUser(r, u, p, a) ==
    /\ At(r, "idle")
    /\ u \in TwoFactorUsers
    /\ p = user[u].password
    /\ req' = [req EXCEPT ![r] = [IdleRequest EXCEPT !.step = "mfa.create",
                 !.user = u, !.version = user[u].tokenVersion, !.second = now,
                 !.password = p, !.agent = a]]
    /\ UNCHANGED <<user, now, refreshToken, passwordReset, cookies, mailed, overlapped>>

\* Always a new row; the cookie is set in the same handler.
VerifyMfaCreate(r) ==
    /\ At(r, "mfa.create")
    /\ \E s \in Sessions, t \in Signed(r) :
         /\ ~Stored(s)
         /\ refreshToken' = [refreshToken EXCEPT ![s] =
                NewRow(req[r].user, t, req[r].version, req[r].agent, req[r].password)]
         /\ cookies' = cookies \cup {t}
    /\ Finish(r)
    /\ UNCHANGED <<user, now, passwordReset, mailed, overlapped>>

-----------------------------------------------------------------------------
(* UserRefreshTokenHandler, UserLogoutHandler, AuthService.revokeToken *)

RefreshFindToken(r, t, s) ==
    /\ At(r, "idle")
    /\ t \in cookies
    /\ Holds(s, t)
    /\ req' = [req EXCEPT ![r] = [IdleRequest EXCEPT !.step = "refresh.issue", !.session = s]]
    /\ UNCHANGED <<user, now, refreshToken, passwordReset, cookies, mailed, overlapped>>

\* The owner is read, lastUsed written, and an access token signed.
RefreshIssue(r) ==
    /\ At(r, "refresh.issue")
    /\ Finish(r)
    /\ UNCHANGED <<user, now, refreshToken, passwordReset, cookies, mailed, overlapped>>

\* The row is revoked by its id: a second row with the token is left alone.
LogoutFindToken(r, t, s) ==
    /\ At(r, "idle")
    /\ t \in cookies
    /\ Holds(s, t)
    /\ req' = [req EXCEPT ![r] = [IdleRequest EXCEPT !.step = "revoke.update", !.session = s]]
    /\ UNCHANGED <<user, now, refreshToken, passwordReset, cookies, mailed, overlapped>>

\* revokeToken: any unrevoked row of the caller, expired or not.
RevokeFindToken(r, u, s) ==
    /\ At(r, "idle")
    /\ Stored(s) /\ refreshToken[s].user = u /\ ~refreshToken[s].revoked
    /\ req' = [req EXCEPT ![r] = [IdleRequest EXCEPT !.step = "revoke.update", !.session = s]]
    /\ UNCHANGED <<user, now, refreshToken, passwordReset, cookies, mailed, overlapped>>

\* Mutant: a second revocation of the same session takes the first one back.
RevokeUpdateToggle(r) ==
    /\ At(r, "revoke.update")
    /\ refreshToken' = [refreshToken EXCEPT ![req[r].session].revoked = ~@]
    /\ Finish(r)
    /\ UNCHANGED <<user, now, passwordReset, cookies, mailed, overlapped>>

\* The update that logout and revokeToken end with: revoked = now.
RevokeUpdate(r) ==
    /\ At(r, "revoke.update")
    /\ refreshToken' = [refreshToken EXCEPT ![req[r].session].revoked = TRUE]
    /\ Finish(r)
    /\ UNCHANGED <<user, now, passwordReset, cookies, mailed, overlapped>>

-----------------------------------------------------------------------------
(* AuthService.changePassword *)

\* The JWT guard reads the caller: context.user.tokenVersion.
ChangeGuard(r, u, t, old, new, a) ==
    /\ At(r, "idle")
    /\ t \in cookies
    /\ req' = [req EXCEPT ![r] = [IdleRequest EXCEPT !.step = "change.token", !.token = t,
                 !.version = user[u].tokenVersion, !.old = old, !.password = new, !.agent = a]]
    /\ UNCHANGED <<user, now, refreshToken, passwordReset, cookies, mailed, overlapped>>

\* findUser, first query: a row of the cookie at the guard's version, or 401.
ChangeFindToken(r) ==
    /\ At(r, "change.token")
    /\ LET found == {s \in Sessions : /\ Holds(s, req[r].token)
                                      /\ refreshToken[s].tokenVersion = req[r].version}
       IN \/ \E s \in found :
               req' = [req EXCEPT ![r] = [@ EXCEPT !.step = "change.user", !.token = None,
                                            !.user = refreshToken[s].user, !.version = 0]]
          \/ found = {} /\ Finish(r)
    /\ UNCHANGED <<user, now, refreshToken, passwordReset, cookies, mailed, overlapped>>

\* findUser, second query, and bcrypt.compare of the old password with that row.
ChangeFindUser(r) ==
    /\ At(r, "change.user")
    /\ LET row == user[req[r].user]
       IN \/ /\ req[r].old = row.password
             /\ row.tokenVersion < MaxVersion
             /\ req' = [req EXCEPT ![r] = [@ EXCEPT !.step = "change.write", !.old = None,
                                                    !.version = row.tokenVersion]]
          \/ req[r].old # row.password /\ Finish(r)
    /\ UNCHANGED <<user, now, refreshToken, passwordReset, cookies, mailed, overlapped>>

\* Mutant: a wrong sign, the update counts the version down.
WritePasswordDown(r) ==
    LET u == req[r].user
    IN /\ user' = [user EXCEPT ![u] = [password |-> req[r].password,
                                       tokenVersion |-> req[r].version - 1]]
       /\ overlapped' = [overlapped EXCEPT ![u] = @ \/ req[r].version # user[u].tokenVersion]

\* Mutant: the update leaves the version as it was read.
WritePasswordSameVersion(r) ==
    LET u == req[r].user
    IN /\ user' = [user EXCEPT ![u] = [password |-> req[r].password,
                                       tokenVersion |-> req[r].version]]
       /\ overlapped' = [overlapped EXCEPT ![u] = @ \/ req[r].version # user[u].tokenVersion]

\* Mutant: the update counts the version up but leaves the password out.
WritePasswordVersionOnly(r) ==
    LET u == req[r].user
    IN /\ user' = [user EXCEPT ![u].tokenVersion = req[r].version + 1]
       /\ overlapped' = [overlapped EXCEPT ![u] = @ \/ req[r].version # user[u].tokenVersion]

\* prisma.user.update of a password and of the version read plus one.
WritePassword(r) ==
    LET u == req[r].user
    IN /\ user' = [user EXCEPT ![u] = [password |-> req[r].password,
                                       tokenVersion |-> req[r].version + 1]]
       /\ overlapped' = [overlapped EXCEPT ![u] = @ \/ req[r].version # user[u].tokenVersion]

ChangeWrite(r) ==
    /\ At(r, "change.write")
    /\ WritePassword(r)
    /\ req' = [req EXCEPT ![r].step = "change.create", ![r].second = now]
    /\ UNCHANGED <<now, refreshToken, passwordReset, cookies, mailed>>

\* The caller's new session, and its cookie.
ChangeCreate(r) ==
    /\ At(r, "change.create")
    /\ \E s \in Sessions, t \in Signed(r) :
         /\ ~Stored(s)
         /\ refreshToken' = [refreshToken EXCEPT ![s] =
                NewRow(req[r].user, t, req[r].version + 1, req[r].agent, req[r].password)]
         /\ cookies' = cookies \cup {t}
    /\ Finish(r)
    /\ UNCHANGED <<user, now, passwordReset, mailed, overlapped>>

-----------------------------------------------------------------------------
(* AuthService.forgotPassword and resetPassword *)

\* The row is created and its token mailed to the user.  Two rows of a user may
\* hold one token: those of requests in the same second do.
ForgotPassword(u, s, l) ==
    /\ passwordReset[s] = None
    /\ \A e \in Resets : (passwordReset[e] # None /\ passwordReset[e].token = l)
                          => passwordReset[e].user = u
    /\ passwordReset' = [passwordReset EXCEPT ![s] = [user |-> u, token |-> l, status |-> "live"]]
    /\ UNCHANGED <<user, now, refreshToken, cookies, req, mailed, overlapped>>

\* A link is followed: findFirst returns a live row that holds its token.
ResetFindToken(r, l, s) ==
    /\ At(r, "idle")
    /\ passwordReset[s] # None
    /\ passwordReset[s].status = "live" /\ passwordReset[s].token = l
    /\ req' = [req EXCEPT ![r] = [IdleRequest EXCEPT !.step = "reset.user", !.reset = s,
                 !.user = passwordReset[s].user]]
    /\ UNCHANGED <<user, now, refreshToken, passwordReset, cookies, mailed, overlapped>>

\* The user is read, and a random password p drawn and hashed.
ResetFindUser(r, p) ==
    /\ At(r, "reset.user")
    /\ user[req[r].user].tokenVersion < MaxVersion
    /\ req' = [req EXCEPT ![r] = [@ EXCEPT !.step = "reset.write", !.password = p,
                                           !.version = user[req[r].user].tokenVersion]]
    /\ UNCHANGED <<user, now, refreshToken, passwordReset, cookies, mailed, overlapped>>

ResetWrite(r) ==
    /\ At(r, "reset.write")
    /\ WritePassword(r)
    /\ req' = [req EXCEPT ![r].step = "reset.delete"]
    /\ UNCHANGED <<now, refreshToken, passwordReset, cookies, mailed>>

\* Mutant: deleteMany, which does not throw when the row is gone.
ResetDeleteMany(r) ==
    /\ At(r, "reset.delete")
    /\ passwordReset' = [passwordReset EXCEPT ![req[r].reset].status = "deleted"]
    /\ req' = [req EXCEPT ![r].step = "reset.mail"]
    /\ UNCHANGED <<user, now, refreshToken, cookies, mailed, overlapped>>

\* prisma delete by id: it throws when another request deleted the row first,
\* and the request ends there, its password already stored.
ResetDelete(r) ==
    /\ At(r, "reset.delete")
    /\ LET s == req[r].reset
       IN \/ /\ passwordReset[s].status # "deleted"
             /\ passwordReset' = [passwordReset EXCEPT ![s].status = "deleted"]
             /\ req' = [req EXCEPT ![r].step = "reset.mail"]
          \/ /\ passwordReset[s].status = "deleted"
             /\ Finish(r)
             /\ UNCHANGED passwordReset
    /\ UNCHANGED <<user, now, refreshToken, cookies, mailed, overlapped>>

\* The event row is written and 'auth.forgot.reset' mails the password drawn.
ResetMail(r) ==
    /\ At(r, "reset.mail")
    /\ mailed' = mailed \cup {[reset |-> req[r].reset, user |-> req[r].user,
                    password |-> req[r].password, tokenVersion |-> req[r].version + 1]}
    /\ Finish(r)
    /\ UNCHANGED <<user, now, refreshToken, passwordReset, cookies, overlapped>>

-----------------------------------------------------------------------------
(* The passing of time: 90 days for a session, one hour for a reset token. *)

Tick ==
    /\ now < MaxSecond
    /\ now' = now + 1
    /\ UNCHANGED <<user, refreshToken, passwordReset, cookies, req, mailed, overlapped>>

ExpireToken(s) ==
    /\ Stored(s) /\ ~refreshToken[s].expired
    /\ refreshToken' = [refreshToken EXCEPT ![s].expired = TRUE]
    /\ UNCHANGED <<user, now, passwordReset, cookies, req, mailed, overlapped>>

ExpireReset(s) ==
    /\ passwordReset[s] # None
    /\ passwordReset[s].status = "live"
    /\ passwordReset' = [passwordReset EXCEPT ![s].status = "expired"]
    /\ UNCHANGED <<user, now, refreshToken, cookies, req, mailed, overlapped>>

-----------------------------------------------------------------------------
LoginNext(r) ==
    \/ \E u \in Users, p \in Passwords, a \in Agents :
         LoginFindUser(r, u, p, a) \/ VerifyMfaFindUser(r, u, p, a)
    \/ LoginFindTokens(r)
    \/ LoginCreate(r)
    \/ LoginRespond(r)
    \/ VerifyMfaCreate(r)

SessionNext(r) ==
    \/ \E t \in cookies, s \in Sessions : RefreshFindToken(r, t, s) \/ LogoutFindToken(r, t, s)
    \/ \E u \in Users, s \in Sessions : RevokeFindToken(r, u, s)
    \/ RefreshIssue(r)
    \/ RevokeUpdate(r)

ChangeNext(r) ==
    \/ \E u \in Users, t \in cookies, old, new \in Passwords, a \in Agents :
         ChangeGuard(r, u, t, old, new, a)
    \/ ChangeFindToken(r)
    \/ ChangeFindUser(r)
    \/ ChangeWrite(r)
    \/ ChangeCreate(r)

ResetNext(r) ==
    \/ \E l \in Links, s \in Resets : ResetFindToken(r, l, s)
    \/ \E p \in Passwords : ResetFindUser(r, p)
    \/ ResetWrite(r)
    \/ ResetDelete(r)
    \/ ResetMail(r)

Next ==
    \/ \E r \in Requests : LoginNext(r) \/ SessionNext(r) \/ ChangeNext(r) \/ ResetNext(r)
    \/ \E u \in Users, s \in Resets, l \in Links : ForgotPassword(u, s, l)
    \/ \E s \in Sessions : ExpireToken(s)
    \/ \E s \in Resets : ExpireReset(s)
    \/ Tick

Spec == Init /\ [][Next]_vars

-----------------------------------------------------------------------------
(* The types of the tables, of the requests and of the history. *)
TypeOK ==
    /\ user \in [Users -> UserRow]
    /\ now \in Nat
    /\ refreshToken \in [Sessions -> TokenRow \cup {None}]
    /\ passwordReset \in [Resets -> ResetRow \cup {None}]
    /\ cookies \subseteq Token
    /\ req \in [Requests -> Request]
    /\ mailed \subseteq Mail
    /\ overlapped \in [Users -> BOOLEAN]

(* A session that getUserSessionStatus reports valid was obtained with the   *)
(* password that is stored now, although a login compares the password, and  *)
(* a password change installs one, several awaits before the row is written. *)
(* It needs that no two password writes of the account overlapped: the       *)
(* version is read and written back without a transaction.                   *)
SessionProvesCurrentPassword ==
    \A s \in Sessions :
        (/\ Stored(s)
         /\ ~overlapped[refreshToken[s].user]
         /\ refreshToken[s].tokenVersion = user[refreshToken[s].user].tokenVersion)
        => refreshToken[s].proved = user[refreshToken[s].user].password

(* A row of a reset mails one password at most, however many requests have  *)
(* found it at the same time: the delete of the row lets only one of them go *)
(* on.  A link mails as many passwords as rows were created with its token,  *)
(* which is one unless the reset was asked for twice in one second.          *)
OneMailPerReset ==
    \A m, n \in mailed : m.reset = n.reset => m = n

(* The password a reset mailed is the stored one until the version moves on, *)
(* as long as no two password writes of the account overlapped.              *)
MailedPasswordIsCurrent ==
    \A m \in mailed :
        (~overlapped[m.user] /\ m.tokenVersion = user[m.user].tokenVersion)
        => m.password = user[m.user].password

\* No session that token t would find is valid.
Ended(t) ==
    \A s \in Sessions : (Stored(s) /\ refreshToken[s].token = t) => ~SessionValid(s)

\* The second of token t is over, and no request is left that may have signed it.
Over(t) ==
    /\ t.iat < now
    /\ \A r \in Requests :
         (Creating(r) /\ req[r].user = t.sub) => req[r].second > t.iat

(* A session that has ended, by logout, revocation, expiry or a password     *)
(* write, never becomes valid again, as long as no two password writes of    *)
(* its account overlapped.  Its token may still open a session, that of      *)
(* another row signed in the same second; but once that second is over, its  *)
(* requests have stored their rows and none of them is valid, the token is   *)
(* dead for good.                                                            *)
EndedSessionsStayEnded ==
    [][/\ \A s \in Sessions :
            (Stored(s) /\ ~SessionValid(s) /\ ~overlapped'[refreshToken[s].user])
            => ~SessionValid(s)'
       /\ \A u \in Users, i \in 0..now :
            LET t == [sub |-> u, iat |-> i]
            IN (Ended(t) /\ Over(t) /\ ~overlapped'[u]) => (Ended(t) /\ Over(t))']_vars
=============================================================================
