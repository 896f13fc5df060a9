------------------------------ MODULE Accounts ------------------------------
(***************************************************************************)
(* New accounts and their privacy settings: UserRegisterHandler,            *)
(* AuthService.loginWithOAuth and PrivacyService.                           *)
(*                                                                          *)
(* A user is an e-mail address, or an identity at an external provider (as  *)
(* chosen initially), whose address and name are made from it: the column   *)
(* email is unique, username and UserPrivaySettings.userId are not, and the  *)
(* name of an external user is taken without a look at the others.  Every    *)
(* handler is a sequence of queries outside a transaction and may stop      *)
(* after any of them.                                                       *)
(* deletePrivacySettings deletes by an id no row has and always fails.      *)
(***************************************************************************)
EXTENDS Actors, Naturals, Sequences

CONSTANTS
    Usernames,   \* names that users choose, or that are made for external users
    Fields,      \* settings that are changed separately
    MaxRows,     \* bound: settings rows of a user
    MaxValue     \* bound: changes of one setting

ASSUME AccountsAssumption ==
    /\ MaxRows \in Nat /\ MaxValue \in Nat
    /\ None \notin Usernames \cup Users

VARIABLES
    username,   \* username[u]: that of u's row in User, or None without a row
    external,   \* users who come from an external provider
    stored,     \* users with a usable session row from their address
    settings,   \* settings[u]: rows of UserPrivaySettings, in an arbitrary order
    acc,        \* acc[r]: step and locals of request r
    changed,    \* history: changed[u][f], the last value an update confirmed
    died,       \* history: users with a request that stopped half way
    overlapped, \* history: users two of whose requests met between read and write
    clashed     \* history: users of a name an external user got while it was held or chosen

accVars == <<username, external, stored, settings, acc, changed, died, overlapped, clashed>>

Defaults == [f \in Fields |-> 0]

CreateSteps == {"register.create", "register.session", "settings.find", "settings.create",
                "external.create", "external.answer"}

AccSteps == CreateSteps \cup {"idle", "external.store", "settings.update"}

AccIdle == [step |-> "idle", user |-> None, name |-> None, row |-> 0, value |-> Defaults,
            field |-> None]

AccInit ==
    /\ username = [u \in Users |-> None]
    /\ external \in SUBSET Users
    /\ stored = {}
    /\ settings = [u \in Users |-> <<>>]
    /\ acc = [r \in Requests |-> AccIdle]
    /\ changed = [u \in Users |-> Defaults]
    /\ died = {}
    /\ overlapped = {}
    /\ clashed = {}

-----------------------------------------------------------------------------
AccAt(r, step) == acc[r].step = step

Go(r, step) == acc' = [acc EXCEPT ![r].step = step]

AccFinish(r) == acc' = [acc EXCEPT ![r] = AccIdle]

Account(u) == username[u] # None

Busy(u) == \E r \in Requests : acc[r].user = u

\* A request begins; whom else it is between read and write with is recorded:
\* the same user, or another one who is choosing the same name.
Begin(r, u, step, name) ==
    LET met == {q \in Requests : acc[q].user = u \/ (name # None /\ acc[q].name = name)}
    IN /\ AccAt(r, "idle")
       /\ acc' = [acc EXCEPT ![r] = [AccIdle EXCEPT !.step = step, !.user = u, !.name = name]]
       /\ overlapped' = IF met = {} THEN overlapped
                        ELSE overlapped \cup {u} \cup {acc[q].user : q \in met}

-----------------------------------------------------------------------------
(* Registration with a password *)

Register(r, u, name) ==
    /\ u \notin external
    /\ ~Account(u) /\ \A v \in Users : username[v] # name
    /\ Begin(r, u, "register.create", name)
    /\ UNCHANGED <<username, external, stored, settings, changed, died, clashed>>

\* The unique index on email rejects the second of two.
RegisterCreate(r) ==
    LET u == acc[r].user
    IN /\ AccAt(r, "register.create")
       /\ \/ /\ ~Account(u)
             /\ username' = [username EXCEPT ![u] = acc[r].name]
             /\ Go(r, "register.session")
          \/ /\ Account(u)
             /\ AccFinish(r)
             /\ UNCHANGED username
       /\ UNCHANGED <<external, stored, settings, changed, died, overlapped, clashed>>

RegisterSession(r) ==
    /\ AccAt(r, "register.session")
    /\ stored' = stored \cup {acc[r].user}
    /\ Go(r, "settings.find")
    /\ UNCHANGED <<username, external, settings, changed, died, overlapped, clashed>>

-----------------------------------------------------------------------------
(* loginWithOAuth *)

LoginWithOAuth(r, u) ==
    /\ u \in external
    /\ \/ ~Account(u) /\ Begin(r, u, "external.create", None)
       \/ Account(u) /\ u \in stored /\ Begin(r, u, "external.answer", None)
       \/ Account(u) /\ u \notin stored /\ Begin(r, u, "external.store", None)
    /\ UNCHANGED <<username, external, stored, settings, changed, died, clashed>>

\* Who has this name, or has found it free and is about to register with it.
Namesakes(name) ==
    {v \in Users : \/ username[v] = name
                   \/ \E q \in Requests : /\ AccAt(q, "register.create")
                                            /\ acc[q].user = v /\ acc[q].name = name}

\* The name is the full name and the id at the provider, whoever else has it.
ExternalCreate(r) ==
    LET u == acc[r].user
    IN /\ AccAt(r, "external.create")
       /\ \/ /\ ~Account(u)
             /\ \E name \in Usernames :
                  /\ username' = [username EXCEPT ![u] = name]
                  /\ acc' = [acc EXCEPT ![r].step = "external.answer", ![r].name = name]
                  /\ clashed' = IF Namesakes(name) = {} THEN clashed
                                ELSE clashed \cup {u} \cup Namesakes(name)
          \/ /\ Account(u)
             /\ AccFinish(r)
             /\ UNCHANGED <<username, clashed>>
       /\ UNCHANGED <<external, stored, settings, changed, died, overlapped>>

\* The answer sets a new refresh token that no row holds: a known user keeps
\* the row found, and a new one's create is not awaited and never sent.  A new
\* user's settings are then initialized.
ExternalAnswer(r) ==
    /\ AccAt(r, "external.answer")
    /\ IF acc[r].name = None THEN AccFinish(r) ELSE Go(r, "settings.find")
    /\ UNCHANGED <<username, external, stored, settings, changed, died, overlapped, clashed>>

ExternalStore(r) ==
    /\ AccAt(r, "external.store")
    /\ stored' = stored \cup {acc[r].user}
    /\ AccFinish(r)
    /\ UNCHANGED <<username, external, settings, changed, died, overlapped, clashed>>

\* Sessions expire, are revoked, or are left behind by a new address.
SessionsEnd(u) ==
    /\ u \in stored
    /\ stored' = stored \ {u}
    /\ UNCHANGED <<username, external, settings, acc, changed, died, overlapped, clashed>>

-----------------------------------------------------------------------------
(* Privacy settings *)

\* initializeDefaultSettings, at a login or on request, and createPrivacySettings;
\* what a row is created with counts as the first value of every setting.
CreatePrivacySettings(r, u) ==
    /\ Account(u)
    /\ Begin(r, u, "settings.find", None)
    /\ UNCHANGED <<username, external, stored, settings, changed, died, clashed>>

SettingsFind(r) ==
    /\ AccAt(r, "settings.find")
    /\ IF settings[acc[r].user] = <<>> THEN Go(r, "settings.create") ELSE AccFinish(r)
    /\ UNCHANGED <<username, external, stored, settings, changed, died, overlapped, clashed>>

SettingsCreate(r) ==
    LET u == acc[r].user
    IN /\ AccAt(r, "settings.create")
       /\ Len(settings[u]) < MaxRows
       /\ settings' = [settings EXCEPT ![u] = Append(@, Defaults)]
       /\ AccFinish(r)
       /\ UNCHANGED <<username, external, stored, changed, died, overlapped, clashed>>

\* Some row of the user is read and the change merged into it.
UpdatePrivacySettings(r, u, f) ==
    /\ changed[u][f] < MaxValue
    /\ \E row \in DOMAIN settings[u] :
         /\ AccAt(r, "idle")
         /\ acc' = [acc EXCEPT ![r] = [AccIdle EXCEPT !.step = "settings.update", !.user = u,
                      !.row = row, !.field = f,
                      !.value = [settings[u][row] EXCEPT ![f] = changed[u][f] + 1]]]
         /\ overlapped' = IF Busy(u) THEN overlapped \cup {u} ELSE overlapped
    /\ UNCHANGED <<username, external, stored, settings, changed, died, clashed>>

\* Mutant: the row becomes what this update knows of, over the defaults.
SettingsUpdateAlone(r) ==
    LET u == acc[r].user
        f == acc[r].field
    IN /\ AccAt(r, "settings.update")
       /\ settings' = [settings EXCEPT ![u][acc[r].row] = [Defaults EXCEPT ![f] = acc[r].value[f]]]
       /\ changed' = [changed EXCEPT ![u][f] = acc[r].value[f]]
       /\ AccFinish(r)
       /\ UNCHANGED <<username, external, stored, died, overlapped, clashed>>

SettingsUpdate(r) ==
    LET u == acc[r].user
        f == acc[r].field
    IN /\ AccAt(r, "settings.update")
       /\ settings' = [settings EXCEPT ![u][acc[r].row] = acc[r].value]
       /\ changed' = [changed EXCEPT ![u][f] = acc[r].value[f]]
       /\ AccFinish(r)
       /\ UNCHANGED <<username, external, stored, died, overlapped, clashed>>

-----------------------------------------------------------------------------
\* The process dies, or the next query of the request throws.
RequestDies(r) ==
    /\ ~AccAt(r, "idle")
    /\ died' = IF acc[r].step \in CreateSteps THEN died \cup {acc[r].user} ELSE died
    /\ AccFinish(r)
    /\ UNCHANGED <<username, external, stored, settings, changed, overlapped, clashed>>

AccNext ==
    \/ \E u \in Users : SessionsEnd(u)
    \/ \E r \in Requests :
         \/ \E u \in Users :
              \/ \E n \in Usernames : Register(r, u, n)
              \/ \E f \in Fields : UpdatePrivacySettings(r, u, f)
              \/ LoginWithOAuth(r, u)
              \/ CreatePrivacySettings(r, u)
         \/ RegisterCreate(r)
         \/ RegisterSession(r)
         \/ ExternalCreate(r)
         \/ ExternalAnswer(r)
         \/ ExternalStore(r)
         \/ SettingsFind(r)
         \/ SettingsCreate(r)
         \/ SettingsUpdate(r)
         \/ RequestDies(r)

-----------------------------------------------------------------------------
(* The types of the rows and of the requests. *)
AccTypeOK ==
    LET Row == [Fields -> 0 .. MaxValue]
        Names == Usernames \cup {None}
    IN /\ username \in [Users -> Names]
       /\ stored \subseteq Users
       /\ external \subseteq Users
       /\ \A u \in Users : Len(settings[u]) <= MaxRows /\ \A i \in DOMAIN settings[u] : settings[u][i] \in Row
       /\ acc \in [Requests -> [step : AccSteps, user : Users \cup {None}, name : Names,
                                row : 0 .. MaxRows, value : Row, field : Fields \cup {None}]]
       /\ changed \in [Users -> Row]
       /\ died \subseteq Users
       /\ overlapped \subseteq Users
       /\ clashed \subseteq Users

(* A user's requests that do not overlap see to it that an account has its   *)
(* settings as soon as nothing is in flight for it (unless a request died),  *)
(* and that they are one row, holding every confirmed change.  Nobody else   *)
(* bears the user's name, unless an external user was given it while it was  *)
(* held or being registered: registration never takes a name that is held.   *)
SettingsFollowTheUser ==
    \A u \in Users \ overlapped :
        /\ (Account(u) /\ ~Busy(u) /\ u \notin died) => settings[u] # <<>>
        /\ Len(settings[u]) <= 1
        /\ \A i \in DOMAIN settings[u] : settings[u][i] = changed[u]
        /\ u \notin clashed => \A v \in Users \ {u} : Account(u) => username[v] # username[u]
=============================================================================
