------------------------------ MODULE TwoFactor ------------------------------
(***************************************************************************)
(* The second factor of one account: generateQrCode, verifyMfaCode,         *)
(* verifyMfa, generateNewBackupCodes and disableMfa of                      *)
(* src/auth/auth.service.ts.                                                *)
(*                                                                          *)
(* Each handler reads the user's row, decides, and writes the row by its id *)
(* whatever it holds by then.  Backup codes are one column that is rewritten*)
(* as a whole.  The sessions a verified factor opens are in AuthSessions.   *)
(***************************************************************************)
EXTENDS Actors

CONSTANTS
    Secrets,     \* TOTP secrets that are generated (bounds the enrolments)
    Batches,     \* sets of backup codes that are generated (bounds them)
    CodeNumbers  \* the codes of one batch

ASSUME TwoFactorAssumption == None \notin Secrets \cup Batches

VARIABLES
    factor,  \* the user's row: secret, enabled, codes
    used,    \* secrets and batches generated so far
    mfa,     \* mfa[r]: step and locals of request r
    proved,  \* history: secrets of which a code was verified at enrolment
    spent,   \* history: backup codes that opened a session
    twice,   \* history: those that opened a second one
    mingled  \* history: some row was written between the read and the write of another

factorVars == <<factor, used, mfa, proved, spent, twice, mingled>>

BackupCode == Batches \X CodeNumbers

FactorRow == [secret : Secrets \cup {None}, enabled : BOOLEAN, codes : SUBSET BackupCode]

\* `row`: what the request will write; `code`: the backup code it was given.
MfaSteps == {"idle", "qr", "enable", "login", "regenerate", "disable"}

MfaIdle == [step |-> "idle", row |-> None, code |-> None]

NoFactor == [secret |-> None, enabled |-> FALSE, codes |-> {}]

FactorInit ==
    /\ factor = NoFactor
    /\ used = {}
    /\ mfa = [r \in Requests |-> MfaIdle]
    /\ proved = {}
    /\ spent = {}
    /\ twice = {}
    /\ mingled = FALSE

-----------------------------------------------------------------------------
MfaAt(r, step) == mfa[r].step = step

Batch(b) == {b} \X CodeNumbers

\* The row is read and judged; `row` is what the update will set it to.
Decide(r, step, row, code) ==
    /\ MfaAt(r, "idle")
    /\ mfa' = [mfa EXCEPT ![r] = [step |-> step, row |-> row, code |-> code]]
    /\ UNCHANGED <<factor, proved, spent, twice, mingled>>

GenerateQrCode(r, s) ==
    /\ ~factor.enabled
    /\ s \notin used
    /\ used' = used \cup {s}
    /\ Decide(r, "qr", [factor EXCEPT !.secret = s], None)

\* A code of the secret just read: a secret must be there, and it may have
\* been enabled already.
VerifyMfaCode(r, b) ==
    /\ factor.secret # None
    /\ b \notin used
    /\ used' = used \cup {b}
    /\ Decide(r, "enable", [factor EXCEPT !.enabled = TRUE, !.codes = Batch(b)], None)

\* A login with a backup code; one with a TOTP code writes nothing.
VerifyMfa(r, c) ==
    /\ factor.secret # None
    /\ c \in factor.codes
    /\ Decide(r, "login", [factor EXCEPT !.codes = @ \ {c}], c)
    /\ UNCHANGED used

GenerateNewBackupCodes(r, b) ==
    /\ factor.enabled
    /\ b \notin used
    /\ used' = used \cup {b}
    /\ Decide(r, "regenerate", [factor EXCEPT !.codes = Batch(b)], None)

DisableMfa(r) ==
    /\ Decide(r, "disable", NoFactor, None)
    /\ UNCHANGED used

-----------------------------------------------------------------------------
\* The update names its columns only; another request that is between its
\* read and its write has now read a row that is no more.
Write(r, row) ==
    /\ factor' = row
    /\ mfa' = [mfa EXCEPT ![r] = MfaIdle]
    /\ mingled' = (mingled \/ \E q \in Requests \ {r} : ~MfaAt(q, "idle"))

WriteSecret(r) ==
    /\ MfaAt(r, "qr")
    /\ Write(r, [factor EXCEPT !.secret = mfa[r].row.secret])
    /\ UNCHANGED <<used, proved, spent, twice>>

WriteEnabled(r) ==
    /\ MfaAt(r, "enable")
    /\ Write(r, [factor EXCEPT !.enabled = TRUE, !.codes = mfa[r].row.codes])
    /\ proved' = proved \cup {mfa[r].row.secret}
    /\ UNCHANGED <<used, spent, twice>>

\* Mutant: the code used is not taken out.
WriteRemainingAll(r) ==
    /\ MfaAt(r, "login")
    /\ Write(r, factor)
    /\ spent' = spent \cup {mfa[r].code}
    /\ twice' = twice \cup ({mfa[r].code} \cap spent)
    /\ UNCHANGED <<used, proved>>

\* The codes that remained when it looked; the session follows.
WriteRemaining(r) ==
    /\ MfaAt(r, "login")
    /\ Write(r, [factor EXCEPT !.codes = mfa[r].row.codes])
    /\ spent' = spent \cup {mfa[r].code}
    /\ twice' = twice \cup ({mfa[r].code} \cap spent)
    /\ UNCHANGED <<used, proved>>

WriteNewCodes(r) ==
    /\ MfaAt(r, "regenerate")
    /\ Write(r, [factor EXCEPT !.codes = mfa[r].row.codes])
    /\ UNCHANGED <<used, proved, spent, twice>>

WriteDisabled(r) ==
    /\ MfaAt(r, "disable")
    /\ Write(r, NoFactor)
    /\ UNCHANGED <<used, proved, spent, twice>>

FactorNext ==
    \E r \in Requests :
        \/ \E s \in Secrets : GenerateQrCode(r, s)
        \/ \E b \in Batches : VerifyMfaCode(r, b) \/ GenerateNewBackupCodes(r, b)
        \/ \E c \in BackupCode : VerifyMfa(r, c)
        \/ DisableMfa(r)
        \/ WriteSecret(r)
        \/ WriteEnabled(r)
        \/ WriteRemaining(r)
        \/ WriteNewCodes(r)
        \/ WriteDisabled(r)

-----------------------------------------------------------------------------
(* The types of the row and of the requests. *)
FactorTypeOK ==
    /\ factor \in FactorRow
    /\ used \subseteq Secrets \cup Batches
    /\ mfa \in [Requests -> [step : MfaSteps, row : FactorRow \cup {None},
                             code : BackupCode \cup {None}]]
    /\ proved \subseteq Secrets
    /\ spent \subseteq BackupCode
    /\ twice \subseteq spent
    /\ mingled \in BOOLEAN

(* As long as no handler wrote while another one stood between its read and  *)
(* its write, a backup code opens one session and never comes back, and an   *)
(* enabled second factor has a secret of which the user has shown a code.    *)
SecondFactorHolds ==
    ~mingled =>
        /\ twice = {}
        /\ factor.codes \cap spent = {}
        /\ factor.enabled => factor.secret \in proved
=============================================================================
