------------------------------ MODULE Account ------------------------------
(***************************************************************************)
(* One user's account under overlapping requests: the record in            *)
(* UserRepository, the secret and the backup codes in MfaRepository and    *)
(* the history in PasswordHistoryRepository.  A step is the code between   *)
(* two awaits, of bcrypt or of a repository, and the other requests of the *)
(* account run in between.  A request that is refused for what it asks, or *)
(* without having waited for bcrypt (no such user, the policy, a wrong     *)
(* setup code, an address that is taken), changes nothing and is no step.  *)
(*                                                                         *)
(* The handlers replace the whole user record; the password and the MFA    *)
(* fields stand for all of its fields.  Passwords and codes stand for      *)
(* their hashes, and a code is random enough never to be drawn twice.  Of  *)
(* a password's characters the policy looks at their number and kinds.     *)
(* SetupMfaUseCase stores nothing: the secret it hands out comes back with *)
(* the request that verifies it, which may bring any secret.               *)
(***************************************************************************)
EXTENDS Integers, FiniteSets, SequencesExt

CONSTANTS
    Requests,        \* requests of this user that may be open at one time
    Passwords,
    Shape,           \* [Passwords -> [length, kinds]]
    MinLength, MaxLength, RequiredKinds,    \* PasswordPolicy
    Secrets,         \* bound: secrets that a setup is verified with
    Codes,           \* bound: backup codes drawn over the account's life
    CodeCount,       \* codes in a batch (10 in the code)
    HistoryCount,    \* PasswordPolicy.historyCount
    None

Kind == {"uppercase", "lowercase", "number", "symbol"}

\* PasswordPolicy.create: what it throws for aside, a policy is in effect.
ValidPolicy ==
    /\ MinLength \in Nat \ {0} /\ MaxLength \in MinLength..1024
    /\ RequiredKinds \subseteq Kind
    /\ HistoryCount \in 0..100

ASSUME PolicyAssumption == ValidPolicy /\ CodeCount \in Nat \ {0}
\* What the model keeps of a user's record; without MFA there is no secret.
User == [password : Passwords, mfa : Secrets \cup {None}]

ASSUME DataAssumption ==
    /\ Shape \in [Passwords -> [length : Nat, kinds : SUBSET Kind]]
    /\ None \notin Passwords \cup Secrets \cup Codes \cup Requests
    /\ None \notin User
    /\ IsFiniteSet(Codes) /\ IsFiniteSet(Requests)

\* PasswordPolicy.validate
Validate(p) ==
    /\ Shape[p].length \in MinLength..MaxLength
    /\ RequiredKinds \subseteq Shape[p].kinds

Allowed == {p \in Passwords : Validate(p)}

VARIABLES
    user,       \* the record in `users`, None after delete
    secret,     \* the user's entry in `secrets`
    unused,     \* the codes in the user's entry in `backupCodes` not used yet
    history,    \* the user's entry in historyStore, newest first
    drawn,      \* codes generated so far
    accepted,   \* codes a verification succeeded with
    at,         \* each open request: what it does next
    snap,       \* the record it read, or the one it has saved
    code, new   \* the code it verifies, the password it sets

mfaStore == <<secret, unused, drawn>>
request == <<at, snap, code, new>>
vars == <<user, mfaStore, history, accepted, request>>

\* What a request does when the await it is in is over, by the use case; each list
\* begins with what follows findById.
Verifying == {"enable", "saveSecret"}               \* VerifyMfa, SETUP
Disabling == {"disable", "deleteSecret", "deleteCodes"}
Generating == {"regenerate", "lookUp", "saveCodes"} \* GenerateBackupCodes
LoggingIn == {"records", "mark"}                    \* VerifyMfa, LOGIN
Changing == {"change", "savePassword", "trim"}      \* ChangePassword
Wait == {"idle", "update"} \cup Verifying \cup Disabling \cup Generating
          \cup LoggingIn \cup Changing
Holding == Verifying \cup Changing \cup {"disable", "deleteSecret", "update"}

\* Changes that have pushed a password and not yet cut the history.
Trimming == {r \in Requests : at[r] = "trim"}

\* Types; the history exceeds its bound by the changes that will still cut it, and
\* neither it nor a change in flight has a password that the policy refuses,
\* though the account may have one.
TypeOK ==
    /\ user \in User \cup {None} /\ secret \in Secrets \cup {None}
    /\ unused \subseteq Codes /\ drawn \subseteq Codes /\ accepted \subseteq Codes
    /\ history \in Seq(Allowed)
    /\ Len(history) <= HistoryCount + Cardinality(Trimming)
    /\ at \in [Requests -> Wait]
    /\ snap \in [Requests -> User \cup {None}]
    /\ code \in [Requests -> Codes \cup {None}]
    /\ new \in [Requests -> Allowed \cup {None}]
    /\ \A r \in Requests :
        /\ at[r] \in Holding => snap[r] # None
        /\ at[r] \in Changing => new[r] # None
        /\ at[r] = "mark" <=> code[r] # None

\* UserRepository.create: a user starts without MFA and without a history, and
\* with a password that the policy was not asked about.
Init ==
    /\ user \in [password : Passwords, mfa : {None}]
    /\ secret = None /\ unused = {} /\ history = <<>>
    /\ drawn = {} /\ accepted = {}
    /\ at = [r \in Requests |-> "idle"] /\ snap = [r \in Requests |-> None]
    /\ code = [r \in Requests |-> None] /\ new = [r \in Requests |-> None]

-----------------------------------------------------------------------------
\* A request goes on to w with the record u and the password p, or is answered.
Goto(r, w, u, p) ==
    /\ at' = [at EXCEPT ![r] = w] /\ snap' = [snap EXCEPT ![r] = u]
    /\ new' = [new EXCEPT ![r] = p] /\ UNCHANGED code
Answer(r) ==
    /\ at' = [at EXCEPT ![r] = "idle"] /\ snap' = [snap EXCEPT ![r] = None]
    /\ new' = [new EXCEPT ![r] = None] /\ code' = [code EXCEPT ![r] = None]

\* Every handler reads the record first: verification of a setup, whether or not
\* MFA is on, and of a login, disabling, regeneration of the codes, change of the
\* password, of the address and of the role.
FindById(r) ==
    /\ at[r] = "idle" /\ user # None
    /\ \/ Goto(r, "enable", user, None)
       \/ Goto(r, "records", None, None)
       \/ user.mfa # None /\ Goto(r, "disable", user, None)
       \/ Goto(r, "regenerate", None, None)
       \/ \E p \in Allowed : Goto(r, "change", user, p)
       \/ Goto(r, "update", user, None)
    /\ UNCHANGED <<user, mfaStore, history, accepted>>

\* The password that was compared is wrong, or no record has the code.
Refused(r) ==
    /\ at[r] \in {"disable", "regenerate", "change", "records"}
    /\ Answer(r)
    /\ UNCHANGED <<user, mfaStore, history, accepted>>

-----------------------------------------------------------------------------
(***************************************************************************)
(* VerifyMfaUseCase in a setup and DisableMfaUseCase: the record is saved, *)
(* and created if it is gone; then the secret is stored or deleted.        *)
(***************************************************************************)
RecordEnabled(r) ==
    /\ at[r] = "enable"
    /\ \E s \in Secrets : user' = [snap[r] EXCEPT !.mfa = s]
    /\ Goto(r, "saveSecret", user', None)
    /\ UNCHANGED <<mfaStore, history, accepted>>

SecretSaved(r) ==
    /\ at[r] = "saveSecret" /\ secret' = snap[r].mfa
    /\ Goto(r, "lookUp", None, None)
    /\ UNCHANGED <<user, unused, drawn, history, accepted>>

\* Mutant: the secret outlives the record's.
RecordAloneDisabled(r) ==
    /\ at[r] = "disable"
    /\ user' = [snap[r] EXCEPT !.mfa = None]
    /\ Goto(r, "deleteCodes", None, None)
    /\ UNCHANGED <<mfaStore, history, accepted>>

RecordDisabled(r) ==
    /\ at[r] = "disable"
    /\ user' = [snap[r] EXCEPT !.mfa = None]
    /\ Goto(r, "deleteSecret", user', None)
    /\ UNCHANGED <<mfaStore, history, accepted>>

SecretDeleted(r) ==
    /\ at[r] = "deleteSecret" /\ secret' = None
    /\ Goto(r, "deleteCodes", None, None)
    /\ UNCHANGED <<user, unused, drawn, history, accepted>>

\* deleteBackupCodes, the end of disabling and the beginning of a regeneration.
BackupCodesDeleted(r) ==
    /\ at[r] \in {"deleteCodes", "regenerate"} /\ unused' = {}
    /\ IF at[r] = "regenerate" THEN Goto(r, "lookUp", None, None) ELSE Answer(r)
    /\ UNCHANGED <<user, secret, drawn, history, accepted>>

\* GenerateBackupCodesUseCase: the user is looked for, the codes are hashed, and
\* saveBackupCodes replaces those that are stored.
UserLookedUp(r) ==
    /\ at[r] = "lookUp"
    /\ IF user = None THEN Answer(r) ELSE Goto(r, "saveCodes", None, None)
    /\ UNCHANGED <<user, mfaStore, history, accepted>>

BackupCodesSaved(r) ==
    /\ at[r] = "saveCodes"
    /\ unused' \in SUBSET (Codes \ drawn) /\ Cardinality(unused') = CodeCount
    /\ drawn' = drawn \cup unused'
    /\ Answer(r)
    /\ UNCHANGED <<user, secret, history, accepted>>

-----------------------------------------------------------------------------
(***************************************************************************)
(* VerifyMfaUseCase in a login, with a backup code.                        *)
(***************************************************************************)
\* Mutant: records that were used are compared as well.
AnyCodeMatches(r) ==
    /\ at[r] = "records"
    /\ \E c \in drawn : code' = [code EXCEPT ![r] = c]
    /\ at' = [at EXCEPT ![r] = "mark"] /\ UNCHANGED <<snap, new>>
    /\ UNCHANGED <<user, mfaStore, history, accepted>>

\* The code is that of one of the records, among those unused when they are read.
CodeMatches(r) ==
    /\ at[r] = "records"
    /\ \E c \in unused : code' = [code EXCEPT ![r] = c]
    /\ at' = [at EXCEPT ![r] = "mark"] /\ UNCHANGED <<snap, new>>
    /\ UNCHANGED <<user, mfaStore, history, accepted>>

\* Mutant: the code is accepted and not marked.
CodeUnmarked(r) ==
    /\ at[r] = "mark" /\ accepted' = accepted \cup {code[r]}
    /\ Answer(r)
    /\ UNCHANGED <<user, mfaStore, history>>

\* The code is marked if it is still stored, and accepted in any case.
CodeMarked(r) ==
    /\ at[r] = "mark"
    /\ unused' = unused \ {code[r]} /\ accepted' = accepted \cup {code[r]}
    /\ Answer(r)
    /\ UNCHANGED <<user, secret, drawn, history>>

-----------------------------------------------------------------------------
(***************************************************************************)
(* ChangePasswordUseCase; UpdateUserUseCase and ChangeUserRoleUseCase have *)
(* its last step only.                                                     *)
(***************************************************************************)
\* The newest HistoryCount entries.
KeepLatest(s) == SubSeq(s, 1, IF Len(s) < HistoryCount THEN Len(s) ELSE HistoryCount)

\* The history is read once and then compared, one await for each entry.
CheckPasswordInHistory(r) ==
    /\ at[r] = "change"
    /\ IF Contains(KeepLatest(history), new[r]) THEN Answer(r)
                                    ELSE Goto(r, "savePassword", snap[r], new[r])
    /\ UNCHANGED <<user, mfaStore, history, accepted>>

PasswordSaved(r) ==
    /\ at[r] = "savePassword" /\ history' = Cons(new[r], history)
    /\ Goto(r, "trim", snap[r], new[r])
    /\ UNCHANGED <<user, mfaStore, accepted>>

\* Mutant: the history is not cut.
HistoryKept(r) ==
    /\ at[r] = "trim" /\ Goto(r, "update", snap[r], new[r])
    /\ UNCHANGED <<user, mfaStore, history, accepted>>

OldHistoryDeleted(r) ==
    /\ at[r] = "trim" /\ history' = KeepLatest(history)
    /\ Goto(r, "update", snap[r], new[r])
    /\ UNCHANGED <<user, mfaStore, accepted>>

\* The record as it was read, with the new password if there is one.
Updated(r) == IF new[r] = None THEN snap[r] ELSE [snap[r] EXCEPT !.password = new[r]]

\* Mutant: the record is saved instead of updated.
UserSaved(r) ==
    /\ at[r] = "update" /\ user' = Updated(r)
    /\ Answer(r)
    /\ UNCHANGED <<mfaStore, history, accepted>>

\* update() throws if the user is gone, after the history was written.
UserUpdated(r) ==
    /\ at[r] = "update"
    /\ user' = IF user = None THEN None ELSE Updated(r)
    /\ Answer(r)
    /\ UNCHANGED <<mfaStore, history, accepted>>

\* DeleteUserUseCase: the other repositories keep what they have.
DeleteUser ==
    /\ user # None /\ user' = None
    /\ UNCHANGED <<mfaStore, history, accepted, request>>

-----------------------------------------------------------------------------
Resume(r) == \/ RecordEnabled(r) \/ SecretSaved(r)
             \/ RecordDisabled(r) \/ SecretDeleted(r)
             \/ BackupCodesDeleted(r) \/ UserLookedUp(r) \/ BackupCodesSaved(r)
             \/ CodeMatches(r) \/ CodeMarked(r) \/ Refused(r)
             \/ CheckPasswordInHistory(r) \/ PasswordSaved(r)
             \/ OldHistoryDeleted(r) \/ UserUpdated(r)
Next == \/ \E r \in Requests : FindById(r) \/ Resume(r)
        \/ DeleteUser

Spec == Init /\ [][Next]_vars
\* bcrypt and the repositories answer.
FairSpec == Spec /\ \A r \in Requests : WF_vars(Resume(r))

-----------------------------------------------------------------------------
(***************************************************************************)
(* Properties.                                                             *)
(***************************************************************************)
\* A code that let somebody in is never unused again, whatever verifications,
\* regenerations and setups were in flight when it did: only those that had
\* read it by then can still succeed with it.
AcceptedIsSpent == accepted \cap unused = {}

\* The backup codes are a ledger in which a verification claims what it read.
Ledger == INSTANCE CodeLedger
            WITH Claimants <- Requests, live <- unused, spent <- accepted,
                 claim <- code
KeepsLedger == Ledger!Spec

\* The record and the MFA store have the same secret, or somebody who has written
\* the record is about to write the store.
InStep == \/ user = None \/ user.mfa = secret
          \/ \E r \in Requests : at[r] \in {"saveSecret", "deleteSecret"}

\* The record that a request has read, or has saved, is not what is stored now.
Outdated(r) == user # None /\ snap[r].mfa # user.mfa

\* They come out of step in two ways only.  A change of password, address or role
\* writes back MFA fields that it read before they were switched; or a setup or a
\* disable request, between its two writes, is overtaken by another write of the
\* record.  No deletion, revival, regeneration or login parts them.
OnlyOutdatedUnhinge ==
    [][InStep => InStep' \/ \E r \in Requests :
        (UserUpdated(r) \/ SecretSaved(r) \/ SecretDeleted(r)) /\ Outdated(r)]_vars

\* Those that have read the record and will save it.
Savers == {r \in Requests : at[r] \in {"enable", "disable"}}

\* A deleted account comes back only by the save() of a setup or a disable request
\* that read it before it was deleted, and nobody becomes one of these afterwards:
\* once they have answered, the account stays deleted.
OnlySaversRevive ==
    [][user = None =>
        \/ user' = None /\ Savers' \subseteq Savers
        \/ \E r \in Savers : RecordEnabled(r) \/ RecordDisabled(r)]_vars

(***************************************************************************)
(* What the documents say and the code does not keep.                      *)
(***************************************************************************)
\* A backup code is accepted once.
CodeAcceptedOnce ==
    [][\A r \in Requests : CodeMarked(r) => code[r] \notin accepted]_vars

\* A password is changed to one that the account does not have already.
NewPasswordIsNew ==
    [][\A r \in Requests : UserUpdated(r) /\ new[r] # None /\ user # None
                             /\ HistoryCount > 0 => new[r] # user.password]_vars
=============================================================================
