--------------------------- MODULE AccountProofs ---------------------------
(***************************************************************************)
(* TLAPS proofs about Account, for any number of requests, passwords,      *)
(* secrets and codes: the typing invariant with the bound of the history,  *)
(* that accepted codes are spent, that the backup codes keep the ledger,   *)
(* which writes take the record and the secret apart, and which writes     *)
(* bring a deleted account back.                                           *)
(***************************************************************************)
EXTENDS Account, ListLemmas, FiniteSetTheorems, TLAPS

-----------------------------------------------------------------------------
(***************************************************************************)
(* Types.                                                                  *)
(***************************************************************************)
LEMMA HistoryCountTyped == HistoryCount \in Nat
  BY PolicyAssumption DEF ValidPolicy

LEMMA AllowedTyped == Allowed \subseteq Passwords
  BY DEF Allowed

LEMMA NoneIsNoRecord == None \notin Codes /\ None \notin Allowed
  BY DataAssumption, AllowedTyped

\* The parts of TypeOK: what the repositories hold, what the requests hold, and
\* the bound of the history.
StoreTypes ==
    /\ user \in User \cup {None} /\ secret \in Secrets \cup {None}
    /\ unused \subseteq Codes /\ drawn \subseteq Codes /\ accepted \subseteq Codes
    /\ history \in Seq(Allowed)
RequestTypes ==
    /\ at \in [Requests -> Wait]
    /\ snap \in [Requests -> User \cup {None}]
    /\ code \in [Requests -> Codes \cup {None}]
    /\ new \in [Requests -> Allowed \cup {None}]
    /\ \A r \in Requests :
        /\ at[r] \in Holding => snap[r] # None
        /\ at[r] \in Changing => new[r] # None
        /\ at[r] = "mark" <=> code[r] # None
HistoryBounded == Len(history) <= HistoryCount + Cardinality(Trimming)

LEMMA TypeParts == TypeOK <=> StoreTypes /\ RequestTypes /\ HistoryBounded
  BY DEF TypeOK, StoreTypes, RequestTypes, HistoryBounded

\* The sets of labels, member by member.
LEMMA Labels ==
    /\ Wait = {"idle", "update", "enable", "saveSecret", "disable", "deleteSecret",
               "deleteCodes", "regenerate", "lookUp", "saveCodes", "records", "mark",
               "change", "savePassword", "trim"}
    /\ Holding = {"enable", "saveSecret", "disable", "deleteSecret", "update",
                  "change", "savePassword", "trim"}
    /\ Changing = {"change", "savePassword", "trim"}
  BY DEF Wait, Holding, Changing, Verifying, Disabling, Generating, LoggingIn

LEMMA TrimmingTyped ==
    IsFiniteSet(Trimming) /\ Cardinality(Trimming) \in Nat
<1>1. Trimming \in SUBSET Requests
  BY DEF Trimming
<1> QED
  BY <1>1, DataAssumption, FS_Subset, FS_CardinalityType

LEMMA InitTyped == Init => TypeOK
<1> SUFFICES ASSUME Init PROVE TypeOK
  OBVIOUS
<1>1. StoreTypes
  BY DEF Init, StoreTypes, User
<1>2. RequestTypes
  BY Labels DEF Init, RequestTypes
<1>3. HistoryBounded
  BY HistoryCountTyped, TrimmingTyped DEF Init, HistoryBounded
<1> QED
  BY <1>1, <1>2, <1>3, TypeParts

LEMMA AnswerTyped ==
    ASSUME RequestTypes, NEW r \in Requests, Answer(r) PROVE RequestTypes'
  BY Labels DEF RequestTypes, Answer

LEMMA GotoTyped ==
    ASSUME RequestTypes, NEW r \in Requests, NEW w \in Wait, w # "mark",
           NEW u \in User \cup {None}, NEW p \in Allowed \cup {None},
           w \in Holding => u # None, w \in Changing => p # None,
           at[r] # "mark", Goto(r, w, u, p)
    PROVE  RequestTypes'
  BY DEF RequestTypes, Goto

\* deleteOldHistory keeps at most HistoryCount entries.
LEMMA LatestKept ==
    ASSUME NEW s \in Seq(Allowed)
    PROVE  KeepLatest(s) \in Seq(Allowed) /\ Len(KeepLatest(s)) <= HistoryCount
<1> DEFINE n == IF Len(s) < HistoryCount THEN Len(s) ELSE HistoryCount
<1>1. n \in 0..Len(s) /\ n <= HistoryCount
  BY HistoryCountTyped
<1>2. SubSeq(s, 1, n) \in Seq(Allowed) /\ Len(SubSeq(s, 1, n)) = n
  BY <1>1
<1> QED
  BY <1>1, <1>2 DEF KeepLatest

LEMMA FindByIdTyped ==
    ASSUME StoreTypes, RequestTypes, NEW r \in Requests, FindById(r)
    PROVE  StoreTypes' /\ RequestTypes'
<1>1. StoreTypes'
  BY DEF FindById, mfaStore, StoreTypes
<1>2. user \in User /\ user # None /\ at[r] # "mark"
  BY DEF FindById, StoreTypes
<1>3. ASSUME NEW p \in Allowed, Goto(r, "change", user, p) PROVE RequestTypes'
  <2>1. "change" \in Wait /\ p # None
    BY Labels, NoneIsNoRecord
  <2> QED
    BY <1>2, <1>3, <2>1, GotoTyped
<1>4. ASSUME NEW w \in {"enable", "disable", "update"}, Goto(r, w, user, None)
      PROVE  RequestTypes'
  <2>1. w \in Wait /\ w # "mark" /\ w \notin Changing
    BY Labels
  <2> QED
    BY <1>2, <1>4, <2>1, GotoTyped
<1>5. ASSUME NEW w \in {"records", "regenerate"}, Goto(r, w, None, None)
      PROVE  RequestTypes'
  <2>1. w \in Wait /\ w # "mark" /\ w \notin Holding /\ w \notin Changing
    BY Labels
  <2> QED
    BY <1>2, <1>5, <2>1, GotoTyped
<1> QED
  BY <1>1, <1>3, <1>4, <1>5 DEF FindById

LEMMA ResumeTyped ==
    ASSUME StoreTypes, RequestTypes, NEW r \in Requests, Resume(r)
    PROVE  StoreTypes' /\ RequestTypes'
<1>1. CASE RecordEnabled(r)
  <2>1. snap[r] \in User /\ at[r] # "mark"
    BY <1>1, Labels DEF RecordEnabled, RequestTypes
  <2>2. user' \in User /\ user' # None
    BY <1>1, <2>1, DataAssumption DEF RecordEnabled, User
  <2>3. StoreTypes'
    BY <1>1, <2>2 DEF RecordEnabled, mfaStore, StoreTypes
  <2> QED
    BY <1>1, <2>1, <2>2, <2>3, Labels, GotoTyped DEF RecordEnabled
<1>2. CASE SecretSaved(r)
  <2>1. snap[r] \in User /\ at[r] # "mark"
    BY <1>2, Labels DEF SecretSaved, RequestTypes
  <2>2. StoreTypes'
    BY <1>2, <2>1 DEF SecretSaved, StoreTypes, User
  <2> QED
    BY <1>2, <2>1, <2>2, Labels, GotoTyped DEF SecretSaved
<1>3. CASE RecordDisabled(r)
  <2>1. snap[r] \in User /\ at[r] # "mark"
    BY <1>3, Labels DEF RecordDisabled, RequestTypes
  <2>2. user' \in User /\ user' # None
    BY <1>3, <2>1, DataAssumption DEF RecordDisabled, User
  <2>3. StoreTypes'
    BY <1>3, <2>2 DEF RecordDisabled, mfaStore, StoreTypes
  <2> QED
    BY <1>3, <2>1, <2>2, <2>3, Labels, GotoTyped DEF RecordDisabled
<1>4. CASE SecretDeleted(r)
  <2>1. StoreTypes'
    BY <1>4 DEF SecretDeleted, StoreTypes
  <2> QED
    BY <1>4, <2>1, Labels, GotoTyped DEF SecretDeleted
<1>5. CASE BackupCodesDeleted(r)
  <2>1. StoreTypes'
    BY <1>5 DEF BackupCodesDeleted, StoreTypes
  <2> QED
    BY <1>5, <2>1, Labels, AnswerTyped, GotoTyped DEF BackupCodesDeleted
<1>6. CASE UserLookedUp(r)
  <2>1. StoreTypes'
    BY <1>6 DEF UserLookedUp, mfaStore, StoreTypes
  <2> QED
    BY <1>6, <2>1, Labels, AnswerTyped, GotoTyped DEF UserLookedUp
<1>7. CASE BackupCodesSaved(r)
  <2>1. StoreTypes'
    BY <1>7 DEF BackupCodesSaved, StoreTypes
  <2> QED
    BY <1>7, <2>1, AnswerTyped DEF BackupCodesSaved
<1>8. CASE CodeMatches(r)
  <2>1. PICK c \in Codes : code' = [code EXCEPT ![r] = c]
    BY <1>8 DEF CodeMatches, StoreTypes
  <2>2. RequestTypes'
    BY <1>8, <2>1, Labels, NoneIsNoRecord DEF CodeMatches, RequestTypes
  <2> QED
    BY <1>8, <2>2 DEF CodeMatches, mfaStore, StoreTypes
<1>9. CASE CodeMarked(r)
  <2>1. code[r] \in Codes
    BY <1>9 DEF CodeMarked, RequestTypes
  <2>2. StoreTypes'
    BY <1>9, <2>1 DEF CodeMarked, StoreTypes
  <2> QED
    BY <1>9, <2>2, AnswerTyped DEF CodeMarked
<1>10. CASE Refused(r)
  <2>1. StoreTypes'
    BY <1>10 DEF Refused, mfaStore, StoreTypes
  <2> QED
    BY <1>10, <2>1, AnswerTyped DEF Refused
<1>11. CASE CheckPasswordInHistory(r)
  <2>1. StoreTypes'
    BY <1>11 DEF CheckPasswordInHistory, mfaStore, StoreTypes
  <2>2. snap[r] \in User /\ snap[r] # None /\ new[r] \in Allowed /\ at[r] # "mark"
    BY <1>11, Labels DEF CheckPasswordInHistory, RequestTypes
  <2> QED
    BY <1>11, <2>1, <2>2, Labels, NoneIsNoRecord, AnswerTyped, GotoTyped
    DEF CheckPasswordInHistory
<1>12. CASE PasswordSaved(r)
  <2>1. snap[r] \in User /\ snap[r] # None /\ new[r] \in Allowed /\ at[r] # "mark"
    BY <1>12, Labels DEF PasswordSaved, RequestTypes
  <2>2. StoreTypes'
    BY <1>12, <2>1, ConsElements DEF PasswordSaved, mfaStore, StoreTypes
  <2> QED
    BY <1>12, <2>1, <2>2, Labels, NoneIsNoRecord, GotoTyped DEF PasswordSaved
<1>13. CASE OldHistoryDeleted(r)
  <2>1. snap[r] \in User /\ snap[r] # None /\ new[r] \in Allowed /\ at[r] # "mark"
    BY <1>13, Labels DEF OldHistoryDeleted, RequestTypes
  <2>2. StoreTypes'
    BY <1>13, LatestKept DEF OldHistoryDeleted, mfaStore, StoreTypes
  <2> QED
    BY <1>13, <2>1, <2>2, Labels, NoneIsNoRecord, GotoTyped DEF OldHistoryDeleted
<1>14. CASE UserUpdated(r)
  <2>1. snap[r] \in User /\ new[r] \in Allowed \cup {None}
    BY <1>14, Labels DEF UserUpdated, RequestTypes
  <2>2. Updated(r) \in User
    BY <2>1, AllowedTyped DEF Updated, User
  <2>3. StoreTypes'
    BY <1>14, <2>2 DEF UserUpdated, mfaStore, StoreTypes
  <2> QED
    BY <1>14, <2>3, AnswerTyped DEF UserUpdated
<1> QED
  BY <1>1, <1>2, <1>3, <1>4, <1>5, <1>6, <1>7, <1>8, <1>9, <1>10, <1>11, <1>12,
     <1>13, <1>14 DEF Resume

\* A step of a request that neither pushes a password nor cuts the history leaves
\* it, and those who will cut it, alone.
LEMMA HistoryLeft ==
    ASSUME RequestTypes, NEW r \in Requests,
           FindById(r) \/ Resume(r), ~PasswordSaved(r), ~OldHistoryDeleted(r)
    PROVE  UNCHANGED <<history, Trimming>>
<1>1. at[r] # "trim" /\ history' = history
  BY DEF FindById, Resume, RecordEnabled, SecretSaved, RecordDisabled, SecretDeleted,
         BackupCodesDeleted, UserLookedUp, BackupCodesSaved, CodeMatches, CodeMarked,
         Refused, CheckPasswordInHistory, UserUpdated
<1>2. \E w \in Wait \ {"trim"} : at' = [at EXCEPT ![r] = w]
  BY Labels DEF FindById, Resume, RecordEnabled, SecretSaved, RecordDisabled,
         SecretDeleted, BackupCodesDeleted, UserLookedUp, BackupCodesSaved,
         CodeMatches, CodeMarked, Refused, CheckPasswordInHistory, UserUpdated,
         Goto, Answer
<1>3. Trimming' = Trimming
  BY <1>1, <1>2 DEF Trimming, RequestTypes
<1> QED
  BY <1>1, <1>3

LEMMA HistoryStep ==
    ASSUME StoreTypes, RequestTypes, HistoryBounded, NEW r \in Requests,
           FindById(r) \/ Resume(r)
    PROVE  HistoryBounded'
<1> USE HistoryCountTyped, TrimmingTyped
<1>1. CASE PasswordSaved(r)
  <2>1. r \notin Trimming /\ Trimming' = Trimming \cup {r}
    BY <1>1 DEF PasswordSaved, Goto, Trimming, RequestTypes
  <2>2. Cardinality(Trimming') = Cardinality(Trimming) + 1
    BY <2>1, FS_AddElement
  <2>3. new[r] \in Allowed
    BY <1>1, Labels DEF PasswordSaved, RequestTypes
  <2>4. /\ history \in Seq(Allowed) /\ history' \in Seq(Allowed)
        /\ history' # <<>> /\ Tail(history') = history
    BY <1>1, <2>3, ConsElements DEF PasswordSaved, StoreTypes
  <2>5. Len(history') = Len(history) + 1 /\ Len(history) \in Nat
    BY <2>4
  <2> QED
    BY <2>2, <2>5 DEF HistoryBounded
<1>2. CASE OldHistoryDeleted(r)
  <2>1. Trimming' \in SUBSET Requests
    BY DEF Trimming
  <2>2. Cardinality(Trimming') \in Nat
    BY <2>1, DataAssumption, FS_Subset, FS_CardinalityType
  <2>3. history' \in Seq(Allowed) /\ Len(history') <= HistoryCount
    BY <1>2, LatestKept DEF OldHistoryDeleted, StoreTypes
  <2> QED
    BY <2>2, <2>3 DEF HistoryBounded
<1>3. CASE ~PasswordSaved(r) /\ ~OldHistoryDeleted(r)
  <2>1. UNCHANGED <<history, Trimming>>
    BY <1>3, HistoryLeft
  <2> QED
    BY <2>1 DEF HistoryBounded
<1> QED
  BY <1>1, <1>2, <1>3

LEMMA TypeStep == TypeOK /\ [Next]_vars => TypeOK'
<1> SUFFICES ASSUME TypeOK, [Next]_vars PROVE TypeOK'
  OBVIOUS
<1>1. ASSUME NEW r \in Requests, FindById(r) \/ Resume(r) PROVE TypeOK'
  <2>1. StoreTypes /\ RequestTypes /\ HistoryBounded
    BY TypeParts
  <2>2. StoreTypes' /\ RequestTypes' /\ HistoryBounded'
    BY <1>1, <2>1, FindByIdTyped, ResumeTyped, HistoryStep
  <2> QED
    BY <2>2 DEF TypeOK, StoreTypes, RequestTypes, HistoryBounded
<1>2. CASE DeleteUser
  BY <1>2 DEF DeleteUser, mfaStore, request, TypeOK, Trimming
<1>3. CASE UNCHANGED vars
  BY <1>3 DEF vars, mfaStore, request, TypeOK, Trimming
<1> QED
  BY <1>1, <1>2, <1>3 DEF Next

\* Typing, and with it the bound of the history: it exceeds the policy's count by
\* no more than the changes of the password that are about to cut it.
THEOREM AccountTyping == Spec => []TypeOK
  BY InitTyped, TypeStep, PTL DEF Spec

-----------------------------------------------------------------------------
(***************************************************************************)
(* Accepted codes are spent.  The batch that is saved is fresh only with   *)
(* respect to what was drawn, so the invariant says that everything which  *)
(* is stored, accepted or being verified has been drawn.                   *)
(***************************************************************************)
AllDrawn ==
    /\ unused \cup accepted \subseteq drawn
    /\ \A r \in Requests : code[r] \in drawn \cup {None}
Spending == AllDrawn /\ AcceptedIsSpent

\* What the steps that do not verify, mark or issue a code do to the codes: some
\* delete them, most leave them alone.
LEMMA CodesLeft ==
    ASSUME RequestTypes, NEW r \in Requests,
           FindById(r) \/ Resume(r),
           ~CodeMatches(r), ~CodeMarked(r), ~BackupCodesSaved(r)
    PROVE  /\ unused' = unused \/ unused' = {}
           /\ UNCHANGED <<drawn, accepted, code>>
<1>1. Answer(r) /\ at[r] # "mark" => UNCHANGED code
  BY DEF Answer, RequestTypes
<1>2. CASE FindById(r)
  BY <1>2 DEF FindById, Goto, mfaStore
<1>3. CASE RecordEnabled(r) \/ SecretSaved(r) \/ RecordDisabled(r) \/ SecretDeleted(r)
  BY <1>3 DEF RecordEnabled, SecretSaved, RecordDisabled, SecretDeleted, Goto, mfaStore
<1>4. CASE BackupCodesDeleted(r) \/ UserLookedUp(r)
  BY <1>1, <1>4 DEF BackupCodesDeleted, UserLookedUp, Goto, mfaStore
<1>5. CASE Refused(r)
  <2>1. at[r] # "mark"
    BY <1>5 DEF Refused
  <2> QED
    BY <1>1, <1>5, <2>1 DEF Refused, mfaStore
<1>6. CASE CheckPasswordInHistory(r) \/ PasswordSaved(r) \/ OldHistoryDeleted(r)
             \/ UserUpdated(r)
  BY <1>1, <1>6 DEF CheckPasswordInHistory, PasswordSaved, OldHistoryDeleted,
                    UserUpdated, Goto, mfaStore
<1> QED
  BY <1>2, <1>3, <1>4, <1>5, <1>6 DEF Resume

LEMMA SpendingStep == TypeOK /\ Spending /\ [Next]_vars => Spending'
<1> SUFFICES ASSUME TypeOK, Spending, [Next]_vars PROVE Spending'
  OBVIOUS
<1> USE DEF Spending, AllDrawn, AcceptedIsSpent
<1>1. ASSUME NEW r \in Requests, CodeMatches(r) PROVE Spending'
  BY <1>1 DEF CodeMatches, mfaStore, TypeOK
<1>2. ASSUME NEW r \in Requests, BackupCodesSaved(r) PROVE Spending'
  BY <1>2 DEF BackupCodesSaved, Answer, TypeOK
<1>3. ASSUME NEW r \in Requests, CodeMarked(r) PROVE Spending'
  BY <1>3 DEF CodeMarked, Answer, TypeOK
<1>4. ASSUME NEW r \in Requests, FindById(r) \/ Resume(r),
             ~CodeMatches(r), ~CodeMarked(r), ~BackupCodesSaved(r)
      PROVE  Spending'
  BY <1>4, CodesLeft, TypeParts
<1>5. CASE DeleteUser \/ UNCHANGED vars
  BY <1>5 DEF DeleteUser, vars, mfaStore, request
<1> QED
  BY <1>1, <1>2, <1>3, <1>4, <1>5 DEF Next

LEMMA InitSpending == Init => Spending
  BY DEF Init, Spending, AllDrawn, AcceptedIsSpent

\* A code that was accepted is never unused again.
THEOREM AcceptedStaysSpent == Spec => []AcceptedIsSpent
<1>1. Spending => AcceptedIsSpent
  BY DEF Spending
<1> QED
  BY <1>1, AccountTyping, InitSpending, SpendingStep, PTL DEF Spec

-----------------------------------------------------------------------------
(***************************************************************************)
(* The account implements the ledger: a verification that finds its code   *)
(* claims it and redeems it when it marks it, and whatever else writes     *)
(* backup codes issues a batch, which may be empty.                        *)
(***************************************************************************)
LEMMA LedgerStep ==
    ASSUME TypeOK, Spending, [Next]_vars
    PROVE  [Ledger!Next]_(Ledger!vars)
<1> USE DEF Ledger!Next, Ledger!vars
<1>1. ASSUME NEW r \in Requests, CodeMatches(r) PROVE Ledger!Next
  <2>1. PICK c \in unused : code' = [code EXCEPT ![r] = c]
    BY <1>1 DEF CodeMatches
  <2>2. Ledger!Claim(r, c) /\ c \in Codes
    BY <1>1, <2>1 DEF CodeMatches, Ledger!Claim, mfaStore, TypeOK
  <2> QED
    BY <2>2
<1>2. ASSUME NEW r \in Requests, CodeMarked(r) PROVE Ledger!Next
  <2>1. Ledger!Redeem(r)
    BY <1>2 DEF CodeMarked, Answer, Ledger!Redeem, TypeOK
  <2> QED
    BY <2>1
<1>3. ASSUME unused' \in SUBSET Codes, unused' \cap accepted = {},
             {code[r] : r \in Requests} \cap unused' \subseteq unused,
             UNCHANGED <<accepted, code>>
      PROVE  Ledger!Next
  BY <1>3 DEF Ledger!Issue
<1>4. ASSUME NEW r \in Requests, BackupCodesSaved(r) PROVE Ledger!Next
  <2>1. UNCHANGED <<accepted, code>>
    BY <1>4 DEF BackupCodesSaved, Answer, TypeOK
  <2>2. unused' \in SUBSET (Codes \ drawn)
    BY <1>4 DEF BackupCodesSaved
  <2>3. {code[s] : s \in Requests} \cap unused' \subseteq unused
    BY <2>2, DataAssumption DEF Spending, AllDrawn
  <2> QED
    BY <1>3, <2>1, <2>2, <2>3 DEF Spending, AllDrawn
<1>5. ASSUME NEW r \in Requests, FindById(r) \/ Resume(r),
             ~CodeMatches(r), ~CodeMarked(r), ~BackupCodesSaved(r)
      PROVE  Ledger!Next \/ UNCHANGED Ledger!vars
  <2>1. (unused' = unused \/ unused' = {}) /\ UNCHANGED <<accepted, code>>
    BY <1>5, CodesLeft, TypeParts
  <2> QED
    BY <1>3, <2>1
<1>6. CASE DeleteUser \/ UNCHANGED vars
  BY <1>6 DEF DeleteUser, vars, mfaStore, request
<1> QED
  BY <1>1, <1>2, <1>4, <1>5, <1>6 DEF Next

\* However many requests overlap, the backup codes behave as the ledger does.
THEOREM AccountKeepsLedger == Spec => KeepsLedger
<1>1. Init => Ledger!Init
  BY DEF Init, Ledger!Init
<1>2. TypeOK /\ Spending /\ [Next]_vars => [Ledger!Next]_(Ledger!vars)
  BY LedgerStep
<1> QED
  BY <1>1, <1>2, AccountTyping, InitSpending, SpendingStep, PTL
  DEF Spec, KeepsLedger, Ledger!Spec

-----------------------------------------------------------------------------
(***************************************************************************)
(* The record and the stored secret.  While a request is between its two   *)
(* writes they may differ; whoever is not there and leaves both alone      *)
(* changes nothing of that.                                                *)
(***************************************************************************)
LEMMA StoresLeft ==
    ASSUME TypeOK, InStep, NEW r \in Requests, NEW w,
           at[r] \notin {"saveSecret", "deleteSecret"},
           at' = [at EXCEPT ![r] = w], UNCHANGED <<user, secret>>
    PROVE  InStep'
  BY DEF InStep, TypeOK

\* Who is about to delete the secret has saved a record without MFA.
Disabled == \A r \in Requests : at[r] = "deleteSecret" => snap[r].mfa = None

LEMMA DisabledStep == TypeOK /\ Disabled /\ [Next]_vars => Disabled'
<1> SUFFICES ASSUME TypeOK, Disabled, [Next]_vars PROVE Disabled'
  OBVIOUS
<1>1. ASSUME NEW r \in Requests, RecordDisabled(r) PROVE Disabled'
  <2>1. snap[r] \in User
    BY <1>1, Labels DEF RecordDisabled, TypeOK
  <2>2. user'.mfa = None
    BY <1>1, <2>1 DEF RecordDisabled, User
  <2> QED
    BY <1>1, <2>2 DEF RecordDisabled, Goto, Disabled, TypeOK
<1>2. ASSUME NEW r \in Requests, CodeMatches(r) PROVE Disabled'
  BY <1>2 DEF CodeMatches, Disabled, TypeOK
<1>3. ASSUME NEW r \in Requests, NEW w \in Wait \ {"deleteSecret"},
             NEW u \in User \cup {None},
             at' = [at EXCEPT ![r] = w], snap' = [snap EXCEPT ![r] = u]
      PROVE  Disabled'
  BY <1>3 DEF Disabled, TypeOK
<1>4. ASSUME NEW r \in Requests, FindById(r) \/ Resume(r), ~RecordDisabled(r),
             ~CodeMatches(r)
      PROVE  Disabled'
  <2>1. StoreTypes /\ RequestTypes
    BY TypeParts
  <2>2. \E w \in Wait \ {"deleteSecret"} : at' = [at EXCEPT ![r] = w]
    BY <1>4, Labels
    DEF FindById, Resume, RecordEnabled, SecretSaved, SecretDeleted,
        BackupCodesDeleted, UserLookedUp, BackupCodesSaved, CodeMarked, Refused,
        CheckPasswordInHistory, PasswordSaved, OldHistoryDeleted, UserUpdated,
        Goto, Answer
  <2>3. user' \in User \cup {None} /\ snap[r] \in User \cup {None}
    BY <1>4, <2>1, FindByIdTyped, ResumeTyped DEF StoreTypes, RequestTypes
  <2>4. \E u \in User \cup {None} : snap' = [snap EXCEPT ![r] = u]
    BY <1>4, <2>1, <2>3
    DEF FindById, Resume, RecordEnabled, SecretSaved, SecretDeleted,
        BackupCodesDeleted, UserLookedUp, BackupCodesSaved, CodeMarked, Refused,
        CheckPasswordInHistory, PasswordSaved, OldHistoryDeleted, UserUpdated,
        Goto, Answer, StoreTypes
  <2> QED
    BY <1>3, <2>2, <2>4
<1>5. CASE DeleteUser \/ UNCHANGED vars
  BY <1>5 DEF DeleteUser, vars, request, Disabled
<1> QED
  BY <1>1, <1>2, <1>4, <1>5 DEF Next, Resume

\* They part only by a write of a request whose record is outdated.
THEOREM OnlyOutdatedWritesUnhinge == Spec => OnlyOutdatedUnhinge
<1> DEFINE Unhinges ==
      \E r \in Requests :
        (UserUpdated(r) \/ SecretSaved(r) \/ SecretDeleted(r)) /\ Outdated(r)
<1>1. TypeOK /\ Disabled /\ [Next]_vars => [InStep => InStep' \/ Unhinges]_vars
  <2> SUFFICES ASSUME TypeOK, Disabled, Next, InStep, ~Unhinges PROVE InStep'
    OBVIOUS
  <2>1. ASSUME NEW r \in Requests, RecordEnabled(r) \/ RecordDisabled(r) PROVE InStep'
    <3>1. at'[r] \in {"saveSecret", "deleteSecret"}
      BY <2>1 DEF RecordEnabled, RecordDisabled, Goto, TypeOK
    <3> QED
      BY <3>1 DEF InStep
  <2>2. ASSUME NEW r \in Requests, SecretSaved(r) PROVE InStep'
    BY <2>2 DEF SecretSaved, Outdated, InStep
  <2>3. ASSUME NEW r \in Requests, SecretDeleted(r) PROVE InStep'
    BY <2>3 DEF SecretDeleted, Outdated, Disabled, InStep
  <2>4. ASSUME NEW r \in Requests, UserUpdated(r) PROVE InStep'
    <3>1. user' = None \/ (user # None /\ user'.mfa = user.mfa)
      BY <2>4, Labels DEF UserUpdated, Updated, Outdated, TypeOK, User
    <3>2. at[r] = "update" /\ at' = [at EXCEPT ![r] = "idle"] /\ UNCHANGED secret
      BY <2>4 DEF UserUpdated, Answer, mfaStore
    <3> QED
      BY <3>1, <3>2 DEF InStep, TypeOK
  <2>5. ASSUME NEW r \in Requests, FindById(r) \/ BackupCodesDeleted(r)
                 \/ UserLookedUp(r) \/ BackupCodesSaved(r) \/ CodeMatches(r)
                 \/ CodeMarked(r) \/ Refused(r) \/ CheckPasswordInHistory(r)
                 \/ PasswordSaved(r) \/ OldHistoryDeleted(r)
        PROVE  InStep'
    <3>1. UNCHANGED <<user, secret>> /\ at[r] \notin {"saveSecret", "deleteSecret"}
      BY <2>5 DEF FindById, BackupCodesDeleted, UserLookedUp, BackupCodesSaved,
                  CodeMatches, CodeMarked, Refused, CheckPasswordInHistory,
                  PasswordSaved, OldHistoryDeleted, mfaStore
    <3>2. \E w \in Wait : at' = [at EXCEPT ![r] = w]
      BY <2>5, Labels DEF FindById, BackupCodesDeleted, UserLookedUp, BackupCodesSaved,
                  CodeMatches, CodeMarked, Refused, CheckPasswordInHistory,
                  PasswordSaved, OldHistoryDeleted, Goto, Answer
    <3> QED
      BY <3>1, <3>2, StoresLeft
  <2>6. CASE DeleteUser
    BY <2>6 DEF DeleteUser, InStep
  <2> QED
    BY <2>1, <2>2, <2>3, <2>4, <2>5, <2>6 DEF Next, Resume
<1>2. Init => Disabled
  BY DEF Init, Disabled
<1> QED
  BY <1>1, <1>2, AccountTyping, DisabledStep, PTL DEF Spec, OnlyOutdatedUnhinge

\* Where there is no record, a request only stops being one that will save it, and
\* no other write than save() puts a record there.
THEOREM OnlySaversBringBack == Spec => OnlySaversRevive
<1> DEFINE Revives == \E r \in Savers : RecordEnabled(r) \/ RecordDisabled(r)
<1>1. TypeOK /\ [Next]_vars
        => [user = None => (user' = None /\ Savers' \subseteq Savers) \/ Revives]_vars
  <2> SUFFICES ASSUME TypeOK, Next, user = None, ~Revives
               PROVE  user' = None /\ Savers' \subseteq Savers
    OBVIOUS
  <2>1. ASSUME NEW r \in Requests,
                 \E w \in Wait \ {"enable", "disable"} : at' = [at EXCEPT ![r] = w]
        PROVE  Savers' \subseteq Savers
    BY <2>1 DEF Savers, TypeOK
  <2>2. ASSUME NEW r \in Requests, Resume(r)
        PROVE  user' = None /\ Savers' \subseteq Savers
    <3>1. ~RecordEnabled(r) /\ ~RecordDisabled(r)
      BY DEF Savers, RecordEnabled, RecordDisabled
    <3>2. user' = None
      BY <2>2, <3>1 DEF Resume, SecretSaved, SecretDeleted, BackupCodesDeleted,
            UserLookedUp, BackupCodesSaved, CodeMatches, CodeMarked, Refused,
            CheckPasswordInHistory, PasswordSaved, OldHistoryDeleted, UserUpdated
    <3>3. \E w \in Wait \ {"enable", "disable"} : at' = [at EXCEPT ![r] = w]
      BY <2>2, <3>1, Labels
      DEF Resume, SecretSaved, SecretDeleted, BackupCodesDeleted, UserLookedUp,
          BackupCodesSaved, CodeMatches, CodeMarked, Refused, CheckPasswordInHistory,
          PasswordSaved, OldHistoryDeleted, UserUpdated, Goto, Answer
    <3> QED
      BY <2>1, <3>2, <3>3
  <2>3. ~DeleteUser /\ \A r \in Requests : ~FindById(r)
    BY DEF DeleteUser, FindById
  <2> QED
    BY <2>2, <2>3 DEF Next
<1> QED
  BY <1>1, AccountTyping, PTL DEF Spec, OnlySaversRevive
=============================================================================
