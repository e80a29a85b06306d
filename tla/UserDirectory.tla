--------------------------- MODULE UserDirectory ---------------------------
(***************************************************************************)
(* UserRepository: the map of users and the index from lower-case e-mail   *)
(* addresses to ids, under the use cases that read and write them.  A      *)
(* step is the code between two awaits, of bcrypt or of the repository: a  *)
(* request keeps in between the record it will write.  Requests refused    *)
(* before they wait change nothing and are no step.                        *)
(*                                                                         *)
(* A record is its address, its role and whether MFA is on: passwords,     *)
(* secrets and dates are left out.                                         *)
(***************************************************************************)
CONSTANTS
    Ids,         \* bound: ids that are ever drawn
    Seeds,       \* the ids of the constructor's users
    Emails,      \* addresses as written
    Lower,       \* [Emails -> Emails], toLowerCase
    Roles,
    Requests,    \* requests that wait at one time
    None

ASSUME LowerAssumption ==
    Lower \in [Emails -> Emails] /\ \A e \in Emails : Lower[Lower[e]] = Lower[e]
ASSUME SeedsAssumption == Seeds \subseteq Ids
ASSUME NamesAssumption == None \notin Ids /\ None \notin Emails

User == [email : Emails, role : Roles, mfaEnabled : BOOLEAN]

ASSUME NoneAssumption == None \notin User

VARIABLES
    users,          \* [Ids -> User or None]
    emailToIdMap,   \* [Emails -> Ids or None], used at lower-case addresses
    drawn,          \* ids given to users so far
    at, id, rec,    \* each request: what it waits for, its user, its record
    clear           \* history: whether the index let it have its address

store == <<users, emailToIdMap, drawn>>
request == <<at, id, rec, clear>>
vars == <<store, request>>

\* What a request waits for: "lookup" is that of a new address, "create",
\* "update" and "save" are the calls that write.
Wait == {"idle", "create", "lookup", "update", "save"}

\* Types; whoever exists was drawn, and a waiting request has a record to write,
\* of a user that was drawn.
TypeOK ==
    /\ users \in [Ids -> User \cup {None}]
    /\ emailToIdMap \in [Emails -> Ids \cup {None}]
    /\ drawn \subseteq Ids /\ \A i \in Ids : users[i] # None => i \in drawn
    /\ at \in [Requests -> Wait] /\ clear \in [Requests -> BOOLEAN]
    /\ id \in [Requests -> Ids \cup {None}]
    /\ rec \in [Requests -> User \cup {None}]
    /\ \A r \in Requests :
        /\ at[r] # "idle" => rec[r] # None
        /\ IF at[r] \in {"lookup", "update", "save"} THEN id[r] \in drawn ELSE id[r] = None

\* The constructor's users have addresses of their own and no MFA.
Init ==
    /\ users \in [Ids -> User \cup {None}]
    /\ \A i \in Ids : (users[i] # None) <=> (i \in Seeds)
    /\ \A i \in Seeds : ~users[i].mfaEnabled
    /\ \A i, j \in Seeds : Lower[users[i].email] = Lower[users[j].email] => i = j
    /\ emailToIdMap \in [Emails -> Seeds \cup {None}]
    /\ \A e \in Emails, i \in Seeds :
          (emailToIdMap[e] = i) <=> (e = Lower[users[i].email])
    /\ drawn = Seeds
    /\ at = [r \in Requests |-> "idle"]
    /\ id = [r \in Requests |-> None] /\ rec = [r \in Requests |-> None]
    /\ clear = [r \in Requests |-> TRUE]

-----------------------------------------------------------------------------
(***************************************************************************)
(* The entity: a copy with one field changed.                              *)
(***************************************************************************)
UpdateEmail(u, e) == [u EXCEPT !.email = e]
UpdateRole(u, role) == [u EXCEPT !.role = role]
WithMfa(u) == [u EXCEPT !.mfaEnabled = TRUE]
WithoutMfa(u) == [u EXCEPT !.mfaEnabled = FALSE]

-----------------------------------------------------------------------------
(***************************************************************************)
(* UserRepository.                                                         *)
(***************************************************************************)
Key(u) == Lower[u.email]

\* The id of the user that findByEmail returns.
FindByEmail(e) ==
    LET i == emailToIdMap[Lower[e]]
    IN  IF i # None /\ users[i] # None THEN i ELSE None

Create(i, u) ==
    /\ users' = [users EXCEPT ![i] = u]
    /\ emailToIdMap' = [emailToIdMap EXCEPT ![Key(u)] = i]

\* Mutant: the old address stays in the index.
UpdateAdds(i, u) == Create(i, u)

\* The index changes only with the address; the caller has found the user.
Update(i, u) ==
    /\ users' = [users EXCEPT ![i] = u]
    /\ emailToIdMap' =
         IF Key(users[i]) = Key(u) THEN emailToIdMap
         ELSE [emailToIdMap EXCEPT ![Key(users[i])] = None, ![Key(u)] = i]

Save(i, u) == IF users[i] # None THEN Update(i, u) ELSE Create(i, u)

-----------------------------------------------------------------------------
(***************************************************************************)
(* Use cases.                                                              *)
(***************************************************************************)
\* The address of u is nobody's but i's, says the index.
IsFree(u, i) == FindByEmail(u.email) \in {None, i}

Open(r, w, i, u, c) ==
    /\ at' = [at EXCEPT ![r] = w] /\ id' = [id EXCEPT ![r] = i]
    /\ rec' = [rec EXCEPT ![r] = u] /\ clear' = [clear EXCEPT ![r] = c]
Answer(r) == Open(r, "idle", None, None, TRUE)

\* The address is free when it is looked up; then the password is hashed.
CreateUser(r) ==
    /\ at[r] = "idle"
    /\ \E u \in User : /\ FindByEmail(u.email) = None /\ ~u.mfaEnabled
                       /\ Open(r, "create", None, u, IsFree(u, None))
    /\ UNCHANGED store

UserCreated(r) ==
    /\ at[r] = "create"
    /\ \E i \in Ids \ drawn : Create(i, rec[r]) /\ drawn' = drawn \cup {i}
    /\ Answer(r)

\* A new address is looked up, then written; without one nothing is.
UpdateUser(r) ==
    /\ at[r] = "idle"
    /\ \E i \in Ids, e \in Emails :
        /\ users[i] # None /\ e # users[i].email
        /\ Open(r, "lookup", i, UpdateEmail(users[i], e), TRUE)
    /\ UNCHANGED store

\* Mutant: what the look-up found is not asked.
EmailNotAsked(r) ==
    /\ at[r] = "lookup"
    /\ Open(r, "update", id[r], rec[r], IsFree(rec[r], id[r]))
    /\ UNCHANGED store

EmailLookedUp(r) ==
    /\ at[r] = "lookup"
    /\ IF IsFree(rec[r], id[r])
       THEN Open(r, "update", id[r], rec[r], IsFree(rec[r], id[r]))
       ELSE Answer(r)
    /\ UNCHANGED store

ChangeUserRole(r) ==
    /\ at[r] = "idle"
    /\ \E i \in Ids, role \in Roles :
        users[i] # None /\ Open(r, "update", i, UpdateRole(users[i], role), TRUE)
    /\ UNCHANGED store

\* delete() looks for itself.
DeleteUser(i) ==
    /\ users[i] # None
    /\ emailToIdMap' = [emailToIdMap EXCEPT ![Key(users[i])] = None]
    /\ users' = [users EXCEPT ![i] = None]
    /\ UNCHANGED <<drawn, request>>

\* Mutant: whether the user exists is not asked.
ChangePasswordOfAny(r) ==
    /\ at[r] = "idle"
    /\ \E i \in Ids : Open(r, "update", i, users[i], TRUE)
    /\ UNCHANGED store

ChangePassword(r) ==
    /\ at[r] = "idle"
    /\ \E i \in Ids : users[i] # None /\ Open(r, "update", i, users[i], TRUE)
    /\ UNCHANGED store

\* update() throws for a user deleted meanwhile.
UserUpdated(r) ==
    /\ at[r] = "update"
    /\ IF users[id[r]] # None THEN Update(id[r], rec[r])
                              ELSE UNCHANGED <<users, emailToIdMap>>
    /\ Answer(r) /\ UNCHANGED drawn

\* VerifyMfaUseCase, SETUP.
EnableMfa(r) ==
    /\ at[r] = "idle"
    /\ \E i \in Ids : users[i] # None /\ Open(r, "save", i, WithMfa(users[i]), TRUE)
    /\ UNCHANGED store

DisableMfa(r) ==
    /\ at[r] = "idle"
    /\ \E i \in Ids : /\ users[i] # None /\ users[i].mfaEnabled
                      /\ Open(r, "save", i, WithoutMfa(users[i]), TRUE)
    /\ UNCHANGED store

UserSaved(r) ==
    /\ at[r] = "save"
    /\ Save(id[r], rec[r])
    /\ Answer(r) /\ UNCHANGED drawn

Read(r) == \/ CreateUser(r) \/ UpdateUser(r) \/ EmailLookedUp(r) \/ ChangeUserRole(r)
           \/ ChangePassword(r) \/ EnableMfa(r) \/ DisableMfa(r)
Write(r) == UserCreated(r) \/ UserUpdated(r) \/ UserSaved(r)
Next == \/ \E r \in Requests : Read(r) \/ Write(r)
        \/ \E i \in Ids : DeleteUser(i)

Spec == Init /\ [][Next]_vars

-----------------------------------------------------------------------------
(***************************************************************************)
(* Properties.                                                             *)
(***************************************************************************)
\* Whoever is found by an address exists and has that address: a login never
\* meets the password of somebody else, whatever stale records were written.
IndexTrue ==
    \A e \in Emails : emailToIdMap[e] # None =>
        users[emailToIdMap[e]] # None /\ Key(users[emailToIdMap[e]]) = e

\* Every user is found by the address it has, which nobody else has then.
Findable ==
    \A i \in Ids : users[i] # None => emailToIdMap[Key(users[i])] = i

\* The index let the request have its address, and by the time it writes the
\* address leads to somebody else.
Overtaken(r) == clear[r] /\ ~IsFree(rec[r], id[r])

\* Two users come to share an address, or one is lost from the index, only by a
\* request that was overtaken between what it read and its write: the look-ups
\* of create and update fail in no other way.
OnlyOvertakenCollide ==
    [][Findable => Findable' \/ \E r \in Requests : Write(r) /\ Overtaken(r)]_vars
=============================================================================
