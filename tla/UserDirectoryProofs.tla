------------------------ MODULE UserDirectoryProofs ------------------------
(***************************************************************************)
(* TLAPS proofs about UserDirectory, for any number of users, addresses    *)
(* and requests: the typing invariant, that the index is true, and that    *)
(* only a request overtaken before it writes makes users share an address *)
(* or loses one from the index.                                            *)
(***************************************************************************)
EXTENDS UserDirectory, TLAPS

-----------------------------------------------------------------------------
StoreTypes ==
    /\ users \in [Ids -> User \cup {None}]
    /\ emailToIdMap \in [Emails -> Ids \cup {None}]
    /\ drawn \subseteq Ids /\ \A i \in Ids : users[i] # None => i \in drawn
RequestTypes ==
    /\ at \in [Requests -> Wait] /\ clear \in [Requests -> BOOLEAN]
    /\ id \in [Requests -> Ids \cup {None}]
    /\ rec \in [Requests -> User \cup {None}]
    /\ \A r \in Requests :
        /\ at[r] # "idle" => rec[r] # None
        /\ IF at[r] \in {"lookup", "update", "save"} THEN id[r] \in drawn ELSE id[r] = None

LEMMA KeyTyped == \A u \in User : Key(u) \in Emails
  BY LowerAssumption DEF Key, User

LEMMA CreateTyped ==
    ASSUME StoreTypes, NEW i \in Ids, NEW u \in User, Create(i, u),
           drawn' = drawn \cup {i}
    PROVE  StoreTypes'
  BY KeyTyped DEF StoreTypes, Create

LEMMA UpdateTyped ==
    ASSUME StoreTypes, NEW i \in Ids, NEW u \in User, users[i] # None, Update(i, u),
           UNCHANGED drawn
    PROVE  StoreTypes'
  BY KeyTyped DEF StoreTypes, Update

LEMMA SaveTyped ==
    ASSUME StoreTypes, NEW i \in drawn, NEW u \in User, Save(i, u), UNCHANGED drawn
    PROVE  StoreTypes'
<1>1. i \in Ids /\ drawn = drawn \cup {i}
  BY DEF StoreTypes
<1> QED
  BY <1>1, CreateTyped, UpdateTyped DEF Save

\* Ids that were drawn stay drawn, so the requests' users stay typed.
LEMMA OpenTyped ==
    ASSUME RequestTypes, drawn \subseteq drawn', NEW r \in Requests, NEW w \in Wait,
           NEW i \in Ids \cup {None}, NEW u \in User \cup {None}, NEW c \in BOOLEAN,
           w # "idle" => u # None,
           IF w \in {"lookup", "update", "save"} THEN i \in drawn' ELSE i = None,
           Open(r, w, i, u, c)
    PROVE  RequestTypes'
  BY DEF RequestTypes, Open

LEMMA AnswerTyped ==
    ASSUME RequestTypes, drawn \subseteq drawn', NEW r \in Requests, Answer(r)
    PROVE  RequestTypes'
  BY OpenTyped DEF Answer, Wait

LEMMA EntityTyped ==
    ASSUME NEW u \in User
    PROVE  /\ WithMfa(u) \in User /\ WithoutMfa(u) \in User
           /\ \A e \in Emails : UpdateEmail(u, e) \in User
           /\ \A role \in Roles : UpdateRole(u, role) \in User
  BY DEF User, WithMfa, WithoutMfa, UpdateEmail, UpdateRole

LEMMA ReadTyped ==
    ASSUME StoreTypes, RequestTypes, NEW r \in Requests, Read(r)
    PROVE  StoreTypes' /\ RequestTypes'
<1>1. UNCHANGED store
  BY DEF Read, CreateUser, UpdateUser, EmailLookedUp, ChangeUserRole, ChangePassword,
         EnableMfa, DisableMfa
<1>2. StoreTypes' /\ drawn' = drawn
  BY <1>1 DEF StoreTypes, store
<1>3. CASE CreateUser(r)
  <2>1. PICK u \in User : Open(r, "create", None, u, IsFree(u, None))
    BY <1>3 DEF CreateUser
  <2>2. IsFree(u, None) \in BOOLEAN
    BY DEF IsFree
  <2> QED
    BY <1>2, <2>1, <2>2, OpenTyped, NoneAssumption DEF Wait
<1>4. CASE EmailLookedUp(r)
  <2>1. rec[r] \in User /\ id[r] \in drawn /\ id[r] \in Ids
    BY <1>4 DEF EmailLookedUp, RequestTypes, StoreTypes
  <2>2. IsFree(rec[r], id[r]) \in BOOLEAN
    BY DEF IsFree
  <2>3. CASE Open(r, "update", id[r], rec[r], IsFree(rec[r], id[r]))
    BY <1>2, <2>1, <2>2, <2>3, OpenTyped, NoneAssumption DEF Wait
  <2> QED
    BY <1>2, <1>4, <2>3, AnswerTyped DEF EmailLookedUp
<1>5. ASSUME NEW i \in Ids, users[i] # None, NEW w \in {"lookup", "update", "save"},
             NEW u \in User, Open(r, w, i, u, TRUE)
      PROVE  RequestTypes'
  <2>1. i \in drawn'
    BY <1>2, <1>5 DEF StoreTypes
  <2> QED
    BY <1>2, <1>5, <2>1, OpenTyped, NoneAssumption DEF Wait
<1>6. \A i \in Ids : users[i] # None => users[i] \in User
  BY DEF StoreTypes
<1>7. CASE UpdateUser(r)
  BY <1>2, <1>5, <1>6, <1>7, EntityTyped DEF UpdateUser
<1>8. CASE ChangeUserRole(r)
  BY <1>2, <1>5, <1>6, <1>8, EntityTyped DEF ChangeUserRole
<1>9. CASE ChangePassword(r)
  BY <1>2, <1>5, <1>6, <1>9 DEF ChangePassword
<1>10. CASE EnableMfa(r) \/ DisableMfa(r)
  BY <1>2, <1>5, <1>6, <1>10, EntityTyped DEF EnableMfa, DisableMfa
<1> QED
  BY <1>3, <1>4, <1>7, <1>8, <1>9, <1>10 DEF Read

LEMMA WriteTyped ==
    ASSUME StoreTypes, RequestTypes, NEW r \in Requests, Write(r)
    PROVE  StoreTypes' /\ RequestTypes'
<1>1. rec[r] \in User
  BY DEF Write, UserCreated, UserUpdated, UserSaved, RequestTypes
<1>2. CASE UserCreated(r)
  <2>1. PICK i \in Ids : Create(i, rec[r]) /\ drawn' = drawn \cup {i}
    BY <1>2 DEF UserCreated
  <2> QED
    BY <1>1, <1>2, <2>1, CreateTyped, AnswerTyped DEF UserCreated
<1>3. CASE UserUpdated(r)
  <2>1. id[r] \in Ids /\ UNCHANGED drawn
    BY <1>3 DEF UserUpdated, RequestTypes, StoreTypes
  <2>2. StoreTypes'
    <3>1. CASE users[id[r]] # None
      BY <1>1, <1>3, <2>1, <3>1, UpdateTyped DEF UserUpdated
    <3>2. CASE users[id[r]] = None
      BY <1>3, <2>1, <3>2 DEF UserUpdated, StoreTypes
    <3> QED
      BY <3>1, <3>2
  <2> QED
    BY <1>3, <2>1, <2>2, AnswerTyped DEF UserUpdated
<1>4. CASE UserSaved(r)
  <2>1. id[r] \in drawn /\ UNCHANGED drawn
    BY <1>4 DEF UserSaved, RequestTypes
  <2>2. StoreTypes'
    BY <1>1, <1>4, <2>1, SaveTyped DEF UserSaved
  <2> QED
    BY <1>4, <2>1, <2>2, AnswerTyped DEF UserSaved
<1> QED
  BY <1>2, <1>3, <1>4 DEF Write

LEMMA DeleteTyped ==
    ASSUME StoreTypes, RequestTypes, NEW i \in Ids, DeleteUser(i)
    PROVE  StoreTypes' /\ RequestTypes'
<1>1. RequestTypes'
  BY DEF DeleteUser, RequestTypes, request
<1> QED
  BY <1>1, KeyTyped DEF DeleteUser, StoreTypes

LEMMA InitTyped == Init => TypeOK
  BY SeedsAssumption DEF Init, TypeOK, Wait

LEMMA TypingStep == TypeOK /\ [Next]_vars => TypeOK'
<1> SUFFICES ASSUME TypeOK, [Next]_vars PROVE TypeOK'
  OBVIOUS
<1>1. StoreTypes /\ RequestTypes
  BY DEF TypeOK, StoreTypes, RequestTypes
<1>2. CASE UNCHANGED vars
  BY <1>2 DEF vars, store, request, TypeOK
<1>3. CASE Next
  <2>1. StoreTypes' /\ RequestTypes'
    BY <1>1, <1>3, ReadTyped, WriteTyped, DeleteTyped DEF Next
  <2> QED
    BY <2>1 DEF TypeOK, StoreTypes, RequestTypes
<1> QED
  BY <1>2, <1>3

\* Typing: users have drawn ids, requests that wait have a record to write.
THEOREM DirectoryTyping == Spec => []TypeOK
  BY InitTyped, TypingStep, PTL DEF Spec

-----------------------------------------------------------------------------
(***************************************************************************)
(* The index is true.  A creation takes an id that nobody has, so no entry *)
(* names it; an update removes the one entry that can name its user.       *)
(***************************************************************************)
LEMMA CreateKeepsTrue ==
    ASSUME StoreTypes, IndexTrue, NEW i \in Ids, NEW u \in User, users[i] = None,
           Create(i, u)
    PROVE  IndexTrue'
  BY KeyTyped, NoneAssumption, NamesAssumption DEF StoreTypes, IndexTrue, Create, Key

LEMMA UpdateKeepsTrue ==
    ASSUME StoreTypes, IndexTrue, NEW i \in Ids, NEW u \in User, users[i] # None,
           Update(i, u)
    PROVE  IndexTrue'
<1>1. users[i] \in User /\ Key(users[i]) \in Emails /\ Key(u) \in Emails
  BY KeyTyped DEF StoreTypes
<1>2. \A e \in Emails : emailToIdMap[e] = i => e = Key(users[i])
  BY NamesAssumption DEF IndexTrue
<1>3. CASE Key(users[i]) = Key(u)
  BY <1>1, <1>2, <1>3, NoneAssumption DEF StoreTypes, IndexTrue, Update, Key
<1>4. CASE Key(users[i]) # Key(u)
  BY <1>1, <1>2, <1>4, NoneAssumption, NamesAssumption
  DEF StoreTypes, IndexTrue, Update, Key
<1> QED
  BY <1>3, <1>4

LEMMA DeleteKeepsTrue ==
    ASSUME StoreTypes, IndexTrue, NEW i \in Ids, DeleteUser(i) PROVE IndexTrue'
<1>1. Key(users[i]) \in Emails
  BY KeyTyped DEF DeleteUser, StoreTypes
<1>2. \A e \in Emails : emailToIdMap[e] = i => e = Key(users[i])
  BY NamesAssumption DEF IndexTrue
<1> QED
  BY <1>1, <1>2 DEF DeleteUser, StoreTypes, IndexTrue, Key

LEMMA WriteWrites ==
    ASSUME TypeOK, NEW r \in Requests, Write(r)
    PROVE  \/ UNCHANGED <<users, emailToIdMap>>
           \/ \E i \in Ids :
                /\ rec[r] \in User /\ id[r] \in {None, i}
                /\ \/ users[i] = None /\ Create(i, rec[r])
                   \/ users[i] # None /\ id[r] = i /\ Update(i, rec[r])
<1>1. rec[r] \in User
  BY DEF Write, UserCreated, UserUpdated, UserSaved, TypeOK
<1>2. CASE UserCreated(r)
  <2>1. PICK i \in Ids \ drawn : Create(i, rec[r])
    BY <1>2 DEF UserCreated
  <2>2. users[i] = None /\ id[r] = None
    BY <1>2, <2>1 DEF UserCreated, TypeOK
  <2> QED
    BY <1>1, <2>1, <2>2
<1>3. CASE UserUpdated(r)
  BY <1>1, <1>3 DEF UserUpdated, TypeOK
<1>4. CASE UserSaved(r)
  <2>1. id[r] \in Ids /\ Save(id[r], rec[r])
    BY <1>4 DEF UserSaved, TypeOK
  <2> QED
    BY <1>1, <2>1 DEF Save
<1> QED
  BY <1>2, <1>3, <1>4 DEF Write

LEMMA ReadKeeps ==
    ASSUME NEW r \in Requests, Read(r) PROVE UNCHANGED <<users, emailToIdMap>>
  BY DEF Read, CreateUser, UpdateUser, EmailLookedUp, ChangeUserRole, ChangePassword,
         EnableMfa, DisableMfa, store

LEMMA IndexStep == TypeOK /\ IndexTrue /\ [Next]_vars => IndexTrue'
<1> SUFFICES ASSUME TypeOK, IndexTrue, [Next]_vars PROVE IndexTrue'
  OBVIOUS
<1>1. StoreTypes
  BY DEF TypeOK, StoreTypes
<1>2. CASE UNCHANGED <<users, emailToIdMap>>
  BY <1>2 DEF IndexTrue, Key
<1>3. ASSUME NEW r \in Requests, Read(r) PROVE IndexTrue'
  BY <1>2, <1>3, ReadKeeps
<1>4. ASSUME NEW r \in Requests, Write(r) PROVE IndexTrue'
  BY <1>1, <1>2, <1>4, WriteWrites, CreateKeepsTrue, UpdateKeepsTrue
<1>5. ASSUME NEW i \in Ids, DeleteUser(i) PROVE IndexTrue'
  BY <1>1, <1>5, DeleteKeepsTrue
<1>6. CASE UNCHANGED vars
  BY <1>2, <1>6 DEF vars, store
<1> QED
  BY <1>3, <1>4, <1>5, <1>6 DEF Next

LEMMA InitIndexTrue == Init => IndexTrue
  BY SeedsAssumption, NamesAssumption DEF Init, IndexTrue, Key

\* The user that an address leads to exists and has that address.
THEOREM IndexAlwaysTrue == Spec => []IndexTrue
  BY InitIndexTrue, IndexStep, DirectoryTyping, PTL DEF Spec

-----------------------------------------------------------------------------
(***************************************************************************)
(* Users stay findable when the address that is written is nobody else's.  *)
(***************************************************************************)
LEMMA CreateKeepsFindable ==
    ASSUME StoreTypes, Findable, NEW i \in Ids, NEW u \in User, users[i] = None,
           FindByEmail(u.email) = None, Create(i, u)
    PROVE  Findable'
<1>1. \A j \in Ids : users[j] # None => Key(users[j]) # Key(u)
  BY NamesAssumption DEF Findable, FindByEmail, Key
<1>2. \A j \in Ids : users[j] # None => Key(users[j]) \in Emails
  BY KeyTyped DEF StoreTypes
<1> QED
  BY <1>1, <1>2, KeyTyped DEF StoreTypes, Findable, Create, Key

LEMMA UpdateKeepsFindable ==
    ASSUME StoreTypes, Findable, NEW i \in Ids, NEW u \in User, users[i] # None,
           FindByEmail(u.email) \in {None, i}, Update(i, u)
    PROVE  Findable'
<1>1. \A j \in Ids \ {i} : users[j] # None => Key(users[j]) # Key(users[i])
  BY DEF Findable
<1>2. \A j \in Ids \ {i} : users[j] # None => Key(users[j]) # Key(u)
  BY <1>1, NamesAssumption DEF Findable, FindByEmail, Key
<1>3. \A j \in Ids : users[j] # None => Key(users[j]) \in Emails
  BY KeyTyped DEF StoreTypes
<1>4. CASE Key(users[i]) = Key(u)
  BY <1>3, <1>4, KeyTyped DEF StoreTypes, Findable, Update, Key
<1>5. CASE Key(users[i]) # Key(u)
  BY <1>1, <1>2, <1>3, <1>5, KeyTyped DEF StoreTypes, Findable, Update, Key
<1> QED
  BY <1>4, <1>5

LEMMA DeleteKeepsFindable ==
    ASSUME StoreTypes, Findable, NEW i \in Ids, DeleteUser(i) PROVE Findable'
<1>1. \A j \in Ids \ {i} : users[j] # None => Key(users[j]) # Key(users[i])
  BY DEF Findable, DeleteUser
<1>2. \A j \in Ids : users[j] # None => Key(users[j]) \in Emails
  BY KeyTyped DEF StoreTypes
<1> QED
  BY <1>1, <1>2 DEF StoreTypes, Findable, DeleteUser, Key

\* Every request that is about to write was clear: what remains of Overtaken is
\* that its address leads to somebody else now.
Cleared == \A r \in Requests : at[r] \in {"create", "update", "save"} => clear[r]

LEMMA ClearedStep == TypeOK /\ Cleared /\ [Next]_vars => Cleared'
<1> SUFFICES ASSUME TypeOK, Cleared, [Next]_vars PROVE Cleared'
  OBVIOUS
<1>1. ASSUME NEW r \in Requests, NEW w, NEW i, NEW u, NEW c, Open(r, w, i, u, c),
             w \in {"create", "update", "save"} => c
      PROVE  Cleared'
  BY <1>1 DEF Open, Cleared, TypeOK
<1>2. ASSUME NEW r \in Requests, CreateUser(r) PROVE Cleared'
  BY <1>1, <1>2 DEF CreateUser, IsFree
<1>3. ASSUME NEW r \in Requests, EmailLookedUp(r) PROVE Cleared'
  BY <1>1, <1>3 DEF EmailLookedUp, Answer
<1>4. ASSUME NEW r \in Requests,
             UpdateUser(r) \/ ChangeUserRole(r) \/ ChangePassword(r) \/ EnableMfa(r)
               \/ DisableMfa(r)
      PROVE  Cleared'
  BY <1>1, <1>4 DEF UpdateUser, ChangeUserRole, ChangePassword, EnableMfa, DisableMfa
<1>5. ASSUME NEW r \in Requests, Write(r) PROVE Cleared'
  BY <1>1, <1>5 DEF Write, UserCreated, UserUpdated, UserSaved, Answer
<1>6. CASE (\E i \in Ids : DeleteUser(i)) \/ UNCHANGED vars
  BY <1>6 DEF DeleteUser, vars, request, Cleared
<1> QED
  BY <1>2, <1>3, <1>4, <1>5, <1>6 DEF Next, Read

\* Addresses collide, and users are lost from the index, only by a request that
\* was overtaken between its look-up, or its reading, and its write.
THEOREM OnlyOvertakenRequests == Spec => OnlyOvertakenCollide
<1> DEFINE Collision == \E r \in Requests : Write(r) /\ Overtaken(r)
<1>1. TypeOK /\ Cleared /\ [Next]_vars => [Findable => Findable' \/ Collision]_vars
  <2> SUFFICES ASSUME TypeOK, Cleared, Next, Findable, ~Collision PROVE Findable'
    OBVIOUS
  <2>1. StoreTypes
    BY DEF TypeOK, StoreTypes
  <2>2. CASE UNCHANGED <<users, emailToIdMap>>
    BY <2>2 DEF Findable, Key
  <2>3. ASSUME NEW r \in Requests, Read(r) PROVE Findable'
    BY <2>2, <2>3, ReadKeeps
  <2>4. ASSUME NEW r \in Requests, Write(r), NEW i \in Ids, rec[r] \in User,
               id[r] \in {None, i},
               \/ users[i] = None /\ Create(i, rec[r])
               \/ users[i] # None /\ id[r] = i /\ Update(i, rec[r])
        PROVE  Findable'
    <3>1. clear[r]
      BY <2>4 DEF Write, UserCreated, UserUpdated, UserSaved, Cleared
    <3>2. FindByEmail(rec[r].email) \in {None, i}
      BY <2>4, <3>1 DEF Overtaken, IsFree
    <3>3. users[i] = None => FindByEmail(rec[r].email) = None
      BY <3>2, NamesAssumption DEF FindByEmail
    <3> QED
      BY <2>1, <2>4, <3>2, <3>3, CreateKeepsFindable, UpdateKeepsFindable
  <2>5. ASSUME NEW r \in Requests, Write(r) PROVE Findable'
    BY <2>2, <2>4, <2>5, WriteWrites
  <2>6. ASSUME NEW i \in Ids, DeleteUser(i) PROVE Findable'
    BY <2>1, <2>6, DeleteKeepsFindable
  <2> QED
    BY <2>3, <2>5, <2>6 DEF Next
<1>2. Init => Cleared
  BY DEF Init, Cleared
<1> QED
  BY <1>1, <1>2, ClearedStep, DirectoryTyping, PTL DEF Spec, OnlyOvertakenCollide
=============================================================================
