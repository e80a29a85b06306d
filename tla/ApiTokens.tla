----------------------------- MODULE ApiTokens -----------------------------
(***************************************************************************)
(* The API tokens of WAF engines: creation, revocation and deletion by     *)
(* ApiTokenController, and ApiTokenAuthGuard, which compares the secret it *)
(* is shown with the hash of one token after the other.                    *)
(*                                                                         *)
(* A step is the code between two awaits, of bcrypt or of the repository.  *)
(* Of the 86 characters of a secret bcrypt reads 72; they stand here for   *)
(* the secret, are drawn once, and so are a constant of the token's id.    *)
(* Of the name and the description of a token only the lengths are kept.   *)
(***************************************************************************)
EXTENDS Common, Naturals, SequencesExt

CONSTANTS
    TokenIds,       \* bound: ids that are ever drawn
    Secret,         \* [TokenIds -> strings of characters], base64url
    Prefix,         \* the default prefix, "waf_"
    Texts,          \* lengths of names and descriptions
    MaxTime,        \* bound of the clock
    TokenRequests   \* requests that wait at one time

Underscore == "_"
Char == {"w", "s", Underscore}

ASSUME SecretAssumption ==
    /\ Secret \in [TokenIds -> Seq(Char) \ {<< >>}]
    /\ \A i, j \in TokenIds : Secret[i] = Secret[j] => i = j
ASSUME PrefixAssumption ==
    /\ Prefix \in Seq(Char) \ {<< >>}
    /\ \A k \in DOMAIN Prefix : (Prefix[k] = Underscore) <=> (k = Len(Prefix))
ASSUME TextsAssumption == Texts \subseteq [name : Nat, description : Nat]
ASSUME TimeAssumption == MaxTime \in Nat
ASSUME TokenNoneAssumption == None \notin TokenIds /\ None \notin Nat

\* Without revokedAt a token is not revoked; without expiresAt it does not expire.
Token == [text : Texts, expires : 0 .. MaxTime \cup {None}, revoked : BOOLEAN]

ASSUME TokenRecordAssumption == None \notin Token

TokenStage == {"idle", "hash", "revoke", "delete", "guard", "admitted", "refused"}

VARIABLES
    now,            \* the time
    tokens,         \* [TokenIds -> Token or None]
    tokenOrder,     \* the keys of the map, in the order of insertion
    hashToId,       \* ids that tokenHashToIdMap leads to, from their hashes
    tokenDrawn,     \* ids that were ever given to a token
    tokenCalls,     \* what each request waits for, and what it has read
    dead            \* history: ids whose revocation or deletion was answered

tokenStore == <<tokens, tokenOrder, hashToId, tokenDrawn>>
tokenVars == <<now, tokenStore, tokenCalls, dead>>

\* "rest" are the tokens still to be compared, "alive" whether, when the guard
\* began, the token shown existed and nobody had been told it was dead.
TokenCall == [at : TokenStage, id : TokenIds \cup {None}, rec : Token \cup {None},
              secret : Seq(Char), rest : Seq(TokenIds \X Token), alive : BOOLEAN]
NoTokenCall == [at |-> "idle", id |-> None, rec |-> None, secret |-> << >>,
                rest |-> << >>, alive |-> FALSE]

-----------------------------------------------------------------------------
(***************************************************************************)
(* ApiTokenService and the entity.                                         *)
(***************************************************************************)
EndsWithUnderscore(p) == p[Len(p)] = Underscore
BuildFullToken(p, s) == (IF EndsWithUnderscore(p) THEN p ELSE Append(p, Underscore)) \o s

\* Mutant: up to the last underscore, of which the secret may have some.
ExtractPrefixLast(t) ==
    SubSeq(t, 1, CHOOSE k \in DOMAIN t :
        t[k] = Underscore /\ \A j \in DOMAIN t : t[j] = Underscore => j <= k)

\* Up to the first underscore.
ExtractPrefix(t) ==
    SubSeq(t, 1, CHOOSE k \in DOMAIN t :
        t[k] = Underscore /\ \A j \in DOMAIN t : t[j] = Underscore => k <= j)

ExtractSecret(t, p) == SubSeq(t, Len(p) + 1, Len(t))

VerifyToken(s, i) == s = Secret[i]

IsExpired(u) == u.expires # None /\ now > u.expires
IsRevoked(u) == u.revoked

\* Mutant: only the expiry is asked.
IsUnexpired(u) == ~IsExpired(u)
IsValid(u) == ~IsExpired(u) /\ ~IsRevoked(u)
ValidExpiresAt(t) == t = None \/ t > now
\* The id, the hash and the prefix are of the service's making and always pass.
ValidText(x) == x.name \in 1 .. 255 /\ x.description <= 1000

NewToken(x, t) == [text |-> x, expires |-> t, revoked |-> FALSE]

\* Mutant: the record is copied and revokedAt forgotten.
RevokeForgotten(u) == u
Revoke(u) == [u EXCEPT !.revoked = TRUE]

-----------------------------------------------------------------------------
(***************************************************************************)
(* ApiTokenRepository.                                                     *)
(***************************************************************************)
Stored(i) == tokens[i] # None

\* A key that is new, or was deleted, comes last in the map.
SaveToken(i, u) ==
    /\ tokens' = [tokens EXCEPT ![i] = u]
    /\ tokenOrder' = IF Stored(i) THEN tokenOrder ELSE Append(tokenOrder, i)
    /\ hashToId' = hashToId \cup {i}

\* Mutant: the index of hashes is forgotten.
RemoveTokenOnly(i) ==
    /\ tokens' = [tokens EXCEPT ![i] = None]
    /\ tokenOrder' = RemoveFirst(tokenOrder, i)
    /\ UNCHANGED hashToId

RemoveToken(i) ==
    /\ tokens' = [tokens EXCEPT ![i] = None]
    /\ tokenOrder' = RemoveFirst(tokenOrder, i)
    /\ hashToId' = hashToId \ {i}

\* ListApiTokensUseCase: every token as it is stored, without hash and secret.
ListApiTokens ==
    [tokens |-> [k \in DOMAIN tokenOrder |->
                    [id |-> tokenOrder[k], expires |-> tokens[tokenOrder[k]].expires,
                     revoked |-> tokens[tokenOrder[k]].revoked]],
     total |-> Len(tokenOrder)]

\* All tokens are created with the default prefix.
FindByPrefix(p) == IF p = Prefix THEN tokenOrder ELSE << >>

-----------------------------------------------------------------------------
(***************************************************************************)
(* Requests.                                                               *)
(***************************************************************************)
Start(r, w, i, u) ==
    tokenCalls' = [tokenCalls EXCEPT ![r] = [NoTokenCall EXCEPT !.at = w, !.id = i, !.rec = u]]
Done(r) == tokenCalls' = [tokenCalls EXCEPT ![r] = NoTokenCall]
Stands(r, w) == tokenCalls[r].at = w

TokenInit ==
    /\ now = 0
    /\ tokens = [i \in TokenIds |-> None] /\ tokenOrder = << >>
    /\ hashToId = {} /\ tokenDrawn = {}
    /\ tokenCalls = [r \in TokenRequests |-> NoTokenCall]
    /\ dead = {}

TokenTick ==
    /\ now < MaxTime /\ now' = now + 1
    /\ UNCHANGED <<tokenStore, tokenCalls, dead>>

CreateApiToken(r) ==
    /\ Stands(r, "idle")
    /\ \E x \in Texts, t \in 0 .. MaxTime \cup {None} :
        Start(r, "hash", None, NewToken(x, t))
    /\ UNCHANGED <<now, tokenStore, dead>>

\* ApiToken.create validates after the hash, the expiry with the time of then.
ApiTokenCreated(r) ==
    /\ Stands(r, "hash")
    /\ LET u == tokenCalls[r].rec IN
        IF ~(ValidText(u.text) /\ ValidExpiresAt(u.expires)) THEN UNCHANGED tokenStore
        ELSE \E i \in TokenIds \ tokenDrawn :
                SaveToken(i, u) /\ tokenDrawn' = tokenDrawn \cup {i}
    /\ Done(r) /\ UNCHANGED <<now, dead>>

RevokeApiToken(r) ==
    /\ Stands(r, "idle")
    /\ \E i \in TokenIds : /\ Stored(i) /\ ~IsRevoked(tokens[i])
                           /\ Start(r, "revoke", i, Revoke(tokens[i]))
    /\ UNCHANGED <<now, tokenStore, dead>>

\* save() stores a token that was deleted meanwhile again, as a revoked one.
ApiTokenRevoked(r) ==
    /\ Stands(r, "revoke")
    /\ SaveToken(tokenCalls[r].id, tokenCalls[r].rec)
    /\ dead' = dead \cup {tokenCalls[r].id}
    /\ Done(r) /\ UNCHANGED <<now, tokenDrawn>>

DeleteApiToken(r) ==
    /\ Stands(r, "idle")
    /\ \E i \in TokenIds : Stored(i) /\ Start(r, "delete", i, None)
    /\ UNCHANGED <<now, tokenStore, dead>>

ApiTokenDeleted(r) ==
    /\ Stands(r, "delete")
    /\ RemoveToken(tokenCalls[r].id)
    /\ dead' = dead \cup {tokenCalls[r].id}
    /\ Done(r) /\ UNCHANGED <<now, tokenDrawn>>

\* A token is shown, one that was drawn or not; the guard takes the tokens of
\* its prefix as they are now.
ShowApiToken(r) ==
    /\ Stands(r, "idle")
    /\ \E i \in TokenIds :
        LET full == BuildFullToken(Prefix, Secret[i])
            p == ExtractPrefix(full)
            found == FindByPrefix(p)
        IN  tokenCalls' = [tokenCalls EXCEPT ![r] =
              [NoTokenCall EXCEPT
                 !.at = "guard", !.id = i, !.secret = ExtractSecret(full, p),
                 !.rest = [k \in DOMAIN found |-> <<found[k], tokens[found[k]]>>],
                 !.alive = i \in tokenDrawn \ dead]]
    /\ UNCHANGED <<now, tokenStore, dead>>

Verdict(r, v) ==
    tokenCalls' = [tokenCalls EXCEPT ![r].at = v, ![r].rest = << >>]

\* One comparison; the record compared is the one taken at the beginning, the
\* time that of the verdict.
GuardCompare(r) ==
    /\ Stands(r, "guard")
    /\ LET c == tokenCalls[r] IN
        IF c.rest = << >> THEN Verdict(r, "refused")
        ELSE IF ~VerifyToken(c.secret, c.rest[1][1])
        THEN tokenCalls' = [tokenCalls EXCEPT ![r].rest = Tail(@)]
        ELSE Verdict(r, IF IsValid(c.rest[1][2]) THEN "admitted" ELSE "refused")
    /\ UNCHANGED <<now, tokenStore, dead>>

TokenAnswered(r) ==
    /\ Stands(r, "admitted") \/ Stands(r, "refused")
    /\ Done(r) /\ UNCHANGED <<now, tokenStore, dead>>

TokenStep(r) ==
    \/ CreateApiToken(r) \/ ApiTokenCreated(r)
    \/ RevokeApiToken(r) \/ ApiTokenRevoked(r)
    \/ DeleteApiToken(r) \/ ApiTokenDeleted(r)
    \/ ShowApiToken(r) \/ GuardCompare(r) \/ TokenAnswered(r)
TokenNext == TokenTick \/ \E r \in TokenRequests : TokenStep(r)

TokenSpec == TokenInit /\ [][TokenNext]_tokenVars

-----------------------------------------------------------------------------
(***************************************************************************)
(* Properties.                                                             *)
(***************************************************************************)
\* Types; the map, the order of its keys and the index of hashes agree on what
\* is stored, however revocations and deletions overtake each other, and a list
\* shows every token once; nothing is stored that was not drawn.
TokenTypeOK ==
    /\ now \in 0 .. MaxTime
    /\ tokens \in [TokenIds -> Token \cup {None}]
    /\ tokenOrder \in Seq(TokenIds) /\ tokenDrawn \subseteq TokenIds
    /\ tokenCalls \in [TokenRequests -> TokenCall]
    /\ dead \subseteq tokenDrawn
    /\ \A i \in TokenIds : /\ Stored(i) <=> i \in Range(tokenOrder)
                          /\ Stored(i) => ValidText(tokens[i].text)
    /\ hashToId = Range(tokenOrder)
    /\ ListApiTokens.total = Cardinality(hashToId)
    /\ Range(tokenOrder) \subseteq tokenDrawn

\* Once its revocation or deletion has been answered, no record of a token is
\* ever stored again as a usable one: what a late revocation brings back after
\* a deletion is revoked.
DeadStaysDead ==
    \A i \in dead : Stored(i) => IsRevoked(tokens[i])

Tells(r, v) == Stands(r, "guard") /\ Stands(r, v)'

\* Who is admitted showed a token that nobody had been told was revoked or
\* deleted when the guard began, though it looks at a copy that may be old.
\* Expiry is judged at the moment of the verdict.
OnlyLiveAdmitted ==
    [][\A r \in TokenRequests : Tells(r, "admitted") =>
          /\ tokenCalls[r].alive
          /\ ~IsExpired(tokenCalls[r].rest[1][2])
          /\ tokenCalls[r].rest[1][1] = tokenCalls[r].id]_tokenVars

\* Who is refused showed a token that was unknown or dead when the guard began,
\* or that has expired: whatever underscores a secret holds, and whichever
\* tokens come and go while the hashes are compared.
LiveAdmitted ==
    [][\A r \in TokenRequests : Tells(r, "refused") =>
          \/ ~tokenCalls[r].alive
          \/ \E k \in DOMAIN tokenCalls[r].rest :
                /\ tokenCalls[r].rest[k][1] = tokenCalls[r].id
                /\ IsExpired(tokenCalls[r].rest[k][2])]_tokenVars
=============================================================================
