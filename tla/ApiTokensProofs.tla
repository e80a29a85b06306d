-------------------------- MODULE ApiTokensProofs --------------------------
(***************************************************************************)
(* TLAPS proofs about ApiTokens, for any number of tokens, any secrets and *)
(* any prefix that ends in its only underscore: the typing invariant, that *)
(* what was revoked or deleted is never usable again, and that the guard   *)
(* admits only tokens that were live when it began, and refuses no live    *)
(* one before it expires.                                                  *)
(***************************************************************************)
EXTENDS ApiTokens, ListLemmas, FiniteSetTheorems

-----------------------------------------------------------------------------
(***************************************************************************)
(* Prefix and secret of what is shown.                                     *)
(***************************************************************************)
LEMMA PrefixFacts ==
    /\ Prefix \in Seq(Char) /\ Len(Prefix) \in Nat /\ Len(Prefix) >= 1
    /\ Prefix[Len(Prefix)] = Underscore
    /\ \A k \in 1 .. Len(Prefix) : Prefix[k] = Underscore => k = Len(Prefix)
<1>1. Prefix \in Seq(Char) /\ Prefix # << >>
  BY PrefixAssumption
<1>2. Len(Prefix) \in Nat /\ DOMAIN Prefix = 1 .. Len(Prefix)
  BY <1>1
<1>3. Len(Prefix) >= 1
  <2>1. Len(Prefix) # 0
    BY <1>1, EmptySeq
  <2> QED
    BY <1>2, <2>1
<1>4. Len(Prefix) \in DOMAIN Prefix
  BY <1>2, <1>3
<1>5. \A k \in DOMAIN Prefix : (Prefix[k] = Underscore) <=> (k = Len(Prefix))
  BY PrefixAssumption
<1>6. Prefix[Len(Prefix)] = Underscore
  BY <1>4, <1>5
<1>7. \A k \in 1 .. Len(Prefix) : Prefix[k] = Underscore => k = Len(Prefix)
  BY <1>2, <1>5
<1> QED
  BY <1>1, <1>2, <1>3, <1>6, <1>7

\* A place of an underscore before which there is none is the first.
LEMMA FirstIs ==
    ASSUME NEW t, NEW n \in Nat, NEW m \in Nat, n >= 1, n <= m, DOMAIN t = 1 .. m,
           t[n] = Underscore, \A j \in 1 .. m : t[j] = Underscore => n <= j
    PROVE  (CHOOSE k \in DOMAIN t : t[k] = Underscore /\ \A j \in DOMAIN t : t[j] = Underscore => k <= j) = n
<1> DEFINE First(k) == t[k] = Underscore /\ \A j \in DOMAIN t : t[j] = Underscore => k <= j
<1>1. n \in DOMAIN t /\ First(n)
  OBVIOUS
<1>2. \A k \in DOMAIN t : First(k) => k = n
  <2> SUFFICES ASSUME NEW k \in DOMAIN t, First(k) PROVE k = n
    OBVIOUS
  <2>1. k <= n /\ n <= k
    BY <1>1
  <2>2. k \in 1 .. m
    OBVIOUS
  <2> QED
    BY <2>1, <2>2
<1>3. (CHOOSE k \in DOMAIN t : First(k)) = n
  <2> HIDE DEF First
  <2> QED
    BY <1>1, <1>2
<1> QED
  BY <1>3

\* The lengths and the characters of a prefix with something behind it.
LEMMA Joined ==
    ASSUME NEW S, NEW p \in Seq(S), NEW s \in Seq(S)
    PROVE  /\ Len(p) \in Nat /\ Len(s) \in Nat /\ DOMAIN (p \o s) = 1 .. (Len(p) + Len(s))
           /\ \A k \in 1 .. (Len(p) + Len(s)) :
                 (p \o s)[k] = IF k <= Len(p) THEN p[k] ELSE s[k - Len(p)]
<1>1. Len(p) \in Nat /\ Len(s) \in Nat
  OBVIOUS
<1>2. DOMAIN (p \o s) = 1 .. (Len(p) + Len(s))
  BY <1>1
<1>3. \A k \in 1 .. (Len(p) + Len(s)) :
         (p \o s)[k] = IF k <= Len(p) THEN p[k] ELSE s[k - Len(p)]
  BY <1>1
<1> QED
  BY <1>1, <1>2, <1>3

\* Taking a list with another behind it apart again.
LEMMA Parted ==
    ASSUME NEW S, NEW p \in Seq(S), NEW s \in Seq(S), p # << >>
    PROVE  /\ SubSeq(p \o s, 1, Len(p)) = p
           /\ SubSeq(p \o s, Len(p) + 1, Len(p \o s)) = s
<1>1. Len(p) \in Nat /\ Len(s) \in Nat /\ Len(p) # 0
  BY EmptySeq
<1>2. Len(p \o s) = Len(p) + Len(s) /\ p \o s \in Seq(S)
  BY ConcatProperties
<1>3. SubSeq(p \o s, 1, Len(p)) = p
  <2>1. 1 \in 1 .. Len(p) /\ Len(p) \in 1 .. Len(p)
    BY <1>1
  <2>2. SubSeq(p \o s, 1, Len(p)) = SubSeq(p, 1, Len(p))
    BY <2>1, SubSeqOfConcat1
  <2>3. SubSeq(p, 1, Len(p)) = p
    BY SubSeqFull
  <2> QED
    BY <2>2, <2>3
<1>4. CASE s = << >>
  <2>1. p \o s = p /\ Len(s) = 0
    BY <1>4, ConcatEmptySeq
  <2>2. SubSeq(p, Len(p) + 1, Len(p)) = << >>
    BY <1>1
  <2> QED
    BY <1>3, <1>4, <2>1, <2>2
<1>5. CASE s # << >>
  <2>1. Len(s) # 0
    BY <1>5, EmptySeq
  <2>2. /\ Len(p) + 1 \in Len(p) + 1 .. Len(p) + Len(s)
        /\ Len(p) + Len(s) \in Len(p) + 1 .. Len(p) + Len(s)
    BY <1>1, <2>1
  <2>3. SubSeq(p \o s, Len(p) + 1, Len(p) + Len(s))
           = SubSeq(s, (Len(p) + 1) - Len(p), (Len(p) + Len(s)) - Len(p))
    BY <2>2, SubSeqOfConcat2
  <2>4. (Len(p) + 1) - Len(p) = 1 /\ (Len(p) + Len(s)) - Len(p) = Len(s)
    BY <1>1
  <2>5. SubSeq(s, 1, Len(s)) = s
    BY SubSeqFull
  <2> QED
    BY <1>2, <1>3, <2>3, <2>4, <2>5
<1> QED
  BY <1>4, <1>5

\* The first underscore of a full token is the last character of the prefix,
\* whatever underscores the secret holds; so what the guard takes apart is what
\* was put together.
LEMMA ShownIsTold ==
    ASSUME NEW i \in TokenIds
    PROVE  /\ ExtractPrefix(BuildFullToken(Prefix, Secret[i])) = Prefix
           /\ ExtractSecret(BuildFullToken(Prefix, Secret[i]), Prefix) = Secret[i]
<1>1. PICK s \in Seq(Char) : s = Secret[i]
  BY SecretAssumption
<1>2. BuildFullToken(Prefix, s) = Prefix \o s
  BY PrefixFacts DEF BuildFullToken, EndsWithUnderscore
<1>3. PICK n \in Nat : n = Len(Prefix) /\ n >= 1
  BY PrefixFacts
<1>4. PICK m \in Nat : m = n + Len(s) /\ n <= m
  BY <1>3, LenProperties
<1>5. PICK t : t = Prefix \o s
  OBVIOUS
<1>6. DOMAIN t = 1 .. m /\ \A k \in 1 .. m : t[k] = IF k <= n THEN Prefix[k] ELSE s[k - n]
  BY <1>3, <1>4, <1>5, Joined, PrefixFacts
<1>7. t[n] = Underscore /\ \A j \in 1 .. m : t[j] = Underscore => n <= j
  <2>1. n \in 1 .. m /\ Prefix[n] = Underscore
    BY <1>3, <1>4, PrefixFacts
  <2>2. ASSUME NEW j \in 1 .. m, t[j] = Underscore, ~(n <= j) PROVE FALSE
    <3>1. j \in 1 .. n /\ j # n /\ j <= n
      BY <1>3, <2>2
    <3>2. Prefix[j] = Underscore
      BY <1>6, <2>2, <3>1
    <3> QED
      BY <1>3, <3>1, <3>2, PrefixFacts
  <2> QED
    BY <1>3, <1>6, <2>1, <2>2
<1>8. (CHOOSE k \in DOMAIN t : t[k] = Underscore /\ \A j \in DOMAIN t : t[j] = Underscore => k <= j) = n
  BY <1>3, <1>4, <1>6, <1>7, FirstIs
<1>9. ExtractPrefix(t) = SubSeq(t, 1, n)
  BY <1>8 DEF ExtractPrefix
<1>10. SubSeq(t, 1, n) = Prefix /\ SubSeq(t, n + 1, Len(t)) = s
  <2>1. Prefix # << >>
    BY PrefixAssumption
  <2> QED
    BY <1>3, <1>5, <2>1, PrefixFacts, Parted
<1> QED
  BY <1>1, <1>2, <1>3, <1>5, <1>9, <1>10 DEF ExtractSecret

-----------------------------------------------------------------------------
(***************************************************************************)
(* The repository.                                                         *)
(***************************************************************************)
TokenStoreOK ==
    /\ tokens \in [TokenIds -> Token \cup {None}]
    /\ tokenOrder \in Seq(TokenIds) /\ IsInjective(tokenOrder)
    /\ tokenDrawn \subseteq TokenIds
    /\ \A i \in TokenIds : /\ Stored(i) <=> i \in ToSet(tokenOrder)
                           /\ Stored(i) => ValidText(tokens[i].text)
    /\ hashToId = ToSet(tokenOrder)
    /\ ToSet(tokenOrder) \subseteq tokenDrawn

LEMMA SaveTokenOK ==
    ASSUME TokenStoreOK, NEW i \in TokenIds, NEW u \in Token, ValidText(u.text),
           tokenDrawn \subseteq tokenDrawn', tokenDrawn' \subseteq TokenIds, i \in tokenDrawn',
           SaveToken(i, u)
    PROVE  TokenStoreOK'
<1>1. /\ tokenOrder' \in Seq(TokenIds) /\ IsInjective(tokenOrder')
      /\ ToSet(tokenOrder') = ToSet(tokenOrder) \cup {i}
  <2>1. CASE Stored(i)
    BY <2>1 DEF SaveToken, TokenStoreOK
  <2>2. CASE ~Stored(i)
    BY <2>2, AppendElements DEF SaveToken, TokenStoreOK
  <2> QED
    BY <2>1, <2>2
<1>2. \A j \in TokenIds : tokens'[j] = IF j = i THEN u ELSE tokens[j]
  BY DEF SaveToken, TokenStoreOK
<1>3. tokens' \in [TokenIds -> Token \cup {None}] /\ u # None
  BY TokenRecordAssumption DEF SaveToken, TokenStoreOK
<1> QED
  BY <1>1, <1>2, <1>3 DEF SaveToken, TokenStoreOK, Stored

LEMMA RemoveTokenOK ==
    ASSUME TokenStoreOK, NEW i \in TokenIds, UNCHANGED tokenDrawn, RemoveToken(i)
    PROVE  TokenStoreOK'
<1>1. /\ tokenOrder' \in Seq(TokenIds) /\ IsInjective(tokenOrder')
      /\ ToSet(tokenOrder') = ToSet(tokenOrder) \ {i}
  BY RemoveFirstElements DEF RemoveToken, TokenStoreOK
<1>2. \A j \in TokenIds : tokens'[j] = IF j = i THEN None ELSE tokens[j]
  BY DEF RemoveToken, TokenStoreOK
<1>3. tokens' \in [TokenIds -> Token \cup {None}]
  BY DEF RemoveToken, TokenStoreOK
<1> QED
  BY <1>1, <1>2, <1>3 DEF RemoveToken, TokenStoreOK, Stored

-----------------------------------------------------------------------------
(***************************************************************************)
(* Requests: what they hold, and what the guard knows of what it is shown. *)
(***************************************************************************)
\* Among the tokens still to be compared, the one that is shown is usable if and
\* only if it was alive when the guard began, and if it was, it is among them.
Guarding(c) ==
    /\ c.id \in TokenIds /\ c.secret = Secret[c.id]
    /\ \A k \in 1 .. Len(c.rest) : c.rest[k][1] = c.id => (c.alive <=> ~c.rest[k][2].revoked)
    /\ c.alive => \E k \in 1 .. Len(c.rest) : c.rest[k][1] = c.id

TokenCallOK(c) ==
    /\ c \in TokenCall
    /\ c.at = "hash" => c.rec \in Token /\ ~c.rec.revoked
    /\ c.at = "revoke" =>
          c.id \in tokenDrawn /\ c.rec \in Token /\ c.rec.revoked /\ ValidText(c.rec.text)
    /\ c.at = "delete" => c.id \in tokenDrawn
    /\ c.at = "guard" => Guarding(c)

TokenCallsOK ==
    /\ tokenCalls \in [TokenRequests -> TokenCall]
    /\ \A r \in TokenRequests : TokenCallOK(tokenCalls[r])

\* Every token that was drawn and is not dead is stored, and not revoked.
AliveStored == \A i \in tokenDrawn \ dead : Stored(i) /\ ~IsRevoked(tokens[i])

TokenIInv ==
    /\ now \in 0 .. MaxTime
    /\ TokenStoreOK /\ TokenCallsOK
    /\ dead \subseteq tokenDrawn
    /\ DeadStaysDead /\ AliveStored

LEMMA NoTokenCallOK == NoTokenCall \in TokenCall /\ NoTokenCall.at = "idle"
  BY DEF NoTokenCall, TokenCall, TokenStage

LEMMA CallStepOK ==
    ASSUME TokenCallsOK, tokenDrawn \subseteq tokenDrawn', NEW r \in TokenRequests, NEW c,
           tokenCalls' = [tokenCalls EXCEPT ![r] = c], c \in TokenCall,
           c.at = "hash" => c.rec \in Token /\ ~c.rec.revoked,
           c.at = "revoke" =>
              c.id \in tokenDrawn' /\ c.rec \in Token /\ c.rec.revoked /\ ValidText(c.rec.text),
           c.at = "delete" => c.id \in tokenDrawn',
           c.at = "guard" => Guarding(c)
    PROVE  TokenCallsOK'
<1>1. \A s \in TokenRequests : tokenCalls'[s] = IF s = r THEN c ELSE tokenCalls[s]
  BY DEF TokenCallsOK
<1>2. tokenCalls' \in [TokenRequests -> TokenCall]
  BY DEF TokenCallsOK
<1> QED
  BY <1>1, <1>2 DEF TokenCallsOK, TokenCallOK, Guarding

LEMMA DoneOK ==
    ASSUME TokenCallsOK, tokenDrawn \subseteq tokenDrawn', NEW r \in TokenRequests, Done(r)
    PROVE  TokenCallsOK'
  BY CallStepOK, NoTokenCallOK DEF Done

LEMMA StartOK ==
    ASSUME TokenCallsOK, UNCHANGED tokenDrawn, NEW r \in TokenRequests,
           NEW w \in {"hash", "revoke", "delete"}, NEW i \in TokenIds \cup {None},
           NEW u \in Token \cup {None},
           w = "hash" => u \in Token /\ ~u.revoked,
           w = "revoke" => i \in tokenDrawn /\ u \in Token /\ u.revoked /\ ValidText(u.text),
           w = "delete" => i \in tokenDrawn,
           Start(r, w, i, u)
    PROVE  TokenCallsOK'
<1>1. PICK b \in TokenCall : b = NoTokenCall
  BY NoTokenCallOK
<1>2. PICK c : c = [b EXCEPT !.at = w, !.id = i, !.rec = u]
  OBVIOUS
<1>3. c \in TokenCall /\ c.at = w /\ c.id = i /\ c.rec = u
  <2>1. w \in TokenStage
    BY DEF TokenStage
  <2> QED
    BY <1>2, <2>1 DEF TokenCall
<1>4. tokenCalls' = [tokenCalls EXCEPT ![r] = c]
  BY <1>1, <1>2 DEF Start
<1> QED
  BY <1>3, <1>4, CallStepOK

LEMMA TokenInitOK == TokenInit => TokenIInv
<1> SUFFICES ASSUME TokenInit PROVE TokenIInv
  OBVIOUS
<1>1. now \in 0 .. MaxTime
  BY TimeAssumption DEF TokenInit
<1>2. ToSet(tokenOrder) = {} /\ IsInjective(tokenOrder) /\ tokenOrder \in Seq(TokenIds)
  BY DEF TokenInit, ToSet, IsInjective
<1>3. TokenStoreOK
  BY <1>2 DEF TokenInit, TokenStoreOK, Stored
<1>4. TokenCallsOK
  BY NoTokenCallOK DEF TokenInit, TokenCallsOK, TokenCallOK
<1> QED
  BY <1>1, <1>3, <1>4 DEF TokenInit, TokenIInv, DeadStaysDead, AliveStored

-----------------------------------------------------------------------------
(***************************************************************************)
(* Every step keeps the invariant.                                         *)
(***************************************************************************)
LEMMA CreateOK ==
    ASSUME TokenIInv, NEW r \in TokenRequests, CreateApiToken(r) PROVE TokenCallsOK'
<1>1. PICK x \in Texts, t \in 0 .. MaxTime \cup {None} : Start(r, "hash", None, NewToken(x, t))
  BY DEF CreateApiToken
<1>2. NewToken(x, t) \in Token /\ ~NewToken(x, t).revoked
  BY TextsAssumption DEF NewToken, Token
<1>3. UNCHANGED tokenDrawn
  BY DEF CreateApiToken, tokenStore
<1> QED
  BY <1>1, <1>2, <1>3, StartOK DEF TokenIInv

LEMMA RevokeOK ==
    ASSUME TokenIInv, NEW r \in TokenRequests, RevokeApiToken(r) PROVE TokenCallsOK'
<1>1. PICK i \in TokenIds : Stored(i) /\ Start(r, "revoke", i, Revoke(tokens[i]))
  BY DEF RevokeApiToken
<1>2. tokens[i] \in Token /\ ValidText(tokens[i].text) /\ i \in tokenDrawn
  BY <1>1 DEF TokenIInv, TokenStoreOK, Stored
<1>3. /\ Revoke(tokens[i]) \in Token /\ Revoke(tokens[i]).revoked
      /\ ValidText(Revoke(tokens[i]).text)
  BY <1>2 DEF Revoke, Token
<1>4. UNCHANGED tokenDrawn
  BY DEF RevokeApiToken, tokenStore
<1> QED
  BY <1>1, <1>2, <1>3, <1>4, StartOK DEF TokenIInv

LEMMA DeleteOK ==
    ASSUME TokenIInv, NEW r \in TokenRequests, DeleteApiToken(r) PROVE TokenCallsOK'
<1>1. PICK i \in TokenIds : Stored(i) /\ Start(r, "delete", i, None)
  BY DEF DeleteApiToken
<1>2. i \in tokenDrawn
  BY <1>1 DEF TokenIInv, TokenStoreOK
<1>3. UNCHANGED tokenDrawn
  BY DEF DeleteApiToken, tokenStore
<1> QED
  BY <1>1, <1>2, <1>3, StartOK DEF TokenIInv

\* What is shown is compared with every token that is stored: with itself if it
\* is alive, and then it is usable; and if it is not, what is stored is not.
LEMMA ShownGuarding ==
    ASSUME TokenIInv, NEW i \in TokenIds, NEW a, a = (i \in tokenDrawn \ dead),
           NEW rest,
           rest = [k \in DOMAIN tokenOrder |-> <<tokenOrder[k], tokens[tokenOrder[k]]>>],
           NEW b \in TokenCall, NEW c,
           c = [b EXCEPT !.at = "guard", !.id = i, !.secret = Secret[i], !.rest = rest, !.alive = a]
    PROVE  c \in TokenCall /\ c.at = "guard" /\ Guarding(c)
<1>1. PICK n \in Nat : n = Len(tokenOrder) /\ DOMAIN tokenOrder = 1 .. n
  BY DEF TokenIInv, TokenStoreOK
<1>2. ASSUME NEW k \in 1 .. n
      PROVE  /\ tokenOrder[k] \in TokenIds /\ tokenOrder[k] \in ToSet(tokenOrder)
             /\ tokens[tokenOrder[k]] \in Token /\ Stored(tokenOrder[k])
  <2>1. tokenOrder[k] \in TokenIds /\ tokenOrder[k] \in ToSet(tokenOrder)
    BY <1>1 DEF TokenIInv, TokenStoreOK, ToSet
  <2> QED
    BY <2>1 DEF TokenIInv, TokenStoreOK, Stored
<1>3. rest \in Seq(TokenIds \X Token) /\ Len(rest) = n /\ \A k \in 1 .. n :
         rest[k][1] = tokenOrder[k] /\ rest[k][2] = tokens[tokenOrder[k]]
  BY <1>1, <1>2
<1>4. Secret[i] \in Seq(Char) /\ "guard" \in TokenStage
  BY SecretAssumption DEF TokenStage
<1>5. /\ c \in TokenCall /\ c.at = "guard" /\ c.id = i /\ c.secret = Secret[i]
      /\ c.rest = rest /\ c.alive = a
  <2>1. c \in TokenCall
    <3>1. a \in BOOLEAN
      OBVIOUS
    <3> QED
      BY <1>3, <1>4, <3>1 DEF TokenCall
  <2> QED
    BY <2>1 DEF TokenCall
<1>6. ASSUME NEW k \in 1 .. n, rest[k][1] = i
      PROVE  a <=> ~rest[k][2].revoked
  <2>1. tokenOrder[k] = i /\ rest[k][2] = tokens[i] /\ i \in tokenDrawn /\ Stored(i)
    BY <1>2, <1>3, <1>6 DEF TokenIInv, TokenStoreOK
  <2> QED
    BY <2>1 DEF TokenIInv, AliveStored, DeadStaysDead, IsRevoked
<1>7. ASSUME a PROVE \E k \in 1 .. n : rest[k][1] = i
  <2>1. i \in ToSet(tokenOrder)
    BY <1>7 DEF TokenIInv, AliveStored, TokenStoreOK
  <2> QED
    BY <1>1, <1>3, <2>1 DEF ToSet
<1>8. Guarding(c)
  <2>1. Len(c.rest) = n /\ c.id \in TokenIds /\ c.secret = Secret[c.id]
    BY <1>3, <1>5
  <2>2. ASSUME NEW k \in 1 .. n, c.rest[k][1] = c.id PROVE c.alive <=> ~c.rest[k][2].revoked
    BY <1>5, <1>6, <2>2
  <2>3. ASSUME c.alive PROVE \E k \in 1 .. n : c.rest[k][1] = c.id
    BY <1>5, <1>7, <2>3
  <2> QED
    BY <2>1, <2>2, <2>3 DEF Guarding
<1> QED
  BY <1>5, <1>8

LEMMA ShowOK ==
    ASSUME TokenIInv, NEW r \in TokenRequests, ShowApiToken(r) PROVE TokenCallsOK'
<1>1. PICK i \in TokenIds :
        tokenCalls' = [tokenCalls EXCEPT ![r] =
           [NoTokenCall EXCEPT
              !.at = "guard", !.id = i, !.secret = Secret[i],
              !.rest = [k \in DOMAIN tokenOrder |-> <<tokenOrder[k], tokens[tokenOrder[k]]>>],
              !.alive = i \in tokenDrawn \ dead]]
  BY ShownIsTold DEF ShowApiToken, FindByPrefix
<1>2. PICK b \in TokenCall : b = NoTokenCall
  BY NoTokenCallOK
<1>3. PICK a : a = (i \in tokenDrawn \ dead)
  OBVIOUS
<1>4. PICK rest : rest = [k \in DOMAIN tokenOrder |-> <<tokenOrder[k], tokens[tokenOrder[k]]>>]
  OBVIOUS
<1>5. PICK c : c = [b EXCEPT !.at = "guard", !.id = i, !.secret = Secret[i],
                             !.rest = rest, !.alive = a]
  OBVIOUS
<1>6. c \in TokenCall /\ c.at = "guard" /\ Guarding(c)
  BY <1>3, <1>4, <1>5, ShownGuarding
<1>7. tokenDrawn \subseteq tokenDrawn'
  BY DEF ShowApiToken, tokenStore
<1>8. tokenCalls' = [tokenCalls EXCEPT ![r] = c]
  BY <1>1, <1>2, <1>3, <1>4, <1>5
<1> QED
  BY <1>6, <1>7, <1>8, CallStepOK DEF TokenIInv

\* The token compared last was not the one shown, so the others still have it.
LEMMA TailGuarding ==
    ASSUME NEW c, c \in TokenCall, Guarding(c), c.rest # << >>, c.secret # Secret[c.rest[1][1]],
           NEW d, d = [c EXCEPT !.rest = Tail(@)]
    PROVE  d \in TokenCall /\ d.at = c.at /\ Guarding(d)
<1>1. c.rest \in Seq(TokenIds \X Token)
  BY DEF TokenCall
<1>2. PICK n \in Nat : n = Len(c.rest) /\ n >= 1
  BY <1>1, EmptySeq
<1>3. PICK t : t = Tail(c.rest)
  OBVIOUS
<1>4. t \in Seq(TokenIds \X Token) /\ Len(t) = n - 1
  BY <1>1, <1>2, <1>3, HeadTailProperties
<1>5. \A k \in 1 .. n - 1 : t[k] = c.rest[k + 1]
  BY <1>1, <1>2, <1>3, HeadTailProperties
<1>6. d \in TokenCall
  BY <1>3, <1>4 DEF TokenCall
<1>7. /\ d.at = c.at /\ d.id = c.id /\ d.secret = c.secret /\ d.alive = c.alive
      /\ d.rest = t
  BY <1>3 DEF TokenCall
<1>8. c.rest[1][1] # c.id
  BY DEF Guarding
<1>9. ASSUME NEW k \in 1 .. n - 1, t[k][1] = c.id PROVE c.alive <=> ~t[k][2].revoked
  <2>1. k + 1 \in 1 .. n /\ t[k] = c.rest[k + 1]
    BY <1>2, <1>5
  <2> QED
    BY <1>2, <1>9, <2>1 DEF Guarding
<1>10. ASSUME c.alive PROVE \E k \in 1 .. n - 1 : t[k][1] = c.id
  <2>1. PICK k \in 1 .. n : c.rest[k][1] = c.id
    BY <1>2, <1>10 DEF Guarding
  <2>2. k # 1
    BY <1>8, <2>1
  <2>3. k - 1 \in 1 .. n - 1 /\ (k - 1) + 1 = k
    BY <1>2, <2>2
  <2>4. t[k - 1] = c.rest[k]
    BY <1>5, <2>3
  <2> QED
    BY <2>1, <2>3, <2>4
<1>11. Guarding(d)
  <2>1. Len(d.rest) = n - 1 /\ d.id \in TokenIds /\ d.secret = Secret[d.id]
    BY <1>4, <1>7 DEF Guarding
  <2>2. ASSUME NEW k \in 1 .. n - 1, d.rest[k][1] = d.id PROVE d.alive <=> ~d.rest[k][2].revoked
    BY <1>7, <1>9, <2>2
  <2>3. ASSUME d.alive PROVE \E k \in 1 .. n - 1 : d.rest[k][1] = d.id
    BY <1>7, <1>10, <2>3
  <2> QED
    BY <2>1, <2>2, <2>3 DEF Guarding
<1> QED
  BY <1>6, <1>7, <1>11

LEMMA VerdictOK ==
    ASSUME TokenCallsOK, UNCHANGED tokenDrawn, NEW r \in TokenRequests,
           NEW v \in {"admitted", "refused"}, Verdict(r, v)
    PROVE  TokenCallsOK'
<1>1. PICK b \in TokenCall : b = tokenCalls[r]
  BY DEF TokenCallsOK
<1>2. PICK c : c = [b EXCEPT !.at = v, !.rest = << >>]
  OBVIOUS
<1>3. v \in TokenStage /\ << >> \in Seq(TokenIds \X Token)
  BY DEF TokenStage
<1>4. c \in TokenCall /\ c.at = v
  BY <1>2, <1>3 DEF TokenCall
<1>5. tokenCalls' = [tokenCalls EXCEPT ![r] = c]
  BY <1>1, <1>2 DEF Verdict, TokenCallsOK
<1> QED
  BY <1>4, <1>5, CallStepOK

LEMMA CompareOK ==
    ASSUME TokenIInv, NEW r \in TokenRequests, GuardCompare(r) PROVE TokenCallsOK'
<1>1. PICK c \in TokenCall : c = tokenCalls[r]
  BY DEF TokenIInv, TokenCallsOK
<1>2. c.at = "guard" /\ Guarding(c) /\ UNCHANGED tokenDrawn /\ TokenCallsOK
  BY <1>1 DEF GuardCompare, Stands, TokenIInv, TokenCallsOK, TokenCallOK, tokenStore
<1>3. CASE \E v \in {"admitted", "refused"} : Verdict(r, v)
  BY <1>2, <1>3, VerdictOK
<1>4. CASE c.rest # << >> /\ c.secret # Secret[c.rest[1][1]]
  <2>1. PICK d : d = [c EXCEPT !.rest = Tail(@)]
    OBVIOUS
  <2>2. tokenCalls' = [tokenCalls EXCEPT ![r] = d]
    BY <1>1, <1>4, <2>1 DEF GuardCompare, VerifyToken
  <2>3. d \in TokenCall /\ d.at = "guard" /\ Guarding(d)
    BY <1>2, <1>4, <2>1, TailGuarding
  <2> QED
    BY <1>2, <2>2, <2>3, CallStepOK
<1> QED
  BY <1>1, <1>3, <1>4 DEF GuardCompare, VerifyToken

LEMMA CreatedOK ==
    ASSUME TokenIInv, NEW r \in TokenRequests, ApiTokenCreated(r) PROVE TokenIInv'
<1> DEFINE u == tokenCalls[r].rec
<1>1. u \in Token /\ ~u.revoked
  BY DEF ApiTokenCreated, Stands, TokenIInv, TokenCallsOK, TokenCallOK
<1>2. Done(r) /\ UNCHANGED <<now, dead>>
  BY DEF ApiTokenCreated
<1>3. CASE UNCHANGED tokenStore
  <2>1. UNCHANGED <<tokens, tokenOrder, hashToId, tokenDrawn>>
    BY <1>3 DEF tokenStore
  <2>2. TokenCallsOK'
    BY <1>2, <2>1, DoneOK DEF TokenIInv
  <2> QED
    BY <1>2, <2>1, <2>2 DEF TokenIInv, TokenStoreOK, Stored, DeadStaysDead, AliveStored
<1>4. ASSUME ValidText(u.text), NEW i \in TokenIds \ tokenDrawn, SaveToken(i, u),
             tokenDrawn' = tokenDrawn \cup {i}
      PROVE  TokenIInv'
  <2>1. tokenDrawn \subseteq tokenDrawn' /\ tokenDrawn' \subseteq TokenIds /\ i \in tokenDrawn'
    BY <1>4 DEF TokenIInv, TokenStoreOK
  <2>2. TokenStoreOK'
    BY <1>1, <1>4, <2>1, SaveTokenOK DEF TokenIInv
  <2>3. TokenCallsOK'
    BY <1>2, <2>1, DoneOK DEF TokenIInv
  <2>4. tokens' = [tokens EXCEPT ![i] = u] /\ tokens \in [TokenIds -> Token \cup {None}]
    BY <1>4 DEF SaveToken, TokenIInv, TokenStoreOK
  <2>5. DeadStaysDead'
    <3>1. dead \subseteq tokenDrawn /\ tokenDrawn \subseteq TokenIds /\ i \notin dead
      BY DEF TokenIInv, TokenStoreOK
    <3>2. \A j \in dead : tokens'[j] = tokens[j]
      BY <2>4, <3>1
    <3> QED
      BY <1>2, <3>2 DEF TokenIInv, DeadStaysDead, Stored
  <2>6. AliveStored'
    <3>1. \A j \in TokenIds : tokens'[j] = IF j = i THEN u ELSE tokens[j]
      BY <2>4
    <3>2. u # None /\ tokenDrawn \subseteq TokenIds
      BY <1>1, TokenRecordAssumption DEF TokenIInv, TokenStoreOK
    <3> QED
      BY <1>1, <1>2, <1>4, <3>1, <3>2 DEF TokenIInv, AliveStored, Stored, IsRevoked
  <2> QED
    BY <1>2, <2>1, <2>2, <2>3, <2>5, <2>6 DEF TokenIInv
<1> QED
  BY <1>3, <1>4 DEF ApiTokenCreated

LEMMA RevokedOK ==
    ASSUME TokenIInv, NEW r \in TokenRequests, ApiTokenRevoked(r) PROVE TokenIInv'
<1>1. PICK i, u : i = tokenCalls[r].id /\ u = tokenCalls[r].rec
  OBVIOUS
<1>2. i \in tokenDrawn /\ u \in Token /\ u.revoked /\ ValidText(u.text) /\ i \in TokenIds
  BY <1>1 DEF ApiTokenRevoked, Stands, TokenIInv, TokenStoreOK, TokenCallsOK, TokenCallOK
<1>3. SaveToken(i, u) /\ dead' = dead \cup {i} /\ Done(r) /\ UNCHANGED <<now, tokenDrawn>>
  BY <1>1 DEF ApiTokenRevoked
<1>4. TokenStoreOK'
  BY <1>2, <1>3, SaveTokenOK DEF TokenIInv, TokenStoreOK
<1>5. TokenCallsOK'
  BY <1>3, DoneOK DEF TokenIInv
<1>6. \A j \in TokenIds : tokens'[j] = IF j = i THEN u ELSE tokens[j]
  BY <1>2, <1>3 DEF SaveToken, TokenIInv, TokenStoreOK
<1>7. dead \subseteq tokenDrawn /\ tokenDrawn \subseteq TokenIds /\ dead' \subseteq tokenDrawn'
  BY <1>2, <1>3 DEF TokenIInv, TokenStoreOK
<1>8. DeadStaysDead'
  BY <1>2, <1>3, <1>6, <1>7 DEF TokenIInv, DeadStaysDead, Stored, IsRevoked
<1>9. AliveStored'
  BY <1>2, <1>3, <1>6, <1>7 DEF TokenIInv, AliveStored, Stored, IsRevoked
<1> QED
  BY <1>3, <1>4, <1>5, <1>7, <1>8, <1>9 DEF TokenIInv

LEMMA DeletedOK ==
    ASSUME TokenIInv, NEW r \in TokenRequests, ApiTokenDeleted(r) PROVE TokenIInv'
<1>1. PICK i : i = tokenCalls[r].id
  OBVIOUS
<1>2. i \in tokenDrawn /\ i \in TokenIds
  BY <1>1 DEF ApiTokenDeleted, Stands, TokenIInv, TokenStoreOK, TokenCallsOK, TokenCallOK
<1>3. RemoveToken(i) /\ dead' = dead \cup {i} /\ Done(r) /\ UNCHANGED <<now, tokenDrawn>>
  BY <1>1 DEF ApiTokenDeleted
<1>4. TokenStoreOK'
  BY <1>2, <1>3, RemoveTokenOK DEF TokenIInv
<1>5. TokenCallsOK'
  BY <1>3, DoneOK DEF TokenIInv
<1>6. \A j \in TokenIds : tokens'[j] = IF j = i THEN None ELSE tokens[j]
  BY <1>2, <1>3 DEF RemoveToken, TokenIInv, TokenStoreOK
<1>7. dead \subseteq tokenDrawn /\ tokenDrawn \subseteq TokenIds /\ dead' \subseteq tokenDrawn'
  BY <1>2, <1>3 DEF TokenIInv, TokenStoreOK
<1>8. DeadStaysDead'
  BY <1>2, <1>3, <1>6, <1>7 DEF TokenIInv, DeadStaysDead, Stored, IsRevoked
<1>9. AliveStored'
  BY <1>2, <1>3, <1>6, <1>7 DEF TokenIInv, AliveStored, Stored, IsRevoked
<1> QED
  BY <1>3, <1>4, <1>5, <1>7, <1>8, <1>9 DEF TokenIInv

\* The steps that neither save nor remove a token.
LEMMA QuietOK ==
    ASSUME TokenIInv, UNCHANGED <<tokenStore, dead>>, now' \in 0 .. MaxTime, TokenCallsOK'
    PROVE  TokenIInv'
<1>1. UNCHANGED <<tokens, tokenOrder, hashToId, tokenDrawn>>
  BY DEF tokenStore
<1> QED
  BY <1>1 DEF TokenIInv, TokenStoreOK, Stored, DeadStaysDead, AliveStored

LEMMA TokenStepOK ==
    ASSUME TokenIInv, [TokenNext]_tokenVars PROVE TokenIInv'
<1>1. CASE UNCHANGED tokenVars
  <2>1. UNCHANGED <<tokenStore, dead, now, tokenCalls, tokenDrawn>>
    BY <1>1 DEF tokenVars, tokenStore
  <2>2. TokenCallsOK'
    BY <2>1 DEF TokenIInv, TokenCallsOK, TokenCallOK, Guarding
  <2> QED
    BY <2>1, <2>2, QuietOK DEF TokenIInv
<1>2. CASE TokenTick
  <2>1. UNCHANGED <<tokenStore, dead, tokenCalls, tokenDrawn>>
    BY <1>2 DEF TokenTick, tokenStore
  <2>2. TokenCallsOK'
    BY <2>1 DEF TokenIInv, TokenCallsOK, TokenCallOK, Guarding
  <2>3. now' \in 0 .. MaxTime
    BY <1>2, TimeAssumption DEF TokenTick, TokenIInv
  <2> QED
    BY <2>1, <2>2, <2>3, QuietOK
<1>3. ASSUME NEW r \in TokenRequests, TokenStep(r) PROVE TokenIInv'
  <2>1. CASE CreateApiToken(r)
    BY <2>1, CreateOK, QuietOK DEF CreateApiToken, TokenIInv
  <2>2. CASE ApiTokenCreated(r)
    BY <2>2, CreatedOK
  <2>3. CASE RevokeApiToken(r)
    BY <2>3, RevokeOK, QuietOK DEF RevokeApiToken, TokenIInv
  <2>4. CASE ApiTokenRevoked(r)
    BY <2>4, RevokedOK
  <2>5. CASE DeleteApiToken(r)
    BY <2>5, DeleteOK, QuietOK DEF DeleteApiToken, TokenIInv
  <2>6. CASE ApiTokenDeleted(r)
    BY <2>6, DeletedOK
  <2>7. CASE ShowApiToken(r)
    BY <2>7, ShowOK, QuietOK DEF ShowApiToken, TokenIInv
  <2>8. CASE GuardCompare(r)
    BY <2>8, CompareOK, QuietOK DEF GuardCompare, TokenIInv
  <2>9. CASE TokenAnswered(r)
    <3>1. TokenCallsOK'
      BY <2>9, DoneOK DEF TokenAnswered, tokenStore, TokenIInv
    <3> QED
      BY <2>9, <3>1, QuietOK DEF TokenAnswered, TokenIInv
  <2> QED
    BY <1>3, <2>1, <2>2, <2>3, <2>4, <2>5, <2>6, <2>7, <2>8, <2>9 DEF TokenStep
<1> QED
  BY <1>1, <1>2, <1>3 DEF TokenNext

\* The invariant all theorems rest on.
LEMMA TokenInvariant == TokenSpec => []TokenIInv
  BY TokenInitOK, TokenStepOK, PTL DEF TokenSpec

-----------------------------------------------------------------------------
(***************************************************************************)
(* What follows.                                                           *)
(***************************************************************************)
\* A list without repetitions is as long as the set of what it holds.
LEMMA ListedOnce ==
    ASSUME NEW S, NEW s \in Seq(S), IsInjective(s)
    PROVE  Cardinality(Range(s)) = Len(s)
<1>1. PICK n \in Nat : n = Len(s) /\ DOMAIN s = 1 .. n
  OBVIOUS
<1>2. IsFiniteSet(1 .. n) /\ Cardinality(1 .. n) = n
  BY FS_Interval
<1>3. s \in [1 .. n -> Range(s)]
  BY <1>1 DEF Range
<1>4. s \in Bijection(1 .. n, Range(s))
  BY <1>1, <1>3 DEF Bijection, Injection, Surjection, IsInjective, Range
<1> QED
  BY <1>1, <1>2, <1>4, FS_Bijection DEF ExistsBijection

\* Types; the map, the order of its keys and the index of hashes agree, a list
\* shows every token once, and nothing is stored that was not drawn.
THEOREM TokenTyping == TokenSpec => []TokenTypeOK
<1>1. TokenIInv => TokenTypeOK
  <2> SUFFICES ASSUME TokenIInv PROVE TokenTypeOK
    OBVIOUS
  <2>1. ToSet(tokenOrder) = Range(tokenOrder)
    BY DEF ToSet, Range
  <2>2. ListApiTokens.total = Cardinality(hashToId)
    BY <2>1, ListedOnce DEF ListApiTokens, TokenIInv, TokenStoreOK
  <2> QED
    BY <2>1, <2>2 DEF TokenIInv, TokenStoreOK, TokenCallsOK, TokenTypeOK
<1> QED
  BY <1>1, TokenInvariant, PTL

\* What was revoked or deleted, and answered, is never stored as usable again.
THEOREM DeadTokensStayDead == TokenSpec => []DeadStaysDead
<1>1. TokenIInv => DeadStaysDead
  BY DEF TokenIInv
<1> QED
  BY <1>1, TokenInvariant, PTL

\* Only the guard's own step leads from comparing to a verdict.
LEMMA TellsCompares ==
    ASSUME TokenIInv, TokenNext, NEW r \in TokenRequests, NEW v \in {"admitted", "refused"},
           Tells(r, v)
    PROVE  GuardCompare(r)
<1>1. tokenCalls[r].at = "guard" /\ tokenCalls'[r].at = v /\ tokenCalls'[r] # tokenCalls[r]
  BY DEF Tells, Stands
<1>2. PICK q \in TokenRequests : TokenStep(q)
  BY <1>1 DEF TokenNext, TokenTick
<1>3. \E c : tokenCalls' = [tokenCalls EXCEPT ![q] = c]
  BY <1>2 DEF TokenStep, CreateApiToken, ApiTokenCreated, RevokeApiToken, ApiTokenRevoked,
              DeleteApiToken, ApiTokenDeleted, ShowApiToken, GuardCompare, TokenAnswered,
              Start, Done, Verdict
<1>4. q = r
  BY <1>1, <1>3 DEF TokenIInv, TokenCallsOK
<1> QED
  BY <1>1, <1>2, <1>4 DEF TokenStep, CreateApiToken, ApiTokenCreated, RevokeApiToken,
              ApiTokenRevoked, DeleteApiToken, ApiTokenDeleted, ShowApiToken, TokenAnswered, Stands

\* What a verdict says of the token shown: either nothing that is left matches,
\* or the first that is left is the token itself, and is judged.
LEMMA VerdictSays ==
    ASSUME TokenIInv, TokenNext, NEW r \in TokenRequests, NEW v \in {"admitted", "refused"},
           Tells(r, v), NEW c, c = tokenCalls[r]
    PROVE  /\ Guarding(c)
           /\ \/ v = "refused" /\ c.rest = << >>
              \/ /\ Len(c.rest) \in Nat /\ Len(c.rest) >= 1 /\ c.rest[1][1] = c.id
                 /\ v = (IF IsValid(c.rest[1][2]) THEN "admitted" ELSE "refused")
<1>1. GuardCompare(r) /\ tokenCalls'[r].at = v
  BY TellsCompares DEF Tells, Stands
<1>2. c \in TokenCall /\ Guarding(c)
  BY <1>1 DEF GuardCompare, Stands, TokenIInv, TokenCallsOK, TokenCallOK
<1>3. c.rest \in Seq(TokenIds \X Token) /\ c.id \in TokenIds
  BY <1>2 DEF TokenCall, Guarding
<1>4. ASSUME NEW w, Verdict(r, w) PROVE v = w
  BY <1>1, <1>2, <1>4 DEF Verdict, TokenCall, TokenIInv, TokenCallsOK
<1>5. CASE c.rest = << >>
  <2>1. Verdict(r, "refused")
    BY <1>1, <1>5 DEF GuardCompare
  <2> QED
    BY <1>2, <1>4, <1>5, <2>1
<1>6. CASE c.rest # << >>
  <2>1. Len(c.rest) \in Nat /\ Len(c.rest) >= 1
    BY <1>3, <1>6, EmptySeq
  <2>2. c.rest[1][1] \in TokenIds
    BY <1>3, <2>1
  <2>3. c.secret = Secret[c.rest[1][1]]
    <3>1. ASSUME c.secret # Secret[c.rest[1][1]] PROVE FALSE
      <4>1. tokenCalls' = [tokenCalls EXCEPT ![r].rest = Tail(@)]
        BY <1>1, <1>6, <3>1 DEF GuardCompare, VerifyToken
      <4>2. tokenCalls'[r].at = c.at
        BY <1>2, <4>1 DEF TokenIInv, TokenCallsOK, TokenCall
      <4> QED
        BY <1>1, <4>2 DEF Tells, Stands
    <3> QED
      BY <3>1
  <2>4. c.rest[1][1] = c.id
    BY <1>2, <1>3, <2>2, <2>3, SecretAssumption DEF Guarding
  <2>5. Verdict(r, IF IsValid(c.rest[1][2]) THEN "admitted" ELSE "refused")
    BY <1>1, <1>6, <2>3 DEF GuardCompare, VerifyToken
  <2> QED
    BY <1>2, <1>4, <2>1, <2>4, <2>5
<1> QED
  BY <1>5, <1>6

\* Who is admitted showed a token nobody had been told was dead when the guard
\* began, and one that has not expired.
THEOREM LiveAloneAdmitted == TokenSpec => OnlyLiveAdmitted
<1>1. TokenIInv /\ [TokenNext]_tokenVars =>
        [\A r \in TokenRequests : Tells(r, "admitted") =>
            /\ tokenCalls[r].alive
            /\ ~IsExpired(tokenCalls[r].rest[1][2])
            /\ tokenCalls[r].rest[1][1] = tokenCalls[r].id]_tokenVars
  <2> SUFFICES ASSUME TokenIInv, TokenNext, NEW r \in TokenRequests, Tells(r, "admitted")
               PROVE  /\ tokenCalls[r].alive
                      /\ ~IsExpired(tokenCalls[r].rest[1][2])
                      /\ tokenCalls[r].rest[1][1] = tokenCalls[r].id
    OBVIOUS
  <2>1. PICK c : c = tokenCalls[r]
    OBVIOUS
  <2>2. /\ Guarding(c) /\ Len(c.rest) \in Nat /\ Len(c.rest) >= 1 /\ c.rest[1][1] = c.id
        /\ IsValid(c.rest[1][2])
    BY <2>1, VerdictSays
  <2>3. 1 \in 1 .. Len(c.rest) /\ ~c.rest[1][2].revoked /\ ~IsExpired(c.rest[1][2])
    BY <2>2 DEF IsValid, IsRevoked
  <2>4. c.alive
    BY <2>2, <2>3 DEF Guarding
  <2> QED
    BY <2>1, <2>2, <2>3, <2>4
<1> QED
  BY <1>1, TokenInvariant, PTL DEF TokenSpec, OnlyLiveAdmitted

\* Who is refused showed a token that was unknown or dead when the guard began,
\* or that has expired.
THEOREM LiveAreAdmitted == TokenSpec => LiveAdmitted
<1>1. TokenIInv /\ [TokenNext]_tokenVars =>
        [\A r \in TokenRequests : Tells(r, "refused") =>
            \/ ~tokenCalls[r].alive
            \/ \E k \in DOMAIN tokenCalls[r].rest :
                  /\ tokenCalls[r].rest[k][1] = tokenCalls[r].id
                  /\ IsExpired(tokenCalls[r].rest[k][2])]_tokenVars
  <2> SUFFICES ASSUME TokenIInv, TokenNext, NEW r \in TokenRequests, Tells(r, "refused"),
                      tokenCalls[r].alive
               PROVE  \E k \in DOMAIN tokenCalls[r].rest :
                        /\ tokenCalls[r].rest[k][1] = tokenCalls[r].id
                        /\ IsExpired(tokenCalls[r].rest[k][2])
    OBVIOUS
  <2>1. PICK c : c = tokenCalls[r]
    OBVIOUS
  <2>2. Guarding(c) /\ c.rest \in Seq(TokenIds \X Token)
    BY <2>1, VerdictSays DEF TokenIInv, TokenCallsOK, TokenCall
  <2>3. c.rest # << >>
    <3>1. ASSUME c.rest = << >> PROVE FALSE
      <4>1. Len(c.rest) = 0
        BY <3>1, EmptySeq
      <4> QED
        BY <2>1, <2>2, <4>1 DEF Guarding
    <3> QED
      BY <3>1
  <2>4. Len(c.rest) \in Nat /\ Len(c.rest) >= 1 /\ c.rest[1][1] = c.id /\ ~IsValid(c.rest[1][2])
    BY <2>1, <2>3, VerdictSays
  <2>5. 1 \in 1 .. Len(c.rest) /\ 1 \in DOMAIN c.rest
    BY <2>2, <2>4
  <2>6. ~c.rest[1][2].revoked
    BY <2>1, <2>2, <2>4, <2>5 DEF Guarding
  <2>7. IsExpired(c.rest[1][2])
    BY <2>4, <2>6 DEF IsValid, IsRevoked
  <2> QED
    BY <2>1, <2>4, <2>5, <2>7
<1> QED
  BY <1>1, TokenInvariant, PTL DEF TokenSpec, LiveAdmitted
=============================================================================
