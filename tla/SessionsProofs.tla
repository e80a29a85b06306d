--------------------------- MODULE SessionsProofs ---------------------------
(***************************************************************************)
(* TLAPS proofs about Sessions, for any number of requests and any life of *)
(* tokens: the typing invariant, that an ended session stays listed until  *)
(* its token expires, that only a failure of Redis lets one in again, and  *)
(* that only a login begun before MFA was enabled goes without a code.     *)
(***************************************************************************)
EXTENDS Sessions, TLAPS

-----------------------------------------------------------------------------
(***************************************************************************)
(* Typing.                                                                 *)
(***************************************************************************)
CallTyped(c) ==
    /\ c \in SessionCall
    /\ c.at = "login" => c.rec # None
    /\ c.at \in {"exists", "admitted", "set"} => c.token \in issued

Calls == \A r \in SessionRequests : CallTyped(sessionCalls[r])

LEMMA TypeIsCalls ==
    SessionTypeOK <=>
        /\ clock \in 0 .. MaxClock
        /\ account \in Account \cup {None}
        /\ issued \subseteq Session /\ ended \subseteq issued
        /\ blacklist \in [Session -> Nat]
        /\ sessionCalls \in [SessionRequests -> SessionCall]
        /\ earlier \subseteq SessionRequests
        /\ Calls
  BY DEF SessionTypeOK, Calls, CallTyped, On

LEMMA CallsMakeType ==
    ASSUME clock' \in 0 .. MaxClock, account' \in Account \cup {None},
           issued' \subseteq Session, ended' \subseteq issued',
           blacklist' \in [Session -> Nat],
           sessionCalls' \in [SessionRequests -> SessionCall],
           earlier' \subseteq SessionRequests, Calls'
    PROVE  SessionTypeOK'
  BY DEF SessionTypeOK, Calls, CallTyped, On

LEMMA NoSessionTyped == NoSession \in SessionCall /\ NoSession.at = "idle"
  BY DEF NoSession, SessionCall, SessionStage

\* A request goes on with a typed call while no token is forgotten.
LEMMA ToTyped ==
    ASSUME SessionTypeOK, issued \subseteq issued', NEW r \in SessionRequests,
           NEW c \in SessionCall, To(r, c),
           c.at = "login" => c.rec # None,
           c.at \in {"exists", "admitted", "set"} => c.token \in issued'
    PROVE  sessionCalls' \in [SessionRequests -> SessionCall] /\ Calls'
  BY TypeIsCalls DEF To, Calls, CallTyped

LEMMA DropTyped ==
    ASSUME SessionTypeOK, issued \subseteq issued', NEW r \in SessionRequests, Drop(r)
    PROVE  sessionCalls' \in [SessionRequests -> SessionCall] /\ Calls'
  BY ToTyped, NoSessionTyped DEF Drop

LEMMA GeneratedTyped ==
    ASSUME SessionTypeOK, NEW role \in Role PROVE GenerateToken(role) \in Session
  BY DEF SessionTypeOK, GenerateToken, Session

\* The calls of a typed state, field by field.
LEMMA CallFields ==
    ASSUME SessionTypeOK, NEW r \in SessionRequests
    PROVE  LET c == sessionCalls[r] IN
           /\ c \in SessionCall
           /\ c.at = "login" => c.rec \in Account
           /\ c.at \in {"exists", "admitted", "set"} => c.token \in issued /\ c.token \in Session
  BY TypeIsCalls DEF Calls, CallTyped, SessionCall

LEMMA SessionInitTyped == SessionInit => SessionTypeOK
<1> SUFFICES ASSUME SessionInit PROVE SessionTypeOK
  OBVIOUS
<1>1. Calls /\ sessionCalls \in [SessionRequests -> SessionCall]
  BY NoSessionTyped DEF SessionInit, Calls, CallTyped
<1>2. clock \in 0 .. MaxClock /\ account \in Account
  BY LifeAssumption DEF SessionInit, Account, Role
<1>3. blacklist \in [Session -> Nat]
  BY DEF SessionInit
<1> QED
  BY <1>1, <1>2, <1>3, TypeIsCalls DEF SessionInit

LEMMA LoginTyped ==
    ASSUME SessionTypeOK, NEW r \in SessionRequests, Login(r) \/ LoginAnswered(r)
    PROVE  SessionTypeOK'
<1>1. CASE Login(r)
  <2> DEFINE c == [NoSession EXCEPT !.at = "login", !.rec = account]
  <2>1. c \in SessionCall /\ c.at = "login" /\ c.rec = account
    BY <1>1, TypeIsCalls, CallsMakeType DEF Login, NoSession, SessionCall, SessionStage
  <2>2. To(r, c) /\ account # None /\ issued' = issued
    BY <1>1 DEF Login
  <2> HIDE DEF c
  <2>3. sessionCalls' \in [SessionRequests -> SessionCall] /\ Calls'
    BY <2>1, <2>2, ToTyped
  <2> QED
    BY <1>1, <2>3, TypeIsCalls, CallsMakeType DEF Login
<1>2. CASE LoginAnswered(r)
  <2>1. sessionCalls[r].rec.role \in Role
    BY <1>2, CallFields DEF LoginAnswered, On, Account
  <2>2. issued \subseteq issued' /\ issued' \subseteq Session
    BY <1>2, <2>1, GeneratedTyped, TypeIsCalls, CallsMakeType DEF LoginAnswered, Hand
  <2>3. sessionCalls' \in [SessionRequests -> SessionCall] /\ Calls'
    BY <1>2, <2>2, DropTyped DEF LoginAnswered
  <2> QED
    BY <1>2, <2>2, <2>3, TypeIsCalls, CallsMakeType DEF LoginAnswered
<1> QED
  BY <1>1, <1>2

LEMMA MfaVerifiedTyped == ASSUME SessionTypeOK, MfaVerified PROVE SessionTypeOK'
<1>1. account.role \in Role
  BY TypeIsCalls, CallsMakeType DEF MfaVerified, Account
<1>2. issued \subseteq issued' /\ issued' \subseteq Session
  BY <1>1, GeneratedTyped, TypeIsCalls, CallsMakeType DEF MfaVerified, Hand
<1>3. Calls'
  BY <1>2, TypeIsCalls, CallsMakeType DEF MfaVerified, Calls, CallTyped
<1> QED
  BY <1>2, <1>3, TypeIsCalls, CallsMakeType DEF MfaVerified

LEMMA GuardTyped ==
    ASSUME SessionTypeOK, NEW r \in SessionRequests,
           Present(r) \/ RedisExists(r) \/ RedisFails(r) \/ GuardPasses(r) \/ Handled(r)
    PROVE  SessionTypeOK'
<1>1. UNCHANGED <<clock, account, issued, blacklist, ended, earlier>>
  BY DEF Present, RedisExists, RedisFails, GuardPasses, Handled
<1> DEFINE c == sessionCalls[r]
<1>2. /\ c \in SessionCall
      /\ c.at \in {"exists", "set"} => c.token \in issued
  BY CallFields
<1>3. CASE Present(r)
  <2>1. PICK t \in issued, route \in Routes :
          To(r, [NoSession EXCEPT !.at = "exists", !.token = t, !.route = route,
                                  !.over = t \in ended])
    BY <1>3 DEF Present
  <2> DEFINE d == [NoSession EXCEPT !.at = "exists", !.token = t, !.route = route,
                                    !.over = t \in ended]
  <2>2. t \in Session /\ route \in Route /\ (t \in ended) \in BOOLEAN
    BY TypeIsCalls, CallsMakeType, RoutesAssumption
  <2>3. d \in SessionCall /\ d.at = "exists" /\ d.token = t
    BY <2>2 DEF NoSession, SessionCall, SessionStage
  <2> HIDE DEF d
  <2>4. To(r, d)
    BY <2>1 DEF d
  <2> QED
    BY <1>1, <2>3, <2>4, ToTyped, TypeIsCalls, CallsMakeType
<1>4. ASSUME NEW v \in {"listed", "free", "error"}, To(r, [c EXCEPT !.reply = v]),
             c.at \in {"exists", "set"}
      PROVE  SessionTypeOK'
  <2> DEFINE d == [c EXCEPT !.reply = v]
  <2>1. d \in SessionCall /\ d.at = c.at /\ d.token = c.token
    BY <1>2 DEF SessionCall
  <2>2. To(r, d)
    BY <1>4
  <2> HIDE DEF d
  <2> QED
    BY <1>1, <1>2, <1>4, <2>1, <2>2, ToTyped, TypeIsCalls, CallsMakeType
<1>5. CASE RedisExists(r) \/ RedisFails(r)
  BY <1>4, <1>5 DEF RedisExists, RedisFails, On
<1>6. ASSUME To(r, [c EXCEPT !.at = "admitted"]), c.at = "exists" PROVE SessionTypeOK'
  <2> DEFINE d == [c EXCEPT !.at = "admitted"]
  <2>1. d \in SessionCall /\ d.at = "admitted" /\ d.token = c.token
    BY <1>2 DEF SessionCall, SessionStage
  <2>2. To(r, d)
    BY <1>6
  <2> HIDE DEF d
  <2> QED
    BY <1>1, <1>2, <1>6, <2>1, <2>2, ToTyped, TypeIsCalls, CallsMakeType
<1>7. ASSUME Drop(r) PROVE SessionTypeOK'
  BY <1>1, <1>7, DropTyped, TypeIsCalls, CallsMakeType
<1>8. CASE GuardPasses(r) \/ Handled(r)
  BY <1>6, <1>7, <1>8 DEF GuardPasses, Handled, On
<1> QED
  BY <1>3, <1>5, <1>8

\* A token that has not expired has a time to live.
LEMMA TtlPositive ==
    ASSUME SessionTypeOK, NEW t \in Session, VerifyJwt(t)
    PROVE  Ttl(t) \in Nat /\ Ttl(t) > 0 /\ clock + Ttl(t) = Exp(t)
<1>1. clock \in Nat /\ Exp(t) \in Nat
  BY LifeAssumption DEF SessionTypeOK, Session, Exp
<1>2. clock < Exp(t)
  BY DEF VerifyJwt
<1> QED
  BY <1>1, <1>2 DEF Ttl

LEMMA LogoutTyped ==
    ASSUME SessionTypeOK, NEW r \in SessionRequests,
           Logout(r) \/ RedisSet(r) \/ LogoutAnswered(r)
    PROVE  SessionTypeOK'
<1> DEFINE c == sessionCalls[r]
<1>1. /\ c \in SessionCall
      /\ c.at \in {"admitted", "set"} => c.token \in issued /\ c.token \in Session
  BY CallFields
<1>2. CASE Logout(r) /\ VerifyJwt(c.token)
  <2> DEFINE d == [c EXCEPT !.at = "set", !.ttl = Ttl(c.token), !.reply = "none"]
  <2>1. c.at = "admitted" /\ To(r, d) /\ UNCHANGED <<clock, account, issued, blacklist, ended, earlier>>
    BY <1>2 DEF Logout, On
  <2>2. Ttl(c.token) \in Nat
    BY <1>1, <1>2, <2>1, TtlPositive
  <2>3. d \in SessionCall /\ d.at = "set" /\ d.token = c.token
    BY <1>1, <2>2 DEF SessionCall, SessionStage
  <2> HIDE DEF d
  <2> QED
    BY <1>1, <2>1, <2>3, ToTyped, TypeIsCalls, CallsMakeType
<1>3. CASE Logout(r) /\ ~VerifyJwt(c.token)
  BY <1>1, <1>3, DropTyped, TypeIsCalls, CallsMakeType DEF Logout, On
<1>4. CASE RedisSet(r)
  <2> DEFINE d == [c EXCEPT !.reply = "ok"]
  <2>1. c.at = "set" /\ To(r, d) /\ UNCHANGED <<clock, account, issued, ended, earlier>>
    BY <1>4 DEF RedisSet, On
  <2>2. d \in SessionCall /\ d.at = "set" /\ d.token = c.token
    BY <1>1, <2>1 DEF SessionCall
  <2>3. clock + c.ttl \in Nat /\ blacklist \in [Session -> Nat]
    BY <1>1 DEF SessionTypeOK, SessionCall
  <2>4. blacklist' \in [Session -> Nat]
    BY <1>4, <2>3 DEF RedisSet
  <2> HIDE DEF d
  <2> QED
    BY <1>1, <2>1, <2>2, <2>4, ToTyped, TypeIsCalls, CallsMakeType
<1>5. CASE LogoutAnswered(r)
  <2>1. ended' \subseteq issued
    BY <1>1, <1>5, TypeIsCalls, CallsMakeType DEF LogoutAnswered, On
  <2> QED
    BY <1>5, <2>1, DropTyped, TypeIsCalls, CallsMakeType DEF LogoutAnswered
<1> QED
  BY <1>2, <1>3, <1>4, <1>5

LEMMA SessionStepTyped == SessionTypeOK /\ [SessionNext]_sessionVars => SessionTypeOK'
<1> SUFFICES ASSUME SessionTypeOK, [SessionNext]_sessionVars PROVE SessionTypeOK'
  OBVIOUS
<1>1. CASE SessionTick
  <2>1. clock' \in 0 .. MaxClock
    BY <1>1, LifeAssumption DEF SessionTick, SessionTypeOK
  <2> QED
    BY <1>1, <2>1 DEF SessionTick, SessionTypeOK, On
<1>2. CASE ChangeAccount
  <2>1. earlier' \subseteq SessionRequests /\ account' \in Account \cup {None}
    BY <1>2 DEF ChangeAccount, InLogin, SessionTypeOK
  <2> QED
    BY <1>2, <2>1 DEF ChangeAccount, SessionTypeOK, On
<1>3. CASE UNCHANGED sessionVars
  BY <1>3 DEF sessionVars, SessionTypeOK, On
<1>4. CASE MfaVerified
  BY <1>4, MfaVerifiedTyped
<1>5. ASSUME NEW r \in SessionRequests, SessionStep(r) PROVE SessionTypeOK'
  BY <1>5, LoginTyped, GuardTyped, LogoutTyped DEF SessionStep
<1> QED
  BY <1>1, <1>2, <1>3, <1>4, <1>5 DEF SessionNext

\* Types; what is shown, ended or about to be listed was signed.
THEOREM SessionTyping == SessionSpec => []SessionTypeOK
  BY SessionInitTyped, SessionStepTyped, PTL DEF SessionSpec

-----------------------------------------------------------------------------
(***************************************************************************)
(* What has ended is listed.                                               *)
(***************************************************************************)
\* Listed until it expires.
ListedLong(t) == blacklist[t] >= Exp(t)

\* A command of SET that is executed now, or later, or has been executed, makes
\* the key outlive its token.
Covers ==
    /\ \A t \in ended : VerifyJwt(t) => ListedLong(t)
    /\ \A r \in SessionRequests : On(r, "set") =>
          LET c == sessionCalls[r] IN
          /\ c.ttl > 0 /\ clock + c.ttl >= Exp(c.token)
          /\ c.reply = "ok" => ListedLong(c.token)

LEMMA CoversStep == SessionTypeOK /\ Covers /\ [SessionNext]_sessionVars => Covers'
<1> SUFFICES ASSUME SessionTypeOK, Covers, [SessionNext]_sessionVars PROVE Covers'
  OBVIOUS
<1>1. clock \in Nat /\ clock' \in Nat /\ clock <= clock'
  <2>1. clock \in Nat
    BY DEF SessionTypeOK
  <2>2. clock' = clock \/ clock' = clock + 1
    BY DEF SessionNext, SessionTick, ChangeAccount, MfaVerified, SessionStep, Login,
           LoginAnswered, Present, RedisExists, RedisFails, GuardPasses, Handled, Logout,
           RedisSet, LogoutAnswered, sessionVars
  <2> QED
    BY <2>1, <2>2
<1>2. \A t \in Session : Exp(t) \in Nat
  BY LifeAssumption DEF Session, Exp
<1>3. ended \subseteq Session
  BY DEF SessionTypeOK
<1>4. \A r \in SessionRequests : On(r, "set") =>
        sessionCalls[r].token \in Session /\ sessionCalls[r].ttl \in Nat
  BY CallFields DEF On, SessionCall
\* Nothing but the clock and the calls that are not in SET changes.
<1>5. ASSUME UNCHANGED <<ended, blacklist>>,
             \A r \in SessionRequests : sessionCalls'[r].at = "set" =>
                /\ sessionCalls[r].at = "set"
                /\ sessionCalls'[r].ttl = sessionCalls[r].ttl
                /\ sessionCalls'[r].token = sessionCalls[r].token
                /\ sessionCalls'[r].reply = "ok" => sessionCalls[r].reply = "ok"
      PROVE  Covers'
  <2>1. \A t \in ended' : (VerifyJwt(t) => ListedLong(t))'
    BY <1>1, <1>2, <1>3, <1>5 DEF Covers, VerifyJwt, ListedLong, Exp
  <2>2. ASSUME NEW r \in SessionRequests, sessionCalls'[r].at = "set"
        PROVE  LET c == sessionCalls'[r] IN
               /\ c.ttl > 0 /\ clock' + c.ttl >= Exp(c.token)
               /\ c.reply = "ok" => blacklist'[c.token] >= Exp(c.token)
    <3>1. /\ sessionCalls[r].ttl > 0 /\ clock + sessionCalls[r].ttl >= Exp(sessionCalls[r].token)
          /\ sessionCalls[r].reply = "ok" => blacklist[sessionCalls[r].token] >= Exp(sessionCalls[r].token)
          /\ sessionCalls[r].token \in Session /\ sessionCalls[r].ttl \in Nat
      BY <1>4, <1>5, <2>2 DEF Covers, ListedLong, On
    <3>2. Exp(sessionCalls[r].token) \in Nat
      BY <1>2, <3>1
    <3> QED
      BY <1>1, <1>5, <2>2, <3>1, <3>2
  <2> QED
    BY <2>1, <2>2 DEF Covers, On, ListedLong, Exp
<1>6. CASE SessionTick \/ ChangeAccount \/ MfaVerified \/ UNCHANGED sessionVars
  BY <1>5, <1>6 DEF SessionTick, ChangeAccount, MfaVerified, sessionVars
<1>7. ASSUME NEW r \in SessionRequests, UNCHANGED <<ended, blacklist>>, NEW c, To(r, c),
             c.at = "set" => FALSE
      PROVE  Covers'
  BY <1>5, <1>7 DEF To, SessionTypeOK
<1>8. ASSUME NEW r \in SessionRequests,
             Login(r) \/ LoginAnswered(r) \/ Present(r) \/ GuardPasses(r) \/ Handled(r)
      PROVE  Covers'
  <2>1. UNCHANGED <<ended, blacklist>>
    BY <1>8 DEF Login, LoginAnswered, Present, GuardPasses, Handled
  <2>2. /\ [NoSession EXCEPT !.at = "login", !.rec = account].at = "login"
        /\ NoSession.at = "idle"
        /\ \A t \in issued, route \in Routes :
              [NoSession EXCEPT !.at = "exists", !.token = t, !.route = route,
                                !.over = t \in ended].at = "exists"
        /\ [sessionCalls[r] EXCEPT !.at = "admitted"].at = "admitted"
    BY CallFields DEF NoSession, SessionCall
  <2> QED
    BY <1>7, <1>8, <2>1, <2>2 DEF Login, LoginAnswered, Present, GuardPasses, Handled, Drop
<1>9. ASSUME NEW r \in SessionRequests, RedisExists(r) \/ RedisFails(r) PROVE Covers'
  <2>1. PICK v \in {"listed", "free", "error"} : To(r, [sessionCalls[r] EXCEPT !.reply = v])
    BY <1>9 DEF RedisExists, RedisFails
  <2> DEFINE d == [sessionCalls[r] EXCEPT !.reply = v]
  <2>2. /\ d.at = sessionCalls[r].at /\ d.ttl = sessionCalls[r].ttl
        /\ d.token = sessionCalls[r].token /\ d.reply = v
    BY CallFields DEF SessionCall
  <2>3. To(r, d) /\ UNCHANGED <<ended, blacklist>>
    BY <1>9, <2>1 DEF RedisExists, RedisFails
  <2> HIDE DEF d
  <2> QED
    BY <1>5, <2>2, <2>3 DEF To, SessionTypeOK
<1>10. ASSUME NEW r \in SessionRequests, Logout(r) PROVE Covers'
  <2> DEFINE c == sessionCalls[r]
             d == [c EXCEPT !.at = "set", !.ttl = Ttl(c.token), !.reply = "none"]
  <2>1. c.at = "admitted" /\ c.token \in Session /\ c \in SessionCall /\ UNCHANGED <<clock, blacklist>>
    BY <1>10, CallFields DEF Logout, On
  <2>2. CASE VerifyJwt(c.token)
    <3>1. To(r, d) /\ UNCHANGED ended
      BY <1>10, <2>2 DEF Logout
    <3>2. /\ d.at = "set" /\ d.ttl = Ttl(c.token) /\ d.reply = "none" /\ d.token = c.token
      BY <2>1 DEF SessionCall
    <3>3. Ttl(c.token) > 0 /\ clock + Ttl(c.token) = Exp(c.token) /\ Exp(c.token) \in Nat
      BY <1>2, <2>1, <2>2, TtlPositive
    <3> HIDE DEF d
    <3>4. \A s \in SessionRequests : sessionCalls'[s] = IF s = r THEN d ELSE sessionCalls[s]
      BY <3>1 DEF To, SessionTypeOK
    <3>5. clock + Ttl(c.token) >= Exp(c.token)
      BY <3>3
    <3> QED
      BY <2>1, <3>1, <3>2, <3>3, <3>4, <3>5 DEF Covers, On, VerifyJwt, ListedLong, Exp
  <2>3. CASE ~VerifyJwt(c.token)
    <3>1. Drop(r) /\ ended' = ended \cup {c.token}
      BY <1>10, <2>3 DEF Logout
    <3>2. \A s \in SessionRequests : sessionCalls'[s] = IF s = r THEN NoSession ELSE sessionCalls[s]
      BY <3>1 DEF Drop, To, SessionTypeOK
    <3> QED
      BY <2>1, <2>3, <3>1, <3>2, NoSessionTyped DEF Covers, On, VerifyJwt, ListedLong, Exp
  <2> QED
    BY <2>2, <2>3
<1>11. ASSUME NEW r \in SessionRequests, RedisSet(r) PROVE Covers'
  <2> DEFINE c == sessionCalls[r]
             d == [c EXCEPT !.reply = "ok"]
  <2>1. /\ On(r, "set") /\ c.token \in Session /\ c \in SessionCall /\ UNCHANGED <<clock, ended>>
        /\ c.ttl > 0 /\ clock + c.ttl >= Exp(c.token)
    BY <1>11, <1>4, CallFields DEF RedisSet, Covers
  <2>2. blacklist' = [blacklist EXCEPT ![c.token] = clock + c.ttl] /\ To(r, d)
    BY <1>11, <2>1 DEF RedisSet
  <2>3. \A t \in Session : blacklist'[t] = IF t = c.token THEN clock + c.ttl ELSE blacklist[t]
    BY <2>1, <2>2 DEF SessionTypeOK
  <2>4. /\ d.at = "set" /\ d.ttl = c.ttl /\ d.reply = "ok" /\ d.token = c.token
    BY <2>1 DEF SessionCall, On
  <2> HIDE DEF d
  <2>5. \A s \in SessionRequests : sessionCalls'[s] = IF s = r THEN d ELSE sessionCalls[s]
    BY <2>2 DEF To, SessionTypeOK
  <2>6. \A t \in Session : ListedLong(t) => blacklist'[t] >= Exp(t)
    BY <2>1, <2>3 DEF ListedLong
  <2>7. \A t \in ended' : (VerifyJwt(t) => ListedLong(t))'
    BY <1>3, <2>1, <2>6 DEF Covers, VerifyJwt, ListedLong, Exp
  <2>8. ASSUME NEW s \in SessionRequests, sessionCalls'[s].at = "set"
        PROVE  LET e == sessionCalls'[s] IN
               /\ e.ttl > 0 /\ clock' + e.ttl >= Exp(e.token)
               /\ e.reply = "ok" => blacklist'[e.token] >= Exp(e.token)
    <3>1. CASE s = r
      BY <2>1, <2>3, <2>4, <2>5, <3>1
    <3>2. CASE s # r
      <4>1. sessionCalls'[s] = sessionCalls[s] /\ On(s, "set")
        BY <2>5, <2>8, <3>2 DEF On
      <4>2. sessionCalls[s].token \in Session
        BY <1>4, <4>1
      <4> QED
        BY <2>1, <2>6, <4>1, <4>2 DEF Covers
    <3> QED
      BY <3>1, <3>2
  <2> QED
    BY <2>7, <2>8 DEF Covers, On, ListedLong, Exp
<1>12. ASSUME NEW r \in SessionRequests, LogoutAnswered(r) PROVE Covers'
  <2> DEFINE c == sessionCalls[r]
  <2>1. On(r, "set") /\ Drop(r) /\ UNCHANGED <<clock, blacklist>>
    BY <1>12 DEF LogoutAnswered
  <2>2. \A t \in ended' : t \in ended \/ ListedLong(t)
    BY <1>12, <2>1 DEF LogoutAnswered, Covers
  <2>3. \A s \in SessionRequests : sessionCalls'[s] = IF s = r THEN NoSession ELSE sessionCalls[s]
    BY <2>1 DEF Drop, To, SessionTypeOK
  <2> QED
    BY <2>1, <2>2, <2>3, NoSessionTyped DEF Covers, On, VerifyJwt, ListedLong, Exp
<1> QED
  BY <1>6, <1>8, <1>9, <1>10, <1>11, <1>12 DEF SessionNext, SessionStep

LEMMA SessionInitCovers == SessionInit => Covers
  BY NoSessionTyped DEF SessionInit, Covers, On

\* A session whose logout was answered stays listed until its token expires.
THEOREM EndedStaysListed == SessionSpec => []EndedIsListed
<1>1. SessionTypeOK /\ Covers => EndedIsListed
  <2> SUFFICES ASSUME SessionTypeOK, Covers, NEW t \in ended, VerifyJwt(t) PROVE IsListed(t)
    BY DEF EndedIsListed
  <2>1. blacklist[t] >= Exp(t) /\ clock < Exp(t)
    BY DEF Covers, ListedLong, VerifyJwt
  <2>2. t \in Session /\ clock \in Nat
    BY DEF SessionTypeOK
  <2>3. blacklist[t] \in Nat
    BY <2>2 DEF SessionTypeOK
  <2>4. Exp(t) \in Nat
    BY <2>2, LifeAssumption DEF Session, Exp
  <2> QED
    BY <2>1, <2>2, <2>3, <2>4 DEF IsListed
<1> QED
  BY <1>1, SessionInitCovers, CoversStep, SessionTyping, PTL DEF SessionSpec

-----------------------------------------------------------------------------
(***************************************************************************)
(* Who is let in again.                                                    *)
(***************************************************************************)
\* Of a token that was over, Redis says it is listed, or the token has expired,
\* or Redis failed.
Refused ==
    \A r \in SessionRequests :
        LET c == sessionCalls[r] IN
        /\ c.at = "exists" /\ c.over =>
              c.token \in ended /\ (c.reply \in {"free", "ok"} => ~VerifyJwt(c.token))
        /\ c.at = "admitted" /\ c.over => c.reply = "error"

LEMMA RefusedStep ==
    SessionTypeOK /\ EndedIsListed /\ Refused /\ [SessionNext]_sessionVars => Refused'
<1> SUFFICES ASSUME SessionTypeOK, EndedIsListed, Refused, [SessionNext]_sessionVars
             PROVE  Refused'
  OBVIOUS
<1>1. clock \in Nat /\ (clock' = clock \/ clock' = clock + 1) /\ ended \subseteq ended'
  <2>1. clock \in Nat
    BY DEF SessionTypeOK
  <2>2. /\ clock' = clock \/ clock' = clock + 1
        /\ ended \subseteq ended'
    BY DEF SessionNext, SessionTick, ChangeAccount, MfaVerified, SessionStep, Login,
           LoginAnswered, Present, RedisExists, RedisFails, GuardPasses, Handled, Logout,
           RedisSet, LogoutAnswered, sessionVars
  <2> QED
    BY <2>1, <2>2
\* A token that has expired stays so.
<1>2. \A t \in Session : ~VerifyJwt(t) => ~(clock' < Exp(t))
  <2> SUFFICES ASSUME NEW t \in Session, ~(clock < Exp(t)) PROVE ~(clock' < Exp(t))
    BY DEF VerifyJwt
  <2>1. Exp(t) \in Nat
    BY LifeAssumption DEF Session, Exp
  <2> QED
    BY <1>1, <2>1
<1>3. \A r \in SessionRequests : sessionCalls[r].at \in {"exists", "admitted"} =>
        sessionCalls[r].token \in Session
  BY CallFields
\* The calls that a step leaves alone stay refused.
<1>4. ASSUME NEW s \in SessionRequests, sessionCalls'[s] = sessionCalls[s]
      PROVE  LET c == sessionCalls'[s] IN
             /\ c.at = "exists" /\ c.over =>
                   c.token \in ended' /\ (c.reply \in {"free", "ok"} => ~(clock' < Exp(c.token)))
             /\ c.at = "admitted" /\ c.over => c.reply = "error"
  BY <1>1, <1>2, <1>3, <1>4 DEF Refused
<1>5. ASSUME NEW r \in SessionRequests, NEW c, To(r, c),
             c.at = "exists" /\ c.over =>
                c.token \in ended' /\ (c.reply \in {"free", "ok"} => ~(clock' < Exp(c.token))),
             c.at = "admitted" /\ c.over => c.reply = "error"
      PROVE  Refused'
  <2>1. sessionCalls' = [sessionCalls EXCEPT ![r] = c] /\ sessionCalls \in [SessionRequests -> SessionCall]
    BY <1>5 DEF To, SessionTypeOK
  <2>2. \A s \in SessionRequests : sessionCalls'[s] = IF s = r THEN c ELSE sessionCalls[s]
    BY <2>1
  <2> QED
    BY <1>4, <1>5, <2>2 DEF Refused, VerifyJwt, Exp
<1>6. CASE UNCHANGED sessionCalls
  BY <1>4, <1>6 DEF Refused, VerifyJwt, Exp
<1>7. CASE SessionTick \/ ChangeAccount \/ MfaVerified \/ UNCHANGED sessionVars
  BY <1>6, <1>7 DEF SessionTick, ChangeAccount, MfaVerified, sessionVars
<1>8. ASSUME NEW r \in SessionRequests, Drop(r) PROVE Refused'
  BY <1>5, <1>8, NoSessionTyped DEF Drop
<1>9. ASSUME NEW r \in SessionRequests, Login(r) \/ LoginAnswered(r) \/ Handled(r) \/ LogoutAnswered(r)
      PROVE  Refused'
  <2>1. [NoSession EXCEPT !.at = "login", !.rec = account].at = "login"
    BY DEF NoSession
  <2>2. CASE Login(r)
    BY <1>5, <2>1, <2>2 DEF Login
  <2> QED
    BY <1>8, <1>9, <2>2 DEF LoginAnswered, Handled, LogoutAnswered
<1>10. ASSUME NEW r \in SessionRequests, Present(r) PROVE Refused'
  <2>1. PICK t \in issued, route \in Routes :
          To(r, [NoSession EXCEPT !.at = "exists", !.token = t, !.route = route,
                                  !.over = t \in ended])
    BY <1>10 DEF Present
  <2> DEFINE d == [NoSession EXCEPT !.at = "exists", !.token = t, !.route = route,
                                    !.over = t \in ended]
  <2>2. /\ d.at = "exists" /\ d.token = t /\ d.over = (t \in ended) /\ d.reply = "none"
    BY DEF NoSession
  <2>3. To(r, d) /\ ended' = ended
    BY <1>10, <2>1 DEF Present
  <2> HIDE DEF d
  <2> QED
    BY <1>5, <2>2, <2>3
<1>11. ASSUME NEW r \in SessionRequests, RedisExists(r) \/ RedisFails(r) PROVE Refused'
  <2> DEFINE c == sessionCalls[r]
  <2>1. PICK v \in {"listed", "free", "error"} :
          /\ To(r, [c EXCEPT !.reply = v]) /\ c.at \in {"exists", "set"}
          /\ c.at = "exists" /\ v = "free" => ~IsListed(c.token)
    BY <1>11 DEF RedisExists, RedisFails, On
  <2> DEFINE d == [c EXCEPT !.reply = v]
  <2>2. /\ d.at = c.at /\ d.token = c.token /\ d.over = c.over /\ d.reply = v
    BY CallFields DEF SessionCall
  <2>3. To(r, d) /\ UNCHANGED <<ended, clock>>
    BY <1>11, <2>1 DEF RedisExists, RedisFails
  <2> HIDE DEF d
  <2>4. d.at = "exists" /\ d.over => d.token \in ended /\ (v = "free" => ~VerifyJwt(d.token))
    BY <2>1, <2>2 DEF Refused, EndedIsListed
  <2> QED
    BY <1>5, <2>1, <2>2, <2>3, <2>4 DEF VerifyJwt
<1>12. ASSUME NEW r \in SessionRequests, GuardPasses(r) PROVE Refused'
  <2> DEFINE c == sessionCalls[r]
             d == [c EXCEPT !.at = "admitted"]
  <2>1. d.at = "admitted" /\ d.over = c.over /\ d.reply = c.reply
    BY CallFields DEF SessionCall
  <2>2. c.at = "exists"
    BY <1>12 DEF GuardPasses, On
  <2>3. \/ Drop(r)
        \/ c.reply \in {"free", "error"} /\ VerifyJwt(c.token) /\ To(r, d)
    BY <1>12 DEF GuardPasses
  <2> HIDE DEF d
  <2>4. c.reply = "free" /\ VerifyJwt(c.token) => ~c.over
    BY <2>2 DEF Refused
  <2> QED
    BY <1>5, <1>8, <2>1, <2>3, <2>4
<1>13. ASSUME NEW r \in SessionRequests, Logout(r) \/ RedisSet(r) PROVE Refused'
  <2> DEFINE c == sessionCalls[r]
  <2>1. /\ [c EXCEPT !.at = "set", !.ttl = Ttl(c.token), !.reply = "none"].at = "set"
        /\ [c EXCEPT !.reply = "ok"].at = c.at
    BY CallFields DEF SessionCall
  <2>2. RedisSet(r) => c.at = "set"
    BY DEF RedisSet, On
  <2> QED
    BY <1>5, <1>8, <1>13, <2>1, <2>2 DEF Logout, RedisSet
<1> QED
  BY <1>7, <1>9, <1>10, <1>11, <1>12, <1>13 DEF SessionNext, SessionStep

\* A token that was ended before its request arrived is let in only when Redis
\* failed during the check.
THEOREM OutageAloneReadmits == SessionSpec => []OnlyOutageReadmits
<1>1. SessionInit => Refused
  BY NoSessionTyped DEF SessionInit, Refused
<1>2. Refused => OnlyOutageReadmits
  BY DEF Refused, OnlyOutageReadmits, On
<1> QED
  BY <1>1, <1>2, RefusedStep, EndedStaysListed, SessionTyping, PTL DEF SessionSpec

-----------------------------------------------------------------------------
(***************************************************************************)
(* Who needs no code.                                                      *)
(***************************************************************************)
\* Of an account with MFA, a waiting login that holds a record without it had
\* begun when MFA was enabled.
Noted ==
    \A r \in SessionRequests :
        On(r, "login") /\ ~sessionCalls[r].rec.mfa /\ account # None /\ account.mfa => r \in earlier

LEMMA NotedStep == SessionTypeOK /\ Noted /\ [SessionNext]_sessionVars => Noted'
<1> SUFFICES ASSUME SessionTypeOK, Noted, [SessionNext]_sessionVars PROVE Noted'
  OBVIOUS
<1>1. CASE UNCHANGED <<account, earlier, sessionCalls>>
  BY <1>1 DEF Noted, On
<1>2. CASE ChangeAccount
  BY <1>2 DEF ChangeAccount, Noted, On, InLogin
<1>3. ASSUME UNCHANGED account, NEW r \in SessionRequests, NEW c, To(r, c),
             \A s \in SessionRequests \ {r} : s \in earlier => s \in earlier',
             c.at = "login" => c.rec = account
      PROVE  Noted'
  <2>1. \A s \in SessionRequests : sessionCalls'[s] = IF s = r THEN c ELSE sessionCalls[s]
    BY <1>3 DEF To, SessionTypeOK
  <2> QED
    BY <1>3, <2>1 DEF Noted, On
<1>4. ASSUME NEW r \in SessionRequests, Login(r) PROVE Noted'
  <2>1. /\ [NoSession EXCEPT !.at = "login", !.rec = account].rec = account
    BY DEF NoSession
  <2> QED
    BY <1>3, <1>4, <2>1 DEF Login
<1>5. ASSUME NEW r \in SessionRequests, SessionStep(r), ~Login(r) PROVE Noted'
  <2>1. UNCHANGED <<account, earlier>>
    BY <1>5 DEF SessionStep, LoginAnswered, Present, RedisExists, RedisFails, GuardPasses,
                Handled, Logout, RedisSet, LogoutAnswered
  <2> DEFINE c == sessionCalls[r]
  <2>2. /\ \A t \in issued, route \in Routes :
              [NoSession EXCEPT !.at = "exists", !.token = t, !.route = route,
                                !.over = t \in ended].at = "exists"
        /\ [c EXCEPT !.at = "admitted"].at = "admitted" /\ NoSession.at = "idle"
        /\ [c EXCEPT !.at = "set", !.ttl = Ttl(c.token), !.reply = "none"].at = "set"
        /\ \A v : [c EXCEPT !.reply = v].at = c.at
    BY CallFields DEF NoSession, SessionCall
  <2>3. CASE LoginAnswered(r) \/ Handled(r) \/ LogoutAnswered(r)
    BY <1>3, <2>1, <2>2, <2>3 DEF LoginAnswered, Handled, LogoutAnswered, Drop
  <2>4. CASE Present(r)
    BY <1>3, <2>1, <2>2, <2>4 DEF Present
  <2>5. CASE RedisExists(r) \/ RedisFails(r) \/ RedisSet(r)
    <3>1. c.at # "login"
      BY <2>5 DEF RedisExists, RedisFails, RedisSet, On
    <3> QED
      BY <1>3, <2>1, <2>2, <2>5, <3>1 DEF RedisExists, RedisFails, RedisSet
  <2>6. CASE GuardPasses(r) \/ Logout(r)
    BY <1>3, <2>1, <2>2, <2>6 DEF GuardPasses, Logout, Drop
  <2> QED
    BY <1>5, <2>3, <2>4, <2>5, <2>6 DEF SessionStep
<1> QED
  BY <1>1, <1>2, <1>4, <1>5 DEF SessionNext, SessionTick, MfaVerified, sessionVars

\* A password alone earns a token of an account with MFA only in a login that
\* had begun when MFA was enabled.
THEOREM EarlierLoginsAloneSkip == SessionSpec => OnlyEarlierLoginsSkipCode
<1>1. SessionTypeOK /\ Noted /\ [SessionNext]_sessionVars =>
        [\A r \in SessionRequests :
            On(r, "login") /\ account # None /\ account.mfa /\ issued' # issued
                /\ ~On(r, "login")' => r \in earlier]_sessionVars
  <2> SUFFICES ASSUME SessionTypeOK, Noted, SessionNext, NEW r \in SessionRequests,
                      On(r, "login"), account # None, account.mfa, issued' # issued,
                      sessionCalls'[r].at # "login"
               PROVE  r \in earlier
    BY DEF On
  <2>1. ~MfaVerified
    BY DEF MfaVerified, On
  <2>2. PICK s \in SessionRequests : LoginAnswered(s)
    BY <2>1 DEF SessionNext, SessionTick, ChangeAccount, SessionStep, Login, Present,
                RedisExists, RedisFails, GuardPasses, Handled, Logout, RedisSet, LogoutAnswered
  <2>3. s = r
    BY <2>2 DEF LoginAnswered, Drop, To, On, SessionTypeOK
  <2>4. ~sessionCalls[r].rec.mfa
    BY <2>2, <2>3 DEF LoginAnswered
  <2> QED
    BY <2>4 DEF Noted
<1>2. SessionInit => Noted
  BY NoSessionTyped DEF SessionInit, Noted, On
<1> QED
  BY <1>1, <1>2, NotedStep, SessionTyping, PTL DEF SessionSpec, OnlyEarlierLoginsSkipCode
=============================================================================
