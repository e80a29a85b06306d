------------------------------ MODULE Sessions ------------------------------
(***************************************************************************)
(* The sessions of one account: login, the check of a token on each        *)
(* request (JwtAuthGuard, then RolesGuard), logout, and the blacklist in   *)
(* Redis that ends a session early.                                        *)
(*                                                                         *)
(* A token is what is signed: the role, and the whole second of its issue. *)
(* Redis executes a command some time after it was sent, and answers some  *)
(* time after that; a command without an answer is sent again when the     *)
(* connection returns, and may fail in the end whether executed or not.    *)
(***************************************************************************)
EXTENDS Common, Naturals, FiniteSets

CONSTANTS
    Life,               \* JWT_EXPIRES_IN, in seconds
    MaxClock,           \* bound of the clock, in seconds
    MaxTokens,          \* bound of the tokens signed
    Routes,             \* routes that are called
    SessionRequests     \* requests that wait at one time

ASSUME LifeAssumption == Life \in Nat \ {0} /\ MaxClock \in Nat /\ MaxTokens \in Nat

Role == {"service_member", "service_admin"}
Session == [role : Role, iat : 0 .. MaxClock]
Account == [role : Role, mfa : BOOLEAN]

ASSUME SessionNoneAssumption == None \notin Session /\ None \notin Account

\* The decorators of a route: @Public, both roles, administrators, or none;
\* "logout" is the route of both roles whose handler ends the session.
Route == {"public", "logout", "member", "admin", "bare"}
ASSUME RoutesAssumption == Routes \subseteq Route
Required(route) ==
    CASE route \in {"logout", "member"} -> Role
      [] route = "admin" -> {"service_admin"}
      [] OTHER -> {}

\* What a request waits for: bcrypt; the answer to EXISTS; its handler; the
\* answer to SET.
SessionStage == {"idle", "login", "exists", "admitted", "set"}

VARIABLES
    clock,          \* seconds
    account,        \* the record of the user, or None
    issued,         \* the tokens signed
    blacklist,      \* [Session -> Nat]: the second at which Redis drops the key
    sessionCalls,   \* what each request waits for
    ended,          \* history: tokens whose logout was answered
    earlier         \* history: logins that had begun when MFA was enabled

sessionVars == <<clock, account, issued, blacklist, sessionCalls, ended, earlier>>

\* "reply" is None, the answer of EXISTS, "ok" of SET, or "error"; "over" whether
\* the token had been ended when the request arrived.
SessionCall ==
    [at : SessionStage, rec : Account \cup {None}, token : Session \cup {None},
     route : Route \cup {None}, ttl : Nat, over : BOOLEAN,
     reply : {"none", "listed", "free", "ok", "error"}]
NoSession == [at |-> "idle", rec |-> None, token |-> None, route |-> None,
              ttl |-> 0, over |-> FALSE, reply |-> "none"]

-----------------------------------------------------------------------------
(***************************************************************************)
(* JwtService and RedisTokenBlacklistRepository.                           *)
(***************************************************************************)
Exp(t) == t.iat + Life
VerifyJwt(t) == clock < Exp(t)
GenerateToken(role) == [role |-> role, iat |-> clock]
IsListed(t) == blacklist[t] > clock

\* Mutant: the key is dropped a second early.
TtlShort(t) == (Exp(t) - clock) - 1
Ttl(t) == Exp(t) - clock

-----------------------------------------------------------------------------
(***************************************************************************)
(* The account, changed by requests that other modules model.              *)
(***************************************************************************)
InLogin == {r \in SessionRequests : sessionCalls[r].at = "login"}

SessionInit ==
    /\ clock = 0
    /\ account = [role |-> "service_admin", mfa |-> FALSE]
    /\ issued = {}
    /\ blacklist = [t \in Session |-> 0]
    /\ sessionCalls = [r \in SessionRequests |-> NoSession]
    /\ ended = {} /\ earlier = {}

SessionTick ==
    /\ clock < MaxClock /\ clock' = clock + 1
    /\ UNCHANGED <<account, issued, blacklist, sessionCalls, ended, earlier>>

ChangeAccount ==
    /\ account # None
    /\ account' \in (Account \cup {None}) \ {account}
    /\ earlier' = IF account' # None /\ account'.mfa /\ ~account.mfa THEN InLogin ELSE earlier
    /\ UNCHANGED <<clock, issued, blacklist, sessionCalls, ended>>

-----------------------------------------------------------------------------
(***************************************************************************)
(* Login.                                                                  *)
(***************************************************************************)
To(r, c) == sessionCalls' = [sessionCalls EXCEPT ![r] = c]
Drop(r) == To(r, NoSession)
On(r, w) == sessionCalls[r].at = w

Hand(t) == Cardinality(issued \cup {t}) <= MaxTokens /\ issued' = issued \cup {t}

\* Mutant: a login goes on without a user.
LoginOfNobody(r) ==
    /\ On(r, "idle")
    /\ To(r, [NoSession EXCEPT !.at = "login", !.rec = account])
    /\ earlier' = earlier \ {r}
    /\ UNCHANGED <<clock, account, issued, blacklist, ended>>

\* The user is read, then the password compared.
Login(r) ==
    /\ On(r, "idle") /\ account # None
    /\ To(r, [NoSession EXCEPT !.at = "login", !.rec = account])
    /\ earlier' = earlier \ {r}
    /\ UNCHANGED <<clock, account, issued, blacklist, ended>>

\* Mutant: whether the user has MFA is not asked.
LoginAnsweredAnyone(r) ==
    /\ On(r, "login")
    /\ Hand(GenerateToken(sessionCalls[r].rec.role)) \/ UNCHANGED issued
    /\ Drop(r)
    /\ UNCHANGED <<clock, account, blacklist, ended, earlier>>

\* A wrong password, or MFA, which asks for a code: no token.
LoginAnswered(r) ==
    /\ On(r, "login")
    /\ \/ ~sessionCalls[r].rec.mfa /\ Hand(GenerateToken(sessionCalls[r].rec.role))
       \/ UNCHANGED issued
    /\ Drop(r)
    /\ UNCHANGED <<clock, account, blacklist, ended, earlier>>

\* A code was right: the token is made of the record as it is now.
MfaVerified ==
    /\ account # None /\ account.mfa
    /\ Hand(GenerateToken(account.role))
    /\ UNCHANGED <<clock, account, blacklist, sessionCalls, ended, earlier>>

-----------------------------------------------------------------------------
(***************************************************************************)
(* The guards.                                                             *)
(***************************************************************************)
\* A token that is shown is looked up, on public routes too.
Present(r) ==
    /\ On(r, "idle")
    /\ \E t \in issued, route \in Routes :
        To(r, [NoSession EXCEPT !.at = "exists", !.token = t, !.route = route,
                                !.over = t \in ended])
    /\ UNCHANGED <<clock, account, issued, blacklist, ended, earlier>>

RedisExists(r) ==
    /\ On(r, "exists")
    /\ To(r, [sessionCalls[r] EXCEPT
                !.reply = IF IsListed(sessionCalls[r].token) THEN "listed" ELSE "free"])
    /\ UNCHANGED <<clock, account, issued, blacklist, ended, earlier>>

\* An error is an answer of its own, of a command that was executed or was not.
RedisFails(r) ==
    /\ On(r, "exists") \/ On(r, "set")
    /\ To(r, [sessionCalls[r] EXCEPT !.reply = "error"])
    /\ UNCHANGED <<clock, account, issued, blacklist, ended, earlier>>

RolesAllow(role, route) == route = "public" \/ role \in Required(route)

\* Mutant: what Redis answered is not looked at.
GuardPassesAll(r) ==
    /\ On(r, "exists") /\ sessionCalls[r].reply # "none"
    /\ LET c == sessionCalls[r] IN
        IF VerifyJwt(c.token) /\ RolesAllow(c.token.role, c.route)
        THEN To(r, [c EXCEPT !.at = "admitted"])
        ELSE Drop(r)
    /\ UNCHANGED <<clock, account, issued, blacklist, ended, earlier>>

\* An error counts as "not listed"; then the token is verified and its role
\* compared with those of the route.
GuardPasses(r) ==
    /\ On(r, "exists") /\ sessionCalls[r].reply # "none"
    /\ LET c == sessionCalls[r] IN
        IF /\ c.reply \in {"free", "error"}
           /\ VerifyJwt(c.token) /\ RolesAllow(c.token.role, c.route)
        THEN To(r, [c EXCEPT !.at = "admitted"])
        ELSE Drop(r)
    /\ UNCHANGED <<clock, account, issued, blacklist, ended, earlier>>

\* Every other handler is answered.
Handled(r) ==
    /\ On(r, "admitted") /\ sessionCalls[r].route # "logout"
    /\ Drop(r)
    /\ UNCHANGED <<clock, account, issued, blacklist, ended, earlier>>

-----------------------------------------------------------------------------
(***************************************************************************)
(* Logout.                                                                 *)
(***************************************************************************)
\* The token is verified again: one that has expired meanwhile needs no entry.
Logout(r) ==
    /\ On(r, "admitted") /\ sessionCalls[r].route = "logout"
    /\ LET c == sessionCalls[r] IN
        IF VerifyJwt(c.token)
        THEN /\ To(r, [c EXCEPT !.at = "set", !.ttl = Ttl(c.token), !.reply = "none"])
             /\ UNCHANGED ended
        ELSE Drop(r) /\ ended' = ended \cup {c.token}
    /\ UNCHANGED <<clock, account, issued, blacklist, earlier>>

\* The time to live counts from the execution, once more if it is sent again.
RedisSet(r) ==
    /\ On(r, "set") /\ sessionCalls[r].reply \in {"none", "ok"}
    /\ LET c == sessionCalls[r] IN
        /\ IF c.ttl > 0 THEN blacklist' = [blacklist EXCEPT ![c.token] = clock + c.ttl]
                        ELSE UNCHANGED blacklist
        /\ To(r, [c EXCEPT !.reply = "ok"])
    /\ UNCHANGED <<clock, account, issued, ended, earlier>>

\* An error is answered with an error: the session may or may not have ended.
LogoutAnswered(r) ==
    /\ On(r, "set") /\ sessionCalls[r].reply # "none"
    /\ ended' = IF sessionCalls[r].reply = "ok" THEN ended \cup {sessionCalls[r].token}
                                                ELSE ended
    /\ Drop(r)
    /\ UNCHANGED <<clock, account, issued, blacklist, earlier>>

SessionStep(r) ==
    \/ Login(r) \/ LoginAnswered(r)
    \/ Present(r) \/ RedisExists(r) \/ RedisFails(r) \/ GuardPasses(r) \/ Handled(r)
    \/ Logout(r) \/ RedisSet(r) \/ LogoutAnswered(r)
SessionNext ==
    SessionTick \/ ChangeAccount \/ MfaVerified \/ \E r \in SessionRequests : SessionStep(r)

SessionSpec == SessionInit /\ [][SessionNext]_sessionVars

-----------------------------------------------------------------------------
(***************************************************************************)
(* Properties.                                                             *)
(***************************************************************************)
\* Types; what is shown, ended or about to be listed was signed.
SessionTypeOK ==
    /\ clock \in 0 .. MaxClock
    /\ account \in Account \cup {None}
    /\ issued \subseteq Session /\ ended \subseteq issued
    /\ blacklist \in [Session -> Nat]
    /\ sessionCalls \in [SessionRequests -> SessionCall]
    /\ earlier \subseteq SessionRequests
    /\ \A r \in SessionRequests :
        /\ On(r, "login") => sessionCalls[r].rec # None
        /\ sessionCalls[r].at \in {"exists", "admitted", "set"} => sessionCalls[r].token \in issued

\* A session whose logout was answered stays listed until its token expires by
\* itself: the time to live, counted by Redis from a later moment, never lets
\* the key go before the token.
EndedIsListed ==
    \A t \in ended : VerifyJwt(t) => IsListed(t)

\* A token ended before a request arrived is let through on no route, except
\* when Redis fails during its check.
OnlyOutageReadmits ==
    \A r \in SessionRequests :
        On(r, "admitted") /\ sessionCalls[r].over => sessionCalls[r].reply = "error"

\* A password alone earns a token of an account with MFA only in a login that had
\* begun when MFA was enabled and was reading an old record.
OnlyEarlierLoginsSkipCode ==
    [][\A r \in SessionRequests :
          On(r, "login") /\ account # None /\ account.mfa /\ issued' # issued
              /\ ~On(r, "login")' => r \in earlier]_sessionVars
=============================================================================
