------------------------------ MODULE PoolDesk ------------------------------
(***************************************************************************)
(* What a client may rely on of getConnection and releaseConnection: a     *)
(* desk with one line.  Who asks is served at once, refused, or joins the  *)
(* end of the line; the head of the line is called to the counter, at      *)
(* most one with each step; and who was called is given a connection,      *)
(* refused, or sent back to the head of the line.  Those at the counter    *)
(* neither time out nor are sent home: only those in the line are.         *)
(***************************************************************************)
EXTENDS Naturals, Sequences

CONSTANT Clients

VARIABLES
    line,       \* the clients that wait, in the order in which they are called
    at          \* where each client is

vars == <<line, at>>

\* Where a client may be.
Place == {"away", "asking", "line", "counter", "holding", "returning"}

Init == line = << >> /\ at = [k \in Clients |-> "away"]

Moved(k, place) == [at EXCEPT ![k] = place]

\* The next state, once the line is q and the clients are where a says: as that,
\* or with the head of the line called.
CallNext(q, a) ==
    \/ line' = q /\ at' = a
    \/ /\ q # << >>
       /\ line' = Tail(q) /\ at' = [a EXCEPT ![Head(q)] = "counter"]

Without(q, i) == SubSeq(q, 1, i - 1) \o SubSeq(q, i + 1, Len(q))

Ask(k) == at[k] = "away" /\ at' = Moved(k, "asking") /\ UNCHANGED line
Refuse(k) == at[k] = "asking" /\ at' = Moved(k, "away") /\ UNCHANGED line
Grant(k) == at[k] = "asking" /\ at' = Moved(k, "holding") /\ UNCHANGED line
Join(k) ==
    /\ at[k] \in {"away", "asking"}
    /\ line' = Append(line, k) /\ at' = Moved(k, "line")

TimeOut(k) ==
    /\ at[k] = "line"
    /\ \E i \in 1 .. Len(line) : line[i] = k /\ line' = Without(line, i)
    /\ at' = Moved(k, "away")

GrantCalled(k) == at[k] = "counter" /\ CallNext(line, Moved(k, "holding"))
RefuseCalled(k) == at[k] = "counter" /\ CallNext(line, Moved(k, "away"))
SendBack(k) == at[k] = "counter" /\ CallNext(<<k>> \o line, Moved(k, "line"))

GiveBack(k) ==
    /\ at[k] = "holding"
    /\ \E place \in {"away", "returning"} : at' = Moved(k, place)
    /\ UNCHANGED line
Return(k) == at[k] = "returning" /\ CallNext(line, Moved(k, "away"))

\* Everybody in the line is sent home at once.
Shut ==
    /\ line' = << >>
    /\ at' = [k \in Clients |-> IF at[k] = "line" THEN "away" ELSE at[k]]

Next ==
    \/ \E k \in Clients :
        \/ Ask(k) \/ Refuse(k) \/ Grant(k) \/ Join(k) \/ TimeOut(k)
        \/ GrantCalled(k) \/ RefuseCalled(k) \/ SendBack(k)
        \/ GiveBack(k) \/ Return(k)
    \/ Shut

Spec == Init /\ [][Next]_vars
=============================================================================
