----------------------------- MODULE CodeLedger -----------------------------
(***************************************************************************)
(* What a user may rely on of one-time codes: a verification claims a code *)
(* that is live and later redeems it; what has been redeemed is spent and  *)
(* never live again, so nobody can claim it any more.  Issuing codes       *)
(* replaces those that were live; revoking leaves none.                    *)
(***************************************************************************)
CONSTANTS Claimants, Codes, None

VARIABLES live, spent, claim

vars == <<live, spent, claim>>

Init == live = {} /\ spent = {} /\ claim = [r \in Claimants |-> None]

Claim(r, c) ==
    /\ claim[r] = None /\ c \in live
    /\ claim' = [claim EXCEPT ![r] = c]
    /\ UNCHANGED <<live, spent>>

Redeem(r) ==
    /\ claim[r] # None
    /\ spent' = spent \cup {claim[r]} /\ live' = live \ {claim[r]}
    /\ claim' = [claim EXCEPT ![r] = None]

Issue ==
    /\ live' \in SUBSET (Codes \ spent)
    /\ {claim[r] : r \in Claimants} \cap live' \subseteq live
    /\ UNCHANGED <<spent, claim>>

Next ==
    \/ Issue
    \/ \E r \in Claimants : Redeem(r) \/ \E c \in Codes : Claim(r, c)

Spec == Init /\ [][Next]_vars
=============================================================================
