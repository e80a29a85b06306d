-------------------------- MODULE MCUserDirectory --------------------------
(* Small instances of UserDirectory for TLC: two addresses, one of them *)
(* written in two ways.                                                 *)
EXTENDS UserDirectory, TLC

CONSTANTS a, A, b

MCEmails == {a, A, b}
MCLower == [e \in MCEmails |-> IF e = A THEN a ELSE e]
Symmetry == Permutations(Requests) \cup Permutations(Roles)
              \cup Permutations(Seeds) \cup Permutations(Ids \ Seeds)
=============================================================================
