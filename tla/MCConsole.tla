----------------------------- MODULE MCConsole -----------------------------
(* Small instances of Console for TLC: names and addresses in two spellings, *)
(* an illegal name and illegal details, secrets with and without underscores. *)
EXTENDS Console, TLC

CONSTANTS a, A, b, bad, t1, t2

MCNames == {a, A, b, bad}
MCNormal == [n \in MCNames |-> IF n = A THEN a ELSE n]
\* 253 characters in four labels; and one label, which is no FQDN.
MCLabels == [n \in MCNames |-> IF n = bad THEN <<63>> ELSE <<63, 63, 63, 61>>]
MCAddresses == {a, A, b}
MCLowerCase == [e \in MCAddresses |-> IF e = A THEN a ELSE e]
MCDetails == {[name |-> 100, phone |-> 20, company |-> 100, address |-> 200],
              [name |-> 1, phone |-> 0, company |-> 0, address |-> 201]}
MCTokenIds == {t1, t2}
MCSecret == t1 :> <<"s">> @@ t2 :> <<"_", "s", "_", "w">>
MCPrefix == <<"w", "_">>
MCTexts == {[name |-> 255, description |-> 1000], [name |-> 0, description |-> 0]}
\* AtPositions is SelectSeq, on every list of up to four entries.
ASSUME SelectAssumption ==
    \A n \in 0 .. 4, kept \in SUBSET {1, 2, 3} : \A l \in [1 .. n -> {1, 2, 3}] :
        LET Fits(e) == e \in kept IN
        AtPositions(l, {k \in DOMAIN l : Fits(l[k])}) = SelectSeq(l, Fits)

Symmetry == Permutations(FqdnIds) \cup Permutations(FqdnRequests)
=============================================================================
