----------------------------- MODULE MCAccount -----------------------------
(* Small instances of Account for TLC. *)
EXTENDS Account, TLC

CONSTANT Weak

\* One password that lacks a kind of character; the others have all four.
MCShape == [p \in Passwords |-> [length |-> 8, kinds |-> IF p = Weak THEN {"lowercase"} ELSE Kind]]
MCRequired == Kind

Symmetry == Permutations(Requests) \cup Permutations(Passwords \ {Weak})
              \cup Permutations(Secrets) \cup Permutations(Codes)
=============================================================================
