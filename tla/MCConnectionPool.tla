-------------------------- MODULE MCConnectionPool --------------------------
(* Small instances of ConnectionPool for TLC. *)
EXTENDS ConnectionPool

Symmetry == Permutations(Clients) \cup Permutations(Conns) \cup Permutations(Runs)

\* A shutdown that comes when each request that is served waits for a ping's answer,
\* and after which nobody calls getConnection.
QuietShutdown ==
    /\ Destroy => \A k \in Served : srv[k] = "ping"
    /\ dpc # "no" => \A k \in Clients : ~GetConnection(k)
=============================================================================
