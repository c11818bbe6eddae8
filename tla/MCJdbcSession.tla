--------------------------- MODULE MCJdbcSession ---------------------------
(* Model checking of JdbcSession on a few threads and connections.         *)
EXTENDS JdbcSession, TLC

Symmetry == Permutations(Thread) \cup Permutations(Conn) \cup Permutations(Write)
=============================================================================
