------------------------------- MODULE MCConn -------------------------------
(* Model checking Conn: writers and closers are symmetric. *)
EXTENDS Conn, TLC

Symmetry == Permutations(Writers) \cup Permutations(Closers)
=============================================================================
