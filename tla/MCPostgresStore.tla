--------------------------- MODULE MCPostgresStore ---------------------------
(***************************************************************************)
(* Overlapping transactions on one saga.                                   *)
(***************************************************************************)
EXTENDS PostgresStore, TLC

AnyConn == Permutations(Conns)
=============================================================================
