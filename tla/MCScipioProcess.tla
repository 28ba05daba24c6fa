--------------------------- MODULE MCScipioProcess ---------------------------
(***************************************************************************)
(* A process with calls of both interfaces and two workers.                *)
(***************************************************************************)
EXTENDS ScipioProcess
=============================================================================
