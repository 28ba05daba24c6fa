----------------------------- MODULE MCSagaLocker -----------------------------
(***************************************************************************)
(* Callers of withSagaLock that compete for one key.                       *)
(***************************************************************************)
EXTENDS SagaLocker

CONSTANTS p1, p2
=============================================================================
