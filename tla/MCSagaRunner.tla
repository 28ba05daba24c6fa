---------------------------- MODULE MCSagaRunner ----------------------------
(***************************************************************************)
(* Small instances of SagaRunner for TLC.                                  *)
(***************************************************************************)
EXTENDS SagaRunner, TLC

CONSTANTS s1, s2, n1, n2, w1, w2, c1, c2

TwoSteps  == [s \in Sagas |-> 2]

\* Each process of the first pair on n1, of the second on n2.
TwoInstances == [p \in Procs |-> IF p \in {w1, c1} THEN n1 ELSE n2]
=============================================================================
