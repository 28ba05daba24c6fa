------------------------------ MODULE MCSagaApi ------------------------------
(***************************************************************************)
(* Overlapping calls, by both interfaces, for one idempotency key and for  *)
(* random saga ids.                                                        *)
(***************************************************************************)
EXTENDS SagaApi, TLC

CONSTANTS c1, c2, c3

OneOfEach == [c \in Calls |-> IF c = c1 THEN "grpc" ELSE "http"]
OneStep == [s \in Ids |-> 1]
Alike == Permutations(Calls \ {c1}) \cup Permutations(Payloads)
=============================================================================
