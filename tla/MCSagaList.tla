------------------------------ MODULE MCSagaList ------------------------------
(***************************************************************************)
(* Two or three sagas, some created within one microsecond; limits from    *)
(* below zero to above the maximum, and offsets from below zero to the     *)
(* last one that the cast to int32 makes negative.                         *)
(***************************************************************************)
EXTENDS SagaList

LimitRange == -1..4
OffsetRange == -1..(2 * MaxInt32 + 1)
=============================================================================
