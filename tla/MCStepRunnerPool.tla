-------------------------- MODULE MCStepRunnerPool --------------------------
(***************************************************************************)
(* StepRunnerPool with two workers: channels of capacity two, and enough   *)
(* claims to fill both channels and both workers and to block Submit.      *)
(***************************************************************************)
EXTENDS StepRunnerPool
=============================================================================
