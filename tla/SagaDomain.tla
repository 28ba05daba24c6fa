----------------------------- MODULE SagaDomain -----------------------------
(***************************************************************************)
(* The pure part of the orchestrator: the statuses of internal/domain, the *)
(* transition table of internal/statemachine, the claim conditions of      *)
(* internal/store and the closures that internal/service passes to         *)
(* store.Update.                                                           *)
(*                                                                         *)
(* A stored saga is a record [status, steps]: steps maps the positions     *)
(* 1..n (the code counts 0..n-1) to step statuses.  Names, targets, error  *)
(* texts and finish times are data that no decision of the code reads; of  *)
(* the context only its size is read, which is SagaList's subject.  They   *)
(* are left out.  `started' maps the positions to the age of started_at,   *)
(* see StepAge.                                                            *)
(***************************************************************************)
EXTENDS Naturals

SagaStatus ==
    {"CREATED", "RUNNING", "COMPLETED", "CANCELING", "COMPENSATED", "FAILED"}

SagaStepStatus ==
    {"PENDING", "RUNNING", "COMPLETED", "COMPENSATING", "COMPENSATED", "FAILED"}

\* started_at seen through the only question asked of it: absent, younger
\* than staleAfter, or at least staleAfter old.
StepAge == {"none", "fresh", "stale"}

\* What a worker does with a claimed step.
DispatchMode == {"none", "execute", "compensate"}

-----------------------------------------------------------------------------
(* internal/statemachine *)

CanTransition(from, to) ==
    \/ from = to
    \/ from = "CREATED"   /\ to \in {"RUNNING", "CANCELING", "FAILED"}
    \/ from = "RUNNING"   /\ to \in {"COMPLETED", "CANCELING", "FAILED"}
    \/ from = "COMPLETED" /\ to = "CANCELING"
    \/ from = "CANCELING" /\ to \in {"COMPENSATED", "FAILED"}

\* `if CanTransition(status, to) { status = to }', the only way the code
\* assigns a saga status.
MoveTo(status, to) == IF CanTransition(status, to) THEN to ELSE status

-----------------------------------------------------------------------------
(* Predicates over the steps of one saga *)

\* A step in one of these has, or may have, effects that compensation must
\* undo.
Open == {"RUNNING", "COMPLETED", "COMPENSATING"}

hasFailedStep(steps) == \E i \in DOMAIN steps : steps[i] = "FAILED"

allStepsCompleted(steps) ==
    /\ DOMAIN steps # {}
    /\ \A i \in DOMAIN steps : steps[i] = "COMPLETED"

hasPendingCompensationSteps(steps) == \E i \in DOMAIN steps : steps[i] \in Open

allPreviousStepsAreCompleted(steps, i) ==
    \A j \in DOMAIN steps : j < i => steps[j] = "COMPLETED"

allNextStepsAreSettledForCompensation(steps, i) ==
    \A j \in DOMAIN steps : j > i => steps[j] \notin Open

-----------------------------------------------------------------------------
(* Claiming: memory.go claimExecutionStep and claimCompensationStep, and   *)
(* the candidate query of sagas.sql ClaimNextStep, which agree.            *)

\* A faulty candidate query without the NOT EXISTS over earlier steps.
CanClaimExecutionUnordered(saga, started, i) ==
    /\ saga.status \in {"CREATED", "RUNNING"}
    /\ \/ saga.steps[i] = "PENDING"
       \/ saga.steps[i] = "RUNNING" /\ started[i] = "stale"

CanClaimExecution(saga, started, i) ==
    /\ saga.status \in {"CREATED", "RUNNING"}
    /\ allPreviousStepsAreCompleted(saga.steps, i)
    /\ \/ saga.steps[i] = "PENDING"
       \/ saga.steps[i] = "RUNNING" /\ started[i] = "stale"

\* A faulty candidate query that never retries a compensation.
CanClaimCompensationOnce(saga, started, i) ==
    /\ saga.status = "CANCELING"
    /\ allNextStepsAreSettledForCompensation(saga.steps, i)
    /\ saga.steps[i] \in {"COMPLETED", "RUNNING"}

CanClaimCompensation(saga, started, i) ==
    /\ saga.status = "CANCELING"
    /\ allNextStepsAreSettledForCompensation(saga.steps, i)
    /\ \/ saga.steps[i] \in {"COMPLETED", "RUNNING"}
       \/ saga.steps[i] = "COMPENSATING" /\ started[i] = "stale"

CanClaim(saga, started, i) ==
    CanClaimExecution(saga, started, i) \/ CanClaimCompensation(saga, started, i)

\* A faulty claim that takes the step's next status from the saga's row.
ClaimedAsSaga(saga, i) == [saga EXCEPT !.steps[i] = saga.status]

\* next_status of the candidate query.
Claimed(saga, i) ==
    [saga EXCEPT !.steps[i] =
        IF saga.status = "CANCELING" THEN "COMPENSATING" ELSE "RUNNING"]

-----------------------------------------------------------------------------
(* The closures passed to store.Update *)

\* The steps in `undone' have nothing to undo; with nothing left to undo the
\* saga is compensated at once.
settled(saga, undone) ==
    LET steps == [i \in DOMAIN saga.steps |->
                    IF saga.steps[i] \in undone THEN "COMPENSATED" ELSE saga.steps[i]]
        status ==
            CASE hasFailedStep(steps) -> MoveTo(saga.status, "FAILED")
              [] ~hasFailedStep(steps) /\ ~hasPendingCompensationSteps(steps) ->
                    MoveTo(saga.status, "COMPENSATED")
              [] OTHER -> saga.status
    IN  [status |-> status, steps |-> steps]

\* Faulty cancels: one forgets the steps nobody has claimed yet, one takes a
\* running step for one without effects.
normalizeKeepingPending(saga) == settled(saga, {})
normalizeDroppingRunning(saga) == settled(saga, {"PENDING", "RUNNING"})

\* Only called with status CANCELING.
normalizeSagaForCancellation(saga) == settled(saga, {"PENDING"})

\* CancelSaga's closure.  For FAILED it returns an error and the store writes
\* nothing, for COMPENSATED it writes back what it read.
canceledSaga(saga) ==
    IF /\ saga.status \in {"CREATED", "RUNNING", "COMPLETED", "CANCELING"}
       /\ CanTransition(saga.status, "CANCELING")
    THEN normalizeSagaForCancellation([saga EXCEPT !.status = "CANCELING"])
    ELSE saga

resolveClaimedStepDispatchMode(sagaStatus, stepStatus) ==
    CASE sagaStatus = "CANCELING" /\ stepStatus \in Open -> "compensate"
      [] sagaStatus \notin {"CANCELING", "COMPENSATED", "FAILED"}
         /\ stepStatus \in {"PENDING", "RUNNING"} -> "execute"
      [] OTHER -> "none"

\* A faulty result that reports the saga completed with its last step,
\* without asking for the others, and so on the first of them.
dispatchResultAnyStep(saga, i, ok) ==
    [status |-> IF ok THEN "COMPLETED" ELSE MoveTo(saga.status, "FAILED"),
     steps  |-> [saga.steps EXCEPT ![i] = IF ok THEN "COMPLETED" ELSE "FAILED"]]

applyClaimedStepDispatchResult(saga, i, ok) ==
    LET steps == [saga.steps EXCEPT ![i] = IF ok THEN "COMPLETED" ELSE "FAILED"]
        begun == IF saga.status = "CREATED" THEN MoveTo(saga.status, "RUNNING")
                                            ELSE saga.status
        status ==
            CASE ~ok -> MoveTo(saga.status, "FAILED")
              [] ok /\ hasFailedStep(steps) -> MoveTo(begun, "FAILED")
              [] ok /\ allStepsCompleted(steps) -> MoveTo(begun, "COMPLETED")
              [] OTHER -> begun
    IN  [status |-> status, steps |-> steps]

applyClaimedStepCompensationResult(saga, i, ok) ==
    LET steps == [saga.steps EXCEPT ![i] = IF ok THEN "COMPENSATED" ELSE "FAILED"]
        status ==
            CASE ~ok \/ hasFailedStep(steps) -> MoveTo(saga.status, "FAILED")
              [] ok /\ ~hasFailedStep(steps) /\ ~hasPendingCompensationSteps(steps) ->
                    MoveTo(saga.status, "COMPENSATED")
              [] OTHER -> saga.status
    IN  [status |-> status, steps |-> steps]

\* updateClaimedStepAfterDispatch's closure.  What the outcome means is read
\* off the saga as it is now: the mode that was dispatched is not consulted.
updatedAfterDispatch(saga, i, ok) ==
    CASE saga.status = "CANCELING" /\ saga.steps[i] \in Open ->
            applyClaimedStepCompensationResult(saga, i, ok)
      [] saga.status # "CANCELING" /\ saga.steps[i] \in {"PENDING", "RUNNING"} ->
            applyClaimedStepDispatchResult(saga, i, ok)
      [] OTHER -> saga

-----------------------------------------------------------------------------
(* What the status of a stored saga says about its steps *)

\* FAILED exactly when some step failed, COMPLETED and COMPENSATED only when
\* every step is, CANCELING only while there is something left to undo and no
\* step could still be started; a saga that is not stored has not started.
StatusTellsSteps(saga) ==
    /\ saga.status = "FAILED" <=> hasFailedStep(saga.steps)
    /\ saga.status \in {"COMPLETED", "COMPENSATED"} =>
            \A i \in DOMAIN saga.steps : saga.steps[i] = saga.status
    /\ saga.status = "CANCELING" =>
            /\ hasPendingCompensationSteps(saga.steps)
            /\ \A i \in DOMAIN saga.steps : saga.steps[i] # "PENDING"
    /\ saga.status = "NONE" =>
            \A i \in DOMAIN saga.steps : saga.steps[i] = "PENDING"

\* While the saga executes, a step that has left PENDING has only completed
\* steps before it.
StartedInOrder(saga) ==
    saga.status \in {"CREATED", "RUNNING"} =>
        \A i \in DOMAIN saga.steps : saga.steps[i] # "PENDING" =>
            /\ saga.steps[i] \in {"RUNNING", "COMPLETED"}
            /\ allPreviousStepsAreCompleted(saga.steps, i)
=============================================================================
