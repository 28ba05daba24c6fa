---------------------------- MODULE PostgresStore ----------------------------
(***************************************************************************)
(* One saga in Postgres: the rows of sagas and saga_steps that belong to   *)
(* it, and the transactions of internal/store/postgres.go on them, down to *)
(* the statements, snapshots and row locks that decide what they see.      *)
(*                                                                         *)
(* SagaRunner takes every store operation for atomic; this module shows    *)
(* what stays true when it is not.  Nothing here relies on the saga lock:  *)
(* any two transactions may overlap, also one whose client gave up waiting *)
(* for its COMMIT and released the saga, which the server still finishes.  *)
(*                                                                         *)
(*  - ClaimNextStep is one READ COMMITTED statement.  It chooses by its    *)
(*    snapshot, locks the step's row only, and when that row has changed   *)
(*    since, evaluates the condition again with the new version of this    *)
(*    one row; the saga's row, the other steps and next_status stay those  *)
(*    of the snapshot.                                                     *)
(*  - Update reads the saga's row and then the steps' rows FOR UPDATE and  *)
(*    writes all of them back.                                             *)
(*  - Get is a REPEATABLE READ transaction of two statements.              *)
(***************************************************************************)
EXTENDS SagaDomain

CONSTANTS
    Conns,          \* connections of all instances' pools
    N,              \* number of steps of the saga
    MaxAttempts     \* bound on the attempts of a step

Steps == 1..N

ASSUME PostgresAssumption == N \in Nat \ {0} /\ MaxAttempts \in Nat

VARIABLES
    saga,       \* committed: status of the saga's row (NONE: no row), of the steps' rows
    attempt,    \* committed: attempt of each step's row
    started,    \* committed: age of started_at of each step's row
    op,         \* what each connection is doing
    view,       \* the rows it has read, by its snapshot or under its locks
    req         \* Update: the closure; step 0 is CancelSaga's

vars == <<saga, attempt, started, op, view, req>>

Op == {"idle", "claiming", "sagaLocked", "stepsLocked", "getting", "got"}
StoredSaga == [status : SagaStatus \cup {"NONE"}, steps : [Steps -> SagaStepStatus]]
Request == [step : 0..N, ok : BOOLEAN]
Cancel == [step |-> 0, ok |-> TRUE]

NoSaga == [status |-> "NONE", steps |-> [i \in Steps |-> "PENDING"]]
NoAttempt == [i \in Steps |-> 0]
NotStarted == [i \in Steps |-> "none"]

Init ==
    /\ saga = NoSaga
    /\ attempt = NoAttempt
    /\ started = NotStarted
    /\ op = [c \in Conns |-> "idle"]
    /\ view = [c \in Conns |-> [saga |-> NoSaga, attempt |-> NoAttempt, started |-> NotStarted]]
    /\ req = [c \in Conns |-> Cancel]

Become(c, o) == op' = [op EXCEPT ![c] = o]

\* The columns a statement selects, as mapSagaRow and mapStepRow read them.
Sees(c, s, a, t) ==
    view' = [view EXCEPT ![c] = [saga |-> s, attempt |-> a, started |-> t]]

\* The connection goes back to the pool with nothing in hand.
Return(c) ==
    /\ Become(c, "idle")
    /\ Sees(c, NoSaga, NoAttempt, NotStarted)
    /\ req' = [req EXCEPT ![c] = Cancel]

-----------------------------------------------------------------------------

\* Create inserts the saga's row and the steps' rows in one transaction; the
\* primary key admits one.
Create ==
    /\ saga.status = "NONE"
    /\ saga' = [saga EXCEPT !.status = "CREATED"]
    /\ UNCHANGED <<attempt, started, op, view, req>>

\* staleAfter passes after the step's started_at.
BecomeStale(i) ==
    /\ started[i] = "fresh"
    /\ started' = [started EXCEPT ![i] = "stale"]
    /\ UNCHANGED <<saga, attempt, op, view, req>>

-----------------------------------------------------------------------------
(* ClaimNextStep *)

\* The statement takes its snapshot.  The threshold for stale steps is a
\* parameter computed before, so it does not move while the statement runs.
ClaimStarts(c) ==
    /\ op[c] = "idle"
    /\ Become(c, "claiming")
    /\ Sees(c, saga, NoAttempt, started)
    /\ UNCHANGED <<saga, attempt, started, req>>

\* A faulty claim that trusts its snapshot.
ClaimableInSnapshot(c, i) ==
    /\ CanClaim(view[c].saga, view[c].started, i)
    /\ \A d \in Conns : op[d] # "stepsLocked"

\* A faulty Update that reads the steps without FOR UPDATE: a claim finds no
\* row locked.
ClaimableUnlocked(c, i) ==
    /\ CanClaim(view[c].saga, view[c].started, i)
    /\ CanClaim([view[c].saga EXCEPT !.steps[i] = saga.steps[i]], view[c].started, i)

\* FOR UPDATE OF ss SKIP LOCKED: the row is chosen by the snapshot, is not
\* locked by an Update, and its current version still qualifies next to the
\* snapshot's saga and other steps.
Claimable(c, i) ==
    /\ CanClaim(view[c].saga, view[c].started, i)
    /\ \A d \in Conns : op[d] # "stepsLocked"
    /\ CanClaim([view[c].saga EXCEPT !.steps[i] = saga.steps[i]], view[c].started, i)

\* The UPDATE of the locked row, and its commit.
ClaimCommits(c, i) ==
    /\ op[c] = "claiming"
    /\ attempt[i] < MaxAttempts
    /\ Claimable(c, i)
    /\ saga' = [saga EXCEPT !.steps[i] = Claimed(view[c].saga, i).steps[i]]
    /\ attempt' = [attempt EXCEPT ![i] = @ + 1]
    /\ started' = [started EXCEPT ![i] = IF @ = "none" THEN "fresh" ELSE @]
    /\ Return(c)

\* No row, or an error before the commit.
ClaimNothing(c) ==
    /\ op[c] = "claiming"
    /\ Return(c)
    /\ UNCHANGED <<saga, attempt, started>>

-----------------------------------------------------------------------------
(* Update *)

\* GetSagaForUpdate.  The closure is CancelSaga's, or the outcome of a call for
\* a step that has been claimed.
UpdateLocksSaga(c, r) ==
    /\ op[c] = "idle"
    /\ saga.status # "NONE"
    /\ r = Cancel \/ (r.step \in Steps /\ attempt[r.step] > 0)
    /\ \A d \in Conns : op[d] \notin {"sagaLocked", "stepsLocked"}
    /\ Become(c, "sagaLocked")
    /\ Sees(c, [NoSaga EXCEPT !.status = saga.status], NoAttempt, NotStarted)
    /\ req' = [req EXCEPT ![c] = r]
    /\ UNCHANGED <<saga, attempt, started>>

\* GetSagaStepsForUpdate waits for the claims that hold one of the rows, and
\* returns what they have left.
UpdateLocksSteps(c) ==
    /\ op[c] = "sagaLocked"
    /\ Become(c, "stepsLocked")
    /\ Sees(c, [saga EXCEPT !.status = view[c].saga.status], attempt, NotStarted)
    /\ UNCHANGED <<saga, attempt, started, req>>

\* The closure runs, UpdateSaga and replaceSteps write every row back (an
\* unchanged started_at is written back as the same timestamp), and the
\* server commits, whether or not the client still waits for it.
UpdateCommits(c) ==
    /\ op[c] = "stepsLocked"
    /\ saga' = IF req[c].step = 0 THEN canceledSaga(view[c].saga)
               ELSE updatedAfterDispatch(view[c].saga, req[c].step, req[c].ok)
    /\ attempt' = view[c].attempt
    /\ Return(c)
    /\ UNCHANGED started

\* The closure or a statement fails, or the client's context is cancelled.
UpdateRollsBack(c) ==
    /\ op[c] \in {"sagaLocked", "stepsLocked"}
    /\ Return(c)
    /\ UNCHANGED <<saga, attempt, started>>

-----------------------------------------------------------------------------
(* Get *)

\* GetSaga, the first statement of a REPEATABLE READ transaction: its snapshot
\* serves the second one too.  ErrNotFound ends Get without a step of its own.
GetReadsSaga(c) ==
    /\ op[c] = "idle"
    /\ saga.status # "NONE"
    /\ Become(c, "getting")
    /\ Sees(c, saga, NoAttempt, NotStarted)
    /\ UNCHANGED <<saga, attempt, started, req>>

\* A faulty Get at READ COMMITTED: the second statement has a snapshot of its
\* own.
GetReadsStepsNow(c) ==
    /\ op[c] = "getting"
    /\ Become(c, "got")
    /\ Sees(c, [saga EXCEPT !.status = view[c].saga.status], NoAttempt, NotStarted)
    /\ UNCHANGED <<saga, attempt, started, req>>

\* fetchSteps, then the commit: the saga returned is view[c].saga.
GetReadsSteps(c) ==
    /\ op[c] = "getting"
    /\ Become(c, "got")
    /\ UNCHANGED <<saga, attempt, started, view, req>>

GetEnds(c) ==
    /\ op[c] \in {"getting", "got"}
    /\ Return(c)
    /\ UNCHANGED <<saga, attempt, started>>

-----------------------------------------------------------------------------

ClaimStep(c) ==
    \/ ClaimStarts(c)
    \/ \E i \in Steps : ClaimCommits(c, i)
    \/ ClaimNothing(c)

UpdateStep(c) ==
    \/ \E r \in Request : UpdateLocksSaga(c, r)
    \/ UpdateLocksSteps(c)
    \/ UpdateCommits(c)
    \/ UpdateRollsBack(c)

GetStep(c) == GetReadsSaga(c) \/ GetReadsSteps(c) \/ GetEnds(c)

Next ==
    \/ Create
    \/ \E i \in Steps : BecomeStale(i)
    \/ \E c \in Conns : ClaimStep(c) \/ UpdateStep(c) \/ GetStep(c)

Spec == Init /\ [][Next]_vars

-----------------------------------------------------------------------------
(* Properties *)

\* Every variable has its type.
TypeOK ==
    /\ saga \in StoredSaga
    /\ attempt \in [Steps -> 0..MaxAttempts]
    /\ started \in [Steps -> StepAge]
    /\ op \in [Conns -> Op]
    /\ view \in [Conns -> [saga : StoredSaga, attempt : [Steps -> 0..MaxAttempts],
                           started : [Steps -> StepAge]]]
    /\ req \in [Conns -> Request]

\* The committed rows agree with each other although ClaimNextStep chooses by
\* a saga row it does not lock: a claim that overlaps a cancel or a result
\* never leaves a step running in a saga that has ended, nor out of order.
RowsAgree == StatusTellsSteps(saga) /\ StartedInOrder(saga)

\* A saga returned by Get, and one handed to an Update closure, is one that
\* was stored: its status tells the truth about its steps although the two
\* are read by different statements, with claims and updates in between.
ReadsAreConsistent ==
    \A c \in Conns : op[c] \in {"stepsLocked", "got"} =>
        StatusTellsSteps(view[c].saga) /\ StartedInOrder(view[c].saga)

\* No claim is lost: replaceSteps writes every row back, but never a row older
\* than a claim that ClaimNextStep has already handed to a worker.
AttemptsOnlyGrow == [][\A i \in Steps : attempt'[i] >= attempt[i]]_attempt

Lifecycle == INSTANCE SagaLifecycle WITH
    Sagas     <- {"it"},
    StepCount <- [s \in {"it"} |-> N],
    status    <- [s \in {"it"} |-> saga.status],
    open      <- [s \in {"it"} |-> {i \in Steps : saga.steps[i] \in Open}]

\* Overlapping transactions take the saga through the life cycle a client is
\* promised, as the atomic store operations of SagaRunner do.
ImplementsLifecycle == Lifecycle!Spec
=============================================================================
