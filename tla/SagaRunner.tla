----------------------------- MODULE SagaRunner -----------------------------
(***************************************************************************)
(* Saga orchestration by several scipio instances over one shared store    *)
(* and one shared lock server.                                             *)
(*                                                                         *)
(* Each instance runs one claiming loop (StepRunner.Run), a pool of        *)
(* workers that process the claimed steps, and serves cancel requests.     *)
(* Workers and cancel requests change a saga only under the saga's lock    *)
(* (sagaLocker.withSagaLock); StartSaga and the claiming loop do not take  *)
(* the lock.  Every store operation is one transaction and one action      *)
(* here; everything between two store operations of a worker can be        *)
(* interleaved with the other actors.  The exception is an update that is  *)
(* cut off in its COMMIT: the Postgres server may apply it when its caller *)
(* has long released the lock.                                             *)
(***************************************************************************)
EXTENDS SagaDomain, Sequences, FiniteSets

CONSTANTS
    Sagas,          \* saga ids
    StepCount,      \* number of steps each saga is started with
    Instances,      \* scipio processes
    Workers,        \* pool workers of all instances
    Cancels,        \* CancelSaga requests; each is made at most once
    Home,           \* the instance of each worker and cancel request
    Postgres,       \* TRUE: the Postgres store, shared, survives a crash, and
                    \* a claim keeps an earlier started_at; FALSE: the Memory
                    \* store, in one process, and a claim restarts the clock
    LockCanBeLost,  \* TRUE: a lock may expire under a holder that renews it
    MaxFaults,      \* bound on crashes, infrastructure errors, lost locks and
                    \* commits that are cut off
    NoClaim, NoOwner, Orphan    \* not a claim; lock free; holder gone

Procs == Workers \cup Cancels
StepsOf(s) == 1..StepCount[s]
Claims == [saga : Sagas, step : Nat]

ASSUME ConstantsAssumption ==
    /\ StepCount \in [Sagas -> Nat \ {0}]
    /\ IsFiniteSet(Workers)
    /\ Workers \cap Cancels = {}
    /\ Home \in [Procs -> Instances]
    /\ Postgres \in BOOLEAN
    /\ ~Postgres => \A m, n \in Instances : m = n
    /\ LockCanBeLost \in BOOLEAN
    /\ MaxFaults \in Nat
    /\ NoOwner # Orphan
    /\ NoOwner \notin Procs
    /\ Orphan \notin Procs
    /\ NoClaim \notin Claims

VARIABLES
    sagas,      \* the store: [status, steps] of each saga; status NONE before StartSaga
    started,    \* the store: age of started_at of each step
    tasks,      \* per instance: claims in the pool's channel, then the one Submit holds
    lock,       \* per saga: the process whose token is in the lock server
    pc,         \* where each worker and cancel request is
    claim,      \* the saga (and step) it works on
    lockCtx,    \* fn runs and its lockCtx is not cancelled
    mode,       \* worker: what it is dispatching
    dispatchOk, \* worker: the dispatch returned no error
    inCommit,   \* the store: per saga, the update (none or one) whose COMMIT is not
                \* decided and whose caller has gone; it keeps its row locks
    calls,      \* history: the last call made to the participant of each step
    overtaken,  \* history: the sagas that a worker read for a dispatch while such
                \* an update of them was open
    faults      \* crashes and infrastructure errors so far

vars == <<sagas, started, tasks, lock, pc, claim, lockCtx, mode, dispatchOk, inCommit, calls,
          overtaken, faults>>

NoSaga(s) == [status |-> "NONE", steps |-> [i \in StepsOf(s) |-> "PENDING"]]

CallOutcome == {"sent", "ok", "err"}
CallState == [op : DispatchMode, outcome : CallOutcome]
NoCall == [op |-> "none", outcome |-> "ok"]

WorkersOf(n) == {w \in Workers : Home[w] = n}

\* make(chan T, workers); one more claim waits in Submit.
QueueCapacity(n) == Cardinality(WorkersOf(n))

PC == {"idle", "acquire", "load", "dispatch", "calling", "update", "release", "done"}

StoredSaga(s) ==
    [status : SagaStatus \cup {"NONE"}, steps : [StepsOf(s) -> SagaStepStatus]]

Init ==
    /\ sagas = [s \in Sagas |-> NoSaga(s)]
    /\ started = [s \in Sagas |-> [i \in StepsOf(s) |-> "none"]]
    /\ tasks = [n \in Instances |-> <<>>]
    /\ lock = [s \in Sagas |-> NoOwner]
    /\ pc = [p \in Procs |-> "idle"]
    /\ claim = [p \in Procs |-> NoClaim]
    /\ lockCtx = [p \in Procs |-> FALSE]
    /\ mode = [p \in Procs |-> "none"]
    /\ dispatchOk = [p \in Procs |-> FALSE]
    /\ inCommit = [s \in Sagas |-> {}]
    /\ calls = [s \in Sagas |-> [i \in StepsOf(s) |-> NoCall]]
    /\ overtaken = {}
    /\ faults = 0

\* An infrastructure error: allowed while the bound is not reached.
Fault == faults < MaxFaults /\ faults' = faults + 1

-----------------------------------------------------------------------------
(* The API and the clock *)

\* StartSaga stores the saga with all steps pending.  A retry with the same
\* idempotency key finds it stored and changes nothing.
StartSaga(s) ==
    /\ sagas[s].status = "NONE"
    /\ sagas' = [sagas EXCEPT ![s].status = "CREATED"]
    /\ UNCHANGED <<started, tasks, lock, pc, claim, lockCtx, mode, dispatchOk, calls,
                   inCommit, overtaken, faults>>

\* A faulty CancelSaga that does not wait for the saga's lock.
CancelSagaUnlocked(c, s) ==
    /\ pc[c] = "idle"
    /\ pc' = [pc EXCEPT ![c] = "update"]
    /\ lockCtx' = [lockCtx EXCEPT ![c] = TRUE]
    /\ claim' = [claim EXCEPT ![c] = [saga |-> s, step |-> 0]]
    /\ UNCHANGED <<sagas, started, tasks, lock, mode, dispatchOk, calls, inCommit,
                   overtaken, faults>>

\* A client calls CancelSaga; for an id that is not stored too.
CancelSaga(c, s) ==
    /\ pc[c] = "idle"
    /\ pc' = [pc EXCEPT ![c] = "acquire"]
    /\ claim' = [claim EXCEPT ![c] = [saga |-> s, step |-> 0]]
    /\ UNCHANGED <<sagas, started, tasks, lock, lockCtx, mode, dispatchOk, calls,
                   inCommit, overtaken, faults>>

\* staleAfter has passed since the step's started_at.
BecomeStale(s, i) ==
    /\ started[s][i] = "fresh"
    /\ started' = [started EXCEPT ![s][i] = "stale"]
    /\ UNCHANGED <<sagas, tasks, lock, pc, claim, lockCtx, mode, dispatchOk, calls,
                   inCommit, overtaken, faults>>

-----------------------------------------------------------------------------
(* The claiming loop *)

\* ClaimNextStep, then Submit.  Which claimable step is taken first (by
\* created_at in Memory, by updated_at in Postgres) is left open.
ClaimAndSubmit(n, s, i) ==
    /\ CanClaim(sagas[s], started[s], i)
    /\ inCommit[s] = {}         \* SKIP LOCKED
    /\ sagas' = [sagas EXCEPT ![s] = Claimed(sagas[s], i)]
    /\ started' = [started EXCEPT ![s][i] =
                    IF Postgres /\ started[s][i] # "none" THEN started[s][i] ELSE "fresh"]
    /\ tasks' = [tasks EXCEPT ![n] = Append(@, [saga |-> s, step |-> i])]
    /\ UNCHANGED <<lock, pc, claim, lockCtx, mode, dispatchOk, calls, inCommit,
                   overtaken, faults>>

\* One round of Run.  Without room in the channel Submit blocks holding the
\* claim, and no further round starts until a worker takes a task.
ClaimNextStep(n, s, i) ==
    /\ Len(tasks[n]) <= QueueCapacity(n)
    /\ ClaimAndSubmit(n, s, i)

\* A pool worker receives from the channel.
TakeTask(w) ==
    LET n == Home[w] IN
    /\ pc[w] = "idle"
    /\ tasks[n] # <<>>
    /\ tasks' = [tasks EXCEPT ![n] = Tail(@)]
    /\ pc' = [pc EXCEPT ![w] = "acquire"]
    /\ claim' = [claim EXCEPT ![w] = Head(tasks[n])]
    /\ UNCHANGED <<sagas, started, lock, lockCtx, mode, dispatchOk, calls, inCommit,
                   overtaken, faults>>

-----------------------------------------------------------------------------
(* withSagaLock, for workers and cancel requests *)

\* withSagaLock returns: a worker goes for its next task, a cancel request has
\* been answered.
Finish(p) ==
    /\ pc' = [pc EXCEPT ![p] = IF p \in Workers THEN "idle" ELSE "done"]
    /\ claim' = [claim EXCEPT ![p] = NoClaim]
    /\ UNCHANGED <<lockCtx, mode, dispatchOk>>

\* fn returns: cancelLock, and the watchdog ends.
FnReturns(p) ==
    /\ pc' = [pc EXCEPT ![p] = "release"]
    /\ lockCtx' = [lockCtx EXCEPT ![p] = FALSE]
    /\ mode' = [mode EXCEPT ![p] = "none"]
    /\ dispatchOk' = [dispatchOk EXCEPT ![p] = FALSE]

AcquireLock(p) ==
    /\ pc[p] = "acquire"
    /\ lock[claim[p].saga] = NoOwner
    /\ lock' = [lock EXCEPT ![claim[p].saga] = p]
    /\ lockCtx' = [lockCtx EXCEPT ![p] = TRUE]
    /\ pc' = [pc EXCEPT ![p] = IF p \in Workers THEN "load" ELSE "update"]
    /\ UNCHANGED <<sagas, started, tasks, claim, mode, dispatchOk, calls, inCommit,
                   overtaken, faults>>

\* The acquire deadline passes while someone else holds the lock
\* (ErrLockContended), or the lock server fails, possibly after it has set the
\* key.  A worker drops its claim.
AcquireFails(p) ==
    LET s == claim[p].saga IN
    /\ pc[p] = "acquire"
    /\ \/ lock[s] # NoOwner /\ UNCHANGED <<lock, faults>>
       \/ Fault /\ lock' = lock
       \/ Fault /\ lock[s] = NoOwner /\ lock' = [lock EXCEPT ![s] = Orphan]
    /\ Finish(p)
    /\ UNCHANGED <<sagas, started, tasks, calls, inCommit, overtaken>>

\* The watchdog cannot extend the lock: it is lost, or the lock server
\* fails.  It cancels lockCtx.
RenewFails(p) ==
    /\ lockCtx[p]
    /\ \/ lock[claim[p].saga] # p /\ faults' = faults
       \/ Fault
    /\ lockCtx' = [lockCtx EXCEPT ![p] = FALSE]
    /\ UNCHANGED <<sagas, started, tasks, lock, pc, claim, mode, dispatchOk, calls,
                   inCommit, overtaken>>

\* A faulty Release that does not compare the token.
ReleaseLockOfAnyone(p) ==
    /\ pc[p] = "release"
    /\ lock' = [lock EXCEPT ![claim[p].saga] = NoOwner]
    /\ Finish(p)
    /\ UNCHANGED <<sagas, started, tasks, calls, inCommit, overtaken, faults>>

\* The deferred Release deletes the lock if it still holds the own token.
ReleaseLock(p) ==
    /\ pc[p] = "release"
    /\ LET s == claim[p].saga IN
        \/ /\ lock' = [lock EXCEPT ![s] = IF lock[s] = p THEN NoOwner ELSE lock[s]]
           /\ faults' = faults
        \/ /\ lock[s] = p       \* Release fails; the lock stays until it expires
           /\ lock' = [lock EXCEPT ![s] = Orphan]
           /\ Fault
    /\ Finish(p)
    /\ UNCHANGED <<sagas, started, tasks, calls, inCommit, overtaken>>

\* The lock server drops a lock whose TTL has run out: the holder is gone, its
\* watchdog has ended, or it was too slow, or cut off, to renew the lock.
LockExpires(s) ==
    /\ \/ lock[s] = Orphan /\ faults' = faults
       \/ lock[s] \in Procs /\ (lockCtx[lock[s]] => LockCanBeLost) /\ Fault
    /\ lock' = [lock EXCEPT ![s] = NoOwner]
    /\ UNCHANGED <<sagas, started, tasks, pc, claim, lockCtx, mode, dispatchOk, calls,
                   inCommit, overtaken>>

-----------------------------------------------------------------------------
(* processClaimedStepLocked *)

\* loadClaimedStepForDispatch; there may be nothing to do any more.  Get takes
\* no row lock: while an update is open it reads what was committed before.
LoadClaimedStep(w) ==
    LET c == claim[w]
        m == resolveClaimedStepDispatchMode(sagas[c.saga].status, sagas[c.saga].steps[c.step])
    IN
    /\ pc[w] = "load"
    /\ lockCtx[w]
    /\ \/ m = "none" /\ FnReturns(w) /\ overtaken' = overtaken
       \/ /\ m # "none"
          /\ pc' = [pc EXCEPT ![w] = "dispatch"]
          /\ mode' = [mode EXCEPT ![w] = m]
          /\ overtaken' = IF inCommit[c.saga] = {} THEN overtaken ELSE overtaken \cup {c.saga}
          /\ UNCHANGED <<lockCtx, dispatchOk>>
    /\ UNCHANGED <<sagas, started, tasks, lock, claim, calls, inCommit, faults>>

\* store.Get returns an error: lockCtx is cancelled or the store fails.
LoadFails(w) ==
    /\ pc[w] = "load"
    /\ \/ ~lockCtx[w] /\ faults' = faults
       \/ Fault
    /\ FnReturns(w)
    /\ UNCHANGED <<sagas, started, tasks, lock, claim, calls, inCommit, overtaken>>

\* Dispatch sends ExecuteStep or CompensateStep to the participant.
SendCall(w) ==
    LET c == claim[w] IN
    /\ pc[w] = "dispatch"
    /\ lockCtx[w]
    /\ calls' = [calls EXCEPT ![c.saga][c.step] = [op |-> mode[w], outcome |-> "sent"]]
    /\ pc' = [pc EXCEPT ![w] = "calling"]
    /\ UNCHANGED <<sagas, started, tasks, lock, claim, lockCtx, mode, dispatchOk,
                   inCommit, overtaken, faults>>

\* A faulty dispatch that swallows the error of the connection.
SendFailsSilently(w) ==
    /\ pc[w] = "dispatch"
    /\ pc' = [pc EXCEPT ![w] = "update"]
    /\ dispatchOk' = [dispatchOk EXCEPT ![w] = TRUE]
    /\ UNCHANGED <<sagas, started, tasks, lock, claim, lockCtx, mode, calls, inCommit,
                   overtaken, faults>>

\* Dispatch returns an error without a call: no connection, or lockCtx is
\* already cancelled.
SendFails(w) ==
    /\ pc[w] = "dispatch"
    /\ pc' = [pc EXCEPT ![w] = "update"]
    /\ UNCHANGED <<sagas, started, tasks, lock, claim, lockCtx, mode, dispatchOk, calls,
                   inCommit, overtaken, faults>>

\* The call returns: the participant's answer, its error, the dispatch
\* timeout, the cancellation of lockCtx, or (for ok = FALSE too) an error on
\* closing the connection after the answer.  Once lockCtx is cancelled the call
\* ends with an error and nobody waits for the answer: it stays one that was
\* sent.
CallReturns(w, ok) ==
    LET c == claim[w] IN
    /\ pc[w] = "calling"
    /\ ok => lockCtx[w]
    /\ calls' = IF ~lockCtx[w] THEN calls
                ELSE [calls EXCEPT ![c.saga][c.step] =
                        [op |-> mode[w], outcome |-> IF ok THEN "ok" ELSE "err"]]
    /\ dispatchOk' = [dispatchOk EXCEPT ![w] = ok]
    /\ pc' = [pc EXCEPT ![w] = "update"]
    /\ UNCHANGED <<sagas, started, tasks, lock, claim, lockCtx, mode, inCommit,
                   overtaken, faults>>

\* updateClaimedStepAfterDispatch commits; it waits for the row locks.
UpdateAfterDispatch(w) ==
    LET c == claim[w] IN
    /\ pc[w] = "update"
    /\ lockCtx[w]
    /\ inCommit[c.saga] = {}
    /\ sagas' = [sagas EXCEPT ![c.saga] = updatedAfterDispatch(sagas[c.saga], c.step, dispatchOk[w])]
    /\ FnReturns(w)
    /\ UNCHANGED <<started, tasks, lock, claim, calls, inCommit, overtaken, faults>>

\* CancelSaga's Update commits; ErrNotFound for an unknown saga.
UpdateForCancel(c) ==
    LET s == claim[c].saga IN
    /\ pc[c] = "update"
    /\ lockCtx[c]
    /\ inCommit[s] = {}
    /\ sagas' = [sagas EXCEPT ![s] = canceledSaga(sagas[s])]
    /\ FnReturns(c)
    /\ UNCHANGED <<started, tasks, lock, claim, calls, inCommit, overtaken, faults>>

\* store.Update rolls back: lockCtx is cancelled or the store fails.
UpdateFails(p) ==
    /\ pc[p] = "update"
    /\ \/ ~lockCtx[p] /\ faults' = faults
       \/ Fault
    /\ FnReturns(p)
    /\ UNCHANGED <<sagas, started, tasks, lock, claim, calls, inCommit, overtaken>>

\* tx.Commit returns an error after COMMIT was sent, because lockCtx is
\* cancelled (the client of CancelSaga hangs up, a renewal fails, the runner
\* stops) or the connection breaks: the server has not decided yet.  For an
\* unknown saga, and for the cancel of a failed one, Update ends before.
CommitCutOff(p) ==
    LET s == claim[p].saga IN
    /\ Postgres
    /\ pc[p] = "update"
    /\ lockCtx[p]
    /\ inCommit[s] = {}
    /\ Fault
    /\ \/ /\ p \in Workers
          /\ inCommit' = [inCommit EXCEPT ![s] =
                            {updatedAfterDispatch(sagas[s], claim[p].step, dispatchOk[p])}]
       \/ /\ p \in Cancels
          /\ sagas[s].status \notin {"NONE", "FAILED"}
          /\ inCommit' = [inCommit EXCEPT ![s] = {canceledSaga(sagas[s])}]
    /\ FnReturns(p)
    /\ UNCHANGED <<sagas, started, tasks, lock, claim, calls, overtaken>>

\* The server comes to the COMMIT after all ...
LateCommit(s) ==
    /\ \E saga \in inCommit[s] : sagas' = [sagas EXCEPT ![s] = saga]
    /\ inCommit' = [inCommit EXCEPT ![s] = {}]
    /\ UNCHANGED <<started, tasks, lock, pc, claim, lockCtx, mode, dispatchOk, calls, overtaken,
                   faults>>

\* ... or finds the connection gone before it, and rolls back.
LateRollback(s) ==
    /\ inCommit[s] # {}
    /\ inCommit' = [inCommit EXCEPT ![s] = {}]
    /\ UNCHANGED <<sagas, started, tasks, lock, pc, claim, lockCtx, mode, dispatchOk, calls,
                   overtaken, faults>>

-----------------------------------------------------------------------------
(* Failure of an instance *)

\* The process dies and restarts with an empty queue.  Its locks stay in
\* the lock server until they expire, the steps it claimed stay claimed.
\* (The Memory store dies with its process: nothing is left to model.)
Crash(n) ==
    LET Dead == {p \in Procs : Home[p] = n} IN
    /\ Postgres
    /\ Fault
    /\ tasks' = [tasks EXCEPT ![n] = <<>>]
    /\ lock' = [s \in Sagas |-> IF lock[s] \in Dead THEN Orphan ELSE lock[s]]
    /\ pc' = [p \in Procs |-> IF p \notin Dead THEN pc[p]
                              ELSE IF p \in Workers THEN "idle"
                              ELSE IF pc[p] = "idle" THEN "idle" ELSE "done"]
    /\ claim' = [p \in Procs |-> IF p \in Dead THEN NoClaim ELSE claim[p]]
    /\ lockCtx' = [p \in Procs |-> IF p \in Dead THEN FALSE ELSE lockCtx[p]]
    /\ mode' = [p \in Procs |-> IF p \in Dead THEN "none" ELSE mode[p]]
    /\ dispatchOk' = [p \in Procs |-> IF p \in Dead THEN FALSE ELSE dispatchOk[p]]
    /\ UNCHANGED <<sagas, started, calls, inCommit, overtaken>>

-----------------------------------------------------------------------------

LockStep(p) ==
    \/ AcquireLock(p)
    \/ AcquireFails(p)
    \/ RenewFails(p)
    \/ UpdateFails(p)
    \/ CommitCutOff(p)
    \/ ReleaseLock(p)

WorkerStep(w) ==
    \/ TakeTask(w)
    \/ LoadClaimedStep(w)
    \/ LoadFails(w)
    \/ SendCall(w)
    \/ SendFails(w)
    \/ \E ok \in BOOLEAN : CallReturns(w, ok)
    \/ UpdateAfterDispatch(w)

CancelStep(c) ==
    \/ \E s \in Sagas : CancelSaga(c, s)
    \/ UpdateForCancel(c)

StoreStep(s) ==
    \/ StartSaga(s)
    \/ LockExpires(s)
    \/ LateCommit(s)
    \/ LateRollback(s)
    \/ \E i \in StepsOf(s) : BecomeStale(s, i)
    \/ \E n \in Instances, i \in StepsOf(s) : ClaimNextStep(n, s, i)

Next ==
    \/ \E p \in Procs : LockStep(p)
    \/ \E w \in Workers : WorkerStep(w)
    \/ \E c \in Cancels : CancelStep(c)
    \/ \E s \in Sagas : StoreStep(s)
    \/ \E n \in Instances : Crash(n)

Spec == Init /\ [][Next]_vars

\* The ticker keeps the claiming loop going, a pool keeps its workers, every
\* call ends by the dispatch timeout, an acquire by its deadline, and the
\* clock runs.  That store statements return, and that the server decides an
\* open commit, is assumed of Postgres.  Nothing obliges a client, an error, a
\* crash, or a lock to expire under a live holder.
Fairness ==
    /\ \A w \in Workers : WF_vars(LockStep(w) \/ WorkerStep(w))
    /\ \A c \in Cancels : WF_vars(LockStep(c) \/ UpdateForCancel(c))
    /\ \A s \in Sagas :
        /\ WF_vars(\/ lock[s] = Orphan /\ LockExpires(s)
                   \/ \E i \in StepsOf(s) : BecomeStale(s, i))
        /\ WF_vars(LateCommit(s) \/ LateRollback(s))
        /\ WF_vars(\E n \in Instances, i \in StepsOf(s) : ClaimNextStep(n, s, i))

LiveSpec == Spec /\ Fairness

-----------------------------------------------------------------------------
(* Properties *)

\* Every variable has its type, and an instance never holds more claims than
\* its pool's channel and the one blocked Submit of StepRunner.Run can hold.
TypeOK ==
    /\ DOMAIN sagas = Sagas
    /\ \A s \in Sagas : sagas[s] \in StoredSaga(s)
    /\ DOMAIN started = Sagas
    /\ \A s \in Sagas : started[s] \in [StepsOf(s) -> StepAge]
    /\ tasks \in [Instances -> Seq(Claims)]
    /\ \A n \in Instances : Len(tasks[n]) <= QueueCapacity(n) + 1
    /\ lock \in [Sagas -> Procs \cup {NoOwner, Orphan}]
    /\ pc \in [Procs -> PC]
    /\ claim \in [Procs -> Claims \cup {NoClaim}]
    /\ lockCtx \in [Procs -> BOOLEAN]
    /\ mode \in [Procs -> DispatchMode]
    /\ dispatchOk \in [Procs -> BOOLEAN]
    /\ DOMAIN inCommit = Sagas
    /\ \A s \in Sagas : inCommit[s] \subseteq StoredSaga(s)
    /\ overtaken \subseteq Sagas
    /\ DOMAIN calls = Sagas
    /\ \A s \in Sagas : calls[s] \in [StepsOf(s) -> CallState]
    /\ faults \in Nat

\* The status a client reads with GetSaga tells the truth about the steps,
\* whatever overlapping workers, cancel requests and lost locks do: FAILED
\* exactly when some step failed, COMPLETED and COMPENSATED only when every
\* step is, CANCELING only while there is something left to undo and no step
\* could still be started.  In the last two cases a wrong status would leave
\* a saga that no claim ever finishes.
StatusMatchesSteps == \A s \in Sagas : StatusTellsSteps(sagas[s])

\* While a saga executes, its steps are claimed strictly in order: a step
\* that has left PENDING has only completed steps before it, also when stale
\* claims of other instances complete late (claimExecutionStep and the
\* candidate query of ClaimNextStep).
ExecutionIsOrdered == \A s \in Sagas : StartedInOrder(sagas[s])

\* A claim that was handed to the pool names a step of a stored saga, and that
\* step never returns to PENDING while the claim is queued, dispatched or
\* forgotten; a cancel request never gets to the dispatch.
ValidClaim(c) ==
    /\ c \in Claims
    /\ c.step \in StepsOf(c.saga)
    /\ sagas[c.saga].steps[c.step] # "PENDING"

ClaimsAreStarted ==
    /\ \A n \in Instances : \A k \in 1..Len(tasks[n]) : ValidClaim(tasks[n][k])
    /\ \A w \in Workers : pc[w] # "done" /\ (pc[w] # "idle" => ValidClaim(claim[w]))
    /\ \A c \in Cancels :
        /\ pc[c] \in {"idle", "acquire", "update", "release", "done"}
        /\ pc[c] \notin {"idle", "done"} => claim[c] \in Claims

\* withSagaLock excludes: two processes never both run fn with a live lockCtx
\* for the same saga, although renewals fail, releases get lost, instances die
\* while they hold the lock, and a lock that is no longer renewed expires while
\* its holder is still on the way out.
\* Holds as long as no lock expires under a holder that renews it.
MutualExclusion ==
    \A p, q \in Procs : lockCtx[p] /\ lockCtx[q] /\ claim[p].saga = claim[q].saga => p = q

\* updateClaimedStepAfterDispatch reads off the saga whether the outcome is
\* one of an execution or of a compensation; loadClaimedStepForDispatch had
\* decided which call to make.  While the lock is held the two agree: the
\* claims that other instances make meanwhile, without the lock, do not
\* change the answer, and an update that was cut off in its COMMIT does only
\* if it was still open when the worker read the saga.
DispatchedModeStillHolds ==
    \A w \in Workers : lockCtx[w] /\ pc[w] # "load" /\ claim[w].saga \notin overtaken =>
        LET saga == sagas[claim[w].saga] IN
        mode[w] = resolveClaimedStepDispatchMode(saga.status, saga.steps[claim[w].step])

UndoneWasAcknowledged(s) ==
    \A i \in StepsOf(s) : sagas[s].steps[i] = "COMPENSATED" =>
        calls[s][i] \in {NoCall, [op |-> "compensate", outcome |-> "ok"]}

\* A step is only reported COMPENSATED when its participant acknowledged a
\* CompensateStep as the last call it got, or never got a call at all.
CompensatedWasAcknowledged == \A s \in Sagas : UndoneWasAcknowledged(s)

\* As long as no lock is lost, only one thing can make a report of COMPENSATED
\* untrue: that a worker read the saga while an earlier holder's update of it
\* was cut off in its COMMIT and still open.  Crashes, failed releases, dropped
\* claims and commits that land late but unread cannot.
CompensatedUnlessOvertaken == \A s \in Sagas \ overtaken : UndoneWasAcknowledged(s)

\* While a saga is neither cancelled nor failed, the last thing the
\* participant of a COMPLETED step did is to acknowledge its execution: no
\* later retry of a stale claim calls it again, unless that retry read the
\* saga while the update with the first outcome was open.
CompletedWasExecuted ==
    \A s \in Sagas \ overtaken : sagas[s].status \in {"CREATED", "RUNNING", "COMPLETED"} =>
        \A i \in StepsOf(s) : sagas[s].steps[i] = "COMPLETED" =>
            calls[s][i] = [op |-> "execute", outcome |-> "ok"]

\* Steps are undone last first: no participant is asked to compensate while
\* the participant of a later step still has an execution behind it (what
\* claimCompensationStep and the candidate query choose by).
CompensationIsOrdered ==
    \A s \in Sagas : \A i, j \in StepsOf(s) :
        i < j /\ calls[s][i].op = "compensate" => calls[s][j].op # "execute"

\* Every started saga is eventually completed, compensated or failed, and so
\* is every cancelled one, although claims are dropped when the lock is
\* contended, instances die with claims in hand, stale claims compete and
\* commits are cut off.  (A saga whose context exceeds the limit once it is
\* stored cannot be read back and is outside of this model: see SagaList.)
Settles ==
    \A s \in Sagas :
        sagas[s].status # "NONE" ~> sagas[s].status \in {"COMPLETED", "COMPENSATED", "FAILED"}

-----------------------------------------------------------------------------
\* The abstract specification: a step is open from its claim until it is
\* undone or has failed.
OpenSteps(s) == {i \in StepsOf(s) : sagas[s].steps[i] \in Open}

Lifecycle == INSTANCE SagaLifecycle WITH
    status <- [s \in Sagas |-> sagas[s].status],
    open   <- [s \in Sagas |-> OpenSteps(s)]

\* The orchestrator implements the life cycle a client is promised, with any
\* number of instances, crashes, lost claims and lost locks.
ImplementsLifecycle == Lifecycle!Spec

\* What p is to the lock of s.
LockPhase(s, p) ==
    IF pc[p] \notin {"load", "dispatch", "calling", "update", "release"} THEN "out"
    ELSE IF claim[p].saga # s THEN "out"
    ELSE IF lockCtx[p] THEN "in" ELSE "leaving"

Lock == INSTANCE SagaLock WITH
    Nobody   <- NoOwner,
    owner    <- lock,
    phase    <- [s \in Sagas |-> [p \in Procs |-> LockPhase(s, p)]],
    reliable <- ~LockCanBeLost

\* Workers and cancel requests use the saga locks as SagaLock describes them.
ImplementsLock == Lock!Spec
=============================================================================
