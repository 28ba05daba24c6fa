# A verification of Scipio's saga orchestration

Scipio is a saga orchestrator: clients start a saga (an ordered list of steps,
each with a gRPC participant), scipio processes execute the steps one after
the other, and a cancelled saga is compensated step by step, last first. Any
number of scipio processes work on one PostgreSQL database and one Redis
server. This directory holds TLA+ modules that model that system from its
source, TLC configurations that check small instances, and TLAPS proofs for
instances of every size.

## Inventory

| component | state | operations | talks to |
|---|---|---|---|
| domain, state machine (`internal/domain`, `internal/statemachine`) | none | statuses, `CanTransition` | used by service and step runner |
| saga service (`internal/service/service.go`) | none | `StartSaga`, `GetSaga`, `CancelSaga`, `ListSagas` | store; `CancelSaga` under the saga lock |
| step runner (`step_runner.go`) | claims in the pool | the claiming loop `Run`, `processClaimedStep` | store without the lock (claim), store and dispatcher under it |
| step dispatcher (`step_dispatcher.go`) | a connection per call | `Dispatch` (execute or compensate, 5 s) | the participants |
| saga locker (`saga_locker.go`) | a lock handle and a watchdog per call | `withSagaLock` | the lock |
| lock (`internal/lock`) | one key per saga in Redis, with owner and TTL | `Acquire`, `Extend`, `Release` | Redis (redsync) |
| stores (`internal/store`, `sql/`) | sagas and steps | `Create`, `Get`, `List`, `Update`, `ClaimNextStep` | Postgres, or a map under a mutex |
| worker pool (`pkg/workerpool`) | two channels, workers, a stop signal | `Submit`, `Results`, `Shutdown` | the step runner |
| process (`cmd/scipio/main.go`) | servers, runner | start, graceful stop | everything |
| transports, sdk, config | none | mapping of requests, answers, errors | the service |

The program itself runs on Postgres and Redis; the Memory store and the Noop
lock exist for its tests.

What is hard in this system:

* claims are made without the saga lock, while workers and cancel requests
  change the same saga under it;
* a claim that is not finished in time is claimed again, so two claims of one
  step can be under way, on different instances, and nothing compares their
  attempts;
* a lock may expire under a live holder; the work under it is then no longer
  exclusive and the two updates are interpreted by what the saga has become;
* instances die with claims, locks and calls in hand; participants answer too
  late or not at all; store and lock-server calls fail between the call to a
  participant and the record of its outcome;
* the graceful stop has four kinds of goroutines waiting for each other, and
  closes connections under those it gave up on;
* Postgres reads and writes a saga with several statements, each with its own
  snapshot and row locks, and may finish a commit nobody waits for any more;
* clients retry what was lost on the way, by two interfaces.

What makes it correct, by component: the stored status tells the truth about
the steps (stores, closures of `Update`); steps start in order and are undone
in reverse (claiming); one process at a time works on a saga (locker);
COMPLETED and COMPENSATED mean acknowledged by the participant (step runner);
every saga settles (all of them); no claim is lost and no goroutine is stuck
when a process stops (pool); a process stops in the right order and in the end
(process); the rows of a saga agree whatever overlaps (Postgres); a lock is
kept while Redis answers, and its loss is noticed (locker); an answer means
what it says (service, transports); a list misses nothing. `PROJECT.json` lists the hazards line by line,
with the property that covers each.

## Modules

`SagaDomain` -- the pure operators. A saga is `[status, steps]`; names,
targets, error texts and finish times are left out because no decision of the
code reads them, and so is the context, of which only the size is read: that
is the subject of `SagaList` and of the run `context`. `started_at` is kept as its age: none, fresh,
stale. Positions count from 1. The claim conditions are those of `memory.go`,
which `sagas.sql` states again as a query; `settled` and the operators after
it are the closures that the service passes to `store.Update`. Definitions
that begin with "A faulty" in their comment are deliberate errors, used to
show that a property can fail; no specification uses them.

`SagaLifecycle` -- the abstract specification of one saga as a client sees it:
which status follows which, and which steps are open (started and not undone).

`SagaLock` -- the abstract specification of the saga locks as callers of
`withSagaLock` see them: who owns a saga's key, and who is in (fn runs with a
live `lockCtx`) or leaving (`lockCtx` is cancelled, the key is no longer
renewed, Release has not been served). While the lock is reliable no key
expires for a caller that is in.

`SagaRunner` -- instances, workers, cancel requests, store and lock server
together.

| state | code |
|---|---|
| `sagas`, `started` | rows of `sagas` and `saga_steps`, or `Memory.sagas` |
| `tasks[n]` | the pool's channel of instance n, and the claim in a blocked `Submit` |
| `lock[s]` | the key of saga s in Redis: free, a process' token, or `Orphan` (the token of a process that has gone) |
| `pc`, `claim`, `lockCtx`, `mode`, `dispatchOk` | where a worker or request is, its argument, whether fn runs with a `lockCtx` that is not cancelled, the chosen dispatch mode, `dispatchErr == nil` |
| `inCommit[s]` | what the open COMMIT of an update of s would store, when the update's caller has already been given an error |
| `overtaken` | history: the sagas that a worker read for a dispatch while such a COMMIT was open |
| `calls` | history: the last call to each step's participant and its outcome |
| `faults` | history: the bound on errors and crashes |

A worker goes `idle`, `acquire`, `load`, `dispatch`, `calling`, `update`,
`release`; a cancel request `idle`, `acquire`, `update`, `release`, `done`.
Every store operation is one action: `Memory` holds its mutex,
`Postgres.Update` locks the saga row and the step rows before it reads them.
The watchdog is the action `RenewFails`, possible at any point while the
function under the lock runs; it cancels `lockCtx`, after which store calls
fail (`LoadFails`, `UpdateFails`) and calls end with an error. From then on,
as after fn has returned, nobody renews the key: it may expire
(`LockExpires`) and be taken by another process while the former holder is
still on the way out. With `LockCanBeLost` it may also expire under a holder
that renews it. A failed `Acquire` may leave the key behind, a failed `Release` too. Shutdown of an
instance, or a client that hangs up, looks like a failed renewal (the context
is cancelled) or like a crash. `CallReturns(w, FALSE)` stands for an error of
the participant, the dispatch timeout, a cancelled context, and a failed
`conn.Close` after a success: the code does not tell them apart. An error of
`store.Update` after a commit that did happen is the successful update, since
the error is only logged.

`tx.Commit(ctx)` returns as soon as `lockCtx` is cancelled or the connection
breaks, also when the COMMIT is on its way to the server. `CommitCutOff` is
that moment: the caller goes on to release the lock, and the server commits
(`LateCommit`) or rolls back (`LateRollback`) when it gets to it, perhaps after
the next holder of the lock has read the saga. Until then the transaction's
row locks keep `ClaimNextStep` (`SKIP LOCKED`) and other updates from the saga,
but not a plain `Get`. `UpdateFails` is the update that fails before that.

`StepRunnerPool` -- one instance from the inside: `StepRunner.Run`, the pool's
goroutines and channels, the reader of the results and the graceful stop. What
the handler does is left out; `SagaRunner` models it with the pool reduced to
a queue.

`SagaLocker` -- `withSagaLock` over `lock.Redis` with a clock: the key's TTL,
the renew ticker and timeout, the acquire deadline, the retries, and the time
Redis takes to answer. A request to Redis is sent, served and answered by
different actions, so that a deadline can pass between any two of them. It
says when `SagaRunner` may assume `~LockCanBeLost`, and for how long a worker
can be unaware that it has lost its lock. Redis and redsync are not part of
the repository: `SET NX PX`, the comparison of the token in extend and
release, redsync's time limit for one attempt and its attempt to delete the
key of a failed one are modelled as `redis.go` relies on them.

| state | code |
|---|---|
| `owner`, `ttl` | the key in Redis: whose token it holds, its remaining life |
| `pc`, `wait`, `age` | where the caller is, how long it has been in `Acquire`, the age of its attempt or of the wait for the next |
| `dog`, `tick`, `ext` | the watchdog's goroutine, its ticker, its `Extend` |
| `reqCtx`, `lockCtx` | the two contexts are not done |
| `renewErr`, `answer` | `renewErrCh`; what `withSagaLock` returned |
| `sawTaken`, `lost` | history |

`PostgresStore` -- the rows of one saga, and `Create`, `ClaimNextStep`,
`Update` and `Get` by statements, for which `SagaRunner` has one action each
and the cut-off commit. The claim is modelled as READ COMMITTED
executes it: the candidate is chosen by the statement's snapshot; its row is
locked, or skipped when an `Update` has locked it; when the row has changed
since, the condition is evaluated again with the row's new version and
otherwise with the snapshot, `next_status` included. A commit may come at any
time, so that the commit of a client that has given up, and whose saga lock
somebody else holds, is one of the behaviours. The transactions know nothing
of the saga lock.

`SagaApi` -- calls of clients by HTTP and gRPC, from the request to the
answer, with idempotency keys, commits that are reported as errors, renewals
that fail after a commit, and answers that get lost. The sagas are those of
`SagaLifecycle`, instantiated.

`SagaList` -- `ListSagas`: the page limits of the service, both stores' `List`
with the conversion to `int32`, the times as Go reads them (nanoseconds, which
Memory compares) and as a column keeps them (microseconds, which the ORDER BY
compares), the reading of rows (the size limit of a context, applied to the
request and again to the text of the JSONB column), and a client that walks through the pages.

`ScipioProcess` -- `run` and `shutdownRuntime` of `main.go`. Calls and workers
are tasks that hold a saga lock and now and then a Postgres connection.

The theorems are in modules of their own: `SagaDomainProofs` (lemmas on the
operators of `SagaDomain`), `SagaRunnerProofs`, `PostgresStoreProofs`,
`StepRunnerPoolProofs`, `SagaLockerProofs`, `SagaApiProofs`,
`ScipioProcessProofs` and `SagaListProofs`. The modules
that begin with `MC` are instances for TLC.

How they fit together: `SagaRunner` is the centre. `SagaLocker` and
`PostgresStore` open up two things it takes for granted, the lock and the
atomicity of the store; `StepRunnerPool` and `ScipioProcess` open up the
instance; `SagaApi` and `SagaList` look at the stored sagas from the client's
side. `SagaRunner` and `PostgresStore` are both shown to implement
`SagaLifecycle`, on which `SagaApi` is built. `SagaRunner`, without clocks, and
`SagaLocker`, with them, are both shown to implement `SagaLock`.

## Runs

| run | instance | checks | states |
|---|---|---|---|
| `reliable` | 1 saga of 2 steps, 2 instances with a worker each, 1 cancel, 1 fault, no lock expiring under a holder that renews it, with fairness | `MutualExclusion`, `DispatchedModeStillHolds`, `CompensatedUnlessOvertaken`, `CompletedWasExecuted`, `Settles`, `ImplementsLock` | 481,161 |
| `lossy` | the same, and the fault may be such an expiry | `TypeOK`, `StatusMatchesSteps`, `ExecutionIsOrdered`, `ImplementsLifecycle` | 1,235,555 |
| `order` | as `reliable`, no fault | `CompensationIsOrdered`, violated | |
| `ack` | as `reliable`, without fairness | `CompensatedWasAcknowledged`, violated | |
| `pool` | 2 workers, 7 claims, with fairness and deadlock check | `TypeOK`, `NothingStranded`, `NoSendOnClosedResults`, `RunEnds` | 47,684 |
| `postgres` | 3 connections, 2 steps, up to 2 attempts for a step | `TypeOK`, `RowsAgree`, `ReadsAreConsistent`, `AttemptsOnlyGrow`, `ImplementsLifecycle` | 1,449,582 |
| `locker` | 2 callers, one with a deadline, TTL 6, answers within 1, late or lost | `TypeOK`, `HolderKeepsKey`, `UnawareIsBounded`, `ContentionIsNoError`, `ContendedMeansHeld`, `ImplementsLock` | 1,016,690 |
| `hang` | 1 caller without a deadline, a Redis that need not answer, with fairness | `WithSagaLockReturns` | 2,704 |
| `api` | 3 calls, one of them gRPC, 1 key, 2 payloads and an invalid one | `TypeOK`, `KeyStartsOneSaga`, `StartedSagaIsFound`, `AcceptedCancelSticks`, `RefusedChangesNothing` | 912,132 |
| `process` | 1 gRPC call, 2 HTTP calls, 2 workers, with fairness | `TypeOK`, `IngressEndsBeforeRunner`, `StopReleasesLocks`, `ProcessExits` | 1,914 |
| `pages` | 2 sagas, clocks 2 to 4 with 2 and 3 in one microsecond, contexts that can and that cannot be read again, limits -1 to 4, offsets -1 to 7 | `TypeOK`, `WalkMissesNothing`, `PagesMatch` | 27,031 |
| `context` | contexts of up to 2 members, a limit of 13 bytes | `EverySagaIsListed`, violated | |

What some of the passing runs show:

* `postgres`: a claim chosen by an old saga row can only hurt when the step's
  row still looks as it did, and every closure changes the rows of the steps
  that could be hurt, so the re-evaluation of the one locked row is enough.
  Without it (mutant `ClaimableInSnapshot`) a compensated step would run
  again. What the claim leaves behind that an atomic claim could not is a step
  marked COMPENSATING in a saga that has just failed, on which no worker acts.
* `locker`: the watchdog counts half a TTL from the answer,
  not from the moment the key was set, so a lock is sure to be kept while
  answers take less than a quarter of the TTL and the TTL is more than the unit
  of the clock (`TimingAssumption`); with slower
  or lost ones it may expire, and then the worker goes on for at most the delay
  of one answer. `ContendedMeansHeld` needs a Redis that answers, too:
  `isLockContended` takes every end of the locker's own deadline for
  contention, so a client of a Redis that is down reads "saga is busy".
* `pages`: the two stores do not list alike. Sagas of one microsecond are
  ordered by id in Postgres and by nanosecond in Memory, and Postgres.List drops
  the high bits of an offset: from 2^31 on that makes it negative, an internal
  error, and at 2^32 the first page comes again. What `PagesMatch` shows is
  that this is all: up to offset 2^32 - 1 every page that Postgres answers with
  has the length of Memory's and the same microsecond at every place.
* `api`: a 4xx answer, or its gRPC counterpart, has changed nothing; a 5xx or a
  lost answer leaves it open, and a retry with the same key is safe.
* `process`: a lock is left behind only after a timeout, or when `run` returns
  before it served (`ListenFails`: the runner is already working then, and
  nobody waits for it).

Bounds of the runs of the other modules. Three connections allow a claim and a read across an
update, and two claims across each other. TTL 6 is the smallest even number
with `4 * Latency < TTL`. Three calls are a first
try, a retry and a cancel or get. In `pages` the widths are scaled down:
`MaxInt32` 3 for 2^31 - 1, `Microsecond` 2 for 1000 nanoseconds, `maxPageLimit`
3 for 200, `MaxSagaContextBytes` 13 for 65536, of which a context of two members
is just within the limit when it is sent and over it when it is stored; nothing
else depends on them. Two sagas give one that is stored when the walk begins
and one that is added in front of it; any number is left to the theorems. `MaxAttempts` bounds the claims.

Bounds of the runs of `SagaRunner` and `StepRunnerPool`. Two steps are the
least with an order. Two processes on two instances give every pairing of
worker with worker and worker with cancel, since at most two sides compete for
a lock; sagas do not share anything but the queues, so one is enough. More
steps, workers, cancels and faults, and the Memory store (`Postgres` FALSE),
are left to the theorems, which state the same invariants for any of them. One
fault can hit any step, also while stale claims and contended locks are being
recovered from; the expiry of a key whose owner lives but no longer renews it
counts as one, since it needs a process slower than the TTL. With two faults,
which allow an error during the recovery from another, the invariants of
`reliable` and `Settles` hold as well (2,463,953 states), but that takes more
than five minutes and is not one of the runs. Claims are not bounded
otherwise: a stale step may be claimed again without end, and the queue's
capacity limits them. In `pool`, seven claims fill the channel, both workers
and the result channel and still block `Submit`. The runs of `SagaRunner` do
not check for deadlock: when all sagas are settled and all cancel requests
answered the system is at rest. Nor do `postgres`, `api`, `pages` and
`process`, which come to rest when the attempts are used up, every call is
answered, every saga exists and the walk has ended, or the process has exited.

Fairness. `Fairness` says that the ticker keeps the claiming loop going, that
workers take queued tasks, that a call ends (dispatch timeout), that an
acquire ends (its deadline is the TTL), that the clock
runs (stale, and expiry of the lock of a process that is gone). It is stated
per process, and for the claims of a saga and for its clocks as a whole: nothing
is assumed of which way a process goes, or which instance claims. That store
statements return and that Postgres decides an open commit has no deadline in
the code; it is an assumption on Postgres and the network. No fairness
for clients, errors, crashes, or a lock expiring under a live holder. Fairness
of the claim is per saga: Postgres orders candidates by `updated_at`, which a
claim renews, so no saga is passed over for ever. In `StepRunnerPool` a handler is
only sure to return when its context is cancelled, because store statements
have no deadline; Shutdown's deadline is what makes `RunEnds` hold. In
`SagaLocker` the clock runs (strongly fair: no infinitely many requests in an
instant), due goroutines run, fn returns (again an assumption on the store,
whose statements only the end of `lockCtx` cuts off), and a `select` with two ready cases
does not choose the same one for ever; Redis need not answer. In
`ScipioProcess` the timeouts fire and store operations end, an assumption as
well, since `pgxpool.Close` waits for them without a limit; calls, workers and
the runner may hang for ever.

### What the violations show

`order`: a step is claimed, waits in the channel until it is stale, and is
claimed a second time. The first claim executes it, the next step is executed,
the saga is cancelled. The second claim, made for an execution, now finds a
cancelling saga and a completed step and compensates it, before the later
step. The stores' claim order is right (their contract test
`TestShouldClaimLastCompletedStepFirstWhenSagaIsCanceling` states it); the
worker re-decides what to do without it (`resolveClaimedStepDispatchMode`).

`ack`: a cancel holds the lock, and its COMMIT of CANCELING is cut off (its
client hangs up, say) while it is on the way to the server; `Update` returns an
error and the lock is released. A worker takes the lock, reads the saga as it
was before the cancel and has a step executed; the COMMIT lands; and the
worker's update, which goes by the saga's present status, records the success
as that of a compensation: step and saga are COMPENSATED. No lock is lost in
this. A lock that expires under its holder leads to the same end. `reliable`,
and the theorem `CompensationIsReal`, show that without a lost lock a worker
that reads between the cut-off and the commit is the only way to it.

`context`: the limit of 65536 bytes is checked when a saga is started and
again on the text of the JSONB column, which has a blank after every colon and
comma. A context just below the limit is accepted and never read again: `Get`
and `Update` fail, so the saga neither finishes nor can be cancelled, and
`List` fails for every page that would hold it.

## Proofs

Each theorem states a property that a run checks on a small instance, for
every value of the constants that the module's assumption allows: every number
of sagas, steps, instances, workers, cancel requests, connections, calls, keys,
attempts and faults, and every TTL.

The shape is always the same. An inductive invariant, a conjunction of named
parts, implies the property; one lemma shows that the initial states satisfy
it, one lemma for each action (or group of actions) that the action keeps it,
and a `Next...` lemma joins them. The invariants were first checked by TLC on
the instances of the runs.

### `SagaRunner`

From `ConstantsAssumption` (finitely many workers, at least one step per saga,
each process on one instance, the Memory store in one process, three values
that are not processes or claims).

* `TypeCorrect`, `StoreIsConsistent` and `StepsStartInOrder`: `TypeOK`, `StatusMatchesSteps` and
  `ExecutionIsOrdered`, lost locks included. The inductive invariant adds
  `ClaimsAreStarted`: every claim in a queue or in a worker's hand names a
  step that has left PENDING. It is needed because an update by a late claim
  could otherwise complete a PENDING step out of order. That claims, cancels
  and updates keep a single saga consistent is proved once, in
  `SagaDomainProofs`, for every saga record (`ClaimedKeeps`, `CanceledKeeps`,
  `UpdatedKeeps`); the step proof then only tells which saga an action touches.
* `RunnerImplementsLifecycle`: `ImplementsLifecycle`, lost locks included.
  Again a fact about single sagas is proved first: a claim, a cancel and an
  update are each a step of the life cycle or leave status and open steps as
  they are (`ClaimedIsStep`, `CanceledIsCancel`, `UpdatedIsStep`). The theorem
  maps each action to a step of that saga in `SagaLifecycle` or to a stutter.
  The consistency of the store is needed here: that a claim starts the step
  after the open ones is `StartedInOrder`, that a cancel with nothing to undo
  ends in COMPENSATED and that an update completes a saga with all of its steps
  open is `StatusTellsSteps`, and that an update never opens a step is
  `ClaimsAreStarted`.
* `LockExcludes`: `MutualExclusion`, from `CtxInv` (a `lockCtx` is alive only
  while fn runs) and `HolderHasLock` (a process whose `lockCtx` is alive owns
  the key of its saga). Nothing is claimed of a process whose `lockCtx` has
  been cancelled: its key may already be somebody else's, which is why
  Release must compare the token.
* `ModeIsStable`, `CompensationIsReal`, `CompletionIsReal`:
  `DispatchedModeStillHolds`, `CompensatedUnlessOvertaken` and
  `CompletedWasExecuted`. The invariant `WorkerInv` ties a worker's mode to
  what its saga asks for and its call to the history; `CallInv` ties each
  step's status to the last call, in the stored saga and in the version that an
  open commit would store. The argument: only the lock's holder calls a
  participant or settles a step; a claim, made without the lock, changes for
  no step what a worker would dispatch (`ClaimedKeepsMode`); and a commit that
  lands late changes it only for a worker that read the saga before, which makes
  the saga `overtaken`.

These four assume `~LockCanBeLost`, and the last three except overtaken sagas;
`ack` shows that the third is false for those.

The late commits add `CommitInv` to the invariant of all theorems on
`SagaRunner`: what an open commit will store is an update of what is stored
now, because its row locks keep everybody else away. `StoreIsConsistent` and
`RunnerImplementsLifecycle` need it for the step `LateCommit`.

* `RunnerImplementsLock`: `ImplementsLock`, lost locks included. Each action
  changes what one process is to the lock of one saga (`OneProcessMoves`), and
  `NextIsLockStep` names the step of `SagaLock` that it amounts to; `Crash`
  changes several at once and is a step of its own there. `AcquireLock`, which
  sets the key and learns of it, is `Enter`; only `SagaLocker` tells the two
  moments apart.

### `PostgresStore`

From `PostgresAssumption` (at least one step, a bound on the attempts). `PostgresTypeCorrect`,
`RowsStayConsistent`, `ReadsStayConsistent`, `AttemptsNeverShrink` and
`TransactionsImplementLifecycle` state `TypeOK`, `RowsAgree`,
`ReadsAreConsistent`, `AttemptsOnlyGrow` and `ImplementsLifecycle`. The
invariant `PostgresInv` says

* of the committed rows (`RowsInv`), besides `RowsAgree`: in a failed saga the
  steps never claimed come after the failed one (`FailedFirst`), and a step
  with an attempt is no longer PENDING;
* of what a connection has read (`ViewsInv`): the rows it has locked are still
  what it read, at most one update has the saga locked, and every snapshot was
  consistent when it was taken, and the present rows follow that of a running
  claim (`Follows`).

`Follows` is the heart of it: it lists what an old snapshot still tells of the
rows, and with the re-evaluation of the one row that the claim locks it is
just enough for the claim to be right. It is stated so as to survive every
commit of the others, a claim decided by another old snapshot included. What
cannot be said is that the snapshot's saga status still holds; that is why a
claim may mark a step COMPENSATING in a failed saga, which `SagaLifecycle`
allows as a stutter, the step being open before and after.

### `StepRunnerPool`

From `PoolAssumption` (finitely many workers, at least one). `PoolTypeCorrect`,
`NoClaimIsStranded` and `ResultsStayOpen` state `TypeOK`, `NothingStranded` and
`NoSendOnClosedResults`. `PoolInv` adds `Accounted` (every claim is finished,
dropped, or somewhere between `Submit` and the reader of the results),
`Numbered` (nothing else is, and at most the last claim was dropped) and
`Handshake` (the order in which the channels are closed and the goroutines
leave). `NothingStranded` follows when `Run` has returned: the handshake says
that nothing is under way, `Accounted` that then every claim has an end.

### `SagaLocker`

From `TimingAssumption`. `LockerTypeCorrect`, `RenewalsAreInTime`,
`LossIsNoticed`, `ContentionIsHandled` and `BusyIsTrue` state `TypeOK`,
`HolderKeepsKey`, `UnawareIsBounded`, `ContentionIsNoError` and
`ContendedMeansHeld`. `RunsAlone` adds what follows from `HolderKeepsKey`: no
two callers with a live `lockCtx` are under the lock at once while Redis
answers, which is what
`SagaRunner` takes for granted when `LockCanBeLost` is false. `LockerInv` is an account of the clocks: the key set by
an attempt has lost no more than the attempt's age (`SetInv`); while Redis
answers, the key outlives the renew ticker by more than an answer takes, and
then the answer (`RenewInv`); whatever Redis does, the time until the watchdog
gives up is at most the key's life and one answer (`UnawareInv`, where
`Patience` is ticker plus timeout); and the acquire deadline is far while the
first attempt is unanswered (`AcquireInv`). The proof attempt with
`4 * Latency < TTL` alone failed, and TLC confirms that it must: with a TTL of
a single unit of the clock (a nanosecond in the code, which the constructors
accept) half a TTL is rounded up to the whole, so that the ticker and the key
expire together. Hence `1 < TTL`.

`LockerImplementsLock` states `ImplementsLock`: with `reliable` for "Redis has
answered in time", every step, the clock's included, is one of `SagaLock` or a
stutter. It rests on `LockerInv` (a tick only lets a key expire whose owner has
no live `lockCtx`, by `RenewInv`; an attempt that Redis serves late belongs to
a caller that is still out or has given up, by `SetInv`). `SagaLock` allows no
more than these steps, and `SagaRunner` has an action for each of them, except
where a key is set for a caller that has not heard of it yet. Relating the two
showed that an earlier `SagaRunner` assumed more than the locker gives: it kept
the key of a process until its Release, while the watchdog stops renewing as
soon as `lockCtx` is cancelled. The model was corrected, and
`MutualExclusion` and the theorems built on it now speak of processes with a
live `lockCtx`, the ones whose store calls can still succeed.

### `SagaApi`

From `ApiAssumption` (a transport for each call, a key is not a call, the
invalid payload is none of the others, at least one step per saga).
`ApiTypeCorrect`, `KeysAreIdempotent`, `AcceptedStartIsFound`, `CancelIsFinal`
and `RefusalIsHonest` state `TypeOK`, `KeyStartsOneSaga`, `StartedSagaIsFound`,
`AcceptedCancelSticks` and `RefusedChangesNothing`. `ApiInv` says of each call
where it is and what it has in hand (`CallShape`), what a call that has
changed the store will not answer (`ChangeInv`) and what the success of a call
says about the stored saga (`StoredInv`); and of every two that only one
created a saga (`CreatedOnce`). Steps of others are handled by one lemma: no
step of `SagaLifecycle` removes a saga, changes its payload or takes up its
execution again (`Moves`).

### `ScipioProcess`

From `TasksAssumption` (a task is a gRPC call, an HTTP call or a worker).
`ProcessTypeCorrect`, `IngressEndsFirst` and `LocksAreReleased` state `TypeOK`,
`IngressEndsBeforeRunner` and `StopReleasesLocks`. The invariant `StopOrder`
says for each place in `run` which servers are stopped, whose tasks are over
and that Redis is open until then.

### `SagaList`

From `ListAssumption` (ids and clock readings are numbers, a microsecond is not
zero, the default page limit is positive and within the maximum, the maximum fits into an `int32`).
`ListTypeCorrect`, `NoSagaIsMissed` and `StoresAnswerAlike` state `TypeOK`,
`WalkMissesNothing` and `PagesMatch`, for any number of sagas, any readings of
the clocks and any page size.

A list is a set of sagas, or of rows, in the order of `before`. What sorting yields is
proved without an induction: the rank of a saga, the number of those before it,
is a bijection from the set to 0..n-1 (`RankIsBijection`), so the sorted
sequence exists, holds each saga once, and a saga's place is its rank plus one
(`SortedIsList`, `PlaceIsRank`). The invariant `WalkInv` says that a walking
client has seen every saga it must see whose row has a rank below its offset. Neither
a creation, whatever its timestamp, nor an update lowers a rank
(`RankNeverShrinks`), so no saga slips back behind the offset; a page holds
the ranks from the offset to the offset plus the limit (`PageHolds`); and the
page that ends the walk is empty only when no rank is left. A walk whose offset
no longer fits into an `int32` gets an error and does not end.

`StoresAnswerAlike` compares the list of the sagas with that of their rows.
Cutting times off keeps their order, though not whether they differ
(`PGTimeIsMonotone`), and every saga has one row (`RowsAreStored`). If the row at
some place were of an earlier microsecond than the saga at that place, that row
and all before it would belong to sagas before that saga, one too many; and the
other way round (`PlacesMatch`, by `RankGrows`).

`ReadableSagasAreListed` (`EverySagaIsListed`, as long as an `int32` offset
reaches the last saga) has the hypothesis `ContextsFit`: a context that is
accepted can be read again. Without it the theorem is false; the run `context`
is the counterexample.

### Only model-checked

* `Settles`, `RunEnds`, `WithSagaLockReturns` and `ProcessExits`: liveness
  under fairness is out of the prover's reach.
* The violated properties of the runs `order`, `ack` and `context`, which are
  false.

## Not modelled

* Which saga is claimed first (by `created_at` in Memory, by the step's
  `updated_at` in Postgres); within a saga at most one step can be claimed.
* Attempts outside `PostgresStore`: no decision reads them.
* The effects at a participant of calls that overlap: `calls` records calls as
  the orchestrator sees them.
* What makes a start request invalid (one value, `Invalid`), the copying of
  sagas into responses, error texts, the parsing of statuses: no state, and a
  table test reaches every case.
* Configuration: its values are the constants of the modules. The constructors
  refuse a TTL, poll interval, stale timeout or worker count that is not
  positive.
* Several saga keys in one Redis, several Redis nodes (redsync is given one),
  and a Redis that forgets keys before they expire.
* Failures of `run` before the runner is started: nothing is left to stop.
* The Noop locker, which only tests use, and `statemachine.IsTerminal`, which
  nothing calls.
* A `Submit` that races `Shutdown`, which the general pool would allow: `Run`
  does both in one goroutine.
* The functional test suite, which was read for the expected behaviour.

## Plan

Done, in this order: `SagaDomain`, `SagaRunner` with `SagaLifecycle`,
`StepRunnerPool`; `PostgresStore`, `SagaLocker`, `SagaApi`, `ScipioProcess`,
`SagaList`; the theorems on all of them; `SagaLock` and the two refinements of
it. Every safety property that a passing run checks is stated by a theorem.
What a change of the code would have to keep in mind: a new status or
transition goes into `SagaDomain` first, and `SagaDomainProofs` tells which of
the facts about single sagas it breaks; the remedies of the three violated
properties (a comparison of attempts, a dispatch mode handed to the update, a
context limit that is applied once) can be tried in `SagaRunner` and `SagaList`
before they are made.
