------------------------- MODULE PostgresStoreProofs -------------------------
(***************************************************************************)
(* The transactions of internal/store/postgres.go on one saga, for any     *)
(* number of steps and connections.                                        *)
(***************************************************************************)
EXTENDS PostgresStore, SagaDomainProofs

Executes == {"NONE", "CREATED", "RUNNING"}
Undoes == {"CANCELING", "COMPENSATED", "FAILED"}

\* What a snapshot still tells of the committed rows, however old it is: a
\* saga that has stopped executing never executes again, one that was
\* cancelled or has failed does not complete, a step that was claimed is never
\* PENDING again, and while there is a step to start, or the
\* saga executes, no completed step has become anything else.
Follows(a, b) ==
    /\ a.status # "NONE" => b.status # "NONE"
    /\ a.status \notin Executes => b.status \notin Executes
    /\ a.status \in Undoes => b.status \in Undoes
    /\ \A j \in Steps : a.steps[j] # "PENDING" => b.steps[j] # "PENDING"
    /\ b.status \in Executes \/ (\E i \in Steps : b.steps[i] = "PENDING") =>
         \A j \in Steps : a.steps[j] = "COMPLETED" => b.steps[j] = "COMPLETED"

\* A step that was never claimed in a failed saga comes after the one that
\* failed, so that no snapshot allows to start it.
FailedFirst(s) ==
    s.status = "FAILED" => \A i \in Steps : s.steps[i] = "PENDING" =>
        \E k \in Steps : k < i /\ s.steps[k] = "FAILED"

GoodRows(s) == StatusTellsSteps(s) /\ StartedInOrder(s)

Locking == {"sagaLocked", "stepsLocked"}

\* The committed rows.
RowsInv ==
    /\ GoodRows(saga)
    /\ FailedFirst(saga)
    /\ \A i \in Steps : attempt[i] > 0 => saga.steps[i] # "PENDING"

\* What each connection has read: a snapshot of rows that were committed, or
\* the rows it has locked as they still are.
ViewsInv ==
    /\ \A c \in Conns : op[c] \in {"claiming", "getting", "got"} => GoodRows(view[c].saga)
    /\ \A c \in Conns : op[c] = "claiming" => Follows(view[c].saga, saga)
    /\ \A c \in Conns : op[c] \in Locking =>
        /\ view[c].saga.status = saga.status
        /\ saga.status # "NONE"
        /\ req[c].step # 0 => attempt[req[c].step] > 0
    /\ \A c \in Conns : op[c] = "stepsLocked" => view[c].saga = saga /\ view[c].attempt = attempt
    /\ \A c, d \in Conns : op[c] \in Locking /\ op[d] \in Locking => c = d

PostgresInv == TypeOK /\ RowsInv /\ ViewsInv

-----------------------------------------------------------------------------
(* Operators *)

\* A stored saga is a record as the lemmas of SagaDomainProofs take it.
LEMMA StoredIsRecord == N \in Nat /\ StoredSaga = SagaRecord(N) /\ Steps = 1..N
BY PostgresAssumption DEF StoredSaga, SagaRecord, Steps

\* Snapshots age well.
LEMMA FollowsTransitive ==
    ASSUME NEW a \in StoredSaga, NEW b \in StoredSaga, NEW c \in StoredSaga,
           Follows(a, b), Follows(b, c)
    PROVE  Follows(a, c)
<1>1. c.status \in Executes => b.status \in Executes
  BY DEF Follows
<1>2. \A i \in Steps : c.steps[i] = "PENDING" => b.steps[i] = "PENDING"
  BY DEF Follows
<1> QED BY <1>1, <1>2 DEF Follows

\* A snapshot is true when it is taken.
LEMMA FollowsReflexive == ASSUME NEW a PROVE Follows(a, a)
BY DEF Follows

\* Create stores a saga none of whose steps was started.
LEMMA CreatedFollows ==
    ASSUME NEW a \in StoredSaga, a.status = "NONE", GoodRows(a)
    PROVE  LET b == [a EXCEPT !.status = "CREATED"] IN
           /\ b \in StoredSaga /\ GoodRows(b) /\ FailedFirst(b) /\ Follows(a, b)
           /\ b.steps = a.steps /\ b.status = "CREATED"
<1> DEFINE b == [a EXCEPT !.status = "CREATED"]
<1>1. b \in StoredSaga /\ b.steps = a.steps /\ b.status = "CREATED" /\ DOMAIN a.steps = Steps
  BY DEF StoredSaga, SagaStatus
<1>2. \A i \in Steps : b.steps[i] = "PENDING"
  BY <1>1 DEF GoodRows, StatusTellsSteps
<1>3. GoodRows(b)
  BY <1>1, <1>2 DEF GoodRows, StatusTellsSteps, StartedInOrder, hasFailedStep
<1> QED BY <1>1, <1>2, <1>3 DEF Follows, FailedFirst, Executes, Undoes

\* The snapshot with the locked row as it is now, by which the condition is
\* evaluated again, and the rows that the claim commits.
Rechecked(snap, cur, i) == [snap EXCEPT !.steps[i] = cur.steps[i]]
AfterClaim(snap, cur, i) == [cur EXCEPT !.steps[i] = Claimed(snap, i).steps[i]]

\* The locked row still qualifies next to the snapshot, so the claim does what
\* one that saw the committed rows would have done, or marks a step of a saga
\* that is cancelled or has failed, which is then open before and after.
LEMMA ClaimedFollows ==
    ASSUME NEW snap \in StoredSaga, NEW cur \in StoredSaga, NEW age, NEW i \in Steps,
           GoodRows(snap), GoodRows(cur), FailedFirst(cur), Follows(snap, cur),
           CanClaim(snap, age, i),
           CanClaim(Rechecked(snap, cur, i), age, i)
    PROVE  LET x == AfterClaim(snap, cur, i) IN
           /\ x \in StoredSaga /\ GoodRows(x) /\ FailedFirst(x) /\ Follows(cur, x)
           /\ x.status = cur.status
           /\ x.steps[i] # "PENDING"
           /\ \A j \in Steps : j # i => x.steps[j] = cur.steps[j]
           /\ \/ StillOpen(x) = StillOpen(cur)
              \/ /\ cur.status \in {"CREATED", "RUNNING"}
                 /\ StillOpen(cur) = 1..(i - 1)
                 /\ StillOpen(x) = 1..i
<1> DEFINE next == IF snap.status = "CANCELING" THEN "COMPENSATING" ELSE "RUNNING"
           x == [cur EXCEPT !.steps[i] = next]
           now == [snap EXCEPT !.steps[i] = cur.steps[i]]
<1>0. /\ DOMAIN snap.steps = Steps /\ DOMAIN cur.steps = Steps
      /\ cur.status \in SagaStatus \cup {"NONE"} /\ cur.steps[i] \in SagaStepStatus
  BY DEF StoredSaga
<1>1. Claimed(snap, i).steps[i] = next
  BY <1>0 DEF Claimed, StoredSaga
<1>a. AfterClaim(snap, cur, i) = x /\ CanClaim(now, age, i)
  BY <1>1 DEF AfterClaim, Rechecked
<1> SUFFICES
      /\ x \in StoredSaga /\ GoodRows(x) /\ FailedFirst(x) /\ Follows(cur, x)
      /\ x.status = cur.status
      /\ x.steps[i] # "PENDING"
      /\ \A j \in Steps : j # i => x.steps[j] = cur.steps[j]
      /\ \/ StillOpen(x) = StillOpen(cur)
         \/ /\ cur.status \in {"CREATED", "RUNNING"}
            /\ StillOpen(cur) = 1..(i - 1)
            /\ StillOpen(x) = 1..i
  BY <1>a
<1>2. /\ x \in StoredSaga /\ x.status = cur.status /\ x.steps = [cur.steps EXCEPT ![i] = next]
      /\ DOMAIN x.steps = Steps /\ x.steps[i] = next
      /\ \A j \in Steps : j # i => x.steps[j] = cur.steps[j]
  BY <1>0 DEF StoredSaga, SagaStepStatus
<1>3. /\ now.status = snap.status /\ now.steps[i] = cur.steps[i] /\ DOMAIN now.steps = Steps
      /\ \A j \in Steps : j # i => now.steps[j] = snap.steps[j]
  BY <1>0 DEF StoredSaga
<1>4. CASE CanClaimExecution(snap, age, i)
  <2>1. /\ snap.status \in {"CREATED", "RUNNING"} /\ next = "RUNNING"
        /\ \A j \in Steps : j < i => snap.steps[j] = "COMPLETED"
    BY <1>0, <1>4 DEF CanClaimExecution, allPreviousStepsAreCompleted
  <2>2. cur.steps[i] \in {"PENDING", "RUNNING"}
    BY <1>3, <1>a, <2>1 DEF CanClaim, CanClaimExecution, CanClaimCompensation
  <2>3. CASE cur.steps[i] = "RUNNING"
    <3>1. x = cur
      BY <1>0, <2>1, <2>3 DEF StoredSaga
    <3> QED BY <1>1, <1>2, <2>3, <3>1, FollowsReflexive
  <2>4. CASE cur.steps[i] = "PENDING"
    <3>1. \A j \in Steps : j < i => cur.steps[j] = "COMPLETED"
      BY <2>1, <2>4 DEF Follows
    <3>2. cur.status # "FAILED"
      BY <2>4, <3>1 DEF FailedFirst
    <3>3. cur.status \in {"CREATED", "RUNNING"}
      BY <1>0, <2>1, <2>4, <3>2 DEF GoodRows, StatusTellsSteps, Follows, SagaStatus
    <3>4. \A j \in Steps : j > i => cur.steps[j] = "PENDING"
      BY <1>0, <2>4, <3>3 DEF GoodRows, StartedInOrder, allPreviousStepsAreCompleted, Steps
    <3>5. StatusTellsSteps(x)
      BY <1>0, <1>2, <2>1, <2>4, <3>3 DEF GoodRows, StatusTellsSteps, hasFailedStep
    <3>6. StartedInOrder(x)
      <4>1. \A j \in Steps : j < i => x.steps[j] = "COMPLETED"
        BY <1>2, <3>1 DEF Steps
      <4>2. ASSUME NEW j \in Steps, x.steps[j] # "PENDING"
            PROVE  x.steps[j] \in {"RUNNING", "COMPLETED"} /\ (j = i \/ j < i)
        BY <1>2, <2>1, <3>1, <3>4, <4>2 DEF Steps
      <4>3. ASSUME NEW j \in Steps, x.steps[j] # "PENDING" PROVE allPreviousStepsAreCompleted(x.steps, j)
        <5>1. ASSUME NEW k \in Steps, k < j PROVE k < i
          BY <4>2, <4>3, <5>1, PostgresAssumption DEF Steps
        <5> QED BY <1>2, <4>1, <5>1 DEF allPreviousStepsAreCompleted
      <4> QED BY <1>2, <4>2, <4>3 DEF StartedInOrder
    <3>7. FailedFirst(x) /\ Follows(cur, x)
      BY <1>2, <2>1, <2>4, <3>3 DEF FailedFirst, Follows, Executes, Undoes
    <3>8. StillOpen(cur) = 1..(i - 1)
      BY <1>0, <2>4, <3>1, <3>4, PostgresAssumption DEF StillOpen, Open, Steps
    <3>9. StillOpen(x) = 1..i
      BY <1>2, <2>1, <3>1, <3>4, PostgresAssumption DEF StillOpen, Open, Steps
    <3> QED BY <1>1, <1>2, <2>1, <3>3, <3>5, <3>6, <3>7, <3>8, <3>9 DEF GoodRows
  <2> QED BY <2>2, <2>3, <2>4
<1>5. CASE CanClaimCompensation(snap, age, i)
  <2>1. snap.status = "CANCELING" /\ next = "COMPENSATING"
    BY <1>5 DEF CanClaimCompensation
  <2>2. cur.steps[i] \in Open
    BY <1>3, <1>a, <2>1 DEF CanClaim, CanClaimExecution, CanClaimCompensation, Open
  <2>3. \A j \in Steps : cur.steps[j] # "PENDING"
    BY <1>0, <2>1 DEF GoodRows, StatusTellsSteps, Follows
  <2>4. cur.status \in {"CANCELING", "FAILED"}
    <3>1. cur.status \in Undoes
      BY <2>1 DEF Follows, Undoes
    <3>2. cur.status # "COMPENSATED"
      BY <1>0, <2>2 DEF GoodRows, StatusTellsSteps, Open
    <3> QED BY <3>1, <3>2 DEF Undoes
  <2>5. StatusTellsSteps(x)
    <3>1. hasFailedStep(x.steps) <=> hasFailedStep(cur.steps)
      BY <1>0, <1>2, <2>1, <2>2 DEF hasFailedStep, Open
    <3>2. hasPendingCompensationSteps(x.steps)
      BY <1>2, <2>1 DEF hasPendingCompensationSteps, Open
    <3> QED BY <1>0, <1>2, <2>1, <2>3, <2>4, <3>1, <3>2 DEF GoodRows, StatusTellsSteps
  <2>6. StartedInOrder(x)
    BY <1>2, <2>4 DEF StartedInOrder
  <2>7. FailedFirst(x) /\ Follows(cur, x)
    BY <1>2, <2>1, <2>3, <2>4 DEF FailedFirst, Follows, Executes, Undoes
  <2>8. StillOpen(x) = StillOpen(cur)
    BY <1>0, <1>2, <2>1, <2>2 DEF StillOpen, Open
  <2> QED BY <1>1, <1>2, <2>1, <2>5, <2>6, <2>7, <2>8 DEF GoodRows
<1> QED BY <1>4, <1>5 DEF CanClaim

\* CancelSaga's closure leaves no step to be started and settles nothing that
\* was claimed.
LEMMA CanceledFollows ==
    ASSUME NEW a \in StoredSaga, a.status # "NONE", GoodRows(a), FailedFirst(a)
    PROVE  /\ canceledSaga(a) \in StoredSaga /\ GoodRows(canceledSaga(a))
           /\ FailedFirst(canceledSaga(a)) /\ Follows(a, canceledSaga(a))
<1> DEFINE b == canceledSaga(a)
<1>1. /\ b \in StoredSaga /\ GoodRows(b)
      /\ \A j \in Steps : a.steps[j] # "PENDING" => b.steps[j] = a.steps[j]
  BY StoredIsRecord, CanceledKeeps DEF GoodRows
<1>2. CASE a.status \in {"CREATED", "RUNNING", "COMPLETED", "CANCELING"}
  <2>1. b.status \in {"CANCELING", "COMPENSATED"} \/ SameLife(a, b)
    BY StoredIsRecord, CanceledIsCancel DEF GoodRows, CancelsLife
  <2>2. b.status \notin {"CREATED", "RUNNING", "COMPLETED"}
    BY StoredIsRecord, CanceledSettles DEF GoodRows
  <2>3. b.status \in {"CANCELING", "COMPENSATED"}
    BY <1>2, <2>1, <2>2 DEF SameLife
  <2>4. \A j \in Steps : b.steps[j] # "PENDING"
    BY <1>1, <2>3 DEF GoodRows, StatusTellsSteps, StoredSaga
  <2> QED BY <1>1, <2>3, <2>4 DEF FailedFirst, Follows, Executes, Undoes
<1>3. CASE a.status \notin {"CREATED", "RUNNING", "COMPLETED", "CANCELING"}
  <2>1. b = a
    BY <1>3 DEF canceledSaga
  <2> QED BY <1>1, <2>1, FollowsReflexive
<1> QED BY <1>2, <1>3

\* A worker's update completes, fails or undoes one step that was claimed.
LEMMA UpdatedFollows ==
    ASSUME NEW a \in StoredSaga, a.status # "NONE", GoodRows(a), FailedFirst(a),
           NEW i \in Steps, NEW ok \in BOOLEAN, a.steps[i] # "PENDING"
    PROVE  LET b == updatedAfterDispatch(a, i, ok) IN
           b \in StoredSaga /\ GoodRows(b) /\ FailedFirst(b) /\ Follows(a, b)
<1> DEFINE b == updatedAfterDispatch(a, i, ok)
<1>1. /\ b \in StoredSaga /\ GoodRows(b) /\ b.steps[i] # "PENDING"
      /\ \A j \in Steps : j # i => b.steps[j] = a.steps[j]
  BY StoredIsRecord, UpdatedKeeps DEF GoodRows
<1>2. \/ SameLife(a, b) \/ AdvancesLife(a, b) \/ CompletesLife(a, b)
      \/ UndoesLife(a, b, i) \/ FailsLife(a, b, i)
  BY StoredIsRecord, UpdatedIsStep DEF GoodRows
<1>3. /\ a.status \notin Executes => b.status \notin Executes
      /\ a.status \in Undoes => b.status \in Undoes
      /\ b.status # "NONE"
  BY <1>2 DEF SameLife, AdvancesLife, CompletesLife, UndoesLife, FailsLife, Executes, Undoes
<1>4. CASE a.status = "CANCELING"
  <2>1. \A j \in Steps : b.steps[j] # "PENDING"
    BY <1>1, <1>4 DEF GoodRows, StatusTellsSteps, StoredSaga
  <2>2. b.status \in Undoes
    BY <1>3, <1>4 DEF Undoes
  <2> QED BY <1>1, <1>3, <2>1, <2>2 DEF FailedFirst, Follows, Executes, Undoes
<1>5. CASE a.status # "CANCELING" /\ a.steps[i] # "RUNNING"
  <2>1. b = a
    BY <1>5 DEF updatedAfterDispatch
  <2> QED BY <1>1, <2>1, FollowsReflexive
<1>6. CASE a.status # "CANCELING" /\ a.steps[i] = "RUNNING"
  <2>1. Follows(a, b)
    BY <1>1, <1>3, <1>6 DEF Follows
  <2>2. FailedFirst(b)
    <3> SUFFICES ASSUME b.status = "FAILED", NEW j \in Steps, b.steps[j] = "PENDING"
                 PROVE  \E k \in Steps : k < j /\ b.steps[k] = "FAILED"
      BY DEF FailedFirst
    <3>1. j # i /\ a.steps[j] = "PENDING"
      BY <1>1
    <3>2. CASE a.status = "FAILED"
      <4>1. PICK k \in Steps : k < j /\ a.steps[k] = "FAILED"
        BY <3>1, <3>2 DEF FailedFirst
      <4> QED BY <1>1, <1>6, <4>1
    <3>3. CASE a.status # "FAILED"
      <4>1. a.status \in {"CREATED", "RUNNING"}
        BY <1>6, <3>3 DEF GoodRows, StatusTellsSteps, StoredSaga, SagaStatus
      <4>2. i < j
        <5>1. allPreviousStepsAreCompleted(a.steps, i) /\ DOMAIN a.steps = Steps
          BY <1>6, <4>1 DEF GoodRows, StartedInOrder, StoredSaga
        <5>2. ~(j < i)
          BY <3>1, <5>1 DEF allPreviousStepsAreCompleted
        <5> QED BY <3>1, <5>2, PostgresAssumption DEF Steps
      <4>3. \A k \in Steps : a.steps[k] # "FAILED"
        BY <3>3 DEF GoodRows, StatusTellsSteps, hasFailedStep, StoredSaga
      <4>4. \E k \in Steps : b.steps[k] = "FAILED"
        <5>1. hasFailedStep(b.steps) /\ DOMAIN b.steps = Steps
          BY <1>1 DEF GoodRows, StatusTellsSteps, StoredSaga
        <5> QED BY <5>1 DEF hasFailedStep
      <4>5. b.steps[i] = "FAILED"
        BY <1>1, <4>3, <4>4
      <4> QED BY <4>2, <4>5
    <3> QED BY <3>2, <3>3
  <2> QED BY <1>1, <2>1, <2>2
<1> QED BY <1>4, <1>5, <1>6

-----------------------------------------------------------------------------
(* Transactions *)

Views == [saga : StoredSaga, attempt : [Steps -> 0..MaxAttempts], started : [Steps -> StepAge]]

\* A saga without a row, which an idle connection remembers.
LEMMA NothingRead ==
    /\ NoSaga \in StoredSaga /\ GoodRows(NoSaga)
    /\ [saga |-> NoSaga, attempt |-> NoAttempt, started |-> NotStarted] \in Views
    /\ NoAttempt \in [Steps -> 0..MaxAttempts] /\ NotStarted \in [Steps -> StepAge]
    /\ Cancel \in Request
<1>1. NoSaga \in StoredSaga
  BY DEF NoSaga, StoredSaga, SagaStepStatus
<1>2. GoodRows(NoSaga)
  BY DEF NoSaga, GoodRows, StatusTellsSteps, StartedInOrder, hasFailedStep
<1>3. NoAttempt \in [Steps -> 0..MaxAttempts] /\ NotStarted \in [Steps -> StepAge]
  BY PostgresAssumption DEF NoAttempt, NotStarted, StepAge
<1>4. Cancel \in Request
  BY PostgresAssumption DEF Cancel, Request
<1> QED BY <1>1, <1>2, <1>3, <1>4 DEF Views

\* The database before the saga is created.
LEMMA InitPostgres == Init => PostgresInv
<1> SUFFICES ASSUME Init PROVE PostgresInv
  OBVIOUS
<1>1. TypeOK
  BY NothingRead DEF Init, TypeOK, Op, Views
<1>2. RowsInv
  BY NothingRead DEF Init, RowsInv, FailedFirst, NoSaga, NoAttempt
<1>3. ViewsInv
  BY DEF Init, ViewsInv, Locking
<1> QED BY <1>1, <1>2, <1>3 DEF PostgresInv

\* A connection's step changes what it has read and nothing of the others.
LEMMA OneConn ==
    ASSUME TypeOK, NEW c \in Conns, NEW o \in Op, NEW s \in StoredSaga,
           NEW a \in [Steps -> 0..MaxAttempts], NEW t \in [Steps -> StepAge], NEW r \in Request,
           Become(c, o), Sees(c, s, a, t), req' = [req EXCEPT ![c] = r]
    PROVE  /\ op' \in [Conns -> Op] /\ view' \in [Conns -> Views] /\ req' \in [Conns -> Request]
           /\ op'[c] = o /\ view'[c].saga = s /\ view'[c].attempt = a /\ req'[c] = r
           /\ \A d \in Conns : d # c => op'[d] = op[d] /\ view'[d] = view[d] /\ req'[d] = req[d]
BY DEF TypeOK, Become, Sees, Views

\* The same for a connection that goes back to the pool.
LEMMA Returned ==
    ASSUME TypeOK, NEW c \in Conns, Return(c)
    PROVE  /\ op' \in [Conns -> Op] /\ view' \in [Conns -> Views] /\ req' \in [Conns -> Request]
           /\ op'[c] = "idle"
           /\ \A d \in Conns : d # c => op'[d] = op[d] /\ view'[d] = view[d] /\ req'[d] = req[d]
BY NothingRead, OneConn DEF Return, Op

\* What a commit must do to the rows for every other connection's view of them
\* to stay true: it is one that snapshots allow, it counts no attempt down,
\* and it is made by the holder of the row locks if there is one.
LEMMA CommitKeepsViews ==
    ASSUME PostgresInv, NEW c \in Conns, Return(c), saga' \in StoredSaga,
           Follows(saga, saga'),
           \A i \in Steps : attempt[i] > 0 => attempt'[i] > 0,
           (saga'.status # saga.status) => op[c] \in Locking,
           \A d \in Conns : d # c => op[d] # "stepsLocked"
    PROVE  ViewsInv'
<1>1. /\ op'[c] = "idle"
      /\ \A d \in Conns : d # c => op'[d] = op[d] /\ view'[d] = view[d] /\ req'[d] = req[d]
  BY Returned DEF PostgresInv
<1>2. ASSUME NEW d \in Conns, d # c, op[d] = "claiming" PROVE Follows(view[d].saga, saga')
  BY <1>2, FollowsTransitive DEF PostgresInv, ViewsInv, TypeOK
<1>3. ASSUME NEW d \in Conns, d # c, op[d] \in Locking
      PROVE  /\ view[d].saga.status = saga'.status /\ saga'.status # "NONE"
             /\ req[d].step # 0 => attempt'[req[d].step] > 0
  <2>1. saga'.status = saga.status
    BY <1>3 DEF PostgresInv, ViewsInv
  <2>2. req[d].step \in 0..N
    BY DEF PostgresInv, TypeOK, Request
  <2>3. req[d].step # 0 => req[d].step \in Steps
    BY <2>2, PostgresAssumption DEF Steps
  <2> QED BY <1>3, <2>1, <2>3 DEF PostgresInv, ViewsInv
<1> QED BY <1>1, <1>2, <1>3 DEF PostgresInv, ViewsInv, Locking

\* A transaction that ends without a commit.
LEMMA ReturnKeeps ==
    ASSUME PostgresInv, NEW c \in Conns, Return(c), UNCHANGED <<saga, attempt, started>>
    PROVE  PostgresInv'
<1>1. TypeOK'
  BY Returned DEF PostgresInv, TypeOK, Views
<1>2. RowsInv'
  BY DEF PostgresInv, RowsInv
<1>3. ViewsInv'
  <2>1. /\ op'[c] = "idle"
        /\ \A d \in Conns : d # c => op'[d] = op[d] /\ view'[d] = view[d] /\ req'[d] = req[d]
    BY Returned DEF PostgresInv
  <2> QED BY <2>1 DEF PostgresInv, ViewsInv, Locking
<1> QED BY <1>1, <1>2, <1>3 DEF PostgresInv

\* Create inserts the rows of a saga that nobody can have read.
LEMMA CreateKeeps == ASSUME PostgresInv, Create PROVE PostgresInv'
<1> USE DEF PostgresInv
<1>1. /\ saga.status = "NONE" /\ saga' = [saga EXCEPT !.status = "CREATED"] /\ saga \in StoredSaga
      /\ GoodRows(saga) /\ attempt' = attempt /\ started' = started
      /\ op' = op /\ view' = view /\ req' = req
  BY DEF Create, TypeOK, RowsInv
<1>2. /\ saga' \in StoredSaga /\ GoodRows(saga') /\ FailedFirst(saga') /\ Follows(saga, saga')
      /\ saga'.steps = saga.steps
  BY <1>1, CreatedFollows
<1>3. TypeOK'
  BY <1>1, <1>2 DEF TypeOK
<1>4. RowsInv'
  BY <1>1, <1>2 DEF RowsInv
<1>5. ViewsInv'
  <2>1. \A d \in Conns : op[d] \notin Locking
    BY <1>1 DEF ViewsInv
  <2>2. \A d \in Conns : op[d] = "claiming" => Follows(view[d].saga, saga')
    BY <1>1, <1>2, FollowsTransitive DEF ViewsInv, TypeOK
  <2> QED BY <1>1, <2>1, <2>2 DEF ViewsInv, Locking
<1> QED BY <1>3, <1>4, <1>5

\* What a claim commits although it chose by its snapshot.
LEMMA ClaimCommitted ==
    ASSUME PostgresInv, NEW c \in Conns, NEW i \in Steps, ClaimCommits(c, i)
    PROVE  /\ saga' \in StoredSaga /\ GoodRows(saga') /\ FailedFirst(saga')
           /\ Follows(saga, saga')
           /\ saga'.status = saga.status /\ saga'.steps[i] # "PENDING"
           /\ \A j \in Steps : j # i => saga'.steps[j] = saga.steps[j]
           /\ \/ StillOpen(saga') = StillOpen(saga)
              \/ /\ saga.status \in {"CREATED", "RUNNING"}
                 /\ StillOpen(saga) = 1..(i - 1)
                 /\ StillOpen(saga') = 1..i
<1> DEFINE snap == view[c].saga
           age == view[c].started
<1>1. /\ CanClaim(snap, age, i)
      /\ CanClaim(Rechecked(snap, saga, i), age, i)
      /\ saga' = AfterClaim(snap, saga, i)
      /\ op[c] = "claiming"
  BY DEF ClaimCommits, Claimable, Rechecked, AfterClaim
<1>2. /\ snap \in StoredSaga /\ saga \in StoredSaga
      /\ GoodRows(snap) /\ GoodRows(saga) /\ FailedFirst(saga) /\ Follows(snap, saga)
  BY <1>1 DEF PostgresInv, TypeOK, RowsInv, ViewsInv
<1> HIDE DEF snap, age
<1> QED BY <1>1, <1>2, ClaimedFollows

\* ClaimNextStep.
LEMMA ClaimKeeps == ASSUME PostgresInv, NEW c \in Conns, ClaimStep(c) PROVE PostgresInv'
<1> USE DEF PostgresInv
<1>1. CASE ClaimStarts(c)
  <2>1. /\ op' \in [Conns -> Op] /\ view' \in [Conns -> Views]
        /\ op'[c] = "claiming" /\ view'[c].saga = saga
        /\ \A d \in Conns : d # c => op'[d] = op[d] /\ view'[d] = view[d]
    BY <1>1, NothingRead DEF ClaimStarts, TypeOK, Become, Sees, Op, Views
  <2>2. UNCHANGED <<saga, attempt, started, req>>
    BY <1>1 DEF ClaimStarts
  <2>3. TypeOK'
    BY <2>1, <2>2 DEF TypeOK, Views
  <2>4. RowsInv'
    BY <2>2 DEF RowsInv
  <2>5. ViewsInv'
    BY <2>1, <2>2, FollowsReflexive DEF ViewsInv, RowsInv, Locking
  <2> QED BY <2>3, <2>4, <2>5
<1>2. ASSUME NEW i \in Steps, ClaimCommits(c, i) PROVE PostgresInv'
  <2>1. /\ op[c] = "claiming" /\ attempt[i] < MaxAttempts
        /\ attempt' = [attempt EXCEPT ![i] = @ + 1]
        /\ started' = [started EXCEPT ![i] = IF @ = "none" THEN "fresh" ELSE @]
        /\ \A d \in Conns : op[d] # "stepsLocked"
        /\ Return(c)
    BY <1>2 DEF ClaimCommits, Claimable
  <2>2. saga \in StoredSaga
    BY DEF TypeOK
  <2>3. /\ saga' \in StoredSaga /\ GoodRows(saga') /\ FailedFirst(saga') /\ Follows(saga, saga')
        /\ saga'.status = saga.status /\ saga'.steps[i] # "PENDING"
        /\ \A j \in Steps : j # i => saga'.steps[j] = saga.steps[j]
    BY <1>2, ClaimCommitted
  <2>4. /\ attempt' \in [Steps -> 0..MaxAttempts] /\ started' \in [Steps -> StepAge]
        /\ \A j \in Steps : attempt'[j] = IF j = i THEN attempt[j] + 1 ELSE attempt[j]
        /\ \A j \in Steps : attempt[j] > 0 => attempt'[j] > 0
    <3>1. attempt \in [Steps -> 0..MaxAttempts] /\ started \in [Steps -> StepAge]
      BY DEF TypeOK
    <3>2. \A j \in Steps : attempt'[j] = IF j = i THEN attempt[j] + 1 ELSE attempt[j]
      BY <2>1, <3>1
    <3>3. attempt' \in [Steps -> 0..MaxAttempts]
      BY <2>1, <3>1, PostgresAssumption
    <3>4. started' \in [Steps -> StepAge]
      BY <2>1, <3>1 DEF StepAge
    <3> QED BY <3>1, <3>2, <3>3, <3>4, PostgresAssumption
  <2>5. ViewsInv'
    BY <2>1, <2>3, <2>4, CommitKeepsViews
  <2>6. RowsInv'
    BY <2>3, <2>4 DEF RowsInv
  <2>7. TypeOK'
    BY <2>1, <2>3, <2>4, Returned DEF TypeOK, Views
  <2> QED BY <2>5, <2>6, <2>7
<1>3. CASE ClaimNothing(c)
  BY <1>3, ReturnKeeps DEF ClaimNothing
<1> QED BY <1>1, <1>2, <1>3 DEF ClaimStep

\* Update: what it reads under its row locks stays true until it commits.
LEMMA UpdateKeeps == ASSUME PostgresInv, NEW c \in Conns, UpdateStep(c) PROVE PostgresInv'
<1> USE DEF PostgresInv
<1>1. ASSUME NEW r \in Request, UpdateLocksSaga(c, r) PROVE PostgresInv'
  <2> DEFINE s == [NoSaga EXCEPT !.status = saga.status]
  <2>1. s \in StoredSaga /\ s.status = saga.status
    BY NothingRead DEF TypeOK, StoredSaga
  <2>2. /\ op' \in [Conns -> Op] /\ view' \in [Conns -> Views] /\ req' \in [Conns -> Request]
        /\ op'[c] = "sagaLocked" /\ view'[c].saga = s /\ req'[c] = r
        /\ \A d \in Conns : d # c => op'[d] = op[d] /\ view'[d] = view[d] /\ req'[d] = req[d]
    <3>1. /\ Become(c, "sagaLocked") /\ Sees(c, s, NoAttempt, NotStarted)
          /\ req' = [req EXCEPT ![c] = r] /\ "sagaLocked" \in Op
      BY <1>1 DEF UpdateLocksSaga, Op
    <3>2. NoAttempt \in [Steps -> 0..MaxAttempts] /\ NotStarted \in [Steps -> StepAge]
      BY NothingRead
    <3>3. TypeOK
      OBVIOUS
    <3> HIDE DEF s, PostgresInv
    <3> QED BY <2>1, <3>1, <3>2, <3>3 DEF TypeOK, Become, Sees, Views
  <2>3. /\ saga' = saga /\ attempt' = attempt /\ started' = started /\ saga.status # "NONE"
        /\ r.step # 0 => attempt[r.step] > 0
        /\ \A d \in Conns : op[d] \notin Locking
    BY <1>1 DEF UpdateLocksSaga, Cancel, Locking
  <2>4. TypeOK'
    BY <2>2, <2>3 DEF TypeOK, Views
  <2>5. RowsInv'
    BY <2>3 DEF RowsInv
  <2>6. ViewsInv'
    BY <2>1, <2>2, <2>3 DEF ViewsInv, Locking
  <2> QED BY <2>4, <2>5, <2>6
<1>2. CASE UpdateLocksSteps(c)
  <2>1. [saga EXCEPT !.status = view[c].saga.status] = saga /\ op[c] \in Locking
    BY <1>2 DEF UpdateLocksSteps, ViewsInv, Locking, TypeOK, StoredSaga
  <2>2. /\ op' \in [Conns -> Op] /\ view' \in [Conns -> Views]
        /\ op'[c] = "stepsLocked" /\ view'[c].saga = saga /\ view'[c].attempt = attempt
        /\ \A d \in Conns : d # c => op'[d] = op[d] /\ view'[d] = view[d]
    BY <1>2, <2>1, NothingRead DEF UpdateLocksSteps, TypeOK, Become, Sees, Op, Views
  <2>3. saga' = saga /\ attempt' = attempt /\ started' = started /\ req' = req
    BY <1>2 DEF UpdateLocksSteps
  <2>4. TypeOK'
    BY <2>2, <2>3 DEF TypeOK, Views
  <2>5. RowsInv'
    BY <2>3 DEF RowsInv
  <2>6. ViewsInv'
    BY <2>1, <2>2, <2>3 DEF ViewsInv, Locking
  <2> QED BY <2>4, <2>5, <2>6
<1>3. CASE UpdateCommits(c)
  <2>1. /\ op[c] = "stepsLocked" /\ view[c].saga = saga /\ attempt' = attempt /\ started' = started
        /\ Return(c)
        /\ saga' = IF req[c].step = 0 THEN canceledSaga(saga)
                   ELSE updatedAfterDispatch(saga, req[c].step, req[c].ok)
    BY <1>3 DEF UpdateCommits, ViewsInv
  <2>2. /\ saga \in StoredSaga /\ saga.status # "NONE" /\ GoodRows(saga) /\ FailedFirst(saga)
        /\ \A d \in Conns : d # c => op[d] \notin Locking
    BY <2>1 DEF TypeOK, ViewsInv, RowsInv, Locking
  <2>3. /\ saga' \in StoredSaga /\ GoodRows(saga') /\ FailedFirst(saga') /\ Follows(saga, saga')
    <3>1. CASE req[c].step = 0
      BY <2>1, <2>2, <3>1, CanceledFollows
    <3>2. CASE req[c].step # 0
      <4>1. req[c].step \in 0..N /\ req[c].ok \in BOOLEAN
        BY DEF TypeOK, Request
      <4>2. req[c].step \in Steps /\ saga.steps[req[c].step] # "PENDING"
        BY <2>1, <3>2, <4>1, PostgresAssumption DEF ViewsInv, RowsInv, Steps, Locking
      <4> QED BY <2>1, <2>2, <3>2, <4>1, <4>2, UpdatedFollows
    <3> QED BY <3>1, <3>2
  <2>4. TypeOK'
    BY <2>1, <2>3, Returned DEF TypeOK, Views
  <2>5. RowsInv'
    BY <2>1, <2>3 DEF RowsInv, Follows
  <2>6. ViewsInv'
    BY <2>1, <2>2, <2>3, CommitKeepsViews DEF Locking
  <2> QED BY <2>4, <2>5, <2>6
<1>4. CASE UpdateRollsBack(c)
  BY <1>4, ReturnKeeps DEF UpdateRollsBack
<1> QED BY <1>1, <1>2, <1>3, <1>4 DEF UpdateStep

\* Get: both statements see one snapshot.
LEMMA GetKeeps == ASSUME PostgresInv, NEW c \in Conns, GetStep(c) PROVE PostgresInv'
<1> USE DEF PostgresInv
<1>1. CASE GetReadsSaga(c) \/ GetReadsSteps(c)
  <2>1. UNCHANGED <<saga, attempt, started, req>>
    BY <1>1 DEF GetReadsSaga, GetReadsSteps
  <2>2. /\ op' \in [Conns -> Op] /\ view' \in [Conns -> Views]
        /\ op'[c] \in {"getting", "got"}
        /\ view'[c].saga = saga \/ (view'[c] = view[c] /\ op[c] = "getting")
        /\ \A d \in Conns : d # c => op'[d] = op[d] /\ view'[d] = view[d]
    <3>1. CASE GetReadsSaga(c)
      BY <3>1, NothingRead DEF GetReadsSaga, TypeOK, Become, Sees, Op, Views
    <3>2. CASE GetReadsSteps(c)
      BY <3>2 DEF GetReadsSteps, TypeOK, Become, Op, Views
    <3> QED BY <1>1, <3>1, <3>2
  <2>3. TypeOK'
    BY <2>1, <2>2 DEF TypeOK, Views
  <2>4. RowsInv'
    BY <2>1 DEF RowsInv
  <2>5. GoodRows(view'[c].saga)
    BY <2>2 DEF RowsInv, ViewsInv
  <2>6. ViewsInv'
    BY <2>1, <2>2, <2>5 DEF ViewsInv, Locking
  <2> QED BY <2>3, <2>4, <2>6
<1>2. CASE GetEnds(c)
  BY <1>2, ReturnKeeps DEF GetEnds
<1> QED BY <1>1, <1>2 DEF GetStep

\* Every step keeps the invariant.
LEMMA NextPostgres == PostgresInv /\ [Next]_vars => PostgresInv'
<1> SUFFICES ASSUME PostgresInv, [Next]_vars PROVE PostgresInv'
  OBVIOUS
<1>1. ASSUME NEW i \in Steps, BecomeStale(i) PROVE PostgresInv'
  <2>1. started' \in [Steps -> StepAge]
    BY <1>1 DEF BecomeStale, PostgresInv, TypeOK, StepAge
  <2> QED BY <1>1, <2>1 DEF BecomeStale, PostgresInv, TypeOK, RowsInv, ViewsInv
<1>2. CASE UNCHANGED vars
  BY <1>2 DEF vars, PostgresInv, TypeOK, RowsInv, ViewsInv
<1> QED BY <1>1, <1>2, CreateKeeps, ClaimKeeps, UpdateKeeps, GetKeeps DEF Next

-----------------------------------------------------------------------------

\* Every variable keeps its type.
THEOREM PostgresTypeCorrect == Spec => []TypeOK
<1>1. PostgresInv => TypeOK
  BY DEF PostgresInv
<1> QED BY <1>1, InitPostgres, NextPostgres, PTL DEF Spec

\* The rows of a saga agree whatever transactions overlap, also without the
\* saga's lock (ClaimNextStep's choice by a snapshot, Update, a commit that
\* nobody waits for).
THEOREM RowsStayConsistent == Spec => []RowsAgree
<1>1. PostgresInv => RowsAgree
  BY DEF PostgresInv, RowsInv, GoodRows, RowsAgree
<1> QED BY <1>1, InitPostgres, NextPostgres, PTL DEF Spec

\* What Get returns and what an Update closure is given was stored like that.
THEOREM ReadsStayConsistent == Spec => []ReadsAreConsistent
<1>1. PostgresInv => ReadsAreConsistent
  BY DEF PostgresInv, RowsInv, ViewsInv, GoodRows, ReadsAreConsistent
<1> QED BY <1>1, InitPostgres, NextPostgres, PTL DEF Spec

\* No attempt that ClaimNextStep has counted is written away by replaceSteps.
THEOREM AttemptsNeverShrink == Spec => AttemptsOnlyGrow
<1> DEFINE Grows == \A i \in Steps : attempt'[i] >= attempt[i]
<1>1. PostgresInv /\ [Next]_vars => [Grows]_attempt
  <2> SUFFICES ASSUME PostgresInv, [Next]_vars PROVE [Grows]_attempt
    OBVIOUS
  <2>1. attempt \in [Steps -> 0..MaxAttempts]
    BY DEF PostgresInv, TypeOK
  <2>2. ASSUME NEW c \in Conns, NEW i \in Steps, ClaimCommits(c, i) PROVE Grows
    BY <2>1, <2>2, PostgresAssumption DEF ClaimCommits
  <2>3. ASSUME NEW c \in Conns, UpdateCommits(c) PROVE attempt' = attempt
    BY <2>3 DEF UpdateCommits, PostgresInv, ViewsInv
  <2>4. ASSUME NEW c \in Conns, ClaimStep(c) PROVE [Grows]_attempt
    BY <2>2, <2>4 DEF ClaimStep, ClaimStarts, ClaimNothing
  <2>5. ASSUME NEW c \in Conns, UpdateStep(c) PROVE [Grows]_attempt
    BY <2>3, <2>5 DEF UpdateStep, UpdateLocksSaga, UpdateLocksSteps, UpdateRollsBack
  <2>6. ASSUME NEW c \in Conns, GetStep(c) PROVE [Grows]_attempt
    BY <2>6 DEF GetStep, GetReadsSaga, GetReadsSteps, GetEnds
  <2>7. CASE Create \/ (\E i \in Steps : BecomeStale(i)) \/ UNCHANGED vars
    BY <2>7 DEF Create, BecomeStale, vars
  <2> QED BY <2>4, <2>5, <2>6, <2>7 DEF Next
<1> QED BY <1>1, InitPostgres, NextPostgres, PTL DEF Spec, AttemptsOnlyGrow

-----------------------------------------------------------------------------
(* The life cycle a client is promised *)

\* The abstract variables of the saga's record.
LEMMA Mapped ==
    ASSUME NEW s \in StoredSaga
    PROVE  {i \in Steps : s.steps[i] \in Open} = StillOpen(s) /\ DOMAIN s.steps = Steps
BY DEF StoredSaga, StillOpen

\* What SagaLifecycle's Become means for the saga's record.
LEMMA MappedStep ==
    ASSUME TypeOK, TypeOK', NEW st, NEW os, saga'.status = st, StillOpen(saga') = os
    PROVE  Lifecycle!Become("it", st, os)
<1>1. saga \in StoredSaga /\ saga' \in StoredSaga
  BY DEF TypeOK
<1>2. {i \in Steps : saga'.steps[i] \in Open} = os
  BY <1>1, Mapped
<1> QED BY <1>2 DEF Lifecycle!Become

\* A step that leaves the status and the open steps alone is a stutter.
LEMMA MappedStutter ==
    ASSUME TypeOK, TypeOK', SameLife(saga, saga')
    PROVE  UNCHANGED Lifecycle!vars
<1>1. saga \in StoredSaga /\ saga' \in StoredSaga
  BY DEF TypeOK
<1>2. {i \in Steps : saga'.steps[i] \in Open} = {i \in Steps : saga.steps[i] \in Open}
  BY <1>1, Mapped DEF SameLife
<1> QED BY <1>2 DEF Lifecycle!vars, SameLife

\* What a transaction may do to the record, as a step of SagaLifecycle.
LEMMA MappedNext ==
    ASSUME TypeOK, TypeOK', NEW i \in Steps,
           \/ CancelsLife(saga, saga') \/ AdvancesLife(saga, saga')
           \/ CompletesLife(saga, saga') \/ UndoesLife(saga, saga', i)
           \/ FailsLife(saga, saga', i)
    PROVE  Lifecycle!Next
<1> DEFINE os == {j \in Steps : saga.steps[j] \in Open}
           after == {j \in Steps : saga'.steps[j] \in Open}
<1>1. os = StillOpen(saga) /\ after = StillOpen(saga') /\ DOMAIN saga.steps = Steps
  BY Mapped DEF TypeOK
<1>2. CASE CancelsLife(saga, saga')
  <2>1. saga'.status = (IF os = {} THEN "COMPENSATED" ELSE "CANCELING") /\ after = os
    BY <1>1, <1>2 DEF CancelsLife
  <2>2. Lifecycle!Cancel("it")
    BY <1>2, <2>1 DEF Lifecycle!Cancel, Lifecycle!Become, CancelsLife
  <2> QED BY <2>2 DEF Lifecycle!Next
<1>3. CASE AdvancesLife(saga, saga')
  <2>1. saga'.status = "RUNNING" /\ os # {} /\ after = os
    BY <1>1, <1>3 DEF AdvancesLife
  <2>2. Lifecycle!Advance("it")
    BY <1>3, <2>1 DEF Lifecycle!Advance, Lifecycle!Become, AdvancesLife
  <2> QED BY <2>2 DEF Lifecycle!Next
<1>4. CASE CompletesLife(saga, saga')
  <2>1. saga'.status = "COMPLETED" /\ os = 1..N /\ after = os
    BY <1>1, <1>4 DEF CompletesLife, Steps
  <2>2. Lifecycle!Complete("it")
    BY <1>4, <2>1 DEF Lifecycle!Complete, Lifecycle!Become, CompletesLife
  <2> QED BY <2>2 DEF Lifecycle!Next
<1>5. CASE UndoesLife(saga, saga', i)
  <2>1. /\ saga'.status = IF os = {i} THEN "COMPENSATED" ELSE "CANCELING"
        /\ i \in os /\ after = os \ {i}
    BY <1>1, <1>5 DEF UndoesLife
  <2>2. Lifecycle!Undo("it")
    BY <1>5, <2>1 DEF Lifecycle!Undo, Lifecycle!Become, UndoesLife
  <2> QED BY <2>2 DEF Lifecycle!Next
<1>6. CASE FailsLife(saga, saga', i)
  <2>1. saga'.status = "FAILED" /\ i \in os /\ after = os \ {i}
    BY <1>1, <1>6 DEF FailsLife
  <2>2. Lifecycle!Fail("it")
    BY <1>6, <2>1 DEF Lifecycle!Fail, Lifecycle!Become, FailsLife
  <2> QED BY <2>2 DEF Lifecycle!Next
<1> QED BY <1>2, <1>3, <1>4, <1>5, <1>6

\* Every commit is a step of the life cycle, or one that no client can see.
LEMMA CommitIsLifeStep ==
    ASSUME PostgresInv, PostgresInv', [Next]_vars
    PROVE  [Lifecycle!Next]_(Lifecycle!vars)
<1> USE DEF PostgresInv
<1>0. saga \in StoredSaga /\ N \in Nat /\ N > 0 /\ 1 \in Steps
  BY PostgresAssumption DEF TypeOK, Steps
<1>1. CASE Create
  <2>1. /\ saga.status = "NONE" /\ saga'.status = "CREATED" /\ saga'.steps = saga.steps
    BY <1>0, <1>1 DEF Create, StoredSaga
  <2>2. StillOpen(saga') = {}
    BY <2>1 DEF RowsInv, GoodRows, StatusTellsSteps, StillOpen, Open
  <2>3. Lifecycle!Become("it", "CREATED", {})
    BY <2>1, <2>2, MappedStep
  <2>4. Lifecycle!Begin("it")
    BY <2>1, <2>3 DEF Lifecycle!Begin
  <2> QED BY <2>4 DEF Lifecycle!Next
<1>2. ASSUME NEW c \in Conns, NEW i \in Steps, ClaimCommits(c, i)
      PROVE  [Lifecycle!Next]_(Lifecycle!vars)
  <2>1. /\ saga'.status = saga.status
        /\ \/ StillOpen(saga') = StillOpen(saga)
           \/ /\ saga.status \in {"CREATED", "RUNNING"}
              /\ StillOpen(saga) = 1..(i - 1)
              /\ StillOpen(saga') = 1..i
    BY <1>2, ClaimCommitted
  <2>2. CASE StillOpen(saga') = StillOpen(saga)
    BY <2>1, <2>2, MappedStutter DEF SameLife
  <2>3. CASE /\ saga.status \in {"CREATED", "RUNNING"}
             /\ StillOpen(saga) = 1..(i - 1)
             /\ StillOpen(saga') = 1..i
    <3>1. Lifecycle!Become("it", saga.status, 1..i)
      BY <2>1, <2>3, MappedStep
    <3>2. {j \in Steps : saga.steps[j] \in Open} = 1..(i - 1)
      BY <1>0, <2>3, Mapped
    <3>3. Lifecycle!StartStep("it")
      BY <2>3, <3>1, <3>2 DEF Lifecycle!StartStep, Steps
    <3> QED BY <3>3 DEF Lifecycle!Next
  <2> QED BY <2>1, <2>2, <2>3
<1>3. ASSUME NEW c \in Conns, UpdateCommits(c)
      PROVE  [Lifecycle!Next]_(Lifecycle!vars)
  <2>1. /\ view[c].saga = saga /\ StatusTellsSteps(saga)
        /\ saga' = IF req[c].step = 0 THEN canceledSaga(saga)
                   ELSE updatedAfterDispatch(saga, req[c].step, req[c].ok)
        /\ req[c].step # 0 => saga.steps[req[c].step] # "PENDING"
    <3>1. op[c] = "stepsLocked" /\ view[c].saga = saga
      BY <1>3 DEF UpdateCommits, ViewsInv
    <3>2. req[c].step # 0 => attempt[req[c].step] > 0
      BY <3>1 DEF ViewsInv, Locking
    <3>3. req[c].step \in 0..N
      BY DEF TypeOK, Request
    <3>4. req[c].step # 0 => req[c].step \in Steps
      BY <1>0, <3>3 DEF Steps
    <3> QED BY <1>3, <3>1, <3>2, <3>4 DEF UpdateCommits, RowsInv, GoodRows
  <2>2. CASE req[c].step = 0
    <3>1. SameLife(saga, saga') \/ CancelsLife(saga, saga')
      BY <1>0, <2>1, <2>2, CanceledIsCancel, StoredIsRecord
    <3> QED BY <1>0, <3>1, MappedStutter, MappedNext
  <2>3. CASE req[c].step # 0
    <3>1. req[c].step \in 0..N /\ req[c].ok \in BOOLEAN
      BY DEF TypeOK, Request
    <3>2. req[c].step \in 1..N /\ req[c].step \in Steps
      BY <1>0, <2>3, <3>1 DEF Steps
    <3> DEFINE i == req[c].step
               ok == req[c].ok
    <3>3. /\ i \in 1..N /\ ok \in BOOLEAN /\ saga.steps[i] # "PENDING"
          /\ saga' = updatedAfterDispatch(saga, i, ok)
      BY <2>1, <2>3, <3>1, <3>2
    <3> HIDE DEF i, ok
    <3>4. \/ SameLife(saga, saga') \/ AdvancesLife(saga, saga') \/ CompletesLife(saga, saga')
          \/ UndoesLife(saga, saga', i) \/ FailsLife(saga, saga', i)
      BY <1>0, <2>1, <3>3, UpdatedIsStep, StoredIsRecord
    <3>5. i \in Steps
      BY <3>3 DEF Steps
    <3> QED BY <3>4, <3>5, MappedStutter, MappedNext
  <2> QED BY <2>2, <2>3
<1>4. ASSUME saga' = saga PROVE [Lifecycle!Next]_(Lifecycle!vars)
  BY <1>4, MappedStutter DEF SameLife
<1>5. ASSUME NEW c \in Conns, ClaimStep(c) PROVE [Lifecycle!Next]_(Lifecycle!vars)
  BY <1>2, <1>4, <1>5 DEF ClaimStep, ClaimStarts, ClaimNothing
<1>6. ASSUME NEW c \in Conns, UpdateStep(c) PROVE [Lifecycle!Next]_(Lifecycle!vars)
  BY <1>3, <1>4, <1>6 DEF UpdateStep, UpdateLocksSaga, UpdateLocksSteps, UpdateRollsBack
<1>7. ASSUME NEW c \in Conns, GetStep(c) PROVE [Lifecycle!Next]_(Lifecycle!vars)
  BY <1>4, <1>7 DEF GetStep, GetReadsSaga, GetReadsSteps, GetEnds
<1>8. CASE (\E i \in Steps : BecomeStale(i)) \/ UNCHANGED vars
  BY <1>4, <1>8 DEF BecomeStale, vars
<1> QED BY <1>1, <1>5, <1>6, <1>7, <1>8 DEF Next

\* Whatever transactions overlap, the saga goes through the life cycle a client
\* is promised: steps start in order and only while it executes, cancelling is
\* irrevocable, COMPENSATED means everything undone, and FAILED is final.
THEOREM TransactionsImplementLifecycle == Spec => ImplementsLifecycle
<1>1. Init => Lifecycle!Init
  BY DEF Init, Lifecycle!Init, NoSaga, Open
<1>2. PostgresInv /\ PostgresInv' /\ [Next]_vars => [Lifecycle!Next]_(Lifecycle!vars)
  BY CommitIsLifeStep
<1> QED BY <1>1, <1>2, InitPostgres, NextPostgres, PTL DEF Spec, Lifecycle!Spec, ImplementsLifecycle
=============================================================================
