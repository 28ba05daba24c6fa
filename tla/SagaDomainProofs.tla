-------------------------- MODULE SagaDomainProofs --------------------------
(***************************************************************************)
(* Facts about the operators of SagaDomain: what a claim, a cancel and a   *)
(* worker's update do to one stored saga, for any number of steps.         *)
(***************************************************************************)
EXTENDS SagaDomain, TLAPS

SagaRecord(n) ==
    [status : SagaStatus \cup {"NONE"}, steps : [1..n -> SagaStepStatus]]

\* Claiming a step (claimExecutionStep, claimCompensationStep, the update of
\* sagas.sql) keeps the saga's status, keeps the two facts its status tells,
\* and leaves no claimed step PENDING.
LEMMA ClaimedKeeps ==
    ASSUME NEW n \in Nat, NEW saga \in SagaRecord(n), NEW started, NEW i \in 1..n,
           StatusTellsSteps(saga), StartedInOrder(saga), CanClaim(saga, started, i)
    PROVE  /\ Claimed(saga, i) \in SagaRecord(n)
           /\ Claimed(saga, i).status = saga.status
           /\ Claimed(saga, i).steps[i] # "PENDING"
           /\ \A j \in 1..n : j # i => Claimed(saga, i).steps[j] = saga.steps[j]
           /\ StatusTellsSteps(Claimed(saga, i))
           /\ StartedInOrder(Claimed(saga, i))
<1> DEFINE next == IF saga.status = "CANCELING" THEN "COMPENSATING" ELSE "RUNNING"
           c == Claimed(saga, i)
<1>1. /\ c.status = saga.status
      /\ c.steps = [saga.steps EXCEPT ![i] = next]
      /\ c \in SagaRecord(n)
  BY DEF Claimed, SagaRecord, SagaStepStatus
<1>2. /\ DOMAIN saga.steps = 1..n
      /\ DOMAIN c.steps = 1..n
      /\ c.steps[i] = next
      /\ \A j \in 1..n : j # i => c.steps[j] = saga.steps[j]
  BY <1>1 DEF SagaRecord
<1>3. CASE CanClaimExecution(saga, started, i)
  <2>1. next = "RUNNING" /\ saga.status \in {"CREATED", "RUNNING"}
    BY <1>3 DEF CanClaimExecution
  <2>2. StatusTellsSteps(c)
    BY <1>1, <1>2, <2>1 DEF StatusTellsSteps, hasFailedStep
  <2>3. StartedInOrder(c)
    BY <1>1, <1>2, <1>3, <2>1
    DEF StartedInOrder, CanClaimExecution, allPreviousStepsAreCompleted
  <2> QED BY <1>1, <1>2, <2>1, <2>2, <2>3
<1>4. CASE CanClaimCompensation(saga, started, i)
  <2>1. next = "COMPENSATING" /\ saga.status = "CANCELING"
    BY <1>4 DEF CanClaimCompensation
  <2>2. StatusTellsSteps(c)
    BY <1>1, <1>2, <2>1 DEF StatusTellsSteps, hasFailedStep, hasPendingCompensationSteps, Open
  <2>3. StartedInOrder(c)
    BY <1>1, <2>1 DEF StartedInOrder
  <2> QED BY <1>1, <1>2, <2>1, <2>2, <2>3
<1> QED BY <1>3, <1>4 DEF CanClaim

\* CancelSaga's closure keeps the two facts and starts no step.
LEMMA CanceledKeeps ==
    ASSUME NEW n \in Nat, NEW saga \in SagaRecord(n),
           StatusTellsSteps(saga), StartedInOrder(saga)
    PROVE  /\ canceledSaga(saga) \in SagaRecord(n)
           /\ \A j \in 1..n : saga.steps[j] # "PENDING" =>
                                canceledSaga(saga).steps[j] = saga.steps[j]
           /\ StatusTellsSteps(canceledSaga(saga))
           /\ StartedInOrder(canceledSaga(saga))
<1> DEFINE c == canceledSaga(saga)
           cond == /\ saga.status \in {"CREATED", "RUNNING", "COMPLETED", "CANCELING"}
                   /\ CanTransition(saga.status, "CANCELING")
<1>1. CASE ~cond
  BY <1>1 DEF canceledSaga, SagaRecord
<1>2. CASE cond
  <2> DEFINE steps == [i \in 1..n |->
                IF saga.steps[i] = "PENDING" THEN "COMPENSATED" ELSE saga.steps[i]]
  <2>1. DOMAIN saga.steps = 1..n /\ steps \in [1..n -> SagaStepStatus]
    BY DEF SagaRecord, SagaStepStatus
  <2>2. ~hasFailedStep(saga.steps)
    BY <1>2 DEF StatusTellsSteps
  <2>3. ~hasFailedStep(steps)
    BY <2>1, <2>2 DEF hasFailedStep
  <2>4. c = [status |-> IF hasPendingCompensationSteps(steps) THEN "CANCELING" ELSE "COMPENSATED",
             steps |-> steps]
    <3>1. c = settled([saga EXCEPT !.status = "CANCELING"], {"PENDING"})
      BY <1>2 DEF canceledSaga, normalizeSagaForCancellation
    <3>2. [saga EXCEPT !.status = "CANCELING"] = [status |-> "CANCELING", steps |-> saga.steps]
      BY DEF SagaRecord
    <3>3. CASE hasPendingCompensationSteps(steps)
      BY <3>1, <3>2, <3>3, <2>1, <2>3 DEF settled
    <3>4. CASE ~hasPendingCompensationSteps(steps)
      BY <3>1, <3>2, <3>4, <2>1, <2>3 DEF settled, MoveTo, CanTransition
    <3> QED BY <3>3, <3>4
  <2>5. \A j \in 1..n : steps[j] # "PENDING" /\ steps[j] # "FAILED"
    BY <2>1, <2>3 DEF hasFailedStep
  <2>6. CASE hasPendingCompensationSteps(steps)
    <3>1. c.status = "CANCELING" /\ c.steps = steps
      BY <2>4, <2>6
    <3>2. StatusTellsSteps(c) /\ StartedInOrder(c)
      BY <3>1, <2>1, <2>3, <2>5, <2>6 DEF StatusTellsSteps, StartedInOrder
    <3> QED BY <2>4, <2>6, <2>1, <3>1, <3>2 DEF SagaRecord, SagaStatus
  <2>7. CASE ~hasPendingCompensationSteps(steps)
    <3>1. c.status = "COMPENSATED" /\ c.steps = steps
      BY <2>4, <2>7
    <3>2. \A j \in 1..n : steps[j] = "COMPENSATED"
      BY <2>1, <2>5, <2>7 DEF hasPendingCompensationSteps, Open, SagaStepStatus
    <3>3. StatusTellsSteps(c) /\ StartedInOrder(c)
      BY <3>1, <3>2, <2>1, <2>3 DEF StatusTellsSteps, StartedInOrder
    <3> QED BY <2>4, <2>7, <2>1, <3>1, <3>3 DEF SagaRecord, SagaStatus
  <2> QED BY <2>6, <2>7
<1> QED BY <1>1, <1>2

\* A worker's update of a step that was once claimed keeps the two facts,
\* changes no other step and makes none PENDING, whatever the saga has become
\* since the step was loaded.
LEMMA UpdatedKeeps ==
    ASSUME NEW n \in Nat, NEW saga \in SagaRecord(n), NEW i \in 1..n, NEW ok \in BOOLEAN,
           StatusTellsSteps(saga), StartedInOrder(saga), saga.steps[i] # "PENDING"
    PROVE  /\ updatedAfterDispatch(saga, i, ok) \in SagaRecord(n)
           /\ updatedAfterDispatch(saga, i, ok).steps[i] # "PENDING"
           /\ \A j \in 1..n : j # i =>
                updatedAfterDispatch(saga, i, ok).steps[j] = saga.steps[j]
           /\ StatusTellsSteps(updatedAfterDispatch(saga, i, ok))
           /\ StartedInOrder(updatedAfterDispatch(saga, i, ok))
<1> DEFINE u == updatedAfterDispatch(saga, i, ok)
<1>0. /\ DOMAIN saga.steps = 1..n
      /\ saga.status \in SagaStatus \cup {"NONE"}
      /\ saga.steps \in [1..n -> SagaStepStatus]
  BY DEF SagaRecord
<1>1. CASE saga.status = "CANCELING" /\ saga.steps[i] \in Open
  <2> DEFINE steps == [saga.steps EXCEPT ![i] = IF ok THEN "COMPENSATED" ELSE "FAILED"]
  <2>1. u = applyClaimedStepCompensationResult(saga, i, ok)
    BY <1>1 DEF updatedAfterDispatch
  <2>2. ~hasFailedStep(saga.steps)
    BY <1>1 DEF StatusTellsSteps
  <2>3. /\ steps \in [1..n -> SagaStepStatus]
        /\ DOMAIN steps = 1..n
        /\ steps[i] = IF ok THEN "COMPENSATED" ELSE "FAILED"
        /\ \A j \in 1..n : j # i => steps[j] = saga.steps[j]
    BY <1>0 DEF SagaStepStatus
  <2>4. hasFailedStep(steps) <=> ~ok
    BY <2>2, <2>3, <1>0 DEF hasFailedStep
  <2>5. \A j \in 1..n : steps[j] # "PENDING"
    BY <1>0, <1>1, <2>3 DEF StatusTellsSteps
  <2>6. CASE ~ok
    <3>1. u.status = "FAILED" /\ u.steps = steps /\ u = [status |-> "FAILED", steps |-> steps]
      BY <2>1, <2>6, <1>1 DEF applyClaimedStepCompensationResult, MoveTo, CanTransition
    <3>2. StatusTellsSteps(u) /\ StartedInOrder(u)
      BY <3>1, <2>4, <2>6 DEF StatusTellsSteps, StartedInOrder
    <3> QED BY <3>1, <3>2, <2>3, <2>5 DEF SagaRecord, SagaStatus
  <2>7. CASE ok /\ hasPendingCompensationSteps(steps)
    <3>1. u.status = "CANCELING" /\ u.steps = steps /\ u = [status |-> "CANCELING", steps |-> steps]
      BY <2>1, <2>4, <2>7, <1>1 DEF applyClaimedStepCompensationResult
    <3>2. StatusTellsSteps(u) /\ StartedInOrder(u)
      BY <3>1, <2>3, <2>4, <2>5, <2>7 DEF StatusTellsSteps, StartedInOrder
    <3> QED BY <3>1, <3>2, <2>3, <2>5 DEF SagaRecord, SagaStatus
  <2>8. CASE ok /\ ~hasPendingCompensationSteps(steps)
    <3>1. u.status = "COMPENSATED" /\ u.steps = steps /\ u = [status |-> "COMPENSATED", steps |-> steps]
      BY <2>1, <2>4, <2>8, <1>1 DEF applyClaimedStepCompensationResult, MoveTo, CanTransition
    <3>2. \A j \in 1..n : steps[j] = "COMPENSATED"
      BY <2>3, <2>4, <2>5, <2>8 DEF hasPendingCompensationSteps, hasFailedStep, Open, SagaStepStatus
    <3>3. StatusTellsSteps(u) /\ StartedInOrder(u)
      BY <3>1, <3>2, <2>3, <2>4, <2>8 DEF StatusTellsSteps, StartedInOrder
    <3> QED BY <3>1, <3>3, <2>3, <2>5 DEF SagaRecord, SagaStatus
  <2> QED BY <2>6, <2>7, <2>8
<1>2. CASE saga.status # "CANCELING" /\ saga.steps[i] = "RUNNING"
  <2> DEFINE steps == [saga.steps EXCEPT ![i] = IF ok THEN "COMPLETED" ELSE "FAILED"]
  <2>1. u = applyClaimedStepDispatchResult(saga, i, ok)
    BY <1>2 DEF updatedAfterDispatch
  <2>2. saga.status \in {"CREATED", "RUNNING", "FAILED"}
    BY <1>0, <1>2 DEF StatusTellsSteps, SagaStatus
  <2>3. /\ steps \in [1..n -> SagaStepStatus]
        /\ DOMAIN steps = 1..n
        /\ steps[i] = IF ok THEN "COMPLETED" ELSE "FAILED"
        /\ \A j \in 1..n : j # i => steps[j] = saga.steps[j]
    BY <1>0 DEF SagaStepStatus
  <2>4. hasFailedStep(steps) <=> ~ok \/ saga.status = "FAILED"
    BY <1>0, <1>2, <2>3 DEF hasFailedStep, StatusTellsSteps
  <2>5. CASE ~ok \/ saga.status = "FAILED"
    <3>1. u = [status |-> "FAILED", steps |-> steps]
      BY <2>1, <2>2, <2>4, <2>5 DEF applyClaimedStepDispatchResult, MoveTo, CanTransition
    <3>2. u.status = "FAILED" /\ u.steps = steps
      BY <3>1
    <3>3. StatusTellsSteps(u) /\ StartedInOrder(u)
      BY <3>2, <2>4, <2>5 DEF StatusTellsSteps, StartedInOrder
    <3> QED BY <3>1, <3>2, <3>3, <2>3 DEF SagaRecord, SagaStatus
  <2>6. CASE ok /\ saga.status \in {"CREATED", "RUNNING"}
    <3> DEFINE st == IF allStepsCompleted(steps) THEN "COMPLETED" ELSE "RUNNING"
    <3>1. u = [status |-> st, steps |-> steps]
      BY <2>1, <2>4, <2>6 DEF applyClaimedStepDispatchResult, MoveTo, CanTransition
    <3>2. u.status = st /\ u.steps = steps
      BY <3>1
    <3>3. \A j \in 1..n : steps[j] # "PENDING" =>
            /\ steps[j] \in {"RUNNING", "COMPLETED"}
            /\ allPreviousStepsAreCompleted(steps, j)
      BY <1>0, <2>3, <2>6 DEF StartedInOrder, allPreviousStepsAreCompleted
    <3>4. StartedInOrder(u)
      BY <3>2, <3>3, <2>3 DEF StartedInOrder
    <3>5. StatusTellsSteps(u)
      BY <3>2, <2>3, <2>4, <2>6 DEF StatusTellsSteps, allStepsCompleted
    <3> QED BY <3>1, <3>2, <3>4, <3>5, <2>3 DEF SagaRecord, SagaStatus
  <2> QED BY <2>2, <2>5, <2>6
<1>3. CASE /\ ~(saga.status = "CANCELING" /\ saga.steps[i] \in Open)
           /\ ~(saga.status # "CANCELING" /\ saga.steps[i] = "RUNNING")
  BY <1>0, <1>3 DEF updatedAfterDispatch
<1> QED BY <1>1, <1>2, <1>3

\* A claim, made without the saga's lock, changes for no step what a worker
\* would dispatch, and settles no step.
LEMMA ClaimedKeepsMode ==
    ASSUME NEW n \in Nat, NEW saga \in SagaRecord(n), NEW started, NEW i \in 1..n,
           CanClaim(saga, started, i)
    PROVE  /\ \A j \in 1..n :
                resolveClaimedStepDispatchMode(Claimed(saga, i).status, Claimed(saga, i).steps[j])
                  = resolveClaimedStepDispatchMode(saga.status, saga.steps[j])
           /\ Claimed(saga, i).steps[i] \in {"RUNNING", "COMPENSATING"}
<1> DEFINE next == IF saga.status = "CANCELING" THEN "COMPENSATING" ELSE "RUNNING"
           c == Claimed(saga, i)
<1>1. /\ c.status = saga.status
      /\ c.steps[i] = next
      /\ \A j \in 1..n : j # i => c.steps[j] = saga.steps[j]
  BY DEF Claimed, SagaRecord
<1>2. resolveClaimedStepDispatchMode(saga.status, next)
        = resolveClaimedStepDispatchMode(saga.status, saga.steps[i])
  BY DEF CanClaim, CanClaimExecution, CanClaimCompensation, resolveClaimedStepDispatchMode, Open
<1> QED BY <1>1, <1>2

\* When the saga still asks for the mode that was dispatched, the update
\* records exactly that outcome.
LEMMA UpdatedRecordsOutcome ==
    ASSUME NEW n \in Nat, NEW saga \in SagaRecord(n), NEW i \in 1..n, NEW ok \in BOOLEAN,
           NEW m, m = resolveClaimedStepDispatchMode(saga.status, saga.steps[i]), m # "none",
           saga.steps[i] # "PENDING", saga.status # "NONE"
    PROVE  LET u == updatedAfterDispatch(saga, i, ok) IN
           /\ u.steps[i] = IF ~ok THEN "FAILED"
                           ELSE IF m = "execute" THEN "COMPLETED" ELSE "COMPENSATED"
           /\ u.status \in {"CREATED", "RUNNING", "COMPLETED"} =>
                saga.status \in {"CREATED", "RUNNING", "COMPLETED"}
<1> DEFINE u == updatedAfterDispatch(saga, i, ok)
<1>0. DOMAIN saga.steps = 1..n /\ saga.status \in SagaStatus
  BY DEF SagaRecord
<1>1. CASE saga.status = "CANCELING"
  <2>1. saga.steps[i] \in Open /\ m = "compensate"
    BY <1>1 DEF resolveClaimedStepDispatchMode
  <2>2. u = applyClaimedStepCompensationResult(saga, i, ok)
    BY <1>1, <2>1 DEF updatedAfterDispatch
  <2>3. u.steps[i] = IF ok THEN "COMPENSATED" ELSE "FAILED"
    BY <1>0, <2>2 DEF applyClaimedStepCompensationResult
  <2>4. u.status \in {"CANCELING", "COMPENSATED", "FAILED"}
    BY <1>1, <2>2 DEF applyClaimedStepCompensationResult, MoveTo
  <2> QED BY <2>1, <2>3, <2>4
<1>2. CASE saga.status # "CANCELING"
  <2>1. saga.steps[i] = "RUNNING" /\ m = "execute" /\ saga.status \in {"CREATED", "RUNNING", "COMPLETED"}
    BY <1>0, <1>2 DEF resolveClaimedStepDispatchMode, SagaStatus
  <2>2. u = applyClaimedStepDispatchResult(saga, i, ok)
    BY <1>2, <2>1 DEF updatedAfterDispatch
  <2>3. u.steps[i] = IF ok THEN "COMPLETED" ELSE "FAILED"
    BY <1>0, <2>2 DEF applyClaimedStepDispatchResult
  <2> QED BY <2>1, <2>3
<1> QED BY <1>1, <1>2

\* A cancel settles only steps that were never claimed, and no cancelled saga
\* goes on executing.
LEMMA CanceledSettles ==
    ASSUME NEW n \in Nat, NEW saga \in SagaRecord(n),
           StatusTellsSteps(saga), StartedInOrder(saga)
    PROVE  /\ \A j \in 1..n : canceledSaga(saga).steps[j] = "COMPENSATED" =>
                                saga.steps[j] \in {"PENDING", "COMPENSATED"}
           /\ \A j \in 1..n : canceledSaga(saga).steps[j] = "PENDING" => saga.steps[j] = "PENDING"
           /\ canceledSaga(saga).status \notin {"CREATED", "RUNNING", "COMPLETED"}
<1>1. \A j \in 1..n : saga.steps[j] # "PENDING" => canceledSaga(saga).steps[j] = saga.steps[j]
  BY CanceledKeeps
<1>2. canceledSaga(saga).status \notin {"CREATED", "RUNNING", "COMPLETED"}
  <2>1. CASE saga.status \in {"CREATED", "RUNNING", "COMPLETED", "CANCELING"}
    <3>1. canceledSaga(saga) = settled([saga EXCEPT !.status = "CANCELING"], {"PENDING"})
      BY <2>1 DEF canceledSaga, normalizeSagaForCancellation, CanTransition
    <3>2. [saga EXCEPT !.status = "CANCELING"].status = "CANCELING"
      BY DEF SagaRecord
    <3> QED BY <3>1, <3>2 DEF settled, MoveTo
  <2>2. CASE saga.status \notin {"CREATED", "RUNNING", "COMPLETED", "CANCELING"}
    BY <2>2 DEF canceledSaga
  <2> QED BY <2>1, <2>2
<1> QED BY <1>1, <1>2

-----------------------------------------------------------------------------
(* The same operators as steps of a saga's life cycle, see SagaLifecycle *)

\* The steps whose effects may have to be undone.
StillOpen(saga) == {i \in DOMAIN saga.steps : saga.steps[i] \in Open}

\* Nothing happens that a client could see.
SameLife(a, b) == b.status = a.status /\ StillOpen(b) = StillOpen(a)

\* The steps of SagaLifecycle that a cancel or a result can be, on the record
\* of one saga.
CancelsLife(a, b) ==
    /\ a.status \in {"CREATED", "RUNNING", "COMPLETED"}
    /\ b.status = IF StillOpen(a) = {} THEN "COMPENSATED" ELSE "CANCELING"
    /\ StillOpen(b) = StillOpen(a)

AdvancesLife(a, b) ==
    /\ a.status = "CREATED" /\ b.status = "RUNNING"
    /\ StillOpen(a) # {} /\ StillOpen(b) = StillOpen(a)

CompletesLife(a, b) ==
    /\ a.status \in {"CREATED", "RUNNING"} /\ b.status = "COMPLETED"
    /\ StillOpen(a) = DOMAIN a.steps /\ StillOpen(b) = StillOpen(a)

UndoesLife(a, b, i) ==
    /\ i \in StillOpen(a) /\ StillOpen(b) = StillOpen(a) \ {i}
    /\ a.status = "CANCELING"
    /\ b.status = IF StillOpen(a) = {i} THEN "COMPENSATED" ELSE "CANCELING"

FailsLife(a, b, i) ==
    /\ i \in StillOpen(a) /\ StillOpen(b) = StillOpen(a) \ {i}
    /\ a.status \in {"CREATED", "RUNNING", "CANCELING", "FAILED"}
    /\ b.status = "FAILED"

StartsLife(a, b, i) ==
    /\ a.status \in {"CREATED", "RUNNING"} /\ b.status = a.status
    /\ StillOpen(a) = 1..(i - 1) /\ StillOpen(b) = 1..i

\* A claim starts the next step, or claims one again that is open already.
LEMMA ClaimedIsStep ==
    ASSUME NEW n \in Nat, NEW saga \in SagaRecord(n), NEW started, NEW i \in 1..n,
           StartedInOrder(saga), CanClaim(saga, started, i)
    PROVE  SameLife(saga, Claimed(saga, i)) \/ StartsLife(saga, Claimed(saga, i), i)
<1> DEFINE next == IF saga.status = "CANCELING" THEN "COMPENSATING" ELSE "RUNNING"
           x == Claimed(saga, i)
<1>1. /\ DOMAIN saga.steps = 1..n /\ DOMAIN x.steps = 1..n
      /\ x.status = saga.status /\ x.steps[i] = next
      /\ \A j \in 1..n : j # i => x.steps[j] = saga.steps[j]
  BY DEF SagaRecord, Claimed
<1> HIDE DEF x
<1> SUFFICES SameLife(saga, x) \/ StartsLife(saga, x, i)
  BY DEF x
<1>2. CASE saga.steps[i] \in Open
  <2>1. \A j \in 1..n : x.steps[j] \in Open <=> saga.steps[j] \in Open
    BY <1>1, <1>2 DEF Open
  <2>2. StillOpen(x) = StillOpen(saga)
    BY <1>1, <2>1 DEF StillOpen
  <2> QED BY <1>1, <2>2 DEF SameLife
<1>3. CASE saga.steps[i] \notin Open
  <2>1. /\ saga.status \in {"CREATED", "RUNNING"} /\ saga.steps[i] = "PENDING"
        /\ \A j \in 1..n : j < i => saga.steps[j] = "COMPLETED"
    BY <1>1, <1>3 DEF CanClaim, CanClaimExecution, CanClaimCompensation,
                      allPreviousStepsAreCompleted, Open
  <2>2. \A j \in 1..n : i < j => saga.steps[j] = "PENDING"
    BY <1>1, <2>1 DEF StartedInOrder, allPreviousStepsAreCompleted
  <2>3. \A j \in 1..n : saga.steps[j] \in Open <=> j < i
    BY <2>1, <2>2 DEF Open
  <2>4. \A j \in 1..n : x.steps[j] \in Open <=> j <= i
    BY <1>1, <2>1, <2>3 DEF Open
  <2>5. StillOpen(saga) = 1..(i - 1)
    BY <1>1, <2>3 DEF StillOpen
  <2>6. StillOpen(x) = 1..i
    BY <1>1, <2>4 DEF StillOpen
  <2> QED BY <1>1, <2>1, <2>5, <2>6 DEF StartsLife
<1> QED BY <1>2, <1>3

\* CancelSaga's closure is a cancel, or changes nothing a client could see.
LEMMA CanceledIsCancel ==
    ASSUME NEW n \in Nat, NEW saga \in SagaRecord(n), StatusTellsSteps(saga)
    PROVE  SameLife(saga, canceledSaga(saga)) \/ CancelsLife(saga, canceledSaga(saga))
<1> DEFINE c == canceledSaga(saga)
           steps == [i \in 1..n |->
                IF saga.steps[i] = "PENDING" THEN "COMPENSATED" ELSE saga.steps[i]]
<1>1. CASE saga.status \notin {"CREATED", "RUNNING", "COMPLETED", "CANCELING"}
  BY <1>1 DEF canceledSaga, SameLife
<1>2. CASE saga.status \in {"CREATED", "RUNNING", "COMPLETED", "CANCELING"}
  <2>1. DOMAIN saga.steps = 1..n /\ DOMAIN steps = 1..n
    BY DEF SagaRecord
  <2>2. ~hasFailedStep(steps)
    BY <1>2, <2>1 DEF StatusTellsSteps, hasFailedStep
  <2>3. c = settled([status |-> "CANCELING", steps |-> saga.steps], {"PENDING"})
    <3>1. [saga EXCEPT !.status = "CANCELING"] = [status |-> "CANCELING", steps |-> saga.steps]
      BY DEF SagaRecord
    <3> QED BY <1>2, <3>1 DEF canceledSaga, normalizeSagaForCancellation, CanTransition
  <2>4. /\ c.steps = steps
        /\ c.status = IF hasPendingCompensationSteps(steps) THEN "CANCELING" ELSE "COMPENSATED"
    <3>1. CASE hasPendingCompensationSteps(steps)
      BY <2>1, <2>2, <2>3, <3>1 DEF settled
    <3>2. CASE ~hasPendingCompensationSteps(steps)
      BY <2>1, <2>2, <2>3, <3>2 DEF settled, MoveTo, CanTransition
    <3> QED BY <3>1, <3>2
  <2>5. StillOpen(c) = StillOpen(saga)
    BY <2>1, <2>4 DEF StillOpen, Open
  <2>6. hasPendingCompensationSteps(steps) <=> StillOpen(saga) # {}
    BY <2>1, <2>4, <2>5 DEF StillOpen, hasPendingCompensationSteps
  <2>7. CASE saga.status = "CANCELING"
    <3>1. StillOpen(saga) # {}
      BY <2>7 DEF StatusTellsSteps, StillOpen, hasPendingCompensationSteps
    <3> QED BY <2>4, <2>5, <2>6, <2>7, <3>1 DEF SameLife
  <2>8. CASE saga.status # "CANCELING"
    BY <1>2, <2>4, <2>5, <2>6, <2>8 DEF CancelsLife
  <2> QED BY <2>7, <2>8
<1> QED BY <1>1, <1>2

\* A worker's update advances, completes or fails the saga, undoes one step, or
\* changes nothing a client could see.
LEMMA UpdatedIsStep ==
    ASSUME NEW n \in Nat, NEW saga \in SagaRecord(n), NEW i \in 1..n, NEW ok \in BOOLEAN,
           StatusTellsSteps(saga), saga.steps[i] # "PENDING"
    PROVE  LET u == updatedAfterDispatch(saga, i, ok) IN
           \/ SameLife(saga, u) \/ AdvancesLife(saga, u) \/ CompletesLife(saga, u)
           \/ UndoesLife(saga, u, i) \/ FailsLife(saga, u, i)
<1> DEFINE u == updatedAfterDispatch(saga, i, ok)
<1>0. DOMAIN saga.steps = 1..n /\ saga.status \in SagaStatus \cup {"NONE"}
  BY DEF SagaRecord
<1>1. CASE saga.status = "CANCELING" /\ saga.steps[i] \in Open
  <2> DEFINE steps == [saga.steps EXCEPT ![i] = IF ok THEN "COMPENSATED" ELSE "FAILED"]
  <2>1. u = applyClaimedStepCompensationResult(saga, i, ok)
    BY <1>1 DEF updatedAfterDispatch
  <2>2. /\ DOMAIN steps = 1..n /\ steps[i] = IF ok THEN "COMPENSATED" ELSE "FAILED"
        /\ \A j \in 1..n : j # i => steps[j] = saga.steps[j]
    BY <1>0
  <2>3. u.steps = steps
    BY <2>1 DEF applyClaimedStepCompensationResult
  <2>4. i \in StillOpen(saga) /\ StillOpen(u) = StillOpen(saga) \ {i}
    BY <1>0, <1>1, <2>2, <2>3 DEF StillOpen, Open
  <2>5. hasFailedStep(steps) <=> ~ok
    BY <1>0, <1>1, <2>2 DEF StatusTellsSteps, hasFailedStep
  <2>6. hasPendingCompensationSteps(steps) <=> StillOpen(saga) # {i}
    BY <2>2, <2>3, <2>4 DEF StillOpen, hasPendingCompensationSteps
  <2>7. CASE ok
    <3>1. u.status = IF StillOpen(saga) = {i} THEN "COMPENSATED" ELSE "CANCELING"
      BY <1>1, <2>1, <2>5, <2>6, <2>7 DEF applyClaimedStepCompensationResult, MoveTo, CanTransition
    <3> QED BY <1>1, <2>4, <3>1 DEF UndoesLife
  <2>8. CASE ~ok
    <3>1. u.status = "FAILED"
      BY <1>1, <2>1, <2>8 DEF applyClaimedStepCompensationResult, MoveTo, CanTransition
    <3> QED BY <1>1, <2>4, <3>1 DEF FailsLife
  <2> QED BY <2>7, <2>8
<1>2. CASE saga.status # "CANCELING" /\ saga.steps[i] = "RUNNING"
  <2> DEFINE steps == [saga.steps EXCEPT ![i] = IF ok THEN "COMPLETED" ELSE "FAILED"]
  <2>1. u = applyClaimedStepDispatchResult(saga, i, ok)
    BY <1>2 DEF updatedAfterDispatch
  <2>2. /\ DOMAIN steps = 1..n /\ steps[i] = IF ok THEN "COMPLETED" ELSE "FAILED"
        /\ \A j \in 1..n : j # i => steps[j] = saga.steps[j]
    BY <1>0
  <2>3. u.steps = steps
    BY <2>1 DEF applyClaimedStepDispatchResult
  <2>4. saga.status \in {"CREATED", "RUNNING", "FAILED"}
    BY <1>0, <1>2 DEF StatusTellsSteps, SagaStatus
  <2>5. i \in StillOpen(saga)
    BY <1>0, <1>2 DEF StillOpen, Open
  <2>6. CASE ~ok
    <3>1. u.status = "FAILED"
      BY <2>1, <2>4, <2>6 DEF applyClaimedStepDispatchResult, MoveTo, CanTransition
    <3>2. StillOpen(u) = StillOpen(saga) \ {i}
      BY <1>0, <1>2, <2>2, <2>3, <2>6 DEF StillOpen, Open
    <3> QED BY <2>4, <2>5, <3>1, <3>2 DEF FailsLife
  <2>7. CASE ok
    <3>1. StillOpen(u) = StillOpen(saga)
      BY <1>0, <1>2, <2>2, <2>3, <2>7 DEF StillOpen, Open
    <3>2. hasFailedStep(steps) <=> saga.status = "FAILED"
      BY <1>0, <1>2, <2>2, <2>7 DEF StatusTellsSteps, hasFailedStep
    <3>3. CASE saga.status = "FAILED"
      <4>1. u.status = "FAILED"
        BY <2>1, <2>7, <3>2, <3>3 DEF applyClaimedStepDispatchResult, MoveTo, CanTransition
      <4> QED BY <3>1, <3>3, <4>1 DEF SameLife
    <3>4. CASE saga.status \in {"CREATED", "RUNNING"} /\ allStepsCompleted(steps)
      <4>1. u.status = "COMPLETED"
        BY <2>1, <2>7, <3>2, <3>4 DEF applyClaimedStepDispatchResult, MoveTo, CanTransition
      <4>2. StillOpen(u) = 1..n
        BY <2>2, <2>3, <3>4 DEF StillOpen, Open, allStepsCompleted
      <4> QED BY <1>0, <3>1, <3>4, <4>1, <4>2 DEF CompletesLife
    <3>5. CASE saga.status \in {"CREATED", "RUNNING"} /\ ~allStepsCompleted(steps)
      <4>1. u.status = "RUNNING"
        BY <2>1, <2>7, <3>2, <3>5 DEF applyClaimedStepDispatchResult, MoveTo, CanTransition
      <4> QED BY <2>5, <3>1, <3>5, <4>1 DEF AdvancesLife, SameLife
    <3> QED BY <2>4, <3>3, <3>4, <3>5
  <2> QED BY <2>6, <2>7
<1>3. CASE /\ ~(saga.status = "CANCELING" /\ saga.steps[i] \in Open)
           /\ ~(saga.status # "CANCELING" /\ saga.steps[i] = "RUNNING")
  BY <1>3 DEF updatedAfterDispatch, SameLife
<1> QED BY <1>1, <1>2, <1>3
=============================================================================
