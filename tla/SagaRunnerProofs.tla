-------------------------- MODULE SagaRunnerProofs --------------------------
(***************************************************************************)
(* Safety of SagaRunner for any number of sagas, steps, instances, workers *)
(* and cancel requests.                                                    *)
(***************************************************************************)
EXTENDS SagaRunner, SagaDomainProofs, FiniteSetTheorems

\* The strengthening: what the store says, and that every claim on its way
\* refers to a step that was started.
StoreInv == StatusMatchesSteps /\ ExecutionIsOrdered /\ ClaimsAreStarted

\* saga is what an update makes of the stored saga s.
IsUpdate(s, saga) ==
    \/ saga = canceledSaga(sagas[s])
    \/ \E i \in StepsOf(s), ok \in BOOLEAN :
        sagas[s].steps[i] # "PENDING" /\ saga = updatedAfterDispatch(sagas[s], i, ok)

\* What an open commit will store is still an update of what is stored: its row
\* locks keep claims and other updates away from the saga.
CommitInv ==
    \A s \in Sagas : inCommit[s] # {} =>
        sagas[s].status # "NONE" /\ \A saga \in inCommit[s] : IsUpdate(s, saga)

\* A stored saga is a record as the operators of SagaDomain take it.
LEMMA StoredIsRecord ==
    ASSUME NEW s \in Sagas
    PROVE  /\ StepCount[s] \in Nat
           /\ StoredSaga(s) = SagaRecord(StepCount[s])
           /\ StepsOf(s) = 1..StepCount[s]
BY ConstantsAssumption DEF StoredSaga, SagaRecord, StepsOf

\* The pool's channel has a finite capacity (make(chan T, workers)).
LEMMA CapacityIsNat == ASSUME NEW n \in Instances PROVE QueueCapacity(n) \in Nat
<1>1. WorkersOf(n) \subseteq Workers
  BY DEF WorkersOf
<1>2. IsFiniteSet(WorkersOf(n))
  BY <1>1, ConstantsAssumption, FS_Subset
<1> QED BY <1>2, FS_CardinalityType DEF QueueCapacity

\* The initial state: nothing stored, nothing claimed.
LEMMA InitStore == Init => TypeOK /\ StoreInv
<1> SUFFICES ASSUME Init PROVE TypeOK /\ StoreInv
  OBVIOUS
<1> USE ConstantsAssumption DEF Init
<1>1. ASSUME NEW s \in Sagas
      PROVE  /\ sagas[s] \in StoredSaga(s)
             /\ StatusTellsSteps(sagas[s])
             /\ StartedInOrder(sagas[s])
  BY <1>1 DEF NoSaga, StoredSaga, StatusTellsSteps, StartedInOrder, hasFailedStep,
              SagaStepStatus
<1>2. TypeOK
  <2>1. \A n \in Instances : tasks[n] \in Seq(Claims) /\ Len(tasks[n]) <= QueueCapacity(n) + 1
    BY CapacityIsNat
  <2>2. \A s \in Sagas : calls[s] \in [StepsOf(s) -> CallState]
    BY DEF CallState, NoCall, DispatchMode, CallOutcome
  <2> QED BY <1>1, <2>1, <2>2 DEF TypeOK, StepAge, PC, DispatchMode
<1>3. StoreInv
  BY <1>1 DEF StoreInv, StatusMatchesSteps, ExecutionIsOrdered, ClaimsAreStarted, Procs
<1> QED BY <1>2, <1>3

\* One saga of the store is replaced by one that its status describes, and no
\* started step becomes PENDING.
LEMMA StoreStepKeeps ==
    ASSUME TypeOK, StoreInv, NEW s \in Sagas, NEW x \in StoredSaga(s),
           sagas' = [sagas EXCEPT ![s] = x],
           StatusTellsSteps(x), StartedInOrder(x),
           \A j \in StepsOf(s) : sagas[s].steps[j] # "PENDING" => x.steps[j] # "PENDING"
    PROVE  /\ DOMAIN sagas' = Sagas
           /\ \A t \in Sagas : sagas'[t] \in StoredSaga(t)
           /\ StatusMatchesSteps'
           /\ ExecutionIsOrdered'
           /\ \A c : ValidClaim(c) => ValidClaim(c)'
<1>1. DOMAIN sagas' = Sagas /\ \A t \in Sagas : sagas'[t] = IF t = s THEN x ELSE sagas[t]
  BY DEF TypeOK
<1>2. \A t \in Sagas : sagas'[t] \in StoredSaga(t)
  BY <1>1 DEF TypeOK
<1>3. \A t \in Sagas : StatusTellsSteps(sagas'[t]) /\ StartedInOrder(sagas'[t])
  BY <1>1 DEF StoreInv, StatusMatchesSteps, ExecutionIsOrdered
<1>4. ASSUME NEW c, ValidClaim(c) PROVE ValidClaim(c)'
  BY <1>1, <1>4 DEF ValidClaim, Claims
<1>5. StatusMatchesSteps' /\ ExecutionIsOrdered'
  BY <1>3 DEF StatusMatchesSteps, ExecutionIsOrdered
<1> QED BY <1>1, <1>2, <1>4, <1>5

\* An update takes a saga that its status describes to another one.
LEMMA UpdateKeeps ==
    ASSUME TypeOK, StoreInv, NEW s \in Sagas, NEW x, IsUpdate(s, x)
    PROVE  /\ x \in StoredSaga(s) /\ StatusTellsSteps(x) /\ StartedInOrder(x)
           /\ \A j \in StepsOf(s) : sagas[s].steps[j] # "PENDING" => x.steps[j] # "PENDING"
<1>1. /\ sagas[s] \in SagaRecord(StepCount[s]) /\ StepCount[s] \in Nat
      /\ StatusTellsSteps(sagas[s]) /\ StartedInOrder(sagas[s])
  BY StoredIsRecord DEF TypeOK, StoreInv, StatusMatchesSteps, ExecutionIsOrdered
<1>2. CASE x = canceledSaga(sagas[s])
  BY <1>1, <1>2, StoredIsRecord, CanceledKeeps
<1>3. ASSUME NEW i \in StepsOf(s), NEW ok \in BOOLEAN,
             sagas[s].steps[i] # "PENDING", x = updatedAfterDispatch(sagas[s], i, ok)
      PROVE  /\ x \in StoredSaga(s) /\ StatusTellsSteps(x) /\ StartedInOrder(x)
             /\ \A j \in StepsOf(s) : sagas[s].steps[j] # "PENDING" => x.steps[j] # "PENDING"
  BY <1>1, <1>3, StoredIsRecord, UpdatedKeeps
<1> QED BY <1>2, <1>3 DEF IsUpdate

\* What the invariant says of the store depends on sagas only.
LEMMA StoreFrame ==
    ASSUME TypeOK, StoreInv, sagas' = sagas
    PROVE  /\ DOMAIN sagas' = Sagas
           /\ \A t \in Sagas : sagas'[t] \in StoredSaga(t)
           /\ StatusMatchesSteps'
           /\ ExecutionIsOrdered'
           /\ \A c : ValidClaim(c) => ValidClaim(c)'
BY DEF TypeOK, StoreInv, StatusMatchesSteps, ExecutionIsOrdered, ValidClaim

\* A process that works on a saga has a claim; a worker's names a started step.
LEMMA ClaimOfBusy ==
    ASSUME TypeOK, StoreInv, NEW p \in Procs, pc[p] \notin {"idle", "done"}
    PROVE  /\ claim[p] \in Claims
           /\ claim[p].saga \in Sagas
           /\ p \in Workers => ValidClaim(claim[p])
BY DEF StoreInv, ClaimsAreStarted, ValidClaim, Claims, Procs

\* The end of withSagaLock, and any step that only moves pc within the busy
\* states, keeps the claims well formed when the store keeps them.
LEMMA FinishKeeps ==
    ASSUME TypeOK, StoreInv, NEW p \in Procs, Finish(p), tasks' = tasks, sagas' = sagas
    PROVE  /\ pc' \in [Procs -> PC] /\ claim' \in [Procs -> Claims \cup {NoClaim}]
           /\ lockCtx' \in [Procs -> BOOLEAN] /\ mode' \in [Procs -> DispatchMode]
           /\ dispatchOk' \in [Procs -> BOOLEAN]
           /\ ClaimsAreStarted'
<1>1. /\ pc' \in [Procs -> PC] /\ claim' \in [Procs -> Claims \cup {NoClaim}]
      /\ lockCtx' \in [Procs -> BOOLEAN] /\ mode' \in [Procs -> DispatchMode]
      /\ dispatchOk' \in [Procs -> BOOLEAN]
  BY DEF TypeOK, Finish, PC, DispatchMode
<1>2. \A q \in Procs : q # p => pc'[q] = pc[q] /\ claim'[q] = claim[q]
  BY DEF TypeOK, Finish
<1>3. pc'[p] = IF p \in Workers THEN "idle" ELSE "done"
  BY DEF TypeOK, Finish
<1>4. ClaimsAreStarted'
  BY <1>2, <1>3, StoreFrame, ConstantsAssumption DEF StoreInv, ClaimsAreStarted, Procs
<1> QED BY <1>1, <1>4

\* A process that only moves on, with the claim it has, keeps the claims well
\* formed.
LEMMA MoveKeeps ==
    ASSUME TypeOK, StoreInv, NEW p \in Procs, NEW to,
           pc[p] \notin {"idle", "done"}, pc' = [pc EXCEPT ![p] = to],
           p \in Workers => to \in PC \ {"idle", "done"},
           p \in Cancels => to \in {"acquire", "update", "release"},
           tasks' = tasks, claim' = claim,
           \A c : ValidClaim(c) => ValidClaim(c)'
    PROVE  pc' \in [Procs -> PC] /\ ClaimsAreStarted'
<1>1. pc' \in [Procs -> PC]
  BY DEF TypeOK, PC, Procs
<1>2. \A q \in Procs : pc'[q] = IF q = p THEN to ELSE pc[q]
  BY DEF TypeOK
<1>3. ClaimsAreStarted'
  BY <1>2, ConstantsAssumption DEF StoreInv, ClaimsAreStarted, Procs
<1> QED BY <1>1, <1>3

\* The return of fn forgets what the worker knew of its dispatch.
LEMMA FnReturnsKeeps ==
    ASSUME TypeOK, StoreInv, NEW p \in Procs, pc[p] \notin {"idle", "done"}, FnReturns(p),
           tasks' = tasks, claim' = claim,
           \A c : ValidClaim(c) => ValidClaim(c)'
    PROVE  /\ pc' \in [Procs -> PC] /\ lockCtx' \in [Procs -> BOOLEAN]
           /\ mode' \in [Procs -> DispatchMode] /\ dispatchOk' \in [Procs -> BOOLEAN]
           /\ ClaimsAreStarted'
<1>1. pc' = [pc EXCEPT ![p] = "release"]
  BY DEF FnReturns
<1>2. pc' \in [Procs -> PC] /\ ClaimsAreStarted'
  BY <1>1, MoveKeeps DEF PC
<1>3. /\ lockCtx' \in [Procs -> BOOLEAN] /\ mode' \in [Procs -> DispatchMode]
      /\ dispatchOk' \in [Procs -> BOOLEAN]
  BY DEF FnReturns, TypeOK, DispatchMode
<1> QED BY <1>2, <1>3

\* The update that is cut off in its COMMIT.
LEMMA CutOffIsUpdate ==
    ASSUME TypeOK, StoreInv, NEW p \in Procs, CommitCutOff(p)
    PROVE  \E s, x :
                /\ s \in Sagas /\ s = claim[p].saga /\ inCommit' = [inCommit EXCEPT ![s] = {x}]
                /\ IsUpdate(s, x) /\ sagas[s].status # "NONE"
                /\ \/ /\ p \in Workers /\ claim[p].step \in StepsOf(s)
                      /\ sagas[s].steps[claim[p].step] # "PENDING"
                      /\ x = updatedAfterDispatch(sagas[s], claim[p].step, dispatchOk[p])
                   \/ p \in Cancels /\ x = canceledSaga(sagas[s])
<1> DEFINE s == claim[p].saga
           i == claim[p].step
<1>1. s \in Sagas /\ (p \in Workers => ValidClaim(claim[p]))
  BY ClaimOfBusy DEF CommitCutOff
<1>2. CASE p \in Cancels
  BY <1>1, <1>2, ConstantsAssumption DEF CommitCutOff, IsUpdate
<1>3. CASE p \in Workers
  <2>1. i \in StepsOf(s) /\ sagas[s].steps[i] # "PENDING" /\ dispatchOk[p] \in BOOLEAN
    BY <1>1, <1>3 DEF ValidClaim, TypeOK
  <2>2. sagas[s].status # "NONE"
    BY <1>1, <2>1 DEF TypeOK, StoredSaga, StoreInv, StatusMatchesSteps, StatusTellsSteps
  <2>3. inCommit' = [inCommit EXCEPT ![s] = {updatedAfterDispatch(sagas[s], i, dispatchOk[p])}]
    BY <1>3, ConstantsAssumption DEF CommitCutOff
  <2> QED BY <1>1, <1>3, <2>1, <2>2, <2>3 DEF IsUpdate
<1> QED BY <1>2, <1>3 DEF Procs

\* Every step keeps the types and the store invariant.
LEMMA NextStore == TypeOK /\ StoreInv /\ CommitInv /\ [Next]_vars => TypeOK' /\ StoreInv'
<1> SUFFICES ASSUME TypeOK, StoreInv, CommitInv, [Next]_vars PROVE TypeOK' /\ StoreInv'
  OBVIOUS
<1> USE DEF Procs
<1>1. ASSUME NEW s \in Sagas, StartSaga(s) PROVE TypeOK' /\ StoreInv'
  <2> DEFINE x == [sagas[s] EXCEPT !.status = "CREATED"]
  <2>1. sagas[s] \in StoredSaga(s) /\ sagas[s].status = "NONE" /\ sagas' = [sagas EXCEPT ![s] = x]
    BY <1>1 DEF StartSaga, TypeOK
  <2>2. /\ x \in StoredSaga(s) /\ x.status = "CREATED" /\ x.steps = sagas[s].steps
        /\ \A j \in DOMAIN x.steps : x.steps[j] = "PENDING"
    BY <2>1 DEF StoredSaga, SagaStatus, StoreInv, StatusMatchesSteps, StatusTellsSteps
  <2>3. StatusTellsSteps(x) /\ StartedInOrder(x)
    BY <2>2 DEF StatusTellsSteps, StartedInOrder, hasFailedStep
  <2>4. /\ DOMAIN sagas' = Sagas /\ \A t \in Sagas : sagas'[t] \in StoredSaga(t)
        /\ StatusMatchesSteps' /\ ExecutionIsOrdered'
        /\ \A c : ValidClaim(c) => ValidClaim(c)'
    BY <2>1, <2>2, <2>3, StoreStepKeeps
  <2>5. ClaimsAreStarted'
    BY <1>1, <2>4 DEF StartSaga, StoreInv, ClaimsAreStarted
  <2> QED BY <1>1, <2>4, <2>5 DEF StartSaga, TypeOK, StoreInv
<1>2. ASSUME NEW c \in Cancels, NEW s \in Sagas, CancelSaga(c, s) PROVE TypeOK' /\ StoreInv'
  <2>1. /\ pc' \in [Procs -> PC] /\ claim' \in [Procs -> Claims \cup {NoClaim}]
        /\ claim'[c] \in Claims /\ pc'[c] = "acquire"
        /\ \A q \in Procs : q # c => pc'[q] = pc[q] /\ claim'[q] = claim[q]
    BY <1>2 DEF CancelSaga, TypeOK, PC, Claims
  <2>2. ClaimsAreStarted'
    BY <1>2, <2>1, StoreFrame, ConstantsAssumption DEF CancelSaga, StoreInv, ClaimsAreStarted
  <2> QED BY <1>2, <2>1, <2>2, StoreFrame DEF CancelSaga, TypeOK, StoreInv
<1>3. ASSUME NEW s \in Sagas, NEW i \in StepsOf(s), BecomeStale(s, i) PROVE TypeOK' /\ StoreInv'
  <2>1. DOMAIN started' = Sagas /\ \A t \in Sagas : started'[t] \in [StepsOf(t) -> StepAge]
    BY <1>3 DEF BecomeStale, TypeOK, StepAge
  <2>2. ClaimsAreStarted'
    BY <1>3, StoreFrame DEF BecomeStale, StoreInv, ClaimsAreStarted
  <2> QED BY <1>3, <2>1, <2>2, StoreFrame DEF BecomeStale, TypeOK, StoreInv
<1>4. ASSUME NEW n \in Instances, NEW s \in Sagas, NEW i \in StepsOf(s), ClaimNextStep(n, s, i)
      PROVE  TypeOK' /\ StoreInv'
  <2> DEFINE x == Claimed(sagas[s], i)
             d == [saga |-> s, step |-> i]
  <2>1. sagas[s] \in StoredSaga(s) /\ StatusTellsSteps(sagas[s]) /\ StartedInOrder(sagas[s])
    BY DEF TypeOK, StoreInv, StatusMatchesSteps, ExecutionIsOrdered
  <2>2. /\ x \in StoredSaga(s) /\ x.steps[i] # "PENDING"
        /\ \A j \in StepsOf(s) : j # i => x.steps[j] = sagas[s].steps[j]
        /\ StatusTellsSteps(x) /\ StartedInOrder(x)
    BY <1>4, <2>1, StoredIsRecord, ClaimedKeeps DEF ClaimNextStep, ClaimAndSubmit
  <2>3. sagas' = [sagas EXCEPT ![s] = x]
    BY <1>4 DEF ClaimNextStep, ClaimAndSubmit
  <2>4. /\ DOMAIN sagas' = Sagas /\ \A t \in Sagas : sagas'[t] \in StoredSaga(t)
        /\ StatusMatchesSteps' /\ ExecutionIsOrdered'
        /\ \A c : ValidClaim(c) => ValidClaim(c)'
    BY <2>2, <2>3, StoreStepKeeps
  <2>5. DOMAIN started' = Sagas /\ \A t \in Sagas : started'[t] \in [StepsOf(t) -> StepAge]
    BY <1>4 DEF ClaimNextStep, ClaimAndSubmit, TypeOK, StepAge
  <2>6. d \in Claims /\ ValidClaim(d)'
    BY <2>2, <2>3, ConstantsAssumption DEF ValidClaim, Claims, StepsOf, TypeOK
  <2>7. /\ tasks' = [tasks EXCEPT ![n] = Append(tasks[n], d)]
        /\ tasks[n] \in Seq(Claims) /\ Len(tasks[n]) <= QueueCapacity(n)
    BY <1>4 DEF ClaimNextStep, ClaimAndSubmit, TypeOK
  <2>8. /\ tasks' \in [Instances -> Seq(Claims)]
        /\ \A m \in Instances : Len(tasks'[m]) <= QueueCapacity(m) + 1
    BY <2>6, <2>7, CapacityIsNat DEF TypeOK
  <2>9. \A m \in Instances : \A k \in 1..Len(tasks'[m]) : ValidClaim(tasks[m][k])'
    <3> SUFFICES ASSUME NEW m \in Instances, NEW k \in 1..Len(tasks'[m])
                 PROVE  ValidClaim(tasks[m][k])'
      OBVIOUS
    <3>1. CASE m = n /\ k = Len(tasks[n]) + 1
      <4>1. tasks'[m][k] = d
        BY <2>6, <2>7, <3>1 DEF TypeOK
      <4> QED BY <4>1, <2>6
    <3>2. CASE ~(m = n /\ k = Len(tasks[n]) + 1)
      <4>1. k \in 1..Len(tasks[m]) /\ tasks'[m][k] = tasks[m][k]
        BY <2>6, <2>7, <3>2 DEF TypeOK
      <4>2. ValidClaim(tasks[m][k])
        BY <4>1 DEF StoreInv, ClaimsAreStarted
      <4> QED BY <4>1, <4>2, <2>4
    <3> QED BY <3>1, <3>2
  <2>10. ClaimsAreStarted'
    BY <1>4, <2>4, <2>9 DEF ClaimNextStep, ClaimAndSubmit, StoreInv, ClaimsAreStarted
  <2> QED BY <1>4, <2>4, <2>5, <2>8, <2>10 DEF ClaimNextStep, ClaimAndSubmit, TypeOK, StoreInv
<1>5. ASSUME NEW w \in Workers, TakeTask(w) PROVE TypeOK' /\ StoreInv'
  <2> DEFINE n == Home[w]
  <2>1. /\ n \in Instances /\ tasks[n] \in Seq(Claims) /\ tasks[n] # <<>>
        /\ tasks' = [tasks EXCEPT ![n] = Tail(tasks[n])]
        /\ Len(tasks[n]) <= QueueCapacity(n) + 1 /\ QueueCapacity(n) \in Nat
    BY <1>5, ConstantsAssumption, CapacityIsNat DEF TakeTask, TypeOK
  <2>2. Head(tasks[n]) = tasks[n][1] /\ 1 \in 1..Len(tasks[n]) /\ Head(tasks[n]) \in Claims
    BY <2>1
  <2>3. /\ tasks' \in [Instances -> Seq(Claims)]
        /\ \A m \in Instances : Len(tasks'[m]) <= QueueCapacity(m) + 1
    BY <2>1, <2>2 DEF TypeOK
  <2>4. /\ pc' \in [Procs -> PC] /\ claim' \in [Procs -> Claims \cup {NoClaim}]
        /\ claim'[w] = tasks[n][1] /\ pc'[w] = "acquire"
        /\ \A q \in Procs : q # w => pc'[q] = pc[q] /\ claim'[q] = claim[q]
    BY <1>5, <2>2 DEF TakeTask, TypeOK, PC
  <2>5. \A m \in Instances : \A k \in 1..Len(tasks'[m]) :
            \E l \in 1..Len(tasks[m]) : tasks'[m][k] = tasks[m][l]
    <3> SUFFICES ASSUME NEW m \in Instances, NEW k \in 1..Len(tasks'[m])
                 PROVE  \E l \in 1..Len(tasks[m]) : tasks'[m][k] = tasks[m][l]
      OBVIOUS
    <3>1. CASE m = n
      <4>1. k + 1 \in 1..Len(tasks[m]) /\ tasks'[m][k] = tasks[m][k + 1]
        BY <2>1, <2>2, <3>1 DEF TypeOK
      <4> QED BY <4>1
    <3>2. CASE m # n
      BY <2>1, <3>2 DEF TypeOK
    <3> QED BY <3>1, <3>2
  <2>6. ValidClaim(tasks[n][1])
    BY <2>1, <2>2 DEF StoreInv, ClaimsAreStarted
  <2>7. sagas' = sagas
    BY <1>5 DEF TakeTask
  <2>8. ClaimsAreStarted'
    <3>1. ASSUME NEW m \in Instances, NEW k \in 1..Len(tasks'[m])
          PROVE  ValidClaim(tasks[m][k])'
      <4>1. PICK l \in 1..Len(tasks[m]) : tasks'[m][k] = tasks[m][l]
        BY <2>5
      <4>2. ValidClaim(tasks[m][l])
        BY DEF StoreInv, ClaimsAreStarted
      <4> QED BY <2>7, <4>1, <4>2 DEF ValidClaim
    <3>2. ASSUME NEW v \in Workers
          PROVE  (pc[v] # "done" /\ (pc[v] # "idle" => ValidClaim(claim[v])))'
      <4>1. v \in Procs /\ pc[v] # "done" /\ (pc[v] # "idle" => ValidClaim(claim[v]))
        BY ConstantsAssumption DEF StoreInv, ClaimsAreStarted
      <4>2. CASE v = w
        BY <2>4, <2>6, <2>7, <4>2 DEF ValidClaim
      <4>3. CASE v # w
        BY <2>4, <2>7, <4>1, <4>3 DEF ValidClaim
      <4> QED BY <4>2, <4>3
    <3>3. \A c \in Cancels :
            /\ pc'[c] \in {"idle", "acquire", "update", "release", "done"}
            /\ pc'[c] \notin {"idle", "done"} => claim'[c] \in Claims
      BY <2>4, ConstantsAssumption DEF StoreInv, ClaimsAreStarted
    <3> QED BY <3>1, <3>2, <3>3 DEF ClaimsAreStarted
  <2> QED BY <1>5, <2>3, <2>4, <2>7, <2>8, StoreFrame DEF TakeTask, TypeOK, StoreInv
<1>6. ASSUME NEW p \in Procs, AcquireLock(p) PROVE TypeOK' /\ StoreInv'
  <2>1. sagas' = sagas /\ tasks' = tasks /\ claim' = claim /\ pc[p] \notin {"idle", "done"}
    BY <1>6 DEF AcquireLock
  <2>2. pc' \in [Procs -> PC] /\ ClaimsAreStarted'
    BY <1>6, <2>1, MoveKeeps, StoreFrame, ConstantsAssumption DEF AcquireLock, PC
  <2>3. lock' \in [Sagas -> Procs \cup {NoOwner, Orphan}] /\ lockCtx' \in [Procs -> BOOLEAN]
    BY <1>6 DEF AcquireLock, TypeOK
  <2> QED BY <1>6, <2>1, <2>2, <2>3, StoreFrame DEF AcquireLock, TypeOK, StoreInv
<1>7. ASSUME NEW p \in Procs, AcquireFails(p) PROVE TypeOK' /\ StoreInv'
  <2>1. sagas' = sagas /\ tasks' = tasks /\ Finish(p) /\ faults' \in Nat
    BY <1>7 DEF AcquireFails, Fault, TypeOK
  <2> QED BY <1>7, <2>1, FinishKeeps, StoreFrame DEF AcquireFails, TypeOK, StoreInv
<1>8. ASSUME NEW p \in Procs, RenewFails(p) PROVE TypeOK' /\ StoreInv'
  <2>1. sagas' = sagas /\ faults' \in Nat /\ lockCtx' \in [Procs -> BOOLEAN]
    BY <1>8 DEF RenewFails, Fault, TypeOK
  <2>2. ClaimsAreStarted'
    BY <1>8, <2>1, StoreFrame DEF RenewFails, StoreInv, ClaimsAreStarted
  <2> QED BY <1>8, <2>1, <2>2, StoreFrame DEF RenewFails, TypeOK, StoreInv
<1>9. ASSUME NEW p \in Procs, ReleaseLock(p) PROVE TypeOK' /\ StoreInv'
  <2>1. sagas' = sagas /\ tasks' = tasks /\ Finish(p) /\ faults' \in Nat
    BY <1>9 DEF ReleaseLock, Fault, TypeOK
  <2>2. lock' \in [Sagas -> Procs \cup {NoOwner, Orphan}]
    <3>1. claim[p].saga \in Sagas
      BY <1>9, ClaimOfBusy DEF ReleaseLock
    <3> QED BY <1>9, <3>1 DEF ReleaseLock, TypeOK
  <2> QED BY <1>9, <2>1, <2>2, FinishKeeps, StoreFrame DEF ReleaseLock, TypeOK, StoreInv
<1>10. ASSUME NEW s \in Sagas, LockExpires(s) PROVE TypeOK' /\ StoreInv'
  <2>1. sagas' = sagas /\ faults' \in Nat /\ lock' \in [Sagas -> Procs \cup {NoOwner, Orphan}]
    BY <1>10 DEF LockExpires, Fault, TypeOK
  <2>2. ClaimsAreStarted'
    BY <1>10, <2>1, StoreFrame DEF LockExpires, StoreInv, ClaimsAreStarted
  <2> QED BY <1>10, <2>1, <2>2, StoreFrame DEF LockExpires, TypeOK, StoreInv
<1>11. ASSUME NEW w \in Workers, LoadClaimedStep(w) PROVE TypeOK' /\ StoreInv'
  <2>1. sagas' = sagas /\ tasks' = tasks /\ claim' = claim /\ pc[w] \notin {"idle", "done"}
    BY <1>11 DEF LoadClaimedStep
  <2>2. overtaken' \subseteq Sagas
    BY <1>11, <2>1, ClaimOfBusy DEF LoadClaimedStep, TypeOK
  <2>3. CASE FnReturns(w)
    BY <1>11, <2>1, <2>3, <2>2, FnReturnsKeeps, StoreFrame DEF LoadClaimedStep, TypeOK, StoreInv
  <2>4. CASE ~FnReturns(w)
    <3>1. pc' = [pc EXCEPT ![w] = "dispatch"] /\ lockCtx' = lockCtx /\ dispatchOk' = dispatchOk
      BY <1>11, <2>4 DEF LoadClaimedStep
    <3>2. pc' \in [Procs -> PC] /\ ClaimsAreStarted'
      BY <2>1, <3>1, MoveKeeps, StoreFrame, ConstantsAssumption DEF PC
    <3>3. mode' \in [Procs -> DispatchMode]
      BY <1>11, <2>4 DEF LoadClaimedStep, TypeOK, resolveClaimedStepDispatchMode, DispatchMode
    <3> QED BY <1>11, <2>1, <2>2, <3>1, <3>2, <3>3, StoreFrame DEF LoadClaimedStep, TypeOK, StoreInv
  <2> QED BY <2>3, <2>4
<1>12. ASSUME NEW w \in Workers, LoadFails(w) PROVE TypeOK' /\ StoreInv'
  <2>1. /\ sagas' = sagas /\ tasks' = tasks /\ claim' = claim /\ pc[w] \notin {"idle", "done"}
        /\ FnReturns(w) /\ faults' \in Nat
    BY <1>12 DEF LoadFails, Fault, TypeOK
  <2> QED BY <1>12, <2>1, FnReturnsKeeps, StoreFrame DEF LoadFails, TypeOK, StoreInv
<1>13. ASSUME NEW w \in Workers, SendCall(w) PROVE TypeOK' /\ StoreInv'
  <2>1. sagas' = sagas /\ tasks' = tasks /\ claim' = claim /\ pc[w] \notin {"idle", "done"}
    BY <1>13 DEF SendCall
  <2>2. pc' \in [Procs -> PC] /\ ClaimsAreStarted'
    BY <1>13, <2>1, MoveKeeps, StoreFrame, ConstantsAssumption DEF SendCall, PC
  <2>3. DOMAIN calls' = Sagas /\ \A s \in Sagas : calls'[s] \in [StepsOf(s) -> CallState]
    <3>1. [op |-> mode[w], outcome |-> "sent"] \in CallState
      BY DEF TypeOK, CallState, CallOutcome
    <3> QED BY <1>13, <3>1 DEF SendCall, TypeOK
  <2> QED BY <1>13, <2>1, <2>2, <2>3, StoreFrame DEF SendCall, TypeOK, StoreInv
<1>14. ASSUME NEW w \in Workers, SendFails(w) PROVE TypeOK' /\ StoreInv'
  <2>1. sagas' = sagas /\ tasks' = tasks /\ claim' = claim /\ pc[w] \notin {"idle", "done"}
    BY <1>14 DEF SendFails
  <2>2. pc' \in [Procs -> PC] /\ ClaimsAreStarted'
    BY <1>14, <2>1, MoveKeeps, StoreFrame, ConstantsAssumption DEF SendFails, PC
  <2> QED BY <1>14, <2>1, <2>2, StoreFrame DEF SendFails, TypeOK, StoreInv
<1>15. ASSUME NEW w \in Workers, NEW ok \in BOOLEAN, CallReturns(w, ok) PROVE TypeOK' /\ StoreInv'
  <2>1. sagas' = sagas /\ tasks' = tasks /\ claim' = claim /\ pc[w] \notin {"idle", "done"}
    BY <1>15 DEF CallReturns
  <2>2. pc' \in [Procs -> PC] /\ ClaimsAreStarted'
    BY <1>15, <2>1, MoveKeeps, StoreFrame, ConstantsAssumption DEF CallReturns, PC
  <2>3. DOMAIN calls' = Sagas /\ \A s \in Sagas : calls'[s] \in [StepsOf(s) -> CallState]
    <3>1. [op |-> mode[w], outcome |-> IF ok THEN "ok" ELSE "err"] \in CallState
      BY DEF TypeOK, CallState, CallOutcome
    <3> QED BY <1>15, <3>1 DEF CallReturns, TypeOK
  <2>4. dispatchOk' \in [Procs -> BOOLEAN]
    BY <1>15 DEF CallReturns, TypeOK
  <2> QED BY <1>15, <2>1, <2>2, <2>3, <2>4, StoreFrame DEF CallReturns, TypeOK, StoreInv
<1>16. ASSUME NEW w \in Workers, UpdateAfterDispatch(w) PROVE TypeOK' /\ StoreInv'
  <2> DEFINE s == claim[w].saga
             i == claim[w].step
             x == updatedAfterDispatch(sagas[s], i, dispatchOk[w])
  <2>1. /\ pc[w] \notin {"idle", "done"} /\ FnReturns(w)
        /\ tasks' = tasks /\ claim' = claim /\ sagas' = [sagas EXCEPT ![s] = x]
    BY <1>16 DEF UpdateAfterDispatch
  <2>2. s \in Sagas /\ i \in StepsOf(s) /\ sagas[s].steps[i] # "PENDING" /\ dispatchOk[w] \in BOOLEAN
    BY <2>1, ClaimOfBusy DEF ValidClaim, TypeOK
  <2>3. sagas[s] \in StoredSaga(s) /\ StatusTellsSteps(sagas[s]) /\ StartedInOrder(sagas[s])
    BY <2>2 DEF TypeOK, StoreInv, StatusMatchesSteps, ExecutionIsOrdered
  <2>4. /\ x \in StoredSaga(s) /\ x.steps[i] # "PENDING"
        /\ \A j \in StepsOf(s) : j # i => x.steps[j] = sagas[s].steps[j]
        /\ StatusTellsSteps(x) /\ StartedInOrder(x)
    BY <2>2, <2>3, StoredIsRecord, UpdatedKeeps
  <2>5. /\ DOMAIN sagas' = Sagas /\ \A t \in Sagas : sagas'[t] \in StoredSaga(t)
        /\ StatusMatchesSteps' /\ ExecutionIsOrdered'
        /\ \A c : ValidClaim(c) => ValidClaim(c)'
    <3>1. \A j \in StepsOf(s) : sagas[s].steps[j] # "PENDING" => x.steps[j] # "PENDING"
      BY <2>4
    <3> HIDE DEF x, s
    <3> QED BY <2>1, <2>2, <2>4, <3>1, StoreStepKeeps
  <2>6. /\ pc' \in [Procs -> PC] /\ lockCtx' \in [Procs -> BOOLEAN]
        /\ mode' \in [Procs -> DispatchMode] /\ dispatchOk' \in [Procs -> BOOLEAN]
        /\ ClaimsAreStarted'
    BY <2>1, <2>5, FnReturnsKeeps
  <2> QED BY <1>16, <2>5, <2>6 DEF UpdateAfterDispatch, TypeOK, StoreInv
<1>17. ASSUME NEW c \in Cancels, UpdateForCancel(c) PROVE TypeOK' /\ StoreInv'
  <2> DEFINE s == claim[c].saga
             x == canceledSaga(sagas[s])
  <2>1. /\ pc[c] \notin {"idle", "done"} /\ FnReturns(c)
        /\ tasks' = tasks /\ claim' = claim /\ sagas' = [sagas EXCEPT ![s] = x]
    BY <1>17 DEF UpdateForCancel
  <2>2. s \in Sagas
    BY <2>1, ClaimOfBusy
  <2>3. sagas[s] \in StoredSaga(s) /\ StatusTellsSteps(sagas[s]) /\ StartedInOrder(sagas[s])
    BY <2>2 DEF TypeOK, StoreInv, StatusMatchesSteps, ExecutionIsOrdered
  <2>4. /\ x \in StoredSaga(s) /\ StatusTellsSteps(x) /\ StartedInOrder(x)
        /\ \A j \in StepsOf(s) : sagas[s].steps[j] # "PENDING" => x.steps[j] = sagas[s].steps[j]
    BY <2>2, <2>3, StoredIsRecord, CanceledKeeps
  <2>5. /\ DOMAIN sagas' = Sagas /\ \A t \in Sagas : sagas'[t] \in StoredSaga(t)
        /\ StatusMatchesSteps' /\ ExecutionIsOrdered'
        /\ \A d : ValidClaim(d) => ValidClaim(d)'
    BY <2>1, <2>2, <2>4, StoreStepKeeps
  <2>6. /\ pc' \in [Procs -> PC] /\ lockCtx' \in [Procs -> BOOLEAN]
        /\ mode' \in [Procs -> DispatchMode] /\ dispatchOk' \in [Procs -> BOOLEAN]
        /\ ClaimsAreStarted'
    BY <2>1, <2>5, FnReturnsKeeps
  <2> QED BY <1>17, <2>5, <2>6 DEF UpdateForCancel, TypeOK, StoreInv
<1>18. ASSUME NEW p \in Procs, UpdateFails(p) PROVE TypeOK' /\ StoreInv'
  <2>1. /\ sagas' = sagas /\ tasks' = tasks /\ claim' = claim /\ pc[p] \notin {"idle", "done"}
        /\ FnReturns(p) /\ faults' \in Nat
    BY <1>18 DEF UpdateFails, Fault, TypeOK
  <2> QED BY <1>18, <2>1, FnReturnsKeeps, StoreFrame DEF UpdateFails, TypeOK, StoreInv
<1>19. ASSUME NEW n \in Instances, Crash(n) PROVE TypeOK' /\ StoreInv'
  <2>1. /\ sagas' = sagas /\ started' = started /\ calls' = calls /\ faults' \in Nat
        /\ inCommit' = inCommit /\ overtaken' = overtaken
    BY <1>19 DEF Crash, Fault, TypeOK
  <2>2. /\ tasks' \in [Instances -> Seq(Claims)]
        /\ \A m \in Instances : Len(tasks'[m]) <= QueueCapacity(m) + 1
        /\ \A m \in Instances : tasks'[m] = tasks[m] \/ tasks'[m] = <<>>
    BY <1>19, CapacityIsNat DEF Crash, TypeOK
  <2>3. /\ pc' \in [Procs -> PC] /\ claim' \in [Procs -> Claims \cup {NoClaim}]
        /\ lockCtx' \in [Procs -> BOOLEAN] /\ mode' \in [Procs -> DispatchMode]
        /\ dispatchOk' \in [Procs -> BOOLEAN]
        /\ lock' \in [Sagas -> Procs \cup {NoOwner, Orphan}]
    BY <1>19 DEF Crash, TypeOK, PC, DispatchMode
  <2>4. \A q \in Procs : \/ pc'[q] = pc[q] /\ claim'[q] = claim[q]
                         \/ pc'[q] = IF q \in Workers THEN "idle"
                                     ELSE IF pc[q] = "idle" THEN "idle" ELSE "done"
    BY <1>19 DEF Crash, TypeOK
  <2>5. ClaimsAreStarted'
    <3>1. \A c : ValidClaim(c) => ValidClaim(c)'
      BY <2>1, StoreFrame
    <3>2. \A m \in Instances : \A k \in 1..Len(tasks'[m]) : ValidClaim(tasks[m][k])'
      <4> SUFFICES ASSUME NEW m \in Instances, NEW k \in 1..Len(tasks'[m])
                   PROVE  ValidClaim(tasks[m][k])'
        OBVIOUS
      <4>1. tasks'[m] = tasks[m]
        BY <2>2
      <4>2. ValidClaim(tasks[m][k])
        BY <4>1 DEF StoreInv, ClaimsAreStarted
      <4> QED BY <3>1, <4>1, <4>2
    <3>3. \A w \in Workers : pc'[w] # "done" /\ (pc'[w] # "idle" => ValidClaim(claim[w])')
      BY <2>4, <3>1, ConstantsAssumption DEF StoreInv, ClaimsAreStarted
    <3>4. \A c \in Cancels :
            /\ pc'[c] \in {"idle", "acquire", "update", "release", "done"}
            /\ pc'[c] \notin {"idle", "done"} => claim'[c] \in Claims
      BY <2>4, ConstantsAssumption DEF StoreInv, ClaimsAreStarted
    <3> QED BY <3>2, <3>3, <3>4 DEF ClaimsAreStarted
  <2> QED BY <2>1, <2>2, <2>3, <2>5, StoreFrame DEF TypeOK, StoreInv
<1>20. ASSUME NEW p \in Procs, CommitCutOff(p) PROVE TypeOK' /\ StoreInv'
  <2>1. /\ sagas' = sagas /\ tasks' = tasks /\ claim' = claim /\ pc[p] \notin {"idle", "done"}
        /\ FnReturns(p) /\ faults' \in Nat
    BY <1>20 DEF CommitCutOff, Fault, TypeOK
  <2>2. DOMAIN inCommit' = Sagas /\ \A s \in Sagas : inCommit'[s] \subseteq StoredSaga(s)
    <3>1. PICK s, x : s \in Sagas /\ inCommit' = [inCommit EXCEPT ![s] = {x}] /\ IsUpdate(s, x)
      BY <1>20, CutOffIsUpdate
    <3>2. x \in StoredSaga(s)
      BY <3>1, UpdateKeeps
    <3> QED BY <3>1, <3>2 DEF TypeOK
  <2> QED BY <1>20, <2>1, <2>2, FnReturnsKeeps, StoreFrame DEF CommitCutOff, TypeOK, StoreInv
<1>21. ASSUME NEW s \in Sagas, LateCommit(s) PROVE TypeOK' /\ StoreInv'
  <2>1. PICK x \in inCommit[s] : sagas' = [sagas EXCEPT ![s] = x]
    BY <1>21 DEF LateCommit
  <2>2. /\ x \in StoredSaga(s) /\ StatusTellsSteps(x) /\ StartedInOrder(x)
        /\ \A j \in StepsOf(s) : sagas[s].steps[j] # "PENDING" => x.steps[j] # "PENDING"
    BY <2>1, UpdateKeeps DEF CommitInv
  <2>3. /\ DOMAIN sagas' = Sagas /\ \A t \in Sagas : sagas'[t] \in StoredSaga(t)
        /\ StatusMatchesSteps' /\ ExecutionIsOrdered'
        /\ \A c : ValidClaim(c) => ValidClaim(c)'
    BY <2>1, <2>2, StoreStepKeeps
  <2>4. DOMAIN inCommit' = Sagas /\ \A t \in Sagas : inCommit'[t] \subseteq StoredSaga(t)
    BY <1>21 DEF LateCommit, TypeOK
  <2>5. ClaimsAreStarted'
    BY <1>21, <2>3 DEF LateCommit, StoreInv, ClaimsAreStarted
  <2> QED BY <1>21, <2>3, <2>4, <2>5 DEF LateCommit, TypeOK, StoreInv
<1>22. ASSUME NEW s \in Sagas, LateRollback(s) PROVE TypeOK' /\ StoreInv'
  <2>1. DOMAIN inCommit' = Sagas /\ \A t \in Sagas : inCommit'[t] \subseteq StoredSaga(t)
    BY <1>22 DEF LateRollback, TypeOK
  <2>2. ClaimsAreStarted'
    BY <1>22, StoreFrame DEF LateRollback, StoreInv, ClaimsAreStarted
  <2> QED BY <1>22, <2>1, <2>2, StoreFrame DEF LateRollback, TypeOK, StoreInv
<1>23. ASSUME UNCHANGED vars PROVE TypeOK' /\ StoreInv'
  BY <1>23, StoreFrame DEF vars, TypeOK, StoreInv, ClaimsAreStarted
<1> QED
  BY <1>1, <1>2, <1>3, <1>4, <1>5, <1>6, <1>7, <1>8, <1>9, <1>10, <1>11, <1>12, <1>13,
     <1>14, <1>15, <1>16, <1>17, <1>18, <1>19, <1>20, <1>21, <1>22, <1>23
  DEF Next, LockStep, WorkerStep, CancelStep, StoreStep

\* A saga with an open commit is changed by nothing but that commit.
LEMMA NextCommits == ASSUME TypeOK, StoreInv, CommitInv, [Next]_vars PROVE CommitInv'
<1> USE DEF Procs
<1>1. ASSUME NEW s \in Sagas, \A t \in Sagas : t # s => sagas'[t] = sagas[t],
             \A t \in Sagas : t # s => inCommit'[t] = inCommit[t],
             inCommit'[s] # {} =>
                sagas'[s].status # "NONE" /\ \A x \in inCommit'[s] : IsUpdate(s, x)'
      PROVE  CommitInv'
  <2> SUFFICES ASSUME NEW t \in Sagas, t # s, inCommit'[t] # {}
               PROVE  sagas'[t].status # "NONE" /\ \A x \in inCommit'[t] : IsUpdate(t, x)'
    BY <1>1 DEF CommitInv
  <2>1. \A x : IsUpdate(t, x)' <=> IsUpdate(t, x)
    BY <1>1 DEF IsUpdate
  <2> QED BY <1>1, <2>1 DEF CommitInv
<1>2. ASSUME sagas' = sagas, inCommit' = inCommit PROVE CommitInv'
  BY <1>2 DEF CommitInv, IsUpdate
<1>3. ASSUME NEW s \in Sagas, NEW x, sagas' = [sagas EXCEPT ![s] = x], inCommit'[s] = {},
             \A t \in Sagas : t # s => inCommit'[t] = inCommit[t]
      PROVE  CommitInv'
  BY <1>1, <1>3 DEF TypeOK
<1>4. ASSUME NEW p \in Procs, CommitCutOff(p) PROVE CommitInv'
  <2>1. PICK s, x : /\ s \in Sagas /\ inCommit' = [inCommit EXCEPT ![s] = {x}]
                    /\ IsUpdate(s, x) /\ sagas[s].status # "NONE"
    BY <1>4, CutOffIsUpdate
  <2>2. sagas' = sagas
    BY <1>4 DEF CommitCutOff
  <2>3. IsUpdate(s, x)' <=> IsUpdate(s, x)
    BY <2>2 DEF IsUpdate
  <2> QED BY <1>1, <2>1, <2>2, <2>3 DEF TypeOK
<1>5. ASSUME NEW p \in Procs, LockStep(p), ~CommitCutOff(p) PROVE CommitInv'
  <2>1. sagas' = sagas /\ inCommit' = inCommit
    BY <1>5 DEF LockStep, AcquireLock, AcquireFails, RenewFails, UpdateFails, ReleaseLock
  <2> QED BY <1>2, <2>1
<1>6. ASSUME NEW w \in Workers, WorkerStep(w) PROVE CommitInv'
  <2>1. CASE UpdateAfterDispatch(w)
    <3>1. claim[w].saga \in Sagas /\ inCommit[claim[w].saga] = {} /\ inCommit' = inCommit
      BY <2>1, ClaimOfBusy DEF UpdateAfterDispatch
    <3> QED BY <1>3, <2>1, <3>1 DEF UpdateAfterDispatch
  <2>2. CASE ~UpdateAfterDispatch(w)
    <3>1. sagas' = sagas /\ inCommit' = inCommit
      BY <1>6, <2>2 DEF WorkerStep, TakeTask, LoadClaimedStep, LoadFails, SendCall, SendFails,
                        CallReturns
    <3> QED BY <1>2, <3>1
  <2> QED BY <2>1, <2>2
<1>7. ASSUME NEW c \in Cancels, CancelStep(c) PROVE CommitInv'
  <2>1. CASE UpdateForCancel(c)
    <3>1. claim[c].saga \in Sagas /\ inCommit[claim[c].saga] = {} /\ inCommit' = inCommit
      BY <2>1, ClaimOfBusy DEF UpdateForCancel
    <3> QED BY <1>3, <2>1, <3>1 DEF UpdateForCancel
  <2>2. CASE ~UpdateForCancel(c)
    <3>1. sagas' = sagas /\ inCommit' = inCommit
      BY <1>7, <2>2 DEF CancelStep, CancelSaga
    <3> QED BY <1>2, <3>1
  <2> QED BY <2>1, <2>2
<1>8. ASSUME NEW s \in Sagas, StoreStep(s) PROVE CommitInv'
  <2>1. CASE StartSaga(s)
    <3>1. inCommit[s] = {} /\ inCommit' = inCommit
      BY <2>1 DEF StartSaga, CommitInv
    <3>2. \A t \in Sagas : t # s => sagas'[t] = sagas[t]
      BY <2>1 DEF StartSaga, TypeOK
    <3> QED BY <1>1, <3>1, <3>2
  <2>2. CASE \E n \in Instances, i \in StepsOf(s) : ClaimNextStep(n, s, i)
    BY <1>3, <2>2 DEF ClaimNextStep, ClaimAndSubmit
  <2>3. CASE LateCommit(s) \/ LateRollback(s)
    <3>1. inCommit'[s] = {} /\ \A t \in Sagas : t # s => inCommit'[t] = inCommit[t]
      BY <2>3 DEF LateCommit, LateRollback, TypeOK
    <3>2. \A t \in Sagas : t # s => sagas'[t] = sagas[t]
      BY <2>3 DEF LateCommit, LateRollback, TypeOK
    <3> QED BY <1>1, <3>1, <3>2
  <2>4. CASE LockExpires(s) \/ \E i \in StepsOf(s) : BecomeStale(s, i)
    BY <1>2, <2>4 DEF LockExpires, BecomeStale
  <2> QED BY <1>8, <2>1, <2>2, <2>3, <2>4 DEF StoreStep
<1>9. ASSUME NEW n \in Instances, Crash(n) PROVE CommitInv'
  BY <1>2, <1>9 DEF Crash
<1> QED BY <1>2, <1>4, <1>5, <1>6, <1>7, <1>8, <1>9 DEF Next, vars

\* The invariant of the store, whether locks can be lost or not.
LEMMA StoreInvariant == Spec => [](TypeOK /\ StoreInv /\ CommitInv)
<1>1. Init => CommitInv
  BY DEF Init, CommitInv
<1>2. TypeOK /\ StoreInv /\ CommitInv /\ [Next]_vars => TypeOK' /\ StoreInv' /\ CommitInv'
  BY NextStore, NextCommits
<1> QED BY <1>1, <1>2, InitStore, PTL DEF Spec

\* Every variable keeps its type, and no instance of any size claims more
\* steps than its pool and its blocked Submit can hold (StepRunner.Run).
THEOREM TypeCorrect == Spec => []TypeOK
BY StoreInvariant, PTL

\* Whatever the interleaving, also when locks are lost under live holders: the
\* stored status tells the truth about the steps (the closures of CancelSaga
\* and updateClaimedStepAfterDispatch, ClaimNextStep).
THEOREM StoreIsConsistent == Spec => []StatusMatchesSteps
<1>1. StoreInv => StatusMatchesSteps
  BY DEF StoreInv
<1> QED BY <1>1, StoreInvariant, PTL

\* In the same generality steps are started in order: ClaimNextStep hands a
\* step out when all earlier ones are completed, and nothing that happens to
\* the claim later takes that back.
THEOREM StepsStartInOrder == Spec => []ExecutionIsOrdered
<1>1. StoreInv => ExecutionIsOrdered
  BY DEF StoreInv
<1> QED BY <1>1, StoreInvariant, PTL

-----------------------------------------------------------------------------
(* The life cycle a client is promised *)

\* What the life cycle sees of a stored saga.
LEMMA MappedSaga ==
    ASSUME TypeOK, NEW s \in Sagas
    PROVE  /\ OpenSteps(s) = StillOpen(sagas[s])
           /\ DOMAIN sagas[s].steps = 1..StepCount[s]
<1>1. sagas[s] \in StoredSaga(s)
  BY DEF TypeOK
<1> QED BY <1>1 DEF StoredSaga, OpenSteps, StillOpen, StepsOf

\* One saga of the store is replaced: the step of SagaLifecycle it amounts to.
LEMMA MappedNext ==
    ASSUME TypeOK, TypeOK', NEW s \in Sagas, NEW x, sagas' = [sagas EXCEPT ![s] = x],
           NEW i \in 1..StepCount[s],
           \/ SameLife(sagas[s], x) \/ StartsLife(sagas[s], x, i)
           \/ CancelsLife(sagas[s], x) \/ AdvancesLife(sagas[s], x)
           \/ CompletesLife(sagas[s], x) \/ UndoesLife(sagas[s], x, i)
           \/ FailsLife(sagas[s], x, i)
    PROVE  [Lifecycle!Next]_(Lifecycle!vars)
<1> DEFINE os == OpenSteps(s)
           after == StillOpen(x)
           status == [t \in Sagas |-> sagas[t].status]
           open == [t \in Sagas |-> OpenSteps(t)]
<1>1. os = StillOpen(sagas[s]) /\ DOMAIN sagas[s].steps = 1..StepCount[s]
  BY MappedSaga
<1>2. status' = [status EXCEPT ![s] = x.status]
  BY DEF TypeOK
<1>3. open' = [open EXCEPT ![s] = after]
  <2>1. ASSUME NEW t \in Sagas PROVE OpenSteps(t)' = IF t = s THEN after ELSE OpenSteps(t)
    <3>1. /\ sagas'[t] = IF t = s THEN x ELSE sagas[t]
          /\ sagas'[t] \in StoredSaga(t)
      BY DEF TypeOK
    <3>2. OpenSteps(t)' = StillOpen(sagas'[t])
      BY <3>1 DEF StoredSaga, OpenSteps, StillOpen, StepsOf
    <3> QED BY <3>1, <3>2, MappedSaga
  <2> QED BY <2>1
<1>4. /\ status[s] = sagas[s].status /\ open[s] = os
  OBVIOUS
<1>5. CASE SameLife(sagas[s], x)
  <2>1. status' = status /\ open' = open
    BY <1>1, <1>2, <1>3, <1>5 DEF SameLife
  <2> QED BY <2>1 DEF Lifecycle!vars
<1>6. CASE StartsLife(sagas[s], x, i)
  <2>1. /\ sagas[s].status \in {"CREATED", "RUNNING"} /\ x.status = sagas[s].status
        /\ os = 1..(i - 1) /\ after = 1..i
    BY <1>1, <1>6 DEF StartsLife
  <2>2. Lifecycle!StartStep(s)
    BY <1>2, <1>3, <1>4, <2>1 DEF Lifecycle!StartStep, Lifecycle!Become
  <2> QED BY <2>2 DEF Lifecycle!Next
<1>7. CASE CancelsLife(sagas[s], x)
  <2>1. /\ sagas[s].status \in {"CREATED", "RUNNING", "COMPLETED"} /\ after = os
        /\ x.status = IF os = {} THEN "COMPENSATED" ELSE "CANCELING"
    BY <1>1, <1>7 DEF CancelsLife
  <2>2. Lifecycle!Cancel(s)
    BY <1>2, <1>3, <1>4, <2>1 DEF Lifecycle!Cancel, Lifecycle!Become
  <2> QED BY <2>2 DEF Lifecycle!Next
<1>8. CASE AdvancesLife(sagas[s], x)
  <2>1. /\ sagas[s].status = "CREATED" /\ x.status = "RUNNING"
        /\ os # {} /\ after = os
    BY <1>1, <1>8 DEF AdvancesLife
  <2>2. Lifecycle!Advance(s)
    BY <1>2, <1>3, <1>4, <2>1 DEF Lifecycle!Advance, Lifecycle!Become
  <2> QED BY <2>2 DEF Lifecycle!Next
<1>9. CASE CompletesLife(sagas[s], x)
  <2>1. /\ sagas[s].status \in {"CREATED", "RUNNING"} /\ x.status = "COMPLETED"
        /\ os = 1..StepCount[s] /\ after = os
    BY <1>1, <1>9 DEF CompletesLife
  <2>2. Lifecycle!Complete(s)
    BY <1>2, <1>3, <1>4, <2>1 DEF Lifecycle!Complete, Lifecycle!Become
  <2> QED BY <2>2 DEF Lifecycle!Next
<1>10. CASE UndoesLife(sagas[s], x, i)
  <2>1. /\ sagas[s].status = "CANCELING" /\ i \in os /\ after = os \ {i}
        /\ x.status = IF os = {i} THEN "COMPENSATED" ELSE "CANCELING"
    BY <1>1, <1>10 DEF UndoesLife
  <2>2. Lifecycle!Undo(s)
    BY <1>2, <1>3, <1>4, <2>1 DEF Lifecycle!Undo, Lifecycle!Become
  <2> QED BY <2>2 DEF Lifecycle!Next
<1>11. CASE FailsLife(sagas[s], x, i)
  <2>1. /\ sagas[s].status \in {"CREATED", "RUNNING", "CANCELING", "FAILED"}
        /\ x.status = "FAILED" /\ i \in os /\ after = os \ {i}
    BY <1>1, <1>11 DEF FailsLife
  <2>2. Lifecycle!Fail(s)
    BY <1>2, <1>3, <1>4, <2>1 DEF Lifecycle!Fail, Lifecycle!Become
  <2> QED BY <2>2 DEF Lifecycle!Next
<1> QED BY <1>5, <1>6, <1>7, <1>8, <1>9, <1>10, <1>11

\* An update, in time or late, is a step of the life cycle, or none.
LEMMA UpdateIsLifeStep ==
    ASSUME TypeOK, StoreInv, TypeOK', NEW s \in Sagas, NEW x, IsUpdate(s, x),
           sagas' = [sagas EXCEPT ![s] = x]
    PROVE  [Lifecycle!Next]_(Lifecycle!vars)
<1>0. StepCount[s] \in Nat /\ 1 \in 1..StepCount[s]
  BY ConstantsAssumption
<1>1. /\ sagas[s] \in SagaRecord(StepCount[s]) /\ StepCount[s] \in Nat /\ 1 \in 1..StepCount[s]
      /\ StatusTellsSteps(sagas[s]) /\ StepsOf(s) = 1..StepCount[s]
  BY <1>0, StoredIsRecord DEF TypeOK, StoreInv, StatusMatchesSteps
<1>2. CASE x = canceledSaga(sagas[s])
  <2>1. SameLife(sagas[s], x) \/ CancelsLife(sagas[s], x)
    BY <1>1, <1>2, CanceledIsCancel
  <2> QED BY <1>1, <2>1, MappedNext
<1>3. ASSUME NEW i \in StepsOf(s), NEW ok \in BOOLEAN,
             sagas[s].steps[i] # "PENDING", x = updatedAfterDispatch(sagas[s], i, ok)
      PROVE  [Lifecycle!Next]_(Lifecycle!vars)
  <2>1. \/ SameLife(sagas[s], x) \/ AdvancesLife(sagas[s], x) \/ CompletesLife(sagas[s], x)
        \/ UndoesLife(sagas[s], x, i) \/ FailsLife(sagas[s], x, i)
    BY <1>1, <1>3, UpdatedIsStep
  <2> QED BY <1>1, <2>1, MappedNext
<1> QED BY <1>2, <1>3 DEF IsUpdate

\* Every change of the store is a step of the life cycle, or none.
LEMMA StoreStepIsLifeStep ==
    ASSUME TypeOK, StoreInv, CommitInv, TypeOK', StoreInv', [Next]_vars
    PROVE  [Lifecycle!Next]_(Lifecycle!vars)
<1>1. ASSUME NEW s \in Sagas, StartSaga(s) PROVE [Lifecycle!Next]_(Lifecycle!vars)
  <2>1. /\ sagas[s].status = "NONE" /\ sagas[s] \in StoredSaga(s)
        /\ sagas' = [sagas EXCEPT ![s].status = "CREATED"]
    BY <1>1 DEF StartSaga, TypeOK
  <2>2. \A t \in Sagas : /\ sagas'[t].status = IF t = s THEN "CREATED" ELSE sagas[t].status
                         /\ sagas'[t].steps = sagas[t].steps
    BY <2>1 DEF TypeOK, StoredSaga
  <2>3. OpenSteps(s) = {}
    BY <2>1 DEF OpenSteps, Open, StoreInv, StatusMatchesSteps, StatusTellsSteps, StoredSaga
  <2>4. \A t \in Sagas : OpenSteps(t)' = OpenSteps(t)
    BY <2>2 DEF OpenSteps
  <2>5. Lifecycle!Begin(s)
    BY <2>1, <2>2, <2>3, <2>4 DEF Lifecycle!Begin, Lifecycle!Become
  <2> QED BY <2>5 DEF Lifecycle!Next
<1>2. ASSUME NEW n \in Instances, NEW s \in Sagas, NEW i \in StepsOf(s), ClaimNextStep(n, s, i)
      PROVE  [Lifecycle!Next]_(Lifecycle!vars)
  <2>1. /\ CanClaim(sagas[s], started[s], i) /\ sagas' = [sagas EXCEPT ![s] = Claimed(sagas[s], i)]
        /\ sagas[s] \in StoredSaga(s) /\ StartedInOrder(sagas[s])
    BY <1>2 DEF ClaimNextStep, ClaimAndSubmit, TypeOK, StoreInv, ExecutionIsOrdered
  <2>2. i \in 1..StepCount[s] /\ sagas[s] \in SagaRecord(StepCount[s]) /\ StepCount[s] \in Nat
    BY <2>1, StoredIsRecord
  <2>3. \/ SameLife(sagas[s], Claimed(sagas[s], i)) \/ StartsLife(sagas[s], Claimed(sagas[s], i), i)
    BY <2>1, <2>2, ClaimedIsStep
  <2> QED BY <2>1, <2>2, <2>3, MappedNext
<1>3. ASSUME NEW w \in Workers, UpdateAfterDispatch(w) PROVE [Lifecycle!Next]_(Lifecycle!vars)
  <2> DEFINE s == claim[w].saga
             i == claim[w].step
             ok == dispatchOk[w]
             x == updatedAfterDispatch(sagas[s], i, ok)
  <2>1. pc[w] = "update" /\ w \in Procs /\ sagas' = [sagas EXCEPT ![s] = x]
    BY <1>3 DEF UpdateAfterDispatch, Procs
  <2>2. s \in Sagas /\ IsUpdate(s, x)
    BY <2>1, ClaimOfBusy DEF ValidClaim, TypeOK, IsUpdate
  <2> HIDE DEF s, x
  <2> QED BY <2>1, <2>2, UpdateIsLifeStep
<1>4. ASSUME NEW c \in Cancels, UpdateForCancel(c) PROVE [Lifecycle!Next]_(Lifecycle!vars)
  <2> DEFINE s == claim[c].saga
             x == canceledSaga(sagas[s])
  <2>1. pc[c] = "update" /\ c \in Procs /\ sagas' = [sagas EXCEPT ![s] = x]
    BY <1>4 DEF UpdateForCancel, Procs
  <2>2. s \in Sagas /\ IsUpdate(s, x)
    BY <2>1, ClaimOfBusy DEF IsUpdate
  <2> HIDE DEF s, x
  <2> QED BY <2>1, <2>2, UpdateIsLifeStep
<1>5. ASSUME sagas' = sagas PROVE [Lifecycle!Next]_(Lifecycle!vars)
  BY <1>5 DEF Lifecycle!vars, OpenSteps
<1>6. ASSUME NEW p \in Procs, LockStep(p) PROVE sagas' = sagas
  BY <1>6 DEF LockStep, AcquireLock, AcquireFails, RenewFails, UpdateFails, CommitCutOff,
              ReleaseLock
<1>7. ASSUME NEW w \in Workers, WorkerStep(w) PROVE UpdateAfterDispatch(w) \/ sagas' = sagas
  BY <1>7 DEF WorkerStep, TakeTask, LoadClaimedStep, LoadFails, SendCall, SendFails, CallReturns
<1>8. ASSUME NEW c \in Cancels, CancelStep(c) PROVE UpdateForCancel(c) \/ sagas' = sagas
  BY <1>8 DEF CancelStep, CancelSaga
<1>9. ASSUME NEW s \in Sagas, StoreStep(s)
      PROVE  \/ StartSaga(s) \/ LateCommit(s) \/ sagas' = sagas
             \/ \E n \in Instances, i \in StepsOf(s) : ClaimNextStep(n, s, i)
  BY <1>9 DEF StoreStep, LockExpires, LateRollback, BecomeStale
<1>10. ASSUME NEW n \in Instances, Crash(n) PROVE sagas' = sagas
  BY <1>10 DEF Crash
<1>11. ASSUME NEW s \in Sagas, LateCommit(s) PROVE [Lifecycle!Next]_(Lifecycle!vars)
  <2>1. PICK x \in inCommit[s] : sagas' = [sagas EXCEPT ![s] = x]
    BY <1>11 DEF LateCommit
  <2>2. IsUpdate(s, x)
    BY <2>1 DEF CommitInv
  <2> QED BY <2>1, <2>2, UpdateIsLifeStep
<1>12. CASE UNCHANGED vars
  BY <1>5, <1>12 DEF vars
<1> QED
  BY <1>1, <1>2, <1>3, <1>4, <1>5, <1>6, <1>7, <1>8, <1>9, <1>10, <1>11, <1>12 DEF Next

\* Whatever instances, crashes, retries, lost claims and lost locks do, every
\* saga goes through the life cycle a client is promised: steps start in order
\* and only while the saga executes, cancelling is irrevocable, COMPENSATED
\* means that everything was undone, and FAILED is final.
THEOREM RunnerImplementsLifecycle == Spec => ImplementsLifecycle
<1>1. Init => Lifecycle!Init
  <2> SUFFICES ASSUME Init PROVE Lifecycle!Init
    OBVIOUS
  <2>1. \A s \in Sagas : sagas[s].status = "NONE" /\ OpenSteps(s) = {}
    BY DEF Init, NoSaga, OpenSteps, Open
  <2> QED BY <2>1 DEF Lifecycle!Init
<1>2. TypeOK /\ StoreInv /\ CommitInv /\ TypeOK' /\ StoreInv' /\ [Next]_vars
        => [Lifecycle!Next]_(Lifecycle!vars)
  BY StoreStepIsLifeStep
<1> QED BY <1>1, <1>2, StoreInvariant, PTL DEF Spec, Lifecycle!Spec, ImplementsLifecycle

-----------------------------------------------------------------------------
(***************************************************************************)
(* What the saga lock gives, as long as no lock expires under a holder     *)
(* that renews it: mutual exclusion, and, for every saga that no worker    *)
(* read beside an open commit, the mode that was dispatched is the one     *)
(* that is recorded, and the statuses tell what the participants           *)
(* acknowledged.                                                           *)
(***************************************************************************)

\* lockCtx is alive only while fn runs.
InFn == {"load", "dispatch", "calling", "update"}

CtxInv == \A p \in Procs : lockCtx[p] => pc[p] \in InFn

\* AcquireLock starts fn, FnReturns ends it together with lockCtx.
LEMMA NextCtx == ASSUME TypeOK, CtxInv, [Next]_vars PROVE CtxInv'
<1> USE DEF Procs
<1>1. ASSUME NEW p \in Procs, lockCtx'[p] => pc'[p] \in InFn,
             \A q \in Procs : q # p => pc'[q] = pc[q] /\ lockCtx'[q] = lockCtx[q]
      PROVE  CtxInv'
  BY <1>1 DEF CtxInv
<1>2. ASSUME pc' = pc, lockCtx' = lockCtx PROVE CtxInv'
  BY <1>2 DEF CtxInv
<1>3. ASSUME NEW p \in Procs, FnReturns(p) PROVE CtxInv'
  BY <1>1, <1>3 DEF FnReturns, TypeOK
<1>4. ASSUME NEW p \in Procs, pc[p] \notin InFn, Finish(p) PROVE CtxInv'
  BY <1>1, <1>4 DEF Finish, TypeOK, CtxInv
<1>5. ASSUME NEW p \in Procs, LockStep(p) PROVE CtxInv'
  <2>1. CASE AcquireLock(p)
    BY <1>1, <2>1 DEF AcquireLock, TypeOK, InFn
  <2>2. CASE RenewFails(p)
    BY <1>1, <2>2 DEF RenewFails, TypeOK
  <2>3. CASE AcquireFails(p) \/ ReleaseLock(p) \/ UpdateFails(p) \/ CommitCutOff(p)
    BY <1>3, <1>4, <2>3 DEF AcquireFails, ReleaseLock, UpdateFails, CommitCutOff, InFn
  <2> QED BY <1>5, <2>1, <2>2, <2>3 DEF LockStep
<1>6. ASSUME NEW w \in Workers, WorkerStep(w) PROVE CtxInv'
  <2>1. CASE FnReturns(w)
    BY <1>3, <2>1
  <2>2. CASE ~FnReturns(w)
    <3>1. /\ lockCtx' = lockCtx /\ \A q \in Procs : q # w => pc'[q] = pc[q]
          /\ pc[w] \in InFn => pc'[w] \in InFn
      BY <1>6, <2>2 DEF WorkerStep, TakeTask, LoadClaimedStep, LoadFails, SendCall, SendFails,
                        CallReturns, UpdateAfterDispatch, TypeOK, InFn
    <3> QED BY <1>1, <3>1 DEF CtxInv
  <2> QED BY <2>1, <2>2
<1>7. ASSUME NEW c \in Cancels, CancelStep(c) PROVE CtxInv'
  <2>1. CASE UpdateForCancel(c)
    BY <1>3, <2>1 DEF UpdateForCancel
  <2>2. CASE \E s \in Sagas : CancelSaga(c, s)
    BY <1>1, <2>2 DEF CancelSaga, TypeOK, CtxInv, InFn
  <2> QED BY <1>7, <2>1, <2>2 DEF CancelStep
<1>8. ASSUME NEW s \in Sagas, StoreStep(s) PROVE CtxInv'
  BY <1>2, <1>8 DEF StoreStep, StartSaga, LockExpires, LateCommit, LateRollback, BecomeStale,
                    ClaimNextStep, ClaimAndSubmit
<1>9. ASSUME NEW n \in Instances, Crash(n) PROVE CtxInv'
  <2>1. \A q \in Procs : lockCtx'[q] => lockCtx[q] /\ pc'[q] = pc[q]
    BY <1>9 DEF Crash, TypeOK
  <2> QED BY <2>1 DEF CtxInv
<1> QED BY <1>2, <1>5, <1>6, <1>7, <1>8, <1>9 DEF Next, vars

\* Whoever runs fn with a live lockCtx has its token in the lock server.
HolderHasLock == \A p \in Procs : lockCtx[p] => lock[claim[p].saga] = p

\* A lock has one holder: processes that hold what they need exclude each
\* other.
LEMMA HoldersExclude == HolderHasLock => MutualExclusion
BY DEF HolderHasLock, MutualExclusion

\* It works on a stored saga.
LEMMA ClaimOfHolder ==
    ASSUME TypeOK, StoreInv, CtxInv, NEW p \in Procs, lockCtx[p]
    PROVE  claim[p].saga \in Sagas /\ pc[p] \notin {"idle", "acquire", "release", "done"}
BY ClaimOfBusy DEF CtxInv, InFn

\* Only AcquireLock makes a holder; a lock is taken from a process by its own
\* Release, by a crash, and when it expires, and then the process is no holder
\* any more.
LEMMA NextLock ==
    ASSUME ~LockCanBeLost, TypeOK, StoreInv, CtxInv, HolderHasLock, [Next]_vars
    PROVE  HolderHasLock'
<1> USE DEF Procs
<1>1. ASSUME lock' = lock, claim' = claim, \A q \in Procs : lockCtx'[q] => lockCtx[q]
      PROVE  HolderHasLock'
  BY <1>1 DEF HolderHasLock
<1>2. ASSUME NEW p \in Procs, ~lockCtx'[p],
             \A q \in Procs : q # p => lockCtx'[q] = lockCtx[q] /\ claim'[q] = claim[q],
             \A t \in Sagas : lock[t] \in Procs \ {p} => lock'[t] = lock[t]
      PROVE  HolderHasLock'
  BY <1>2, ClaimOfHolder DEF HolderHasLock
<1>3. ASSUME NEW s \in Sagas, StoreStep(s) PROVE HolderHasLock'
  <2>1. CASE LockExpires(s)
    <3>1. /\ lock[s] \in Procs => ~lockCtx[lock[s]]
          /\ lock' = [lock EXCEPT ![s] = NoOwner] /\ lockCtx' = lockCtx /\ claim' = claim
      BY <2>1, ConstantsAssumption DEF LockExpires
    <3>2. \A q \in Procs : lockCtx[q] => claim[q].saga \in Sagas /\ claim[q].saga # s
      BY <3>1, ClaimOfHolder DEF HolderHasLock
    <3> QED BY <3>1, <3>2 DEF HolderHasLock, TypeOK
  <2>2. CASE ~LockExpires(s)
    <3>1. lock' = lock /\ claim' = claim /\ lockCtx' = lockCtx
      BY <1>3, <2>2 DEF StoreStep, StartSaga, LateCommit, LateRollback, BecomeStale,
                        ClaimNextStep, ClaimAndSubmit
    <3> QED BY <1>1, <3>1
  <2> QED BY <2>1, <2>2
<1>4. ASSUME NEW w \in Workers, WorkerStep(w) PROVE HolderHasLock'
  <2>1. CASE TakeTask(w)
    <3>1. /\ lock' = lock /\ lockCtx' = lockCtx /\ ~lockCtx[w]
          /\ \A q \in Procs : q # w => claim'[q] = claim[q]
      BY <2>1, ClaimOfHolder DEF TakeTask, TypeOK
    <3> QED BY <1>2, <3>1
  <2>2. CASE ~TakeTask(w)
    <3>1. lock' = lock /\ claim' = claim /\ \A q \in Procs : lockCtx'[q] => lockCtx[q]
      BY <1>4, <2>2 DEF WorkerStep, LoadClaimedStep, LoadFails, SendCall, SendFails,
                        CallReturns, UpdateAfterDispatch, FnReturns, TypeOK
    <3> QED BY <1>1, <3>1
  <2> QED BY <2>1, <2>2
<1>5. ASSUME NEW c \in Cancels, CancelStep(c) PROVE HolderHasLock'
  <2>1. CASE UpdateForCancel(c)
    <3>1. lock' = lock /\ claim' = claim /\ \A q \in Procs : lockCtx'[q] => lockCtx[q]
      BY <2>1 DEF UpdateForCancel, FnReturns, TypeOK
    <3> QED BY <1>1, <3>1
  <2>2. CASE \E s \in Sagas : CancelSaga(c, s)
    <3>1. /\ lock' = lock /\ lockCtx' = lockCtx /\ ~lockCtx[c]
          /\ \A q \in Procs : q # c => claim'[q] = claim[q]
      BY <2>2, ClaimOfHolder DEF CancelSaga, TypeOK
    <3> QED BY <1>2, <3>1
  <2> QED BY <1>5, <2>1, <2>2 DEF CancelStep
<1>6. ASSUME NEW p \in Procs, LockStep(p) PROVE HolderHasLock'
  <2>1. CASE AcquireLock(p)
    <3>1. /\ lock[claim[p].saga] = NoOwner /\ lock' = [lock EXCEPT ![claim[p].saga] = p]
          /\ claim' = claim /\ claim[p].saga \in Sagas
          /\ \A q \in Procs : q # p => lockCtx'[q] = lockCtx[q]
      BY <2>1, ClaimOfBusy DEF AcquireLock, TypeOK
    <3>2. \A q \in Procs : lockCtx[q] => claim[q].saga \in Sagas /\ lock[claim[q].saga] # NoOwner
      BY ClaimOfHolder, ConstantsAssumption DEF HolderHasLock
    <3> QED BY <3>1, <3>2 DEF HolderHasLock, TypeOK
  <2>2. CASE RenewFails(p) \/ UpdateFails(p) \/ CommitCutOff(p)
    <3>1. lock' = lock /\ claim' = claim /\ \A q \in Procs : lockCtx'[q] => lockCtx[q]
      BY <2>2 DEF RenewFails, UpdateFails, CommitCutOff, FnReturns, TypeOK
    <3> QED BY <1>1, <3>1
  <2>3. CASE AcquireFails(p) \/ ReleaseLock(p)
    <3>1. /\ lockCtx' = lockCtx /\ ~lockCtx[p]
          /\ \A q \in Procs : q # p => claim'[q] = claim[q]
      BY <2>3, ClaimOfHolder DEF AcquireFails, ReleaseLock, Finish, TypeOK
    <3>2. \A t \in Sagas : lock[t] \in Procs \ {p} => lock'[t] = lock[t]
      BY <2>3, ConstantsAssumption DEF AcquireFails, ReleaseLock, TypeOK
    <3> QED BY <1>2, <3>1, <3>2
  <2> QED BY <1>6, <2>1, <2>2, <2>3 DEF LockStep
<1>7. ASSUME NEW n \in Instances, Crash(n) PROVE HolderHasLock'
  <2>1. \A q \in Procs : lockCtx'[q] => lockCtx[q] /\ Home[q] # n /\ claim'[q] = claim[q]
    BY <1>7 DEF Crash, TypeOK
  <2>2. \A t \in Sagas : lock[t] \in Procs /\ Home[lock[t]] # n => lock'[t] = lock[t]
    BY <1>7 DEF Crash, TypeOK
  <2> QED BY <2>1, <2>2, ClaimOfHolder DEF HolderHasLock
<1>8. ASSUME UNCHANGED vars PROVE HolderHasLock'
  BY <1>1, <1>8 DEF vars
<1> QED BY <1>3, <1>4, <1>5, <1>6, <1>7, <1>8 DEF Next

\* sagaLocker.withSagaLock excludes any number of workers and cancel requests
\* on any number of instances.
THEOREM LockExcludes == ASSUME ~LockCanBeLost PROVE Spec => []MutualExclusion
<1>1. Init => CtxInv /\ HolderHasLock
  BY DEF Init, CtxInv, HolderHasLock
<1>2. TypeOK /\ StoreInv /\ CtxInv /\ HolderHasLock /\ [Next]_vars => CtxInv' /\ HolderHasLock'
  BY NextCtx, NextLock
<1> QED BY <1>1, <1>2, StoreInvariant, HoldersExclude, PTL DEF Spec

-----------------------------------------------------------------------------

\* What the saga asks for now at the step a worker has claimed.
Asked(w) ==
    resolveClaimedStepDispatchMode(sagas[claim[w].saga].status,
                                   sagas[claim[w].saga].steps[claim[w].step])

\* A holder past the load, of a saga that nobody read beside an open commit.
AtWork(w) ==
    /\ lockCtx[w] /\ pc[w] \in {"dispatch", "calling", "update"}
    /\ claim[w].saga \notin overtaken

\* What it remembers of its dispatch is what the saga asks for and what the
\* participant answered, and no commit can land under it.
WorkerFact(w) ==
    /\ AtWork(w) => mode[w] = Asked(w) /\ mode[w] # "none" /\ inCommit[claim[w].saga] = {}
    /\ pc[w] # "update" => ~dispatchOk[w]
    /\ AtWork(w) /\ dispatchOk[w] =>
        calls[claim[w].saga][claim[w].step] = [op |-> mode[w], outcome |-> "ok"]

WorkerInv == \A w \in Workers : WorkerFact(w)

\* The inductive form of DispatchedModeStillHolds.
LEMMA WorkersDispatchRight == CtxInv /\ WorkerInv => DispatchedModeStillHolds
BY DEF CtxInv, InFn, Procs, WorkerInv, WorkerFact, AtWork, Asked, DispatchedModeStillHolds

\* saga, as a version of s, tells the truth about the calls: no participant is
\* called for a step that nobody has claimed, what is COMPENSATED was
\* acknowledged, and what is COMPLETED was executed.
TellsCalls(s, saga) ==
    \A i \in StepsOf(s) :
        /\ saga.steps[i] = "PENDING" => calls[s][i] = NoCall
        /\ saga.steps[i] = "COMPENSATED" =>
                calls[s][i] \in {NoCall, [op |-> "compensate", outcome |-> "ok"]}
        /\ saga.status \in {"CREATED", "RUNNING", "COMPLETED"} /\ saga.steps[i] = "COMPLETED" =>
                calls[s][i] = [op |-> "execute", outcome |-> "ok"]

\* The stored version does, and so does the one that an open commit will store.
CallFact(s) ==
    s \notin overtaken =>
        TellsCalls(s, sagas[s]) /\ \A x \in inCommit[s] : TellsCalls(s, x)

CallInv == \A s \in Sagas : CallFact(s)

\* The facts about the calls of a saga that is left alone.
LEMMA CallFrame ==
    ASSUME NEW s \in Sagas, CallFact(s), sagas'[s] = sagas[s], calls'[s] = calls[s],
           inCommit'[s] \subseteq inCommit[s], overtaken \subseteq overtaken'
    PROVE  CallFact(s)'
BY DEF CallFact, TellsCalls

\* The facts about a worker that has nothing to remember.
LEMMA WorkerRests ==
    ASSUME NEW w \in Workers, pc'[w] \notin {"dispatch", "calling", "update"}, ~dispatchOk'[w]
    PROVE  WorkerFact(w)'
BY DEF WorkerFact, AtWork

\* The facts about a worker survive when its own state stays, or lockCtx is
\* cancelled, and what its saga asks for, the calls to its step and the open
\* commits of its saga stay.
LEMMA WorkerFrame ==
    ASSUME NEW w \in Workers, WorkerFact(w), lockCtx'[w] => lockCtx[w],
           pc'[w] = pc[w], claim'[w] = claim[w], mode'[w] = mode[w], dispatchOk'[w] = dispatchOk[w],
           overtaken \subseteq overtaken',
           AtWork(w) =>
                /\ calls'[claim[w].saga][claim[w].step] = calls[claim[w].saga][claim[w].step]
                /\ Asked(w)' = Asked(w)
                /\ inCommit'[claim[w].saga] \subseteq inCommit[claim[w].saga]
    PROVE  WorkerFact(w)'
<1>1. AtWork(w)' => AtWork(w)
  BY DEF AtWork
<1>2. AtWork(w)' => mode'[w] = Asked(w)' /\ mode'[w] # "none" /\ inCommit'[claim'[w].saga] = {}
  BY <1>1 DEF WorkerFact
<1>3. pc'[w] # "update" => ~dispatchOk'[w]
  BY DEF WorkerFact
<1>4. AtWork(w)' /\ dispatchOk'[w] =>
        calls'[claim'[w].saga][claim'[w].step] = [op |-> mode'[w], outcome |-> "ok"]
  BY <1>1 DEF WorkerFact
<1> QED BY <1>2, <1>3, <1>4 DEF WorkerFact

\* Nothing of q's own changes.
Unmoved(q) ==
    /\ pc'[q] = pc[q] /\ claim'[q] = claim[q] /\ mode'[q] = mode[q]
    /\ dispatchOk'[q] = dispatchOk[q] /\ lockCtx'[q] = lockCtx[q]

\* A process that leaves the store and the participants alone disturbs no
\* other worker, and no saga.
LEMMA QuietStep ==
    ASSUME TypeOK, WorkerInv, CallInv, NEW p, sagas' = sagas, calls' = calls, inCommit' = inCommit,
           overtaken \subseteq overtaken',
           \A q \in Procs : q # p => Unmoved(q),
           p \in Workers => WorkerFact(p)'
    PROVE  WorkerInv' /\ CallInv'
<1>1. ASSUME NEW w \in Workers, w # p PROVE WorkerFact(w)'
  <2>1. Unmoved(w)
    BY <1>1 DEF Procs
  <2>2. Asked(w)' = Asked(w)
    BY <2>1 DEF Asked, Unmoved
  <2> QED BY <2>1, <2>2, WorkerFrame DEF WorkerInv, Unmoved
<1>2. CallInv'
  BY CallFrame DEF CallInv
<1> QED BY <1>1, <1>2 DEF WorkerInv

\* The holder of a saga's lock disturbs no other saga and no worker of another
\* saga, and no other worker has work to lose on this one.
LEMMA HolderStep ==
    ASSUME TypeOK, StoreInv, CtxInv, HolderHasLock, WorkerInv, CallInv,
           NEW p \in Procs, lockCtx[p], NEW s \in Sagas, s = claim[p].saga,
           \A t \in Sagas : t # s =>
                sagas'[t] = sagas[t] /\ calls'[t] = calls[t] /\ inCommit'[t] = inCommit[t],
           overtaken' = overtaken,
           \A q \in Procs : q # p => Unmoved(q),
           p \in Workers => WorkerFact(p)',
           CallFact(s)'
    PROVE  WorkerInv' /\ CallInv'
<1>1. ASSUME NEW w \in Workers, w # p PROVE WorkerFact(w)'
  <2>1. w \in Procs /\ Unmoved(w)
    BY <1>1 DEF Procs
  <2>2. AtWork(w) => claim[w].saga \in Sagas /\ claim[w].saga # s
    BY <1>1, <2>1, ClaimOfHolder DEF HolderHasLock, AtWork
  <2>3. AtWork(w) =>
            /\ calls'[claim[w].saga][claim[w].step] = calls[claim[w].saga][claim[w].step]
            /\ Asked(w)' = Asked(w)
            /\ inCommit'[claim[w].saga] = inCommit[claim[w].saga]
    BY <2>1, <2>2 DEF Asked, Unmoved
  <2> QED BY <2>1, <2>3, WorkerFrame DEF WorkerInv, Unmoved
<1>2. ASSUME NEW t \in Sagas, t # s PROVE CallFact(t)'
  BY <1>2, CallFrame DEF CallInv
<1> QED BY <1>1, <1>2 DEF WorkerInv, CallInv

\* The saga that a worker's update stores tells the truth about the calls.
LEMMA OutcomeTellsCalls ==
    ASSUME TypeOK, StoreInv, WorkerInv, CallInv, NEW w \in Workers,
           lockCtx[w], pc[w] = "update", claim[w].saga \notin overtaken
    PROVE  TellsCalls(claim[w].saga,
                updatedAfterDispatch(sagas[claim[w].saga], claim[w].step, dispatchOk[w]))
<1> DEFINE s == claim[w].saga
           i == claim[w].step
           x == updatedAfterDispatch(sagas[s], i, dispatchOk[w])
<1>1. s \in Sagas /\ i \in StepsOf(s) /\ sagas[s].steps[i] # "PENDING" /\ dispatchOk[w] \in BOOLEAN
  BY ClaimOfBusy DEF ValidClaim, TypeOK, Procs
<1>2. /\ sagas[s] \in SagaRecord(StepCount[s]) /\ StepCount[s] \in Nat /\ i \in 1..StepCount[s]
      /\ StatusTellsSteps(sagas[s]) /\ StartedInOrder(sagas[s])
  BY <1>1, StoredIsRecord DEF TypeOK, StoreInv, StatusMatchesSteps, ExecutionIsOrdered
<1>3. sagas[s].status # "NONE"
  BY <1>1, <1>2 DEF StatusTellsSteps, SagaRecord
<1>4. \A j \in StepsOf(s) : j # i => x.steps[j] = sagas[s].steps[j]
  BY <1>1, <1>2, StoredIsRecord, UpdatedKeeps
<1>5. mode[w] = Asked(w) /\ mode[w] \in {"execute", "compensate"}
  BY DEF WorkerInv, WorkerFact, AtWork, TypeOK, DispatchMode, Procs
<1>6. /\ x.steps[i] = IF ~dispatchOk[w] THEN "FAILED"
                      ELSE IF mode[w] = "execute" THEN "COMPLETED" ELSE "COMPENSATED"
      /\ x.status \in {"CREATED", "RUNNING", "COMPLETED"} =>
              sagas[s].status \in {"CREATED", "RUNNING", "COMPLETED"}
  BY <1>1, <1>2, <1>3, <1>5, UpdatedRecordsOutcome DEF Asked
<1>7. dispatchOk[w] => calls[s][i] = [op |-> mode[w], outcome |-> "ok"]
  BY DEF WorkerInv, WorkerFact, AtWork
<1>8. TellsCalls(s, sagas[s])
  BY <1>1 DEF CallInv, CallFact
<1> HIDE DEF x
<1> SUFFICES ASSUME NEW j \in StepsOf(s)
             PROVE  /\ x.steps[j] = "PENDING" => calls[s][j] = NoCall
                    /\ x.steps[j] = "COMPENSATED" =>
                            calls[s][j] \in {NoCall, [op |-> "compensate", outcome |-> "ok"]}
                    /\ x.status \in {"CREATED", "RUNNING", "COMPLETED"} /\ x.steps[j] = "COMPLETED" =>
                            calls[s][j] = [op |-> "execute", outcome |-> "ok"]
  BY DEF TellsCalls, x
<1>9. CASE j = i
  BY <1>5, <1>6, <1>7, <1>9
<1>10. CASE j # i
  BY <1>4, <1>6, <1>8, <1>10 DEF TellsCalls
<1> QED BY <1>9, <1>10

\* So does the one that a cancel request's update stores.
LEMMA CancelTellsCalls ==
    ASSUME TypeOK, StoreInv, CallInv, NEW s \in Sagas, s \notin overtaken
    PROVE  TellsCalls(s, canceledSaga(sagas[s]))
<1> DEFINE x == canceledSaga(sagas[s])
<1>1. /\ sagas[s] \in SagaRecord(StepCount[s]) /\ StepCount[s] \in Nat
      /\ StatusTellsSteps(sagas[s]) /\ StartedInOrder(sagas[s])
  BY StoredIsRecord DEF TypeOK, StoreInv, StatusMatchesSteps, ExecutionIsOrdered
<1>2. /\ \A j \in StepsOf(s) : x.steps[j] = "COMPENSATED" => sagas[s].steps[j] \in {"PENDING", "COMPENSATED"}
      /\ \A j \in StepsOf(s) : x.steps[j] = "PENDING" => sagas[s].steps[j] = "PENDING"
      /\ x.status \notin {"CREATED", "RUNNING", "COMPLETED"}
  BY <1>1, StoredIsRecord, CanceledSettles
<1>3. TellsCalls(s, sagas[s])
  BY DEF CallInv, CallFact
<1> HIDE DEF x
<1>4. TellsCalls(s, x)
  BY <1>2, <1>3 DEF TellsCalls
<1> QED BY <1>4 DEF x

\* A call that a worker makes, or its answer, makes no saga untrue: the saga
\* asks for the call, so its step is neither settled nor about to be.
LEMMA CallKeepsTruth ==
    ASSUME TypeOK, StoreInv, WorkerInv, CallInv, NEW w \in Workers,
           lockCtx[w], pc[w] \in {"dispatch", "calling"}, NEW r,
           NEW s \in Sagas, NEW i, claim[w].saga = s, claim[w].step = i,
           calls' = [calls EXCEPT ![s][i] = r],
           sagas' = sagas, inCommit' = inCommit, overtaken' = overtaken
    PROVE  CallFact(s)'
<1>1. i \in StepsOf(s) /\ sagas[s].steps[i] # "PENDING"
  BY ClaimOfBusy DEF ValidClaim, Procs
<1>2. \A j \in StepsOf(s) : j # i => calls'[s][j] = calls[s][j]
  BY <1>1 DEF TypeOK
<1>3. CASE s \in overtaken
  BY <1>3 DEF CallFact
<1>4. CASE s \notin overtaken
  <2>1. mode[w] = Asked(w) /\ mode[w] # "none" /\ inCommit[s] = {}
    BY <1>4 DEF WorkerInv, WorkerFact, AtWork
  <2>2. /\ sagas[s].steps[i] # "COMPENSATED"
        /\ ~(sagas[s].status \in {"CREATED", "RUNNING", "COMPLETED"} /\ sagas[s].steps[i] = "COMPLETED")
    BY <2>1 DEF Asked, resolveClaimedStepDispatchMode, Open
  <2>3. TellsCalls(s, sagas[s])
    BY <1>1, <1>4 DEF CallInv, CallFact
  <2>4. TellsCalls(s, sagas[s])'
    BY <1>1, <1>2, <2>2, <2>3 DEF TellsCalls
  <2> QED BY <2>1, <2>4 DEF CallFact
<1> QED BY <1>3, <1>4

\* Every step keeps what is known of workers at work and of the calls made,
\* given that each process with a live lockCtx holds its lock.
LEMMA NextCalls ==
    ASSUME ~LockCanBeLost, TypeOK, StoreInv, CommitInv, CtxInv, HolderHasLock, WorkerInv, CallInv,
           [Next]_vars
    PROVE  WorkerInv' /\ CallInv'
<1> USE DEF Procs
<1>1. ASSUME NEW s \in Sagas, StartSaga(s) PROVE WorkerInv' /\ CallInv'
  <2>1. /\ sagas[s].status = "NONE" /\ calls' = calls /\ pc' = pc /\ claim' = claim
        /\ mode' = mode /\ dispatchOk' = dispatchOk /\ lockCtx' = lockCtx
        /\ inCommit' = inCommit /\ overtaken' = overtaken
        /\ \A t \in Sagas : t # s => sagas'[t] = sagas[t]
        /\ sagas'[s].status = "CREATED" /\ sagas'[s].steps = sagas[s].steps
    BY <1>1 DEF StartSaga, TypeOK, StoredSaga
  <2>2. \A i \in StepsOf(s) : sagas[s].steps[i] = "PENDING"
    BY <2>1 DEF StoreInv, StatusMatchesSteps, StatusTellsSteps, TypeOK, StoredSaga
  <2>3. \A w \in Workers : AtWork(w) => Asked(w)' = Asked(w)
    <3> SUFFICES ASSUME NEW w \in Workers, AtWork(w)
                 PROVE  Asked(w)' = Asked(w)
      OBVIOUS
    <3>1. claim[w].saga \in Sagas /\ claim[w].saga # s
      BY <2>2, ClaimOfBusy DEF AtWork, ValidClaim
    <3> QED BY <2>1, <3>1 DEF Asked
  <2>4. WorkerInv'
    BY <2>1, <2>3, WorkerFrame DEF WorkerInv
  <2>5. CallFact(s)'
    <3>1. s \notin overtaken => TellsCalls(s, sagas[s])
      BY DEF CallInv, CallFact
    <3>2. s \notin overtaken => TellsCalls(s, sagas[s])'
      BY <2>1, <2>2, <3>1 DEF TellsCalls
    <3>3. inCommit[s] = {}
      BY <2>1 DEF CommitInv
    <3> QED BY <2>1, <3>2, <3>3 DEF CallFact
  <2>6. CallInv'
    BY <2>1, <2>5, CallFrame DEF CallInv
  <2> QED BY <2>4, <2>6
<1>2. ASSUME NEW n \in Instances, NEW s \in Sagas, NEW i \in StepsOf(s), ClaimNextStep(n, s, i)
      PROVE  WorkerInv' /\ CallInv'
  <2> DEFINE x == Claimed(sagas[s], i)
  <2>1. /\ calls' = calls /\ pc' = pc /\ claim' = claim /\ mode' = mode
        /\ dispatchOk' = dispatchOk /\ lockCtx' = lockCtx
        /\ inCommit' = inCommit /\ overtaken' = overtaken /\ inCommit[s] = {}
        /\ \A t \in Sagas : t # s => sagas'[t] = sagas[t]
        /\ sagas'[s] = x /\ CanClaim(sagas[s], started[s], i) /\ sagas[s] \in StoredSaga(s)
    BY <1>2 DEF ClaimNextStep, ClaimAndSubmit, TypeOK
  <2>2. /\ x.status = sagas[s].status
        /\ \A j \in StepsOf(s) : j # i => x.steps[j] = sagas[s].steps[j]
    BY <2>1, StoredIsRecord, ClaimedKeeps DEF StoreInv, StatusMatchesSteps, ExecutionIsOrdered
  <2>3. /\ \A j \in StepsOf(s) :
                resolveClaimedStepDispatchMode(x.status, x.steps[j])
                  = resolveClaimedStepDispatchMode(sagas[s].status, sagas[s].steps[j])
        /\ x.steps[i] \in {"RUNNING", "COMPENSATING"}
    BY <2>1, StoredIsRecord, ClaimedKeepsMode
  <2>4. \A w \in Workers : AtWork(w) => Asked(w)' = Asked(w)
    <3> SUFFICES ASSUME NEW w \in Workers, AtWork(w)
                 PROVE  Asked(w)' = Asked(w)
      OBVIOUS
    <3>1. claim[w].saga \in Sagas /\ claim[w].step \in StepsOf(claim[w].saga)
      BY ClaimOfBusy DEF AtWork, ValidClaim
    <3>2. CASE claim[w].saga = s
      BY <2>1, <2>3, <3>1, <3>2 DEF Asked
    <3>3. CASE claim[w].saga # s
      BY <2>1, <3>1, <3>3 DEF Asked
    <3> QED BY <3>2, <3>3
  <2>5. WorkerInv'
    BY <2>1, <2>4, WorkerFrame DEF WorkerInv
  <2>6. CallFact(s)'
    <3>1. s \notin overtaken => TellsCalls(s, sagas[s])
      BY DEF CallInv, CallFact
    <3>2. s \notin overtaken => TellsCalls(s, sagas[s])'
      BY <2>1, <2>2, <2>3, <3>1 DEF TellsCalls
    <3> QED BY <2>1, <3>2 DEF CallFact
  <2>7. CallInv'
    BY <2>1, <2>6, CallFrame DEF CallInv
  <2> QED BY <2>5, <2>7
<1>3. ASSUME NEW s \in Sagas, LockExpires(s) \/ \E i \in StepsOf(s) : BecomeStale(s, i)
      PROVE  WorkerInv' /\ CallInv'
  <2>1. /\ sagas' = sagas /\ calls' = calls /\ inCommit' = inCommit /\ overtaken' = overtaken
        /\ \A q \in Procs : Unmoved(q)
    BY <1>3 DEF LockExpires, BecomeStale, Unmoved
  <2> QED BY <2>1, QuietStep, ConstantsAssumption
<1>4. ASSUME NEW w \in Workers, TakeTask(w) PROVE WorkerInv' /\ CallInv'
  <2>1. /\ sagas' = sagas /\ calls' = calls /\ inCommit' = inCommit /\ overtaken' = overtaken
        /\ pc'[w] = "acquire" /\ ~dispatchOk'[w]
        /\ \A q \in Procs : q # w => Unmoved(q)
    BY <1>4 DEF TakeTask, TypeOK, WorkerInv, WorkerFact, Unmoved
  <2>2. WorkerFact(w)'
    BY <2>1, WorkerRests
  <2> QED BY <2>1, <2>2, QuietStep
<1>5. ASSUME NEW w \in Workers, LoadClaimedStep(w) PROVE WorkerInv' /\ CallInv'
  <2>1. /\ sagas' = sagas /\ calls' = calls /\ inCommit' = inCommit /\ overtaken \subseteq overtaken'
        /\ \A q \in Procs : q # w => Unmoved(q)
    BY <1>5 DEF LoadClaimedStep, FnReturns, TypeOK, Unmoved
  <2>2. CASE FnReturns(w)
    <3>1. WorkerFact(w)'
      BY <2>2, WorkerRests DEF FnReturns, TypeOK
    <3> QED BY <2>1, <3>1, QuietStep
  <2>3. CASE ~FnReturns(w)
    <3>1. /\ mode'[w] = Asked(w) /\ Asked(w) # "none" /\ pc'[w] = "dispatch" /\ ~dispatchOk'[w]
          /\ claim' = claim
          /\ claim[w].saga \notin overtaken' => inCommit[claim[w].saga] = {}
      BY <1>5, <2>3 DEF LoadClaimedStep, TypeOK, Asked, WorkerInv, WorkerFact
    <3>2. Asked(w)' = Asked(w)
      BY <2>1, <3>1 DEF Asked
    <3>3. WorkerFact(w)'
      BY <2>1, <3>1, <3>2 DEF WorkerFact, AtWork
    <3> QED BY <2>1, <3>3, QuietStep
  <2> QED BY <2>2, <2>3
<1>6. ASSUME NEW w \in Workers, LoadFails(w) PROVE WorkerInv' /\ CallInv'
  <2>1. /\ sagas' = sagas /\ calls' = calls /\ inCommit' = inCommit /\ overtaken' = overtaken
        /\ pc'[w] = "release" /\ ~dispatchOk'[w]
        /\ \A q \in Procs : q # w => Unmoved(q)
    BY <1>6 DEF LoadFails, FnReturns, TypeOK, Unmoved
  <2>2. WorkerFact(w)'
    BY <2>1, WorkerRests
  <2> QED BY <2>1, <2>2, QuietStep
<1>7. ASSUME NEW w \in Workers, SendCall(w) PROVE WorkerInv' /\ CallInv'
  <2> PICK s, i : s \in Sagas /\ s = claim[w].saga /\ i = claim[w].step
    BY <1>7, ClaimOfBusy DEF SendCall
  <2>1. /\ sagas' = sagas /\ claim' = claim /\ mode' = mode /\ dispatchOk' = dispatchOk
        /\ inCommit' = inCommit /\ overtaken' = overtaken
        /\ pc[w] = "dispatch" /\ pc'[w] = "calling" /\ lockCtx[w]
        /\ calls' = [calls EXCEPT ![s][i] = [op |-> mode[w], outcome |-> "sent"]]
        /\ \A q \in Procs : q # w => Unmoved(q)
    BY <1>7 DEF SendCall, TypeOK, Unmoved
  <2>2. /\ s \notin overtaken => mode[w] = Asked(w) /\ mode[w] # "none" /\ inCommit[s] = {}
        /\ ~dispatchOk[w] /\ Asked(w)' = Asked(w)
    BY <2>1 DEF WorkerInv, WorkerFact, AtWork, Asked
  <2>3. WorkerFact(w)'
    BY <2>1, <2>2 DEF WorkerFact, AtWork
  <2>4. \A t \in Sagas : t # s => calls'[t] = calls[t]
    BY <2>1 DEF TypeOK
  <2>5. CallFact(s)'
    BY <2>1, CallKeepsTruth
  <2> QED BY <2>1, <2>3, <2>4, <2>5, HolderStep
<1>8. ASSUME NEW w \in Workers, SendFails(w) PROVE WorkerInv' /\ CallInv'
  <2>1. /\ sagas' = sagas /\ calls' = calls /\ claim' = claim /\ dispatchOk' = dispatchOk
        /\ inCommit' = inCommit /\ overtaken' = overtaken
        /\ mode' = mode /\ lockCtx' = lockCtx /\ pc[w] = "dispatch" /\ pc'[w] = "update"
        /\ \A q \in Procs : q # w => Unmoved(q)
    BY <1>8 DEF SendFails, TypeOK, Unmoved
  <2>2. /\ AtWork(w)' => mode[w] = Asked(w) /\ mode[w] # "none" /\ inCommit[claim[w].saga] = {}
        /\ ~dispatchOk[w] /\ Asked(w)' = Asked(w)
    BY <2>1 DEF WorkerInv, WorkerFact, AtWork, Asked
  <2>3. WorkerFact(w)'
    BY <2>1, <2>2 DEF WorkerFact
  <2> QED BY <2>1, <2>3, QuietStep
<1>9. ASSUME NEW w \in Workers, NEW ok \in BOOLEAN, CallReturns(w, ok) PROVE WorkerInv' /\ CallInv'
  <2>1. CASE ~lockCtx[w]
    <3>1. /\ sagas' = sagas /\ calls' = calls /\ lockCtx' = lockCtx /\ pc'[w] = "update"
          /\ inCommit' = inCommit /\ overtaken' = overtaken
          /\ \A q \in Procs : q # w => Unmoved(q)
      BY <1>9, <2>1 DEF CallReturns, TypeOK, Unmoved
    <3>2. WorkerFact(w)'
      BY <2>1, <3>1 DEF WorkerFact, AtWork
    <3> QED BY <3>1, <3>2, QuietStep
  <2>2. CASE lockCtx[w]
    <3> PICK s, i : s \in Sagas /\ s = claim[w].saga /\ i = claim[w].step
      BY <1>9, ClaimOfBusy DEF CallReturns
    <3>1. /\ sagas' = sagas /\ claim' = claim /\ mode' = mode
          /\ inCommit' = inCommit /\ overtaken' = overtaken /\ lockCtx' = lockCtx
          /\ pc[w] = "calling" /\ pc'[w] = "update" /\ dispatchOk'[w] = ok
          /\ calls' = [calls EXCEPT ![s][i] = [op |-> mode[w], outcome |-> IF ok THEN "ok" ELSE "err"]]
          /\ \A q \in Procs : q # w => Unmoved(q)
      BY <1>9, <2>2 DEF CallReturns, TypeOK, Unmoved
    <3>2. s \in Sagas /\ i \in StepsOf(s)
      BY <3>1, ClaimOfBusy DEF ValidClaim
    <3>3. /\ s \notin overtaken => mode[w] = Asked(w) /\ mode[w] # "none" /\ inCommit[s] = {}
          /\ Asked(w)' = Asked(w)
      BY <2>2, <3>1 DEF WorkerInv, WorkerFact, AtWork, Asked
    <3>4. calls'[s][i] = [op |-> mode[w], outcome |-> IF ok THEN "ok" ELSE "err"]
      BY <3>1, <3>2 DEF TypeOK
    <3>5. WorkerFact(w)'
      BY <3>1, <3>3, <3>4 DEF WorkerFact, AtWork
    <3>6. \A t \in Sagas : t # s => calls'[t] = calls[t]
      BY <3>1 DEF TypeOK
    <3>7. CallFact(s)'
      BY <2>2, <3>1, CallKeepsTruth
    <3> QED BY <2>2, <3>1, <3>5, <3>6, <3>7, HolderStep
  <2> QED BY <2>1, <2>2
<1>10. ASSUME NEW w \in Workers, UpdateAfterDispatch(w) PROVE WorkerInv' /\ CallInv'
  <2> PICK s \in Sagas : s = claim[w].saga
    BY <1>10, ClaimOfBusy DEF UpdateAfterDispatch
  <2> DEFINE x == updatedAfterDispatch(sagas[s], claim[w].step, dispatchOk[w])
  <2>1. /\ calls' = calls /\ lockCtx[w] /\ ~dispatchOk'[w]
        /\ inCommit' = inCommit /\ inCommit[s] = {} /\ overtaken' = overtaken
        /\ pc[w] = "update" /\ pc'[w] = "release" /\ sagas' = [sagas EXCEPT ![s] = x]
        /\ \A q \in Procs : q # w => Unmoved(q)
    BY <1>10 DEF UpdateAfterDispatch, FnReturns, TypeOK, Unmoved
  <2>3. sagas'[s] = x /\ \A t \in Sagas : t # s => sagas'[t] = sagas[t]
    BY <2>1 DEF TypeOK
  <2>4. WorkerFact(w)'
    BY <2>1, WorkerRests
  <2>5. s \notin overtaken => TellsCalls(s, x)
    BY <2>1, OutcomeTellsCalls
  <2> HIDE DEF x
  <2>6. CallFact(s)'
    BY <2>1, <2>3, <2>5 DEF CallFact, TellsCalls
  <2> QED BY <2>1, <2>3, <2>4, <2>6, HolderStep
<1>11. ASSUME NEW c \in Cancels, UpdateForCancel(c) PROVE WorkerInv' /\ CallInv'
  <2> PICK s \in Sagas : s = claim[c].saga
    BY <1>11, ClaimOfBusy DEF UpdateForCancel
  <2> DEFINE x == canceledSaga(sagas[s])
  <2>1. /\ calls' = calls /\ lockCtx[c]
        /\ inCommit' = inCommit /\ inCommit[s] = {} /\ overtaken' = overtaken
        /\ pc[c] = "update" /\ sagas' = [sagas EXCEPT ![s] = x]
        /\ \A q \in Procs : q # c => Unmoved(q)
    BY <1>11 DEF UpdateForCancel, FnReturns, TypeOK, Unmoved
  <2>3. sagas'[s] = x /\ \A t \in Sagas : t # s => sagas'[t] = sagas[t]
    BY <2>1 DEF TypeOK
  <2>4. s \notin overtaken => TellsCalls(s, x)
    BY CancelTellsCalls
  <2> HIDE DEF x
  <2>5. CallFact(s)'
    BY <2>1, <2>3, <2>4 DEF CallFact, TellsCalls
  <2> QED BY <2>1, <2>3, <2>5, HolderStep, ConstantsAssumption
<1>12. ASSUME NEW c \in Cancels, NEW s \in Sagas, CancelSaga(c, s) PROVE WorkerInv' /\ CallInv'
  <2>1. /\ sagas' = sagas /\ calls' = calls /\ inCommit' = inCommit /\ overtaken' = overtaken
        /\ \A q \in Procs : q # c => Unmoved(q)
    BY <1>12 DEF CancelSaga, TypeOK, Unmoved
  <2> QED BY <2>1, QuietStep, ConstantsAssumption
<1>13. ASSUME NEW p \in Procs, LockStep(p), ~CommitCutOff(p) PROVE WorkerInv' /\ CallInv'
  <2>1. /\ sagas' = sagas /\ calls' = calls /\ inCommit' = inCommit /\ overtaken' = overtaken
        /\ \A q \in Procs : q # p => Unmoved(q)
    BY <1>13 DEF LockStep, AcquireLock, AcquireFails, RenewFails, UpdateFails, ReleaseLock,
                 Finish, FnReturns, TypeOK, Unmoved
  <2>2. ASSUME p \in Workers PROVE WorkerFact(p)'
    <3>1. CASE RenewFails(p)
      <4>1. /\ pc' = pc /\ claim' = claim /\ mode' = mode /\ dispatchOk' = dispatchOk
            /\ (lockCtx'[p] => lockCtx[p]) /\ Asked(p)' = Asked(p)
        BY <2>1, <3>1 DEF RenewFails, Asked
      <4> QED BY <2>1, <2>2, <4>1, WorkerFrame DEF WorkerInv
    <3>2. CASE ~RenewFails(p)
      <4>1. pc'[p] \in {"load", "idle", "release"} /\ ~dispatchOk'[p]
        BY <1>13, <2>2, <3>2
        DEF LockStep, AcquireLock, AcquireFails, UpdateFails, ReleaseLock, Finish, FnReturns,
            TypeOK, WorkerInv, WorkerFact
      <4> QED BY <2>2, <4>1, WorkerRests
    <3> QED BY <3>1, <3>2
  <2> QED BY <2>1, <2>2, QuietStep
<1>14. ASSUME NEW n \in Instances, Crash(n) PROVE WorkerInv' /\ CallInv'
  <2>1. sagas' = sagas /\ calls' = calls /\ inCommit' = inCommit /\ overtaken' = overtaken
    BY <1>14 DEF Crash
  <2>2. ASSUME NEW w \in Workers PROVE WorkerFact(w)'
    <3>1. CASE Home[w] = n
      <4>1. pc'[w] = "idle" /\ ~dispatchOk'[w]
        BY <1>14, <3>1 DEF Crash, TypeOK
      <4> QED BY <4>1, WorkerRests
    <3>2. CASE Home[w] # n
      <4>1. Unmoved(w)
        BY <1>14, <3>2 DEF Crash, TypeOK, Unmoved
      <4>2. Asked(w)' = Asked(w)
        BY <2>1, <4>1 DEF Asked, Unmoved
      <4> QED BY <2>1, <4>1, <4>2, WorkerFrame DEF WorkerInv, Unmoved
    <3> QED BY <3>1, <3>2
  <2> QED BY <2>1, <2>2, CallFrame DEF WorkerInv, CallInv
<1>15. ASSUME NEW p \in Procs, CommitCutOff(p) PROVE WorkerInv' /\ CallInv'
  <2>1. /\ sagas' = sagas /\ calls' = calls /\ overtaken' = overtaken /\ lockCtx[p]
        /\ pc[p] = "update" /\ pc'[p] = "release" /\ ~dispatchOk'[p]
        /\ \A q \in Procs : q # p => Unmoved(q)
    BY <1>15 DEF CommitCutOff, FnReturns, TypeOK, Unmoved
  <2>2. PICK s, x :
            /\ s \in Sagas
            /\ s = claim[p].saga /\ inCommit' = [inCommit EXCEPT ![s] = {x}]
            /\ \/ /\ p \in Workers
                  /\ x = updatedAfterDispatch(sagas[s], claim[p].step, dispatchOk[p])
               \/ p \in Cancels /\ x = canceledSaga(sagas[s])
    BY <1>15, CutOffIsUpdate
  <2>3. inCommit'[s] = {x} /\ \A t \in Sagas : t # s => inCommit'[t] = inCommit[t]
    BY <2>2 DEF TypeOK
  <2>4. s \notin overtaken => TellsCalls(s, x)
    BY <2>1, <2>2, OutcomeTellsCalls, CancelTellsCalls
  <2>5. CallFact(s)'
    <3>1. s \notin overtaken => TellsCalls(s, sagas[s])
      BY <2>2 DEF CallInv, CallFact
    <3> QED BY <2>1, <2>3, <2>4, <3>1 DEF CallFact, TellsCalls
  <2>6. p \in Workers => WorkerFact(p)'
    BY <2>1, WorkerRests
  <2> QED BY <2>1, <2>2, <2>3, <2>5, <2>6, HolderStep
<1>16. ASSUME NEW s \in Sagas, LateCommit(s) \/ LateRollback(s) PROVE WorkerInv' /\ CallInv'
  <2>1. /\ calls' = calls /\ overtaken' = overtaken
        /\ inCommit[s] # {} /\ inCommit'[s] = {} /\ \A q \in Procs : Unmoved(q)
        /\ \A t \in Sagas : t # s => sagas'[t] = sagas[t] /\ inCommit'[t] = inCommit[t]
        /\ sagas'[s] = sagas[s] \/ sagas'[s] \in inCommit[s]
    BY <1>16 DEF LateCommit, LateRollback, TypeOK, Unmoved
  <2>2. ASSUME NEW w \in Workers PROVE WorkerFact(w)'
    <3>1. AtWork(w) => claim[w].saga \in Sagas /\ claim[w].saga # s
      BY <2>1, ClaimOfBusy DEF WorkerInv, WorkerFact, AtWork
    <3>2. AtWork(w) => Asked(w)' = Asked(w) /\ inCommit'[claim[w].saga] = inCommit[claim[w].saga]
      BY <2>1, <3>1 DEF Asked, Unmoved
    <3> QED BY <2>1, <3>2, WorkerFrame DEF WorkerInv, Unmoved
  <2>3. CallFact(s)'
    BY <2>1 DEF CallInv, CallFact, TellsCalls
  <2>4. ASSUME NEW t \in Sagas, t # s PROVE CallFact(t)'
    BY <2>1, <2>4, CallFrame DEF CallInv
  <2> QED BY <2>2, <2>3, <2>4 DEF WorkerInv, CallInv
<1>17. ASSUME UNCHANGED vars PROVE WorkerInv' /\ CallInv'
  BY <1>17, QuietStep, ConstantsAssumption DEF vars, Unmoved
<1> QED
  BY <1>1, <1>2, <1>3, <1>4, <1>5, <1>6, <1>7, <1>8, <1>9, <1>10, <1>11, <1>12, <1>13,
     <1>14, <1>15, <1>16, <1>17
  DEF Next, WorkerStep, CancelStep, StoreStep

\* All parts of the inductive invariant together.
LEMMA LockedInvariant ==
    ASSUME ~LockCanBeLost
    PROVE  Spec => [](CtxInv /\ HolderHasLock /\ WorkerInv /\ CallInv)
<1>1. Init => CtxInv /\ HolderHasLock /\ WorkerInv /\ CallInv
  <2> SUFFICES ASSUME Init PROVE CtxInv /\ HolderHasLock /\ WorkerInv /\ CallInv
    OBVIOUS
  <2>1. CtxInv /\ HolderHasLock /\ WorkerInv
    BY DEF Init, CtxInv, HolderHasLock, WorkerInv, WorkerFact, AtWork, Procs
  <2>2. CallInv
    BY DEF Init, NoSaga, CallInv, CallFact, TellsCalls
  <2> QED BY <2>1, <2>2
<1>2. TypeOK /\ StoreInv /\ CommitInv /\ CtxInv /\ HolderHasLock /\ WorkerInv /\ CallInv
        /\ [Next]_vars => CtxInv' /\ HolderHasLock' /\ WorkerInv' /\ CallInv'
  BY NextCtx, NextLock, NextCalls
<1> QED BY <1>1, <1>2, StoreInvariant, PTL DEF Spec

\* updateClaimedStepAfterDispatch may read the meaning of an outcome off the
\* saga: under the lock it is still the one that was dispatched, although
\* claims go on without the lock and commits may be cut off and land late,
\* unless the worker read the saga while such a commit was open.
THEOREM ModeIsStable == ASSUME ~LockCanBeLost PROVE Spec => []DispatchedModeStillHolds
BY LockedInvariant, WorkersDispatchRight, PTL

\* No step is reported COMPENSATED unless its participant acknowledged the
\* compensation last or was never called, with the one exception of a saga
\* that was read beside an open commit.
THEOREM CompensationIsReal == ASSUME ~LockCanBeLost PROVE Spec => []CompensatedUnlessOvertaken
<1>1. CallInv => CompensatedUnlessOvertaken
  BY DEF CallInv, CallFact, TellsCalls, CompensatedUnlessOvertaken, UndoneWasAcknowledged
<1> QED BY <1>1, LockedInvariant, PTL

\* While a saga is neither cancelled nor failed, a COMPLETED step was executed
\* and acknowledged, and its participant has not been called again, with the
\* same exception.
THEOREM CompletionIsReal == ASSUME ~LockCanBeLost PROVE Spec => []CompletedWasExecuted
<1>1. CallInv => CompletedWasExecuted
  BY DEF CallInv, CallFact, TellsCalls, CompletedWasExecuted
<1> QED BY <1>1, LockedInvariant, PTL

-----------------------------------------------------------------------------
(* The locks are used as SagaLock describes them, lost or not *)

Phases == [s \in Sagas |-> [p \in Procs |-> LockPhase(s, p)]]

\* Only what p is to the lock of s may change.
OnlyPhase(s, p) ==
    \A t \in Sagas, q \in Procs : t # s \/ q # p => LockPhase(t, q)' = LockPhase(t, q)

LEMMA PhasesChange ==
    ASSUME NEW s \in Sagas, NEW p \in Procs, OnlyPhase(s, p)
    PROVE  /\ Phases[s][p] = LockPhase(s, p)
           /\ Phases' = [Phases EXCEPT ![s][p] = LockPhase(s, p)']
           /\ LockPhase(s, p)' = LockPhase(s, p) => Phases' = Phases
BY DEF OnlyPhase, Phases

\* A step of p changes at most what p is to the lock of the saga it works on.
LEMMA OneProcessMoves ==
    ASSUME NEW p \in Procs, NEW s \in Sagas,
           \A q \in Procs : q # p => pc'[q] = pc[q] /\ claim'[q] = claim[q] /\ lockCtx'[q] = lockCtx[q],
           \A t \in Sagas : t # s => LockPhase(t, p)' = LockPhase(t, p)
    PROVE  OnlyPhase(s, p)
BY DEF OnlyPhase, LockPhase

\* Nothing of the locks changes.
LEMMA LocksRest ==
    ASSUME lock' = lock, \A s \in Sagas, p \in Procs : LockPhase(s, p)' = LockPhase(s, p)
    PROVE  UNCHANGED Lock!vars
BY DEF Lock!vars

\* The step of SagaLock that each step amounts to.
LEMMA NextIsLockStep ==
    ASSUME TypeOK, StoreInv, CtxInv, TypeOK', CtxInv', [Next]_vars
    PROVE  [Lock!Next]_(Lock!vars)
<1> USE DEF Procs
<1>1. ASSUME lock' = lock, pc' = pc, claim' = claim, lockCtx' = lockCtx
      PROVE  UNCHANGED Lock!vars
  <2>1. \A s \in Sagas, p \in Procs : LockPhase(s, p)' = LockPhase(s, p)
    BY <1>1 DEF LockPhase
  <2> QED BY <1>1, <2>1, LocksRest
\* fn goes on, or its lockCtx is cancelled.
<1>2. ASSUME NEW p \in Procs, lock' = lock, claim' = claim,
             \A q \in Procs : q # p => pc'[q] = pc[q] /\ lockCtx'[q] = lockCtx[q],
             pc[p] \in InFn, pc'[p] \in InFn \cup {"release"}, lockCtx'[p] => lockCtx[p]
      PROVE  [Lock!Next]_(Lock!vars)
  <2>1. PICK s \in Sagas : s = claim[p].saga
    BY <1>2, ClaimOfBusy DEF InFn
  <2>2. \A t \in Sagas : /\ t # s => LockPhase(t, p)' = "out" /\ LockPhase(t, p) = "out"
                         /\ t = s => /\ LockPhase(t, p) = IF lockCtx[p] THEN "in" ELSE "leaving"
                                     /\ LockPhase(t, p)' = IF lockCtx'[p] THEN "in" ELSE "leaving"
    BY <1>2, <2>1 DEF LockPhase, InFn
  <2>3. OnlyPhase(s, p)
    BY <1>2, <2>1, <2>2, OneProcessMoves
  <2>4. CASE LockPhase(s, p)' = LockPhase(s, p)
    BY <1>2, <2>1, <2>3, <2>4, LocksRest DEF OnlyPhase
  <2>5. CASE LockPhase(s, p)' # LockPhase(s, p)
    <3>1. LockPhase(s, p) = "in" /\ LockPhase(s, p)' = "leaving"
      BY <1>2, <2>1, <2>2, <2>5
    <3>2. Phases[s][p] = "in" /\ Phases' = [Phases EXCEPT ![s][p] = "leaving"]
      BY <2>3, <3>1, PhasesChange
    <3>3. Lock!Cancel(s, p)
      BY <1>2, <3>2 DEF Lock!Cancel, Phases
    <3> QED BY <3>3 DEF Lock!Next
  <2> QED BY <2>4, <2>5
\* A process that is outside stays outside.
<1>3. ASSUME NEW p \in Procs, lock' = lock, pc[p] \in {"idle", "acquire", "done"},
             pc'[p] \in {"idle", "acquire", "done"},
             \A q \in Procs : q # p => pc'[q] = pc[q] /\ claim'[q] = claim[q] /\ lockCtx'[q] = lockCtx[q]
      PROVE  UNCHANGED Lock!vars
  <2>1. \A s \in Sagas, q \in Procs : LockPhase(s, q)' = LockPhase(s, q)
    BY <1>3 DEF LockPhase
  <2> QED BY <1>3, <2>1, LocksRest
<1>4. ASSUME NEW p \in Procs, AcquireLock(p) PROVE Lock!Next
  <2> PICK s \in Sagas : s = claim[p].saga
    BY <1>4, ClaimOfBusy DEF AcquireLock
  <2>1. /\ lock[s] = NoOwner /\ lock' = [lock EXCEPT ![s] = p] /\ claim' = claim
        /\ pc[p] = "acquire" /\ pc'[p] \in {"load", "update"} /\ lockCtx'[p]
        /\ \A q \in Procs : q # p => pc'[q] = pc[q] /\ lockCtx'[q] = lockCtx[q]
    BY <1>4 DEF AcquireLock, TypeOK
  <2>2. \A t \in Sagas : /\ LockPhase(t, p) = "out"
                         /\ LockPhase(t, p)' = IF t = s THEN "in" ELSE "out"
    BY <2>1 DEF LockPhase
  <2>3. OnlyPhase(s, p)
    BY <2>1, <2>2, OneProcessMoves
  <2>4. Phases[s][p] = "out" /\ Phases' = [Phases EXCEPT ![s][p] = "in"]
    BY <2>2, <2>3, PhasesChange
  <2>5. Lock!Enter(s, p)
    BY <2>1, <2>4 DEF Lock!Enter, Phases
  <2> QED BY <2>5 DEF Lock!Next
<1>5. ASSUME NEW p \in Procs, AcquireFails(p) PROVE [Lock!Next]_(Lock!vars)
  <2> PICK s \in Sagas : s = claim[p].saga
    BY <1>5, ClaimOfBusy DEF AcquireFails
  <2>1. /\ pc[p] = "acquire" /\ pc'[p] \in {"idle", "done"}
        /\ \A q \in Procs : q # p => pc'[q] = pc[q] /\ claim'[q] = claim[q] /\ lockCtx'[q] = lockCtx[q]
        /\ lock' = lock \/ (lock[s] = NoOwner /\ lock' = [lock EXCEPT ![s] = Orphan])
    BY <1>5 DEF AcquireFails, Finish, TypeOK
  <2>2. CASE lock' = lock
    BY <1>3, <2>1, <2>2
  <2>3. CASE lock[s] = NoOwner /\ lock' = [lock EXCEPT ![s] = Orphan]
    <3>1. Phases' = Phases
      BY <2>1 DEF LockPhase, Phases
    <3>2. Lock!Set(s)
      BY <2>3, <3>1 DEF Lock!Set, Phases
    <3> QED BY <2>1, <3>2 DEF Lock!Next
  <2> QED BY <2>1, <2>2, <2>3
<1>6. ASSUME NEW p \in Procs, ReleaseLock(p) PROVE Lock!Next
  <2> PICK s \in Sagas : s = claim[p].saga
    BY <1>6, ClaimOfBusy DEF ReleaseLock
  <2>1. /\ pc[p] = "release" /\ pc'[p] \in {"idle", "done"} /\ ~lockCtx[p]
        /\ \A q \in Procs : q # p => pc'[q] = pc[q] /\ claim'[q] = claim[q] /\ lockCtx'[q] = lockCtx[q]
        /\ \E o \in {NoOwner, Orphan} : lock' = [lock EXCEPT ![s] = IF lock[s] = p THEN o ELSE lock[s]]
    BY <1>6 DEF ReleaseLock, Finish, TypeOK, CtxInv, InFn
  <2>2. \A t \in Sagas : /\ LockPhase(t, p) = IF t = s THEN "leaving" ELSE "out"
                         /\ LockPhase(t, p)' = "out"
    BY <2>1 DEF LockPhase
  <2>3. OnlyPhase(s, p)
    BY <2>1, <2>2, OneProcessMoves
  <2>4. Phases[s][p] = "leaving" /\ Phases' = [Phases EXCEPT ![s][p] = "out"]
    BY <2>2, <2>3, PhasesChange
  <2>5. Lock!Leave(s, p)
    BY <2>1, <2>4 DEF Lock!Leave, Lock!GiveUp, Phases
  <2> QED BY <2>5 DEF Lock!Next
<1>7. ASSUME NEW s \in Sagas, LockExpires(s) PROVE Lock!Next
  <2>1. /\ lock' = [lock EXCEPT ![s] = NoOwner]
        /\ ~LockCanBeLost => \A p \in Procs : lock[s] = p => ~lockCtx[p]
        /\ Phases' = Phases
    BY <1>7, ConstantsAssumption DEF LockExpires, LockPhase, Phases
  <2>2. ~LockCanBeLost => \A p \in Procs : LockPhase(s, p) = "in" => lock[s] # p
    BY <2>1 DEF LockPhase
  <2>3. Lock!Expire(s)
    BY <2>1, <2>2 DEF Lock!Expire, Phases
  <2> QED BY <2>3 DEF Lock!Next
<1>8. ASSUME NEW n \in Instances, Crash(n) PROVE Lock!Next
  <2> DEFINE Dead == {p \in Procs : Home[p] = n}
  <2>1. lock' = [s \in Sagas |-> IF lock[s] \in Dead THEN Orphan ELSE lock[s]]
    BY <1>8 DEF Crash
  <2>2. \A s \in Sagas, p \in Procs : LockPhase(s, p)' = IF p \in Dead THEN "out" ELSE LockPhase(s, p)
    BY <1>8 DEF Crash, LockPhase
  <2>3. Phases' = [s \in Sagas |-> [p \in Procs |-> IF p \in Dead THEN "out" ELSE Phases[s][p]]]
    BY <2>2 DEF Phases
  <2>4. Lock!Crash(Dead)
    BY <2>1, <2>3 DEF Lock!Crash, Phases
  <2>5. Dead \in SUBSET Procs
    OBVIOUS
  <2> QED BY <2>4, <2>5 DEF Lock!Next
<1>9. ASSUME NEW p \in Procs, RenewFails(p) \/ UpdateFails(p) \/ CommitCutOff(p)
      PROVE  [Lock!Next]_(Lock!vars)
  <2>1. /\ lock' = lock /\ claim' = claim /\ pc[p] \in InFn /\ pc'[p] \in InFn \cup {"release"}
        /\ lockCtx'[p] => lockCtx[p]
        /\ \A q \in Procs : q # p => pc'[q] = pc[q] /\ lockCtx'[q] = lockCtx[q]
    BY <1>9 DEF RenewFails, UpdateFails, CommitCutOff, FnReturns, TypeOK, CtxInv, InFn
  <2> QED BY <1>2, <2>1
<1>10. ASSUME NEW w \in Workers, WorkerStep(w) PROVE [Lock!Next]_(Lock!vars)
  <2>1. CASE TakeTask(w)
    <3>1. /\ lock' = lock /\ pc[w] = "idle" /\ pc'[w] = "acquire"
          /\ \A q \in Procs : q # w => pc'[q] = pc[q] /\ claim'[q] = claim[q] /\ lockCtx'[q] = lockCtx[q]
      BY <2>1 DEF TakeTask, TypeOK
    <3> QED BY <1>3, <3>1
  <2>2. CASE ~TakeTask(w)
    <3>1. /\ lock' = lock /\ claim' = claim /\ pc[w] \in InFn /\ pc'[w] \in InFn \cup {"release"}
          /\ lockCtx'[w] => lockCtx[w]
          /\ \A q \in Procs : q # w => pc'[q] = pc[q] /\ lockCtx'[q] = lockCtx[q]
      BY <1>10, <2>2 DEF WorkerStep, LoadClaimedStep, LoadFails, SendCall, SendFails,
                         CallReturns, UpdateAfterDispatch, FnReturns, TypeOK, InFn
    <3> QED BY <1>2, <3>1
  <2> QED BY <2>1, <2>2
<1>11. ASSUME NEW c \in Cancels, CancelStep(c) PROVE [Lock!Next]_(Lock!vars)
  <2>1. CASE UpdateForCancel(c)
    <3>1. /\ lock' = lock /\ claim' = claim /\ pc[c] \in InFn /\ pc'[c] = "release" /\ ~lockCtx'[c]
          /\ \A q \in Procs : q # c => pc'[q] = pc[q] /\ lockCtx'[q] = lockCtx[q]
      BY <2>1 DEF UpdateForCancel, FnReturns, TypeOK, InFn
    <3> QED BY <1>2, <3>1
  <2>2. CASE \E s \in Sagas : CancelSaga(c, s)
    <3>1. /\ lock' = lock /\ pc[c] = "idle" /\ pc'[c] = "acquire"
          /\ \A q \in Procs : q # c => pc'[q] = pc[q] /\ claim'[q] = claim[q] /\ lockCtx'[q] = lockCtx[q]
      BY <2>2 DEF CancelSaga, TypeOK
    <3> QED BY <1>3, <3>1
  <2> QED BY <1>11, <2>1, <2>2 DEF CancelStep
<1>12. ASSUME NEW s \in Sagas, StoreStep(s) PROVE [Lock!Next]_(Lock!vars)
  <2>1. CASE ~LockExpires(s)
    <3>1. lock' = lock /\ pc' = pc /\ claim' = claim /\ lockCtx' = lockCtx
      BY <1>12, <2>1 DEF StoreStep, StartSaga, LateCommit, LateRollback, BecomeStale,
                         ClaimNextStep, ClaimAndSubmit
    <3> QED BY <1>1, <3>1
  <2> QED BY <1>7, <2>1
<1>13. CASE UNCHANGED vars
  BY <1>1, <1>13 DEF vars
<1> QED BY <1>4, <1>5, <1>6, <1>8, <1>9, <1>10, <1>11, <1>12, <1>13 DEF Next, LockStep

\* Workers and cancel requests of any number use the locks of any number of
\* sagas as SagaLock describes them, whether locks can be lost or not.
THEOREM RunnerImplementsLock == Spec => ImplementsLock
<1>1. Init => CtxInv /\ Lock!Init
  BY ConstantsAssumption DEF Init, CtxInv, Lock!Init, LockPhase
<1>2. TypeOK /\ CtxInv /\ [Next]_vars => CtxInv'
  BY NextCtx
<1>3. TypeOK /\ StoreInv /\ CtxInv /\ TypeOK' /\ CtxInv' /\ [Next]_vars => [Lock!Next]_(Lock!vars)
  BY NextIsLockStep
<1> QED BY <1>1, <1>2, <1>3, StoreInvariant, PTL DEF Spec, Lock!Spec, ImplementsLock
=============================================================================
