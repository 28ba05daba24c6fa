------------------------ MODULE StepRunnerPoolProofs ------------------------
(***************************************************************************)
(* The pool and its graceful stop, for any number of workers and claims.   *)
(***************************************************************************)
EXTENDS StepRunnerPool, FiniteSetTheorems, TLAPS

Has(seq, t) == \E k \in 1..Len(seq) : seq[k] = t

\* A claim that is still on its way: in Submit, in a channel or with a worker.
UnderWay(t) ==
    \/ runner = "submit" /\ t = claimed
    \/ Has(tasks, t)
    \/ \E w \in Workers : wtask[w] = t
    \/ Has(results, t)

\* No claim gets lost: what was claimed is finished, dropped or under way.
Accounted == \A t \in 1..claimed : t \in consumed \/ t \in dropped \/ UnderWay(t)

\* Nothing is finished, dropped or under way that was not claimed.
Numbered ==
    /\ \A k \in 1..Len(tasks) : tasks[k] \in 1..claimed
    /\ \A k \in 1..Len(results) : results[k] \in 1..claimed
    /\ \A w \in Workers : wtask[w] \in 0..claimed
    /\ consumed \subseteq 1..claimed
    /\ runner = "submit" => claimed > 0
    /\ dropped # {} =>
        /\ dropped = {claimed}
        /\ claimed > 0
        /\ runner \in {"closing", "stopping", "joining", "returned"}

\* The handshake of Shutdown: p.done is closed before the workers leave, they
\* leave an empty channel behind, p.results is closed after the last of them,
\* and Run returns after the last result.
Handshake ==
    /\ done => runner \in {"stopping", "joining", "returned"}
    /\ \A w \in Workers :
        /\ draining[w] => done
        /\ wpc[w] = "exited" => done /\ tasks = <<>>
        /\ wpc[w] \in {"select", "exited"} => wtask[w] = NoTask
        /\ wpc[w] \in {"handle", "send"} => wtask[w] # NoTask
    /\ resultsClosed => \A w \in Workers : wpc[w] = "exited"
    /\ resultsDone => resultsClosed /\ results = <<>>
    /\ runner = "returned" => resultsDone

PoolInv == TypeOK /\ Accounted /\ Numbered /\ Handshake

\* The channels have a finite capacity, make(chan T, workers).
LEMMA CapacityIsPositive == Capacity \in Nat /\ Capacity > 0
<1>1. Cardinality(Workers) \in Nat /\ Cardinality(Workers) # 0
  BY PoolAssumption, FS_CardinalityType, FS_EmptySet
<1> QED BY <1>1 DEF Capacity

\* A channel holds what was sent to it.
LEMMA SentIsHeld ==
    ASSUME NEW S, NEW seq \in Seq(S), NEW e \in S
    PROVE  /\ Append(seq, e) \in Seq(S)
           /\ Len(Append(seq, e)) = Len(seq) + 1
           /\ Has(Append(seq, e), e)
           /\ \A t : Has(seq, t) => Has(Append(seq, e), t)
           /\ \A k \in 1..Len(Append(seq, e)) :
                Append(seq, e)[k] = e \/ (k \in 1..Len(seq) /\ Append(seq, e)[k] = seq[k])
<1>1. /\ Append(seq, e) \in Seq(S) /\ Len(Append(seq, e)) = Len(seq) + 1 /\ Len(seq) \in Nat
      /\ Append(seq, e)[Len(seq) + 1] = e
      /\ \A k \in 1..Len(seq) : Append(seq, e)[k] = seq[k]
  OBVIOUS
<1> QED BY <1>1 DEF Has

\* A receive takes the head of a channel and leaves the rest.
LEMMA ReceivedIsHead ==
    ASSUME NEW S, NEW seq \in Seq(S), seq # <<>>
    PROVE  /\ Tail(seq) \in Seq(S) /\ Len(Tail(seq)) = Len(seq) - 1 /\ Len(seq) \in Nat \ {0}
           /\ Head(seq) = seq[1] /\ 1 \in 1..Len(seq) /\ Head(seq) \in S
           /\ \A t : Has(seq, t) => t = Head(seq) \/ Has(Tail(seq), t)
           /\ \A k \in 1..Len(Tail(seq)) : k + 1 \in 1..Len(seq) /\ Tail(seq)[k] = seq[k + 1]
<1>1. /\ Tail(seq) \in Seq(S) /\ Len(Tail(seq)) = Len(seq) - 1 /\ Len(seq) \in Nat \ {0}
      /\ Head(seq) = seq[1] /\ 1 \in 1..Len(seq) /\ Head(seq) \in S
      /\ \A k \in 1..Len(Tail(seq)) : k + 1 \in 1..Len(seq) /\ Tail(seq)[k] = seq[k + 1]
  OBVIOUS
<1>2. ASSUME NEW k \in 1..Len(seq), k # 1 PROVE k - 1 \in 1..Len(Tail(seq)) /\ Tail(seq)[k - 1] = seq[k]
  BY <1>1, <1>2
<1> QED BY <1>1, <1>2 DEF Has

\* The pool starts empty.
LEMMA InitPool == Init => PoolInv
<1> SUFFICES ASSUME Init PROVE PoolInv
  OBVIOUS
<1> USE PoolAssumption DEF Init, NoTask
<1>1. /\ tasks \in Seq(Claims) /\ Len(tasks) <= Capacity
      /\ results \in Seq(Claims) /\ Len(results) <= Capacity
  BY CapacityIsPositive
<1>2. /\ wpc \in [Workers -> {"select", "handle", "send", "exited"}]
      /\ draining \in [Workers -> BOOLEAN]
      /\ wtask \in [Workers -> Claims \cup {NoTask}]
  OBVIOUS
<1>3. claimed \in 0..MaxClaims /\ dropped \subseteq Claims /\ consumed \subseteq Claims
  OBVIOUS
<1>4. TypeOK
  BY <1>1, <1>2, <1>3 DEF TypeOK
<1>5. Accounted /\ Numbered /\ Handshake
  BY DEF Accounted, Numbered, Handshake
<1> QED BY <1>4, <1>5 DEF PoolInv

\* A step of Run that moves it on and leaves the claims and the pool alone.
LEMMA RunMoves ==
    ASSUME PoolInv, NEW to, runner' = to,
           to \in {"loop", "claim", "closing", "joining", "returned"},
           runner # "submit", runner # "returned",
           to \in {"loop", "claim"} => runner \in {"loop", "claim"},
           to = "closing" => runner \in {"loop", "claim"},
           to \in {"joining", "returned"} => runner \in {"stopping", "joining"},
           to = "returned" => resultsDone,
           poolAlive' \in BOOLEAN,
           UNCHANGED <<ctxAlive, claimed, dropped, tasks, results, done, resultsClosed,
                       workerVars, consumed, resultsDone>>
    PROVE  PoolInv'
<1>1. TypeOK'
  BY DEF PoolInv, TypeOK, workerVars
<1>2. Accounted'
  BY DEF PoolInv, Accounted, UnderWay, Has, workerVars
<1>3. Numbered'
  BY DEF PoolInv, Numbered, workerVars
<1>4. Handshake'
  BY DEF PoolInv, Handshake, workerVars
<1> QED BY <1>1, <1>2, <1>3, <1>4 DEF PoolInv

\* Every step of Run keeps the invariant.
LEMMA RunKeeps == ASSUME PoolInv, RunStep PROVE PoolInv'
<1> USE DEF PoolInv
<1>1. CASE LoopTop \/ ClaimNothing
  BY <1>1, RunMoves DEF LoopTop, ClaimNothing, TypeOK
<1>2. CASE ShutdownReturns
  <2>1. poolAlive' \in BOOLEAN
    BY <1>2 DEF ShutdownReturns, TypeOK
  <2> QED BY <1>2, <2>1, RunMoves DEF ShutdownReturns
<1>3. CASE RunReturns
  BY <1>3, RunMoves DEF RunReturns, TypeOK
<1>4. CASE ClaimFound
  <2>1. TypeOK'
    BY <1>4, PoolAssumption DEF ClaimFound, TypeOK, workerVars
  <2>2. Accounted'
    <3> SUFFICES ASSUME NEW t \in 1..claimed'
                 PROVE  t \in consumed' \/ t \in dropped' \/ UnderWay(t)'
      BY DEF Accounted
    <3>1. t \in 1..claimed \/ t = claimed'
      BY <1>4 DEF ClaimFound, TypeOK
    <3> QED BY <1>4, <3>1 DEF ClaimFound, Accounted, UnderWay, Has, workerVars
  <2>3. Numbered'
    BY <1>4 DEF ClaimFound, Numbered, TypeOK, workerVars
  <2>4. Handshake'
    BY <1>4 DEF ClaimFound, Handshake, workerVars
  <2> QED BY <2>1, <2>2, <2>3, <2>4
<1>5. CASE SubmitSends
  <2>1. /\ runner = "submit" /\ Len(tasks) < Capacity /\ tasks' = Append(tasks, claimed)
        /\ runner' = "loop" /\ ~done /\ claimed \in Claims /\ tasks \in Seq(Claims)
        /\ UNCHANGED <<ctxAlive, claimed, dropped, results, done, resultsClosed, poolAlive,
                       workerVars, consumed, resultsDone>>
    BY <1>5 DEF SubmitSends, SubmitAccepts, TypeOK, Numbered, Handshake, Claims
  <2>2. /\ tasks' \in Seq(Claims) /\ Len(tasks') = Len(tasks) + 1
        /\ Has(tasks', claimed)
        /\ \A t : Has(tasks, t) => Has(tasks', t)
        /\ \A k \in 1..Len(tasks') :
                tasks'[k] = claimed \/ (k \in 1..Len(tasks) /\ tasks'[k] = tasks[k])
    BY <2>1, SentIsHeld
  <2>3. TypeOK'
    BY <2>1, <2>2, CapacityIsPositive DEF TypeOK, workerVars
  <2>4. Accounted'
    <3>1. \A t : UnderWay(t) => UnderWay(t)'
      BY <2>1, <2>2 DEF UnderWay, Has, workerVars
    <3> QED BY <2>1, <3>1 DEF Accounted
  <2>5. Numbered'
    BY <2>1, <2>2 DEF Numbered, TypeOK, workerVars
  <2>6. Handshake'
    BY <2>1 DEF Handshake, workerVars
  <2> QED BY <2>3, <2>4, <2>5, <2>6
<1>6. CASE SubmitCanceled
  <2>1. TypeOK'
    BY <1>6 DEF SubmitCanceled, TypeOK, Numbered, Claims, workerVars
  <2>2. Accounted'
    BY <1>6 DEF SubmitCanceled, Accounted, UnderWay, Has, workerVars
  <2>3. Numbered'
    BY <1>6 DEF SubmitCanceled, Numbered, workerVars
  <2>4. Handshake'
    BY <1>6 DEF SubmitCanceled, Handshake, workerVars
  <2> QED BY <2>1, <2>2, <2>3, <2>4
<1>7. CASE CloseDone
  <2>1. TypeOK'
    BY <1>7 DEF CloseDone, TypeOK, workerVars
  <2>2. Accounted'
    BY <1>7 DEF CloseDone, Accounted, UnderWay, Has, workerVars
  <2>3. Numbered'
    BY <1>7 DEF CloseDone, Numbered, workerVars
  <2>4. Handshake'
    BY <1>7 DEF CloseDone, Handshake, workerVars
  <2> QED BY <2>1, <2>2, <2>3, <2>4
<1> QED BY <1>1, <1>2, <1>3, <1>4, <1>5, <1>6, <1>7 DEF RunStep

\* A worker changes what it has and where it is, and nothing of the others.
LEMMA OneWorker ==
    ASSUME TypeOK, NEW w \in Workers, NEW pc, NEW t,
           wpc' = [wpc EXCEPT ![w] = pc], wtask' = [wtask EXCEPT ![w] = t]
    PROVE  /\ wpc'[w] = pc /\ wtask'[w] = t
           /\ \A v \in Workers : v # w => wpc'[v] = wpc[v] /\ wtask'[v] = wtask[v]
BY DEF TypeOK

\* Every step of a worker keeps the invariant.
LEMMA WorkerKeeps == ASSUME PoolInv, NEW w \in Workers, WorkerStep(w) PROVE PoolInv'
<1> USE DEF PoolInv
<1>1. CASE TakeTask(w)
  <2>1. /\ wpc[w] = "select" /\ wtask[w] = NoTask /\ tasks # <<>>
        /\ tasks' = Tail(tasks) /\ tasks \in Seq(Claims)
        /\ wtask' = [wtask EXCEPT ![w] = Head(tasks)] /\ wpc' = [wpc EXCEPT ![w] = "handle"]
        /\ UNCHANGED <<ctxAlive, runner, claimed, dropped, results, done, resultsClosed, poolAlive,
                       draining, consumed, resultsDone>>
    BY <1>1 DEF TakeTask, TypeOK, Handshake, runnerVars
  <2>2. /\ tasks' \in Seq(Claims) /\ Len(tasks') = Len(tasks) - 1 /\ Len(tasks) \in Nat \ {0}
        /\ Head(tasks) = tasks[1] /\ 1 \in 1..Len(tasks) /\ Head(tasks) \in Claims
        /\ \A t : Has(tasks, t) => t = Head(tasks) \/ Has(tasks', t)
        /\ \A k \in 1..Len(tasks') : k + 1 \in 1..Len(tasks) /\ tasks'[k] = tasks[k + 1]
    BY <2>1, ReceivedIsHead
  <2>3. /\ wpc'[w] = "handle" /\ wtask'[w] = Head(tasks)
        /\ \A v \in Workers : v # w => wpc'[v] = wpc[v] /\ wtask'[v] = wtask[v]
    BY <2>1, OneWorker
  <2>4. TypeOK'
    BY <2>1, <2>2, CapacityIsPositive DEF TypeOK
  <2>5. Accounted'
    <3> SUFFICES ASSUME NEW t \in 1..claimed, UnderWay(t) PROVE UnderWay(t)'
      BY <2>1 DEF Accounted
    <3>1. t # NoTask
      BY DEF NoTask
    <3> QED BY <2>1, <2>2, <2>3, <3>1 DEF UnderWay, Has
  <2>6. Numbered'
    BY <2>1, <2>2, <2>3 DEF Numbered, TypeOK
  <2>7. Handshake'
    <3>1. \A v \in Workers : wpc[v] # "exited"
      BY <2>1 DEF Handshake
    <3>2. Head(tasks) # NoTask
      BY <2>2 DEF Claims, NoTask
    <3>3. \A v \in Workers : wpc'[v] # "exited"
      BY <2>3, <3>1
    <3> QED BY <2>1, <2>3, <3>1, <3>2, <3>3 DEF Handshake
  <2> QED BY <2>4, <2>5, <2>6, <2>7
<1>2. CASE SendResult(w)
  <2>1. /\ wpc[w] = "send" /\ wtask[w] # NoTask /\ Len(results) < Capacity
        /\ results' = Append(results, wtask[w]) /\ results \in Seq(Claims) /\ wtask[w] \in Claims
        /\ wtask' = [wtask EXCEPT ![w] = NoTask] /\ wpc' = [wpc EXCEPT ![w] = "select"]
        /\ UNCHANGED <<ctxAlive, runner, claimed, dropped, tasks, done, resultsClosed, poolAlive,
                       draining, consumed, resultsDone>>
    BY <1>2 DEF SendResult, TypeOK, Handshake, runnerVars
  <2>2. /\ results' \in Seq(Claims) /\ Len(results') = Len(results) + 1
        /\ Has(results', wtask[w])
        /\ \A t : Has(results, t) => Has(results', t)
        /\ \A k \in 1..Len(results') :
              results'[k] = wtask[w] \/ (k \in 1..Len(results) /\ results'[k] = results[k])
    BY <2>1, SentIsHeld
  <2>3. /\ wpc'[w] = "select" /\ wtask'[w] = NoTask
        /\ \A v \in Workers : v # w => wpc'[v] = wpc[v] /\ wtask'[v] = wtask[v]
    BY <2>1, OneWorker
  <2>4. TypeOK'
    BY <2>1, <2>2, CapacityIsPositive DEF TypeOK
  <2>5. Accounted'
    <3> SUFFICES ASSUME NEW t \in 1..claimed, UnderWay(t) PROVE UnderWay(t)'
      BY <2>1 DEF Accounted
    <3> QED BY <2>1, <2>2, <2>3 DEF UnderWay, Has
  <2>6. Numbered'
    BY <2>1, <2>2, <2>3 DEF Numbered, TypeOK, NoTask
  <2>7. Handshake'
    BY <2>1, <2>3 DEF Handshake
  <2> QED BY <2>4, <2>5, <2>6, <2>7
<1>3. CASE SeeDone(w)
  <2>1. TypeOK'
    BY <1>3 DEF SeeDone, TypeOK, runnerVars
  <2>2. Accounted'
    BY <1>3 DEF SeeDone, Accounted, UnderWay, Has, runnerVars
  <2>3. Numbered'
    BY <1>3 DEF SeeDone, Numbered, runnerVars
  <2>4. Handshake'
    BY <1>3 DEF SeeDone, Handshake, runnerVars, TypeOK
  <2> QED BY <2>1, <2>2, <2>3, <2>4
<1>4. CASE Drained(w) \/ HandlerReturns(w)
  <2>1. PICK pc \in {"exited", "send"} :
          /\ wpc' = [wpc EXCEPT ![w] = pc]
          /\ pc = "exited" => wpc[w] = "select" /\ draining[w] /\ tasks = <<>>
          /\ pc = "send" => wpc[w] = "handle"
    BY <1>4 DEF Drained, HandlerReturns
  <2>2. UNCHANGED <<ctxAlive, runner, claimed, dropped, tasks, results, done, resultsClosed,
                    poolAlive, draining, wtask, consumed, resultsDone>>
    BY <1>4 DEF Drained, HandlerReturns, runnerVars
  <2>3. wpc'[w] = pc /\ \A v \in Workers : v # w => wpc'[v] = wpc[v]
    BY <2>1 DEF TypeOK
  <2>4. TypeOK'
    BY <2>1, <2>2 DEF TypeOK
  <2>5. Accounted'
    BY <2>2 DEF Accounted, UnderWay, Has
  <2>6. Numbered'
    BY <2>2 DEF Numbered
  <2>7. Handshake'
    BY <2>1, <2>2, <2>3 DEF Handshake
  <2> QED BY <2>4, <2>5, <2>6, <2>7
<1> QED BY <1>1, <1>2, <1>3, <1>4 DEF WorkerStep

\* Every step keeps the invariant.
LEMMA NextPool == PoolInv /\ [Next]_vars => PoolInv'
<1> SUFFICES ASSUME PoolInv, [Next]_vars PROVE PoolInv'
  OBVIOUS
<1>1. CASE Cancel
  BY <1>1 DEF Cancel, PoolInv, TypeOK, Accounted, UnderWay, Has, Numbered, Handshake, workerVars
<1>2. CASE CloseResults
  <2> USE DEF PoolInv
  <2>1. TypeOK' /\ Numbered'
    BY <1>2 DEF CloseResults, TypeOK, Numbered, runnerVars, workerVars
  <2>2. Accounted'
    BY <1>2 DEF CloseResults, Accounted, UnderWay, Has, runnerVars, workerVars
  <2>3. Handshake'
    BY <1>2 DEF CloseResults, Handshake, runnerVars, workerVars
  <2> QED BY <2>1, <2>2, <2>3
<1>3. CASE ReadResult
  <2> USE DEF PoolInv
  <2>1. /\ results # <<>> /\ ~resultsDone /\ results \in Seq(Claims)
        /\ consumed' = consumed \cup {Head(results)} /\ results' = Tail(results)
        /\ UNCHANGED <<ctxAlive, runner, claimed, dropped, tasks, done, resultsClosed, poolAlive,
                       wpc, draining, wtask, resultsDone>>
    BY <1>3 DEF ReadResult, TypeOK, runnerVars, workerVars
  <2>2. /\ results' \in Seq(Claims) /\ Len(results') = Len(results) - 1
        /\ Len(results) \in Nat \ {0}
        /\ Head(results) = results[1] /\ 1 \in 1..Len(results) /\ Head(results) \in Claims
        /\ \A t : Has(results, t) => t = Head(results) \/ Has(results', t)
        /\ \A k \in 1..Len(results') : k + 1 \in 1..Len(results) /\ results'[k] = results[k + 1]
    BY <2>1, ReceivedIsHead
  <2>3. TypeOK'
    BY <2>1, <2>2, CapacityIsPositive DEF TypeOK
  <2>4. Accounted'
    <3> SUFFICES ASSUME NEW t \in 1..claimed, UnderWay(t) PROVE t \in consumed' \/ UnderWay(t)'
      BY <2>1 DEF Accounted
    <3> QED BY <2>1, <2>2 DEF UnderWay, Has
  <2>5. Numbered'
    <3>1. Head(results) \in 1..claimed
      BY <2>2 DEF Numbered
    <3>2. \A k \in 1..Len(results') : results'[k] \in 1..claimed
      BY <2>2 DEF Numbered
    <3> QED BY <2>1, <3>1, <3>2 DEF Numbered
  <2>6. Handshake'
    BY <2>1 DEF Handshake
  <2> QED BY <2>3, <2>4, <2>5, <2>6
<1>4. CASE ResultsEnd
  BY <1>4 DEF ResultsEnd, PoolInv, TypeOK, Accounted, UnderWay, Has, Numbered, Handshake,
              runnerVars, workerVars
<1>5. CASE UNCHANGED vars
  BY <1>5 DEF vars, PoolInv, TypeOK, Accounted, UnderWay, Has, Numbered, Handshake
<1> QED BY <1>1, <1>2, <1>3, <1>4, <1>5, RunKeeps, WorkerKeeps DEF Next, Terminated

\* Every variable keeps its type and no channel exceeds its capacity.
THEOREM PoolTypeCorrect == Spec => []TypeOK
<1>1. PoolInv => TypeOK
  BY DEF PoolInv
<1> QED BY <1>1, InitPool, NextPool, PTL DEF Spec

\* Run returns with every claim finished, except the one whose Submit met the
\* cancellation (StepRunner.Run, Submit, drainTasks, Shutdown).
THEOREM NoClaimIsStranded == Spec => []NothingStranded
<1>1. ASSUME PoolInv, runner = "returned" PROVE consumed \cup dropped = 1..claimed
  <2>1. /\ results = <<>> /\ tasks = <<>> /\ \A w \in Workers : wtask[w] = NoTask
    BY <1>1, PoolAssumption DEF PoolInv, Handshake
  <2>2. \A t \in 1..claimed : ~UnderWay(t)
    BY <1>1, <2>1 DEF UnderWay, Has, NoTask
  <2>3. 1..claimed \subseteq consumed \cup dropped
    BY <1>1, <2>2 DEF PoolInv, Accounted
  <2>4. consumed \cup dropped \subseteq 1..claimed
    BY <1>1 DEF PoolInv, Numbered, TypeOK
  <2> QED BY <2>3, <2>4
<1>2. ASSUME PoolInv PROVE Cardinality(dropped) <= 1
  <2>1. CASE dropped = {}
    BY <2>1, FS_EmptySet
  <2>2. CASE dropped = {claimed}
    <3>1. Cardinality({claimed}) = 1
      BY FS_Singleton, Zenon
    <3> QED BY <2>2, <3>1
  <2> QED BY <1>2, <2>1, <2>2 DEF PoolInv, Numbered
<1>3. PoolInv => NothingStranded
  BY <1>1, <1>2 DEF NothingStranded
<1> QED BY <1>3, InitPool, NextPool, PTL DEF Spec

\* p.results is closed after the last worker has left, with nothing in hand:
\* no worker can send on the closed channel (Shutdown's goroutine, worker).
THEOREM ResultsStayOpen == Spec => []NoSendOnClosedResults
<1>1. PoolInv => NoSendOnClosedResults
  BY DEF PoolInv, Handshake, NoSendOnClosedResults
<1> QED BY <1>1, InitPool, NextPool, PTL DEF Spec
=============================================================================
