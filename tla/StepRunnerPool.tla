--------------------------- MODULE StepRunnerPool ---------------------------
(***************************************************************************)
(* One instance's claiming loop and its worker pool: StepRunner.Run, the   *)
(* goroutines of pkg/workerpool, the goroutine that reads the results, and *)
(* a graceful stop.  SagaRunner abstracts all of this to one queue per     *)
(* instance; here the channels, the select statements and the shutdown     *)
(* handshake are modelled, and what the handler does with a claimed step   *)
(* is left out.                                                            *)
(***************************************************************************)
EXTENDS Naturals, Sequences, FiniteSets

CONSTANTS
    Workers,    \* goroutines of the pool
    MaxClaims   \* bound on the steps the store has to claim

Claims == 1..MaxClaims
NoTask == 0

ASSUME PoolAssumption ==
    /\ IsFiniteSet(Workers)
    /\ Workers # {}
    /\ MaxClaims \in Nat

VARIABLES
    ctxAlive,       \* the context given to Run is not cancelled
    runner,         \* where Run is
    claimed,        \* number of steps claimed so far; they are numbered
    dropped,        \* claims whose Submit failed
    tasks,          \* channel p.tasks
    results,        \* channel p.results
    done,           \* channel p.done is closed
    resultsClosed,  \* p.results is closed (and p.stopped after it)
    poolAlive,      \* p.ctx, which the handlers get, is not cancelled
    wpc,            \* where each worker is
    draining,       \* the worker has seen p.done
    wtask,          \* the task the worker has
    consumed,       \* tasks whose result was read
    resultsDone     \* channel resultsDone is closed

runnerVars == <<ctxAlive, runner, claimed, dropped>>
workerVars == <<wpc, draining, wtask>>
vars == <<ctxAlive, runner, claimed, dropped, tasks, results, done, resultsClosed,
          poolAlive, wpc, draining, wtask, consumed, resultsDone>>

\* make(chan T, workers), for tasks and for results.
Capacity == Cardinality(Workers)

Init ==
    /\ ctxAlive = TRUE
    /\ runner = "loop"
    /\ claimed = 0
    /\ dropped = {}
    /\ tasks = <<>>
    /\ results = <<>>
    /\ done = FALSE
    /\ resultsClosed = FALSE
    /\ poolAlive = TRUE
    /\ wpc = [w \in Workers |-> "select"]
    /\ draining = [w \in Workers |-> FALSE]
    /\ wtask = [w \in Workers |-> NoTask]
    /\ consumed = {}
    /\ resultsDone = FALSE

-----------------------------------------------------------------------------
(* StepRunner.Run *)

\* The process is asked to stop; runnerCancel.
Cancel ==
    /\ ctxAlive
    /\ ctxAlive' = FALSE
    /\ UNCHANGED <<runner, claimed, dropped, tasks, results, done, resultsClosed, poolAlive,
                   workerVars, consumed, resultsDone>>

\* The top of the loop: leave, or claim.
LoopTop ==
    /\ runner = "loop"
    /\ runner' = IF ctxAlive THEN "claim" ELSE "closing"
    /\ UNCHANGED <<ctxAlive, claimed, dropped, tasks, results, done, resultsClosed, poolAlive,
                   workerVars, consumed, resultsDone>>

\* ClaimNextStep finds a step, possibly just as the context is cancelled.
ClaimFound ==
    /\ runner = "claim"
    /\ claimed < MaxClaims
    /\ claimed' = claimed + 1
    /\ runner' = "submit"
    /\ UNCHANGED <<ctxAlive, dropped, tasks, results, done, resultsClosed, poolAlive,
                   workerVars, consumed, resultsDone>>

\* ClaimNextStep finds nothing or fails: wait for the next tick, or leave
\* when the context is cancelled.
ClaimNothing ==
    /\ runner = "claim"
    /\ runner' = IF ctxAlive THEN "loop" ELSE "closing"
    /\ UNCHANGED <<ctxAlive, claimed, dropped, tasks, results, done, resultsClosed, poolAlive,
                   workerVars, consumed, resultsDone>>

SubmitAccepts ==
    /\ runner = "submit"
    /\ tasks' = Append(tasks, claimed)
    /\ runner' = "loop"
    /\ UNCHANGED <<ctxAlive, claimed, dropped, results, done, resultsClosed, poolAlive,
                   workerVars, consumed, resultsDone>>

\* Submit's select finds room in the channel, also after a cancellation.
SubmitSends == Len(tasks) < Capacity /\ SubmitAccepts

\* Submit's select finds the context cancelled: the claim is dropped, its
\* step stays claimed in the store until it is stale.
SubmitCanceled ==
    /\ runner = "submit"
    /\ ~ctxAlive
    /\ dropped' = dropped \cup {claimed}
    /\ runner' = "closing"
    /\ UNCHANGED <<ctxAlive, claimed, tasks, results, done, resultsClosed, poolAlive,
                   workerVars, consumed, resultsDone>>

\* The deferred Shutdown closes p.done.
CloseDone ==
    /\ runner = "closing"
    /\ done' = TRUE
    /\ runner' = "stopping"
    /\ UNCHANGED <<ctxAlive, claimed, dropped, tasks, results, resultsClosed, poolAlive,
                   workerVars, consumed, resultsDone>>

\* A faulty Shutdown that lets the handlers run on at its deadline.
ShutdownLeavesContext ==
    /\ runner = "stopping"
    /\ runner' = "joining"
    /\ UNCHANGED <<ctxAlive, claimed, dropped, tasks, results, done, resultsClosed, poolAlive,
                   workerVars, consumed, resultsDone>>

\* Shutdown returns: the pool has stopped, or the deadline of a second passes
\* and p.ctx is cancelled.
ShutdownReturns ==
    /\ runner = "stopping"
    /\ \/ resultsClosed /\ poolAlive' = poolAlive
       \/ poolAlive' = FALSE
    /\ runner' = "joining"
    /\ UNCHANGED <<ctxAlive, claimed, dropped, tasks, results, done, resultsClosed,
                   workerVars, consumed, resultsDone>>

\* <-resultsDone, then Run returns.
RunReturns ==
    /\ runner = "joining"
    /\ resultsDone
    /\ runner' = "returned"
    /\ UNCHANGED <<ctxAlive, claimed, dropped, tasks, results, done, resultsClosed, poolAlive,
                   workerVars, consumed, resultsDone>>

-----------------------------------------------------------------------------
(* The pool *)

\* A worker receives a task, in its own select or while it drains.
TakeTask(w) ==
    /\ wpc[w] = "select"
    /\ tasks # <<>>
    /\ tasks' = Tail(tasks)
    /\ wtask' = [wtask EXCEPT ![w] = Head(tasks)]
    /\ wpc' = [wpc EXCEPT ![w] = "handle"]
    /\ UNCHANGED <<runnerVars, results, done, resultsClosed, poolAlive, draining, consumed,
                   resultsDone>>

\* A faulty worker that leaves on p.done without draining.
SeeDoneAndLeave(w) ==
    /\ wpc[w] = "select"
    /\ ~draining[w]
    /\ done
    /\ wpc' = [wpc EXCEPT ![w] = "exited"]
    /\ UNCHANGED <<runnerVars, tasks, results, done, resultsClosed, poolAlive, draining, wtask,
                   consumed, resultsDone>>

\* The worker's select sees p.done, also when there are tasks.
SeeDone(w) ==
    /\ wpc[w] = "select"
    /\ ~draining[w]
    /\ done
    /\ draining' = [draining EXCEPT ![w] = TRUE]
    /\ UNCHANGED <<runnerVars, tasks, results, done, resultsClosed, poolAlive, wpc, wtask,
                   consumed, resultsDone>>

\* drainTasks finds the channel empty.
Drained(w) ==
    /\ wpc[w] = "select"
    /\ draining[w]
    /\ tasks = <<>>
    /\ wpc' = [wpc EXCEPT ![w] = "exited"]
    /\ UNCHANGED <<runnerVars, tasks, results, done, resultsClosed, poolAlive, draining, wtask,
                   consumed, resultsDone>>

\* The handler returns or panics; handleTask makes a result of either.
HandlerReturns(w) ==
    /\ wpc[w] = "handle"
    /\ wpc' = [wpc EXCEPT ![w] = "send"]
    /\ UNCHANGED <<runnerVars, tasks, results, done, resultsClosed, poolAlive, draining, wtask,
                   consumed, resultsDone>>

\* p.results <- result, which blocks while the channel is full.
SendResult(w) ==
    /\ wpc[w] = "send"
    /\ Len(results) < Capacity
    /\ results' = Append(results, wtask[w])
    /\ wtask' = [wtask EXCEPT ![w] = NoTask]
    /\ wpc' = [wpc EXCEPT ![w] = "select"]
    /\ UNCHANGED <<runnerVars, tasks, done, resultsClosed, poolAlive, draining, consumed,
                   resultsDone>>

\* A faulty closer that does not wait for the workers.
CloseResultsAtOnce ==
    /\ done
    /\ ~resultsClosed
    /\ resultsClosed' = TRUE
    /\ poolAlive' = FALSE
    /\ UNCHANGED <<runnerVars, tasks, results, done, workerVars, consumed, resultsDone>>

\* The goroutine started by Shutdown: all workers are done, close p.results,
\* cancel p.ctx, close p.stopped.
CloseResults ==
    /\ done
    /\ ~resultsClosed
    /\ \A w \in Workers : wpc[w] = "exited"
    /\ resultsClosed' = TRUE
    /\ poolAlive' = FALSE
    /\ UNCHANGED <<runnerVars, tasks, results, done, workerVars, consumed, resultsDone>>

\* Run's goroutine ranges over Results().
ReadResult ==
    /\ results # <<>>
    /\ ~resultsDone
    /\ consumed' = consumed \cup {Head(results)}
    /\ results' = Tail(results)
    /\ UNCHANGED <<runnerVars, tasks, done, resultsClosed, poolAlive, workerVars, resultsDone>>

ResultsEnd ==
    /\ results = <<>>
    /\ resultsClosed
    /\ ~resultsDone
    /\ resultsDone' = TRUE
    /\ UNCHANGED <<runnerVars, tasks, results, done, resultsClosed, poolAlive, workerVars, consumed>>

-----------------------------------------------------------------------------

RunStep ==
    \/ LoopTop \/ ClaimFound \/ ClaimNothing \/ SubmitSends \/ SubmitCanceled
    \/ CloseDone \/ ShutdownReturns \/ RunReturns

WorkerStep(w) ==
    TakeTask(w) \/ SeeDone(w) \/ Drained(w) \/ HandlerReturns(w) \/ SendResult(w)

\* Run has returned: the process ends.
Terminated == runner = "returned" /\ UNCHANGED vars

Next ==
    \/ Cancel
    \/ RunStep
    \/ \E w \in Workers : WorkerStep(w)
    \/ CloseResults
    \/ ReadResult
    \/ ResultsEnd
    \/ Terminated

Spec == Init /\ [][Next]_vars

\* Goroutines that can run do run, and Shutdown returns by its deadline.  A
\* handler is only sure to return once its context is cancelled: a statement
\* of the store has no deadline of its own.  Nothing obliges anyone to stop
\* the process.
LiveSpec ==
    /\ Spec
    /\ WF_vars(RunStep)
    /\ \A w \in Workers :
        /\ WF_vars(TakeTask(w) \/ SeeDone(w) \/ Drained(w) \/ SendResult(w))
        /\ WF_vars(~poolAlive /\ HandlerReturns(w))
    /\ WF_vars(CloseResults)
    /\ WF_vars(ReadResult)
    /\ WF_vars(ResultsEnd)

-----------------------------------------------------------------------------
(* Properties *)

\* Every variable has its type and the channels keep their capacity.
TypeOK ==
    /\ ctxAlive \in BOOLEAN /\ done \in BOOLEAN /\ resultsClosed \in BOOLEAN
    /\ poolAlive \in BOOLEAN /\ resultsDone \in BOOLEAN
    /\ runner \in {"loop", "claim", "submit", "closing", "stopping", "joining", "returned"}
    /\ claimed \in 0..MaxClaims
    /\ dropped \subseteq Claims /\ consumed \subseteq Claims
    /\ tasks \in Seq(Claims) /\ Len(tasks) <= Capacity
    /\ results \in Seq(Claims) /\ Len(results) <= Capacity
    /\ wpc \in [Workers -> {"select", "handle", "send", "exited"}]
    /\ draining \in [Workers -> BOOLEAN]
    /\ wtask \in [Workers -> Claims \cup {NoTask}]

\* When Run returns, every step it claimed was handled to the end and its
\* result read, except the one whose Submit met the cancellation: neither the
\* random choice of the workers' selects, nor the drain, nor Shutdown's
\* deadline, nor the order of the two deferred waits strands a claim.
NothingStranded ==
    runner = "returned" =>
        /\ consumed \cup dropped = 1..claimed
        /\ Cardinality(dropped) <= 1

\* p.results is never closed while a worker may still send to it, which would
\* panic the process (Shutdown's goroutine waits for the wait group).
NoSendOnClosedResults ==
    resultsClosed => \A w \in Workers : wpc[w] = "exited" /\ wtask[w] = NoTask

\* A cancelled Run returns, although its handlers may be stuck until their
\* context is cancelled, and although Run, the workers, the goroutine that
\* closes p.results and the one that reads it wait for each other.
RunEnds == ~ctxAlive ~> runner = "returned"
=============================================================================
