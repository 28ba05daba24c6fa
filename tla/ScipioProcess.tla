---------------------------- MODULE ScipioProcess ----------------------------
(***************************************************************************)
(* Start and stop of one scipio process (cmd/scipio/main.go): main opens   *)
(* Postgres and Redis, starts the step runner, listens, serves, and on a   *)
(* signal or a server error stops gRPC, HTTP and the runner one after the  *)
(* other, each for a limited time, before the deferred calls close Redis   *)
(* and Postgres and the process exits.                                     *)
(*                                                                         *)
(* A task is a gRPC call, an HTTP call or a worker's claimed step.  What   *)
(* it does is seen from the resources it needs: the saga's lock in Redis   *)
(* from its start to its end, and now and then a Postgres connection.      *)
(***************************************************************************)
CONSTANTS GrpcCalls, HttpCalls, Workers

Tasks == GrpcCalls \cup HttpCalls \cup Workers

\* A task is of one kind.
ASSUME TasksAssumption ==
    /\ GrpcCalls \cap HttpCalls = {}
    /\ GrpcCalls \cap Workers = {}
    /\ HttpCalls \cap Workers = {}

VARIABLES
    main,       \* where run() is
    grpc,       \* the gRPC server: closed, open, draining (GracefulStop) or stopped
    http,       \* the HTTP server: likewise
    runner,     \* the step runner: running, canceled (runnerCancel) or done (runnerDone)
    redis,      \* the connections are usable
    task,       \* of each task: idle, locked, or holding a Postgres connection
    late,       \* history: a wait of shutdownRuntimeWithTimeouts has timed out
    early,      \* history: run returned before it served
    lockLeft    \* history: a task has left its saga locked, until the key expires

vars == <<main, grpc, http, runner, redis, task, late, early, lockLeft>>

Init ==
    /\ main = "starting"
    /\ grpc = "closed"
    /\ http = "closed"
    /\ runner = "running"
    /\ redis = TRUE
    /\ task = [t \in Tasks |-> "idle"]
    /\ late = FALSE
    /\ early = FALSE
    /\ lockLeft = FALSE

Idle(ts) == \A t \in ts : task[t] = "idle"

Go(to) == main' = to

-----------------------------------------------------------------------------
(* Tasks *)

\* A draining server accepts no new calls; the pool works off its channel
\* also after runnerCancel.
Admitted(t) ==
    \/ t \in GrpcCalls /\ grpc = "open"
    \/ t \in HttpCalls /\ http = "open"
    \/ t \in Workers /\ runner # "done"

\* withSagaLock; with Redis closed Acquire fails at once.
Begin(t) ==
    /\ main # "exited"
    /\ task[t] = "idle"
    /\ Admitted(t)
    /\ redis
    /\ task' = [task EXCEPT ![t] = "locked"]
    /\ UNCHANGED <<main, grpc, http, runner, redis, late, early, lockLeft>>

\* A store operation takes a connection from the pool, unless that is closed.
UseStore(t) ==
    /\ main \notin {"closePostgres", "exited"}
    /\ task[t] = "locked"
    /\ task' = [task EXCEPT ![t] = "store"]
    /\ UNCHANGED <<main, grpc, http, runner, redis, late, early, lockLeft>>

LeaveStore(t) ==
    /\ main # "exited"
    /\ task[t] = "store"
    /\ task' = [task EXCEPT ![t] = "locked"]
    /\ UNCHANGED <<main, grpc, http, runner, redis, late, early, lockLeft>>

\* The deferred Release, which needs Redis.
End(t) ==
    /\ main # "exited"
    /\ task[t] = "locked"
    /\ task' = [task EXCEPT ![t] = "idle"]
    /\ lockLeft' = (lockLeft \/ ~redis)
    /\ UNCHANGED <<main, grpc, http, runner, redis, late, early>>

\* A faulty Run that does not wait for the pool's results to end.
RunReturnsAtOnce ==
    /\ runner = "canceled"
    /\ main # "exited"
    /\ runner' = "done"
    /\ UNCHANGED <<main, grpc, http, redis, task, late, early, lockLeft>>

\* StepRunner.Run returns when every worker of its pool has ended, see
\* StepRunnerPool.
RunReturns ==
    /\ runner = "canceled"
    /\ Idle(Workers)
    /\ main # "exited"
    /\ runner' = "done"
    /\ UNCHANGED <<main, grpc, http, redis, task, late, early, lockLeft>>

-----------------------------------------------------------------------------
(* main *)

Serve ==
    /\ main = "starting"
    /\ Go("serving")
    /\ grpc' = "open"
    /\ http' = "open"
    /\ UNCHANGED <<runner, redis, task, late, early, lockLeft>>

\* net.Listen or Handler() fails: run returns, and the deferred calls cancel
\* the runner but do not wait for it.
ListenFails ==
    /\ main = "starting"
    /\ Go("closeRedis")
    /\ runner' = "canceled"
    /\ early' = TRUE
    /\ UNCHANGED <<grpc, http, redis, task, late, lockLeft>>

\* A signal, or one of the servers exits.
StopRequested ==
    /\ main = "serving"
    /\ Go("stopGrpc")
    /\ grpc' = "draining"
    /\ UNCHANGED <<http, runner, redis, task, late, early, lockLeft>>

\* GracefulStop returns when no call is left; after grpcTimeout Stop cuts the
\* calls' connections without waiting for them.
GrpcStops ==
    /\ main = "stopGrpc"
    /\ \/ Idle(GrpcCalls) /\ UNCHANGED late
       \/ late' = TRUE
    /\ Go("stopHttp")
    /\ grpc' = "stopped"
    /\ http' = "draining"
    /\ UNCHANGED <<runner, redis, task, early, lockLeft>>

\* A faulty shutdown that does not wait for the HTTP calls.
HttpCloses ==
    /\ main = "stopHttp"
    /\ Go("stopRunner")
    /\ http' = "stopped"
    /\ runner' = "canceled"
    /\ UNCHANGED <<grpc, redis, task, late, early, lockLeft>>

\* Shutdown returns when no call is left, or with an error after httpTimeout;
\* then runnerCancel.
HttpStops ==
    /\ main = "stopHttp"
    /\ \/ Idle(HttpCalls) /\ UNCHANGED late
       \/ late' = TRUE
    /\ Go("stopRunner")
    /\ http' = "stopped"
    /\ runner' = "canceled"
    /\ UNCHANGED <<grpc, redis, task, early, lockLeft>>

\* A faulty shutdown that waits for the runner as long as it takes.
RunnerStopsInTheEnd ==
    /\ main = "stopRunner"
    /\ runner = "done"
    /\ Go("closeRedis")
    /\ UNCHANGED <<grpc, http, runner, redis, task, late, early, lockLeft>>

\* <-runnerDone, or runnerTimeout.
RunnerStops ==
    /\ main = "stopRunner"
    /\ \/ runner = "done" /\ UNCHANGED late
       \/ late' = TRUE
    /\ Go("closeRedis")
    /\ UNCHANGED <<grpc, http, runner, redis, task, early, lockLeft>>

\* A faulty run without the deferred Close of the locker.
CloseRedisForgotten ==
    /\ main = "closeRedis"
    /\ Go("closePostgres")
    /\ UNCHANGED <<grpc, http, runner, redis, task, late, early, lockLeft>>

\* The deferred calls, last one first.
CloseRedis ==
    /\ main = "closeRedis"
    /\ Go("closePostgres")
    /\ redis' = FALSE
    /\ UNCHANGED <<grpc, http, runner, task, late, early, lockLeft>>

\* The pool's Close waits for the connections that are in use.  Then the
\* process exits, with every task that still runs.
ClosePostgres ==
    /\ main = "closePostgres"
    /\ \A t \in Tasks : task[t] # "store"
    /\ Go("exited")
    /\ task' = [t \in Tasks |-> "idle"]
    /\ lockLeft' = (lockLeft \/ \E t \in Tasks : task[t] = "locked")
    /\ UNCHANGED <<grpc, http, runner, redis, late, early>>

-----------------------------------------------------------------------------

TaskStep(t) == Begin(t) \/ UseStore(t) \/ LeaveStore(t) \/ End(t)

ShutdownStep == GrpcStops \/ HttpStops \/ RunnerStops \/ CloseRedis \/ ClosePostgres

Next ==
    \/ Serve \/ ListenFails \/ StopRequested \/ ShutdownStep \/ RunReturns
    \/ \E t \in Tasks : TaskStep(t)

Spec == Init /\ [][Next]_vars

\* The timeouts fire.  That a store operation ends is an assumption on Postgres
\* and the network: pgxpool.Close waits for it without a limit.  A call, a dispatch or the
\* runner may take for ever.
Fairness ==
    /\ WF_vars(ShutdownStep)
    /\ \A t \in Tasks : WF_vars(LeaveStore(t))

LiveSpec == Spec /\ Fairness

-----------------------------------------------------------------------------
(* Properties *)

\* Every variable has its type, and a process exits with its connections to
\* Redis closed, its runner cancelled and nothing left running.
TypeOK ==
    /\ main \in {"starting", "serving", "stopGrpc", "stopHttp", "stopRunner",
                 "closeRedis", "closePostgres", "exited"}
    /\ grpc \in {"closed", "open", "draining", "stopped"}
    /\ http \in {"closed", "open", "draining", "stopped"}
    /\ runner \in {"running", "canceled", "done"}
    /\ redis \in BOOLEAN
    /\ task \in [Tasks -> {"idle", "locked", "store"}]
    /\ late \in BOOLEAN
    /\ early \in BOOLEAN
    /\ lockLeft \in BOOLEAN
    /\ main = "exited" => Idle(Tasks) /\ ~redis /\ runner # "running"

\* shutdownRuntime cancels the runner after the last call of both interfaces
\* has ended, unless it had to give up on one.
IngressEndsBeforeRunner ==
    runner # "running" /\ ~late /\ ~early => Idle(GrpcCalls \cup HttpCalls)

\* A stop leaves no saga locked: Redis is closed when every task has released
\* its lock, unless a wait timed out or run returned before it served.
StopReleasesLocks == lockLeft => late \/ early

\* Once the stop has begun the process exits, whatever its calls and its
\* workers do: every wait is limited, and closing Postgres waits for store
\* operations only.
ProcessExits == main \notin {"starting", "serving"} ~> main = "exited"
=============================================================================
