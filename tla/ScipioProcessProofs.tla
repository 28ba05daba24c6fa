------------------------- MODULE ScipioProcessProofs -------------------------
(***************************************************************************)
(* The order of a stop, for any number of calls and workers.               *)
(***************************************************************************)
EXTENDS ScipioProcess, TLAPS

Stopped == {"closeRedis", "closePostgres", "exited"}

\* What run() has done when it is where it is: the servers and the runner are
\* stopped in turn, and nobody starts work that somebody has waited for.
StopOrder ==
    /\ main \in {"starting", "serving", "stopGrpc", "stopHttp"} => runner = "running"
    /\ main \in {"stopRunner"} \cup Stopped => runner # "running"
    /\ grpc = "open" => main = "serving"
    /\ http = "open" => main \in {"serving", "stopGrpc"}
    /\ main \in {"stopHttp", "stopRunner"} \cup Stopped /\ ~late /\ ~early => Idle(GrpcCalls)
    /\ main \in {"stopRunner"} \cup Stopped /\ ~late /\ ~early => Idle(HttpCalls)
    /\ main \in Stopped /\ ~late /\ ~early => runner = "done"
    /\ runner = "done" => Idle(Workers)
    /\ redis <=> main \notin {"closePostgres", "exited"}

ProcessInv == TypeOK /\ StopOrder /\ StopReleasesLocks

\* A task that is not of a set leaves the set idle.
LEMMA OtherTask ==
    ASSUME TypeOK, NEW t \in Tasks, NEW to, task' = [task EXCEPT ![t] = to],
           NEW ts \in SUBSET Tasks, Idle(ts), to = "idle" \/ t \notin ts
    PROVE  Idle(ts)'
BY DEF Idle, TypeOK

\* The process starts with nothing running.
LEMMA InitProcess == Init => ProcessInv
BY DEF Init, ProcessInv, TypeOK, StopOrder, StopReleasesLocks, Stopped, Idle

\* Every step keeps the order of the stop.
LEMMA NextProcess == ProcessInv /\ [Next]_vars => ProcessInv'
<1> SUFFICES ASSUME ProcessInv, [Next]_vars PROVE ProcessInv'
  OBVIOUS
<1> USE DEF Stopped
<1>0. /\ TypeOK /\ StopOrder /\ StopReleasesLocks
      /\ GrpcCalls \in SUBSET Tasks /\ HttpCalls \in SUBSET Tasks /\ Workers \in SUBSET Tasks
  BY DEF ProcessInv, Tasks
<1>1. ASSUME NEW t \in Tasks, TaskStep(t) PROVE ProcessInv'
  <2>1. PICK to \in {"idle", "locked", "store"} : task' = [task EXCEPT ![t] = to]
    BY <1>1 DEF TaskStep, Begin, UseStore, LeaveStore, End
  <2>2. /\ main # "exited"
        /\ UNCHANGED <<main, grpc, http, runner, redis, late, early>>
        /\ task[t] = "idle" => Admitted(t)
        /\ lockLeft' \in BOOLEAN /\ (lockLeft' => lockLeft \/ ~redis)
        /\ lockLeft' # lockLeft => task[t] # "idle"
    <3>1. CASE Begin(t) \/ UseStore(t) \/ LeaveStore(t)
      BY <1>0, <3>1 DEF Begin, UseStore, LeaveStore, TypeOK
    <3>2. CASE End(t)
      BY <1>0, <3>2 DEF End, TypeOK
    <3> QED BY <1>1, <3>1, <3>2 DEF TaskStep
  <2>3. TypeOK'
    BY <1>0, <2>1, <2>2 DEF TypeOK
  <2>4. ASSUME NEW ts \in SUBSET Tasks, Idle(ts), task[t] = "idle" => t \notin ts PROVE Idle(ts)'
    BY <1>0, <2>1, <2>4, OtherTask DEF Idle
  <2>5. ASSUME Idle(GrpcCalls), grpc # "open" PROVE Idle(GrpcCalls)'
    BY <1>0, <2>2, <2>4, <2>5, TasksAssumption DEF Admitted
  <2>6. ASSUME Idle(HttpCalls), http # "open" PROVE Idle(HttpCalls)'
    BY <1>0, <2>2, <2>4, <2>6, TasksAssumption DEF Admitted
  <2>7. ASSUME Idle(Workers), runner = "done" PROVE Idle(Workers)'
    BY <1>0, <2>2, <2>4, <2>7, TasksAssumption DEF Admitted
  <2>8. StopOrder'
    BY <1>0, <2>2, <2>5, <2>6, <2>7 DEF StopOrder
  <2>9. StopReleasesLocks'
    <3>1. CASE lockLeft' = lockLeft
      BY <1>0, <2>2, <3>1 DEF StopReleasesLocks
    <3>2. CASE lockLeft' # lockLeft
      BY <1>0, <2>2, <3>2 DEF StopReleasesLocks, StopOrder, Idle, Tasks
    <3> QED BY <3>1, <3>2
  <2> QED BY <2>3, <2>8, <2>9 DEF ProcessInv
<1>2. CASE RunReturns
  BY <1>0, <1>2 DEF RunReturns, ProcessInv, TypeOK, StopOrder, StopReleasesLocks, Idle
<1>3. ASSUME task' = task PROVE \A ts : Idle(ts)' <=> Idle(ts)
  BY <1>3 DEF Idle
<1>4. CASE Serve
  <2>1. \A ts : Idle(ts)' <=> Idle(ts)
    BY <1>3, <1>4 DEF Serve
  <2> QED
    BY <1>0, <1>4, <2>1 DEF Serve, Go, ProcessInv, TypeOK, StopOrder, StopReleasesLocks
<1>5. CASE ListenFails
  <2>1. \A ts : Idle(ts)' <=> Idle(ts)
    BY <1>3, <1>5 DEF ListenFails
  <2> QED
    BY <1>0, <1>5, <2>1 DEF ListenFails, Go, ProcessInv, TypeOK, StopOrder, StopReleasesLocks
<1>6. CASE StopRequested
  <2>1. \A ts : Idle(ts)' <=> Idle(ts)
    BY <1>3, <1>6 DEF StopRequested
  <2> QED
    BY <1>0, <1>6, <2>1 DEF StopRequested, Go, ProcessInv, TypeOK, StopOrder, StopReleasesLocks
<1>7. CASE GrpcStops
  <2>1. \A ts : Idle(ts)' <=> Idle(ts)
    BY <1>3, <1>7 DEF GrpcStops
  <2> QED
    BY <1>0, <1>7, <2>1 DEF GrpcStops, Go, ProcessInv, TypeOK, StopOrder, StopReleasesLocks
<1>8. CASE HttpStops
  <2>1. \A ts : Idle(ts)' <=> Idle(ts)
    BY <1>3, <1>8 DEF HttpStops
  <2> QED
    BY <1>0, <1>8, <2>1 DEF HttpStops, Go, ProcessInv, TypeOK, StopOrder, StopReleasesLocks
<1>9. CASE RunnerStops
  <2>1. \A ts : Idle(ts)' <=> Idle(ts)
    BY <1>3, <1>9 DEF RunnerStops
  <2> QED
    BY <1>0, <1>9, <2>1 DEF RunnerStops, Go, ProcessInv, TypeOK, StopOrder, StopReleasesLocks
<1>10. CASE CloseRedis
  <2>1. \A ts : Idle(ts)' <=> Idle(ts)
    BY <1>3, <1>10 DEF CloseRedis
  <2> QED
    BY <1>0, <1>10, <2>1 DEF CloseRedis, Go, ProcessInv, TypeOK, StopOrder, StopReleasesLocks
<1>11. CASE ClosePostgres
  <2>1. TypeOK' /\ StopOrder'
    BY <1>0, <1>11 DEF ClosePostgres, Go, TypeOK, StopOrder, Idle, Tasks
  <2>2. StopReleasesLocks'
    BY <1>0, <1>11 DEF ClosePostgres, Go, StopReleasesLocks, StopOrder, Idle, Tasks
  <2> QED BY <2>1, <2>2 DEF ProcessInv
<1>12. CASE UNCHANGED vars
  BY <1>0, <1>12 DEF vars, ProcessInv, TypeOK, StopOrder, StopReleasesLocks, Idle
<1> QED
  BY <1>1, <1>2, <1>4, <1>5, <1>6, <1>7, <1>8, <1>9, <1>10, <1>11, <1>12
  DEF Next, ShutdownStep

\* Every variable keeps its type, and a process exits with Redis closed, its
\* runner cancelled and nothing left running (run, shutdownRuntime).
THEOREM ProcessTypeCorrect == Spec => []TypeOK
<1>1. ProcessInv => TypeOK
  BY DEF ProcessInv
<1> QED BY <1>1, InitProcess, NextProcess, PTL DEF Spec

\* shutdownRuntime cancels the runner only after the last call of either
\* interface, unless a wait timed out or run never served.
THEOREM IngressEndsFirst == Spec => []IngressEndsBeforeRunner
<1>1. ProcessInv => IngressEndsBeforeRunner
  BY DEF ProcessInv, TypeOK, StopOrder, IngressEndsBeforeRunner, Idle, Stopped
<1> QED BY <1>1, InitProcess, NextProcess, PTL DEF Spec

\* Redis is closed when every task has released its lock, unless a wait timed
\* out or run never served (the order of run's deferred calls).
THEOREM LocksAreReleased == Spec => []StopReleasesLocks
<1>1. ProcessInv => StopReleasesLocks
  BY DEF ProcessInv
<1> QED BY <1>1, InitProcess, NextProcess, PTL DEF Spec
=============================================================================
