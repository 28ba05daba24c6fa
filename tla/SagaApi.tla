------------------------------- MODULE SagaApi -------------------------------
(***************************************************************************)
(* What a client of the HTTP and gRPC interfaces learns from the answers   *)
(* to StartSaga, GetSaga and CancelSaga when answers get lost, the store   *)
(* fails before or after a commit, the saga's lock is busy or is lost in   *)
(* the middle, and the client tries again.                                 *)
(*                                                                         *)
(* A call is one request; a retry is another call with the same            *)
(* idempotency key or saga id.  Between the calls the sagas move on as     *)
(* SagaLifecycle allows, which is what SagaRunner is shown to implement.   *)
(***************************************************************************)
EXTENDS Naturals

CONSTANTS
    Calls,          \* requests
    Transport,      \* the interface each call comes in by: http or grpc
    Keys,           \* idempotency keys, trimmed and not empty
    NoKey,
    Payloads,       \* workflow, context and steps of a saga
    Invalid,        \* a payload that the service refuses
    StepCount       \* number of steps by saga id

\* A key determines the saga's id; without one the id is random, one for each
\* call.
Ids == Keys \cup Calls

ASSUME ApiAssumption ==
    /\ Transport \in [Calls -> {"http", "grpc"}]
    /\ NoKey \notin Ids
    /\ Keys \cap Calls = {}
    /\ Invalid \notin Payloads
    /\ StepCount \in [Ids -> Nat \ {0}]

VARIABLES
    status,     \* the stored sagas, see SagaLifecycle
    open,
    payload,    \* what each saga was created with
    pc,         \* where each call is
    req,        \* its arguments
    err,        \* the error the service returns, or ok
    answer,     \* the status code the client got
    changed,    \* history: the call has changed the store
    known       \* history: its saga had been given to a client when it was made

callVars == <<pc, req, err, answer, changed, known>>
vars == <<status, open, payload, callVars>>

Sagas == INSTANCE SagaLifecycle WITH Sagas <- Ids

Ops == {"start", "get", "cancel"}
Request == [op : Ops, id : Ids, key : Keys \cup {NoKey}, pay : Payloads \cup {Invalid}]
NoRequest(c) == [op |-> "get", id |-> c, key |-> NoKey, pay |-> Invalid]

Init ==
    /\ Sagas!Init
    /\ payload = [s \in Ids |-> Invalid]
    /\ pc = [c \in Calls |-> "idle"]
    /\ req = [c \in Calls |-> NoRequest(c)]
    /\ err = [c \in Calls |-> "ok"]
    /\ answer = [c \in Calls |-> "none"]
    /\ changed = [c \in Calls |-> FALSE]
    /\ known = [c \in Calls |-> FALSE]

-----------------------------------------------------------------------------
(* Answers *)

Codes(c) ==
    IF Transport[c] = "http" THEN {"200", "202", "400", "404", "409", "500"}
    ELSE {"OK", "InvalidArgument", "NotFound", "Aborted", "FailedPrecondition", "Internal"}

Accepted == {"200", "202", "OK"}
Refused == {"400", "404", "409", "InvalidArgument", "NotFound", "Aborted", "FailedPrecondition"}

\* The switch of each HTTP handler.
httpCode(op, e) ==
    CASE e = "ok"       -> IF op = "get" THEN "200" ELSE "202"
      [] e = "invalid"  -> "400"
      [] e = "notFound" -> IF op = "start" THEN "500" ELSE "404"
      [] e \in {"contended", "notAllowed"} -> IF op = "cancel" THEN "409" ELSE "500"
      [] OTHER -> "500"

\* A faulty mapError that passes an error it does not know on to grpc.
mapErrorUnknown(e) == IF e = "ok" THEN "OK" ELSE "Unknown"

\* mapError of the gRPC server.
mapError(e) ==
    CASE e = "ok"         -> "OK"
      [] e = "invalid"    -> "InvalidArgument"
      [] e = "notFound"   -> "NotFound"
      [] e = "contended"  -> "Aborted"
      [] e = "notAllowed" -> "FailedPrecondition"
      [] OTHER -> "Internal"

\* The saga ids that clients have been given.
GivenIds == {req[c].id : c \in {d \in Calls : req[d].op = "start" /\ answer[d] \in Accepted}}

Returns(c, e) ==
    /\ pc' = [pc EXCEPT ![c] = "respond"]
    /\ err' = [err EXCEPT ![c] = e]

-----------------------------------------------------------------------------
(* Calls *)

\* A faulty generateSagaID that makes up a new id for every request.
randomSagaID(c, key) == c

generateSagaID(c, key) == IF key = NoKey THEN c ELSE key

Call(c, r) ==
    /\ pc[c] = "idle"
    /\ pc' = [pc EXCEPT ![c] = "received"]
    /\ req' = [req EXCEPT ![c] = r]
    /\ known' = [known EXCEPT ![c] = r.id \in GivenIds]
    /\ UNCHANGED <<status, open, payload, err, answer, changed>>

CallStart(c, key, pay) ==
    Call(c, [op |-> "start", id |-> generateSagaID(c, key), key |-> key, pay |-> pay])

\* A client asks for a saga it was told of or found in a list, or for one that
\* does not exist.
CallOther(c, op, id) ==
    /\ status[id] # "NONE" \/ id \in GivenIds \/ id = c
    /\ Call(c, [NoRequest(c) EXCEPT !.op = op, !.id = id])

Handles(c, op) == pc[c] = "received" /\ req[c].op = op

\* StartSaga refuses an empty workflow, a context that is no JSON object, no
\* steps, and steps without name or target.
StartInvalid(c) ==
    /\ Handles(c, "start")
    /\ req[c].pay = Invalid
    /\ Returns(c, "invalid")
    /\ UNCHANGED <<status, open, payload, req, answer, changed, known>>

\* store.Create commits; its client may still get an error.
StartCreates(c) ==
    LET s == req[c].id IN
    /\ Handles(c, "start")
    /\ req[c].pay # Invalid
    /\ Sagas!Begin(s)
    /\ payload' = [payload EXCEPT ![s] = req[c].pay]
    /\ changed' = [changed EXCEPT ![c] = TRUE]
    /\ \E e \in {"ok", "internal"} : Returns(c, e)
    /\ UNCHANGED <<req, answer, known>>

\* ErrAlreadyExists: with a key the stored saga is looked up, without one it
\* is an error like any other.
StartExists(c) ==
    /\ Handles(c, "start")
    /\ req[c].pay # Invalid
    /\ status[req[c].id] # "NONE"
    /\ IF req[c].key # NoKey THEN pc' = [pc EXCEPT ![c] = "existing"] /\ UNCHANGED err
                             ELSE Returns(c, "internal")
    /\ UNCHANGED <<status, open, payload, req, answer, changed, known>>

\* A faulty StartSaga that does not look at the error of store.Create.
StoreFailsSilently(c) ==
    /\ pc[c] \in {"received", "existing"}
    /\ Returns(c, IF req[c].op = "start" THEN "ok" ELSE "internal")
    /\ UNCHANGED <<status, open, payload, req, answer, changed, known>>

\* The store fails without a commit, in StartSaga, GetSaga or CancelSaga; or
\* the lock server does.
StoreFails(c) ==
    /\ pc[c] \in {"received", "existing"}
    /\ req[c].op = "start" => req[c].pay # Invalid
    /\ Returns(c, "internal")
    /\ UNCHANGED <<status, open, payload, req, answer, changed, known>>

\* store.Get, of GetSaga and of StartSaga's second look.
Get(c) ==
    /\ Handles(c, "get") \/ pc[c] = "existing"
    /\ Returns(c, IF status[req[c].id] = "NONE" THEN "notFound" ELSE "ok")
    /\ UNCHANGED <<status, open, payload, req, answer, changed, known>>

CancelContended(c) ==
    /\ Handles(c, "cancel")
    /\ Returns(c, "contended")
    /\ UNCHANGED <<status, open, payload, req, answer, changed, known>>

\* Faulty statuses: a completed saga falls through to the default case of the
\* closure, which changes nothing and returns no error.
CancelableNotCompleted == {"CREATED", "RUNNING"}

Cancelable == {"CREATED", "RUNNING", "COMPLETED"}

\* A faulty withSagaLock that reports every lock error as contention.
cancelErrorContended(e, renewed) ==
    IF e \in {"notFound", "notAllowed"} \/ renewed THEN e ELSE "contended"

\* joinLockErrors and mapStoreError: with a failed renewal the answer is an
\* error, fn's own if it has one that the API knows.
cancelError(e, renewed) ==
    IF e \in {"notFound", "notAllowed"} \/ renewed THEN e ELSE "internal"

\* CancelSaga's Update under the saga's lock.  The lock may be lost after the
\* commit, and the commit may be reported as an error.
CancelCommits(c) ==
    LET s == req[c].id
        e == CASE status[s] = "NONE" -> "notFound" [] status[s] = "FAILED" -> "notAllowed"
               [] OTHER -> "ok"
    IN
    /\ Handles(c, "cancel")
    /\ IF status[s] \in Cancelable
       THEN Sagas!Cancel(s) /\ changed' = [changed EXCEPT ![c] = TRUE]
       ELSE UNCHANGED <<status, open, changed>>
    /\ \E renewed \in BOOLEAN : Returns(c, cancelError(e, renewed))
    /\ UNCHANGED <<payload, req, answer, known>>

\* The client gets the answer, or does not.
Respond(c) ==
    /\ pc[c] = "respond"
    /\ pc' = [pc EXCEPT ![c] = "done"]
    /\ answer' = [answer EXCEPT ![c] =
                    IF Transport[c] = "http" THEN httpCode(req[c].op, err[c]) ELSE mapError(err[c])]
    /\ err' = [err EXCEPT ![c] = "ok"]
    /\ UNCHANGED <<status, open, payload, req, changed, known>>

\* The connection breaks, or the instance dies, at any point.
AnswerLost(c) ==
    /\ pc[c] \notin {"idle", "done"}
    /\ pc' = [pc EXCEPT ![c] = "done"]
    /\ answer' = [answer EXCEPT ![c] = "lost"]
    /\ err' = [err EXCEPT ![c] = "ok"]
    /\ UNCHANGED <<status, open, payload, req, changed, known>>

-----------------------------------------------------------------------------

\* What the runner does with a stored saga.
Progress(s) ==
    /\ \/ Sagas!StartStep(s) \/ Sagas!Advance(s) \/ Sagas!Complete(s)
       \/ Sagas!Undo(s) \/ Sagas!Fail(s)
    /\ UNCHANGED <<payload, callVars>>

StartStep(c) == StartInvalid(c) \/ StartCreates(c) \/ StartExists(c)

Requests(c) ==
    \/ \E key \in Keys \cup {NoKey}, pay \in Payloads \cup {Invalid} : CallStart(c, key, pay)
    \/ \E op \in {"get", "cancel"}, id \in Ids : CallOther(c, op, id)

Next ==
    \/ \E s \in Ids : Progress(s)
    \/ \E c \in Calls :
        \/ Requests(c) \/ StartStep(c) \/ StoreFails(c) \/ Get(c)
        \/ CancelContended(c) \/ CancelCommits(c) \/ Respond(c) \/ AnswerLost(c)

Spec == Init /\ [][Next]_vars

-----------------------------------------------------------------------------
(* Properties *)

\* Every variable has its type, and every error is answered with one of the
\* codes that the call's interface documents.
TypeOK ==
    /\ status \in [Ids -> {"NONE", "CREATED", "RUNNING", "COMPLETED", "CANCELING",
                           "COMPENSATED", "FAILED"}]
    /\ DOMAIN open = Ids
    /\ \A s \in Ids : open[s] \subseteq 1..StepCount[s]
    /\ payload \in [Ids -> Payloads \cup {Invalid}]
    /\ pc \in [Calls -> {"idle", "received", "existing", "respond", "done"}]
    /\ req \in [Calls -> Request]
    /\ err \in [Calls -> {"ok", "invalid", "notFound", "contended", "notAllowed", "internal"}]
    /\ DOMAIN answer = Calls
    /\ \A c \in Calls : answer[c] \in Codes(c) \cup {"none", "lost"}
    /\ changed \in [Calls -> BOOLEAN]
    /\ known \in [Calls -> BOOLEAN]

IsAccepted(c, op) == req[c].op = op /\ answer[c] \in Accepted

\* However often a start is sent, and whatever its answers were, the calls
\* with one idempotency key start one saga: no two of them change the store,
\* and the ones that are accepted name the same saga, with the payload of the
\* one that did, also when their own is another.
KeyStartsOneSaga ==
    \A c, d \in Calls :
        /\ req[c].op = "start" /\ req[d].op = "start"
        /\ req[c].key = req[d].key /\ req[c].key # NoKey
        => /\ changed[c] /\ changed[d] => c = d
           /\ IsAccepted(c, "start") /\ IsAccepted(d, "start") => req[c].id = req[d].id
           /\ IsAccepted(c, "start") /\ changed[d] => payload[req[c].id] = req[d].pay

\* A saga whose start was accepted exists for every call that is made later,
\* by either interface: neither GetSaga nor CancelSaga answers that it is not
\* found.
StartedSagaIsFound ==
    \A c \in Calls : known[c] => answer[c] \notin {"404", "NotFound"}

\* An accepted cancel is never taken back: the saga is being compensated, is
\* compensated, or has failed, from the answer on.
AcceptedCancelSticks ==
    \A c \in Calls : IsAccepted(c, "cancel") =>
        status[req[c].id] \in {"CANCELING", "COMPENSATED", "FAILED"}

\* A call that was refused (a 4xx code, or its counterpart in gRPC) has
\* changed nothing; only a server error and a lost answer leave it open.
RefusedChangesNothing == \A c \in Calls : answer[c] \in Refused => ~changed[c]
=============================================================================
