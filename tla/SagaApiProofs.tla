---------------------------- MODULE SagaApiProofs ----------------------------
(***************************************************************************)
(* What the answers of the HTTP and gRPC interfaces promise, for any       *)
(* number of calls, keys, payloads and sagas.                              *)
(***************************************************************************)
EXTENDS SagaApi, TLAPS

Ended == {"CANCELING", "COMPENSATED", "FAILED"}

\* The call has succeeded: its client knows, or is about to be told.
Succeeds(c) == answer[c] \in Accepted \/ (pc[c] = "respond" /\ err[c] = "ok")

\* Where a call is and what it has in hand.
CallShape(c) ==
    /\ pc[c] = "idle" => req[c].op # "start" /\ ~changed[c] /\ ~known[c]
    /\ pc[c] # "done" => answer[c] = "none"
    /\ pc[c] # "respond" => err[c] = "ok"
    /\ req[c].op = "start" => req[c].id = generateSagaID(c, req[c].key)
    /\ pc[c] = "existing" => req[c].op = "start"

\* What a call that has changed the store will not say, and what it has left
\* there.
ChangeInv(c) ==
    changed[c] =>
        /\ pc[c] \in {"respond", "done"}
        /\ err[c] \in {"ok", "internal"}
        /\ answer[c] \notin Refused
        /\ req[c].op = "start" =>
            status[req[c].id] # "NONE" /\ payload[req[c].id] = req[c].pay

\* What its success, and the success of an earlier call that it knows of, says
\* about the saga.
StoredInv(c) ==
    /\ pc[c] = "existing" \/ known[c] \/ (req[c].op = "start" /\ Succeeds(c)) =>
        status[req[c].id] # "NONE"
    /\ known[c] => err[c] # "notFound" /\ answer[c] \notin {"404", "NotFound"}
    /\ req[c].op = "cancel" /\ Succeeds(c) => status[req[c].id] \in Ended

CallInv(c) == CallShape(c) /\ ChangeInv(c) /\ StoredInv(c)

\* A saga is created once.
CreatedOnce ==
    \A c, d \in Calls :
        /\ req[c].op = "start" /\ changed[c]
        /\ req[d].op = "start" /\ changed[d]
        /\ req[c].id = req[d].id
        => c = d

ApiInv == TypeOK /\ CreatedOnce /\ \A c \in Calls : CallInv(c)

-----------------------------------------------------------------------------

\* What no step takes from a stored saga: it stays stored, with its payload,
\* and once its execution was given up it is not taken up again.
Moves ==
    \A s \in Ids :
        /\ status[s] # "NONE" => status'[s] # "NONE" /\ payload'[s] = payload[s]
        /\ status[s] \in Ended => status'[s] \in Ended

SagasTyped ==
    /\ status \in [Ids -> {"NONE", "CREATED", "RUNNING", "COMPLETED", "CANCELING",
                           "COMPENSATED", "FAILED"}]
    /\ DOMAIN open = Ids
    /\ \A s \in Ids : open[s] \subseteq 1..StepCount[s]

\* The steps of the life cycle that the runner and CancelSaga make.
LEMMA LifeMoves ==
    ASSUME SagasTyped, payload' = payload, NEW s \in Ids,
           \/ Sagas!StartStep(s) \/ Sagas!Advance(s) \/ Sagas!Complete(s)
           \/ Sagas!Undo(s) \/ Sagas!Fail(s) \/ Sagas!Cancel(s)
    PROVE  SagasTyped' /\ Moves
<1>0. StepCount[s] \in Nat
  BY ApiAssumption
<1>1. PICK st, os : /\ status' = [status EXCEPT ![s] = st] /\ open' = [open EXCEPT ![s] = os]
                    /\ st \in {"CREATED", "RUNNING", "COMPLETED", "CANCELING", "COMPENSATED", "FAILED"}
                    /\ os \subseteq 1..StepCount[s]
                    /\ status[s] \in Ended => st \in Ended
  <2> DEFINE Good(st, os) ==
                /\ status' = [status EXCEPT ![s] = st] /\ open' = [open EXCEPT ![s] = os]
                /\ st \in {"CREATED", "RUNNING", "COMPLETED", "CANCELING", "COMPENSATED", "FAILED"}
                /\ os \subseteq 1..StepCount[s]
                /\ status[s] \in Ended => st \in Ended
  <2> SUFFICES \E st, os : Good(st, os)
    OBVIOUS
  <2>0. open[s] \subseteq 1..StepCount[s]
    BY DEF SagasTyped
  <2>1. CASE Sagas!StartStep(s)
    <3>1. PICK i \in 1..StepCount[s] :
            /\ status[s] \in {"CREATED", "RUNNING"}
            /\ status' = [status EXCEPT ![s] = status[s]] /\ open' = [open EXCEPT ![s] = 1..i]
      BY <2>1 DEF Sagas!StartStep, Sagas!Become
    <3>2. 1..i \subseteq 1..StepCount[s]
      BY <1>0
    <3>3. Good(status[s], 1..i)
      BY <3>1, <3>2 DEF Ended
    <3> QED BY <3>3
  <2>2. CASE Sagas!Advance(s)
    <3>1. Good("RUNNING", open[s])
      BY <2>0, <2>2 DEF Sagas!Advance, Sagas!Become, Ended
    <3> QED BY <3>1
  <2>3. CASE Sagas!Complete(s)
    <3>1. Good("COMPLETED", open[s])
      BY <2>0, <2>3 DEF Sagas!Complete, Sagas!Become, Ended
    <3> QED BY <3>1
  <2>4. CASE Sagas!Undo(s)
    <3>1. PICK i \in open[s] :
            /\ status' = [status EXCEPT ![s] =
                            IF open[s] = {i} THEN "COMPENSATED" ELSE "CANCELING"]
            /\ open' = [open EXCEPT ![s] = open[s] \ {i}]
      BY <2>4 DEF Sagas!Undo, Sagas!Become
    <3>2. Good(IF open[s] = {i} THEN "COMPENSATED" ELSE "CANCELING", open[s] \ {i})
      BY <2>0, <3>1 DEF Ended
    <3> QED BY <3>2
  <2>5. CASE Sagas!Fail(s)
    <3>1. PICK i \in open[s] :
            /\ status' = [status EXCEPT ![s] = "FAILED"]
            /\ open' = [open EXCEPT ![s] = open[s] \ {i}]
      BY <2>5 DEF Sagas!Fail, Sagas!Become
    <3>2. Good("FAILED", open[s] \ {i})
      BY <2>0, <3>1 DEF Ended
    <3> QED BY <3>2
  <2>6. CASE Sagas!Cancel(s)
    <3>1. Good(IF open[s] = {} THEN "COMPENSATED" ELSE "CANCELING", open[s])
      BY <2>0, <2>6 DEF Sagas!Cancel, Sagas!Become, Ended
    <3> QED BY <3>1
  <2> QED BY <2>1, <2>2, <2>3, <2>4, <2>5, <2>6
<1>2. SagasTyped'
  BY <1>1 DEF SagasTyped
<1>3. Moves
  BY <1>1 DEF SagasTyped, Moves
<1> QED BY <1>2, <1>3

\* A step that does not touch a call keeps what is known of it.
Untouched(c) ==
    /\ pc'[c] = pc[c] /\ req'[c] = req[c] /\ err'[c] = err[c] /\ answer'[c] = answer[c]
    /\ changed'[c] = changed[c] /\ known'[c] = known[c]

LEMMA UntouchedKeeps ==
    ASSUME TypeOK, NEW c \in Calls, CallInv(c), Untouched(c), Moves
    PROVE  CallInv(c)'
<1>1. req[c].id \in Ids
  BY DEF TypeOK, Request
<1> QED BY <1>1 DEF Untouched, CallInv, CallShape, ChangeInv, StoredInv, Succeeds, Moves

\* A step of one call that does not change the store by itself.
LEMMA CallKeeps ==
    ASSUME ApiInv, TypeOK', Moves, NEW c \in Calls, CallInv(c)',
           \A d \in Calls : d # c => Untouched(d),
           changed' = changed, ~changed[c] \/ req'[c] = req[c]
    PROVE  ApiInv'
<1>1. \A d \in Calls : CallInv(d)'
  BY UntouchedKeeps DEF ApiInv
<1>2. \A d \in Calls : changed'[d] => changed[d] /\ req'[d] = req[d]
  BY DEF Untouched
<1>3. CreatedOnce'
  BY <1>2 DEF ApiInv, CreatedOnce
<1> QED BY <1>1, <1>3 DEF ApiInv

Errors == {"ok", "invalid", "notFound", "contended", "notAllowed", "internal"}

\* The service returns.
LEMMA ReturnsShape ==
    ASSUME TypeOK, NEW c \in Calls, NEW e \in Errors, Returns(c, e)
    PROVE  /\ pc' \in [Calls -> {"idle", "received", "existing", "respond", "done"}]
           /\ err' \in [Calls -> Errors]
           /\ pc'[c] = "respond" /\ err'[c] = e
           /\ \A d \in Calls : d # c => pc'[d] = pc[d] /\ err'[d] = err[d]
BY DEF TypeOK, Returns, Errors

\* A call that returns without having changed the store.
LEMMA ReturnKeeps ==
    ASSUME ApiInv, NEW c \in Calls, NEW e \in Errors, Returns(c, e),
           pc[c] \in {"received", "existing"},
           UNCHANGED <<status, open, payload, req, answer, changed, known>>,
           e = "ok" /\ req[c].op = "start" => status[req[c].id] # "NONE",
           e = "ok" /\ req[c].op = "cancel" => status[req[c].id] \in Ended,
           e = "notFound" => status[req[c].id] = "NONE"
    PROVE  ApiInv'
<1>1. /\ pc' \in [Calls -> {"idle", "received", "existing", "respond", "done"}]
      /\ err' \in [Calls -> Errors]
      /\ pc'[c] = "respond" /\ err'[c] = e
      /\ \A d \in Calls : d # c => pc'[d] = pc[d] /\ err'[d] = err[d]
  BY ReturnsShape DEF ApiInv
<1>2. TypeOK'
  BY <1>1 DEF ApiInv, TypeOK, Errors
<1>3. Moves /\ \A d \in Calls : d # c => Untouched(d)
  BY <1>1 DEF Moves, Untouched
<1>4. CallShape(c) /\ ChangeInv(c) /\ StoredInv(c)
  BY DEF ApiInv, CallInv
<1>5. answer[c] = "none" /\ ~changed[c]
  BY <1>4 DEF CallShape, ChangeInv
<1>6. CallInv(c)'
  <2>1. CallShape(c)'
    BY <1>1, <1>4, <1>5 DEF CallShape
  <2>2. ChangeInv(c)'
    BY <1>5 DEF ChangeInv
  <2>3. Succeeds(c)' => e = "ok"
    BY <1>1, <1>5 DEF Succeeds, Accepted
  <2>4. StoredInv(c)'
    BY <1>1, <1>4, <1>5, <2>3 DEF StoredInv
  <2> QED BY <2>1, <2>2, <2>4 DEF CallInv
<1> QED BY <1>2, <1>3, <1>6, CallKeeps

\* A saga that was given to a client is stored.
LEMMA GivenIsStored ==
    ASSUME ApiInv, NEW id \in GivenIds
    PROVE  id \in Ids /\ status[id] # "NONE"
<1>1. PICK d \in Calls : req[d].op = "start" /\ answer[d] \in Accepted /\ id = req[d].id
  BY DEF GivenIds
<1> QED BY <1>1 DEF ApiInv, TypeOK, Request, CallInv, StoredInv, Succeeds

\* A request arrives.
LEMMA RequestKeeps ==
    ASSUME ApiInv, NEW c \in Calls, NEW r \in Request, Call(c, r),
           r.op = "start" => r.id = generateSagaID(c, r.key)
    PROVE  ApiInv'
<1>1. /\ pc[c] = "idle" /\ pc' = [pc EXCEPT ![c] = "received"]
      /\ req' = [req EXCEPT ![c] = r]
      /\ known' = [known EXCEPT ![c] = r.id \in GivenIds]
      /\ UNCHANGED <<status, open, payload, err, answer, changed>>
  BY DEF Call
<1>2. /\ pc' \in [Calls -> {"idle", "received", "existing", "respond", "done"}]
      /\ req' \in [Calls -> Request]
      /\ pc'[c] = "received" /\ req'[c] = r
      /\ \A d \in Calls : d # c => pc'[d] = pc[d] /\ req'[d] = req[d]
  BY <1>1 DEF ApiInv, TypeOK
<1>3. /\ known' \in [Calls -> BOOLEAN] /\ known'[c] = (r.id \in GivenIds)
      /\ \A d \in Calls : d # c => known'[d] = known[d]
  <2> DEFINE k == r.id \in GivenIds
  <2>1. k = TRUE \/ k = FALSE
    OBVIOUS
  <2>2. known' = [known EXCEPT ![c] = k]
    BY <1>1
  <2> HIDE DEF k
  <2>3. known \in [Calls -> BOOLEAN]
    BY DEF ApiInv, TypeOK
  <2>4. /\ known' \in [Calls -> BOOLEAN] /\ known'[c] = k
        /\ \A d \in Calls : d # c => known'[d] = known[d]
    BY <2>1, <2>2, <2>3
  <2> QED BY <2>4 DEF k
<1>4. TypeOK'
  BY <1>1, <1>2, <1>3 DEF ApiInv, TypeOK
<1>5. Moves /\ \A d \in Calls : d # c => Untouched(d)
  BY <1>1, <1>2, <1>3 DEF Moves, Untouched
<1>6. CallShape(c) /\ ChangeInv(c)
  BY DEF ApiInv, CallInv
<1>7. answer[c] = "none" /\ ~changed[c] /\ err[c] = "ok"
  BY <1>1, <1>6 DEF CallShape
<1>8. known'[c] => status[r.id] # "NONE"
  BY <1>3, GivenIsStored
<1>9. CallInv(c)'
  <2>1. CallShape(c)'
    BY <1>1, <1>2, <1>7 DEF CallShape
  <2>2. ChangeInv(c)'
    BY <1>1, <1>7 DEF ChangeInv
  <2>3. ~Succeeds(c)'
    BY <1>1, <1>2, <1>7 DEF Succeeds, Accepted
  <2>4. StoredInv(c)'
    BY <1>1, <1>2, <1>7, <1>8, <2>3 DEF StoredInv
  <2> QED BY <2>1, <2>2, <2>4 DEF CallInv
<1> QED BY <1>1, <1>4, <1>5, <1>7, <1>9, CallKeeps

\* StartSaga.
LEMMA StartKeeps == ASSUME ApiInv, NEW c \in Calls, StartStep(c) PROVE ApiInv'
<1>0. TypeOK /\ CallInv(c) /\ req[c] \in Request /\ req[c].id \in Ids
  BY DEF ApiInv, TypeOK, Request
<1>1. CASE StartInvalid(c)
  BY <1>1, ReturnKeeps DEF StartInvalid, Handles, Errors
<1>2. CASE StartExists(c)
  <2>1. CASE req[c].key # NoKey
    <3>1. /\ pc[c] = "received" /\ req[c].op = "start" /\ status[req[c].id] # "NONE"
          /\ pc' = [pc EXCEPT ![c] = "existing"]
          /\ UNCHANGED <<status, open, payload, req, err, answer, changed, known>>
      BY <1>2, <2>1 DEF StartExists, Handles
    <3>2. /\ pc' \in [Calls -> {"idle", "received", "existing", "respond", "done"}]
          /\ pc'[c] = "existing"
          /\ \A d \in Calls : d # c => pc'[d] = pc[d]
      BY <1>0, <3>1 DEF TypeOK
    <3>3. TypeOK'
      BY <1>0, <3>1, <3>2 DEF TypeOK
    <3>4. Moves /\ \A d \in Calls : d # c => Untouched(d)
      BY <3>1, <3>2 DEF Moves, Untouched
    <3>5. CallInv(c)'
      BY <1>0, <3>1, <3>2 DEF CallInv, CallShape, ChangeInv, StoredInv, Succeeds
    <3> QED BY <3>1, <3>3, <3>4, <3>5, CallKeeps
  <2>2. CASE req[c].key = NoKey
    BY <1>2, <2>2, ReturnKeeps DEF StartExists, Handles, Errors
  <2> QED BY <2>1, <2>2
<1>3. CASE StartCreates(c)
  <2> DEFINE s == req[c].id
  <2>1. /\ pc[c] = "received" /\ req[c].op = "start" /\ req[c].pay \in Payloads
        /\ status[s] = "NONE"
        /\ status' = [status EXCEPT ![s] = "CREATED"] /\ open' = [open EXCEPT ![s] = {}]
        /\ payload' = [payload EXCEPT ![s] = req[c].pay]
        /\ changed' = [changed EXCEPT ![c] = TRUE]
        /\ UNCHANGED <<req, answer, known>>
    BY <1>0, <1>3 DEF StartCreates, Handles, Sagas!Begin, Sagas!Become, Request
  <2>2. PICK e \in {"ok", "internal"} : Returns(c, e)
    BY <1>3 DEF StartCreates
  <2>3. /\ pc' \in [Calls -> {"idle", "received", "existing", "respond", "done"}]
        /\ err' \in [Calls -> Errors]
        /\ pc'[c] = "respond" /\ err'[c] = e
        /\ \A d \in Calls : d # c => pc'[d] = pc[d] /\ err'[d] = err[d]
    BY <1>0, <2>2, ReturnsShape DEF Errors
  <2>4. SagasTyped'
    BY <1>0, <2>1 DEF TypeOK, SagasTyped
  <2>5. /\ payload' \in [Ids -> Payloads \cup {Invalid}] /\ payload'[s] = req[c].pay
        /\ status'[s] = "CREATED"
        /\ \A t \in Ids : t # s => payload'[t] = payload[t] /\ status'[t] = status[t]
    BY <1>0, <2>1 DEF TypeOK
  <2>6. /\ changed' \in [Calls -> BOOLEAN] /\ changed'[c]
        /\ \A d \in Calls : d # c => changed'[d] = changed[d]
    BY <1>0, <2>1 DEF TypeOK
  <2>7. TypeOK'
    BY <1>0, <2>1, <2>3, <2>4, <2>5, <2>6 DEF TypeOK, SagasTyped, Errors
  <2>8. Moves
    BY <2>1, <2>5 DEF Moves, Ended
  <2>9. \A d \in Calls : d # c => Untouched(d)
    BY <2>1, <2>3, <2>6 DEF Untouched
  <2>10. CallInv(c)'
    <3>1. answer[c] = "none"
      BY <1>0, <2>1 DEF CallInv, CallShape
    <3>2. CallShape(c)'
      BY <1>0, <2>1, <2>3, <3>1 DEF CallInv, CallShape
    <3>3. ChangeInv(c)'
      BY <2>1, <2>3, <2>5, <3>1 DEF ChangeInv, Refused
    <3>4. StoredInv(c)'
      BY <2>1, <2>3, <2>5, <3>1 DEF StoredInv
    <3> QED BY <3>2, <3>3, <3>4 DEF CallInv
  <2>11. \A d \in Calls : CallInv(d)'
    BY <1>0, <2>8, <2>9, <2>10, UntouchedKeeps DEF ApiInv
  <2>12. CreatedOnce'
    <3>1. ASSUME NEW d \in Calls, d # c, changed[d], req[d].op = "start" PROVE req[d].id # s
      BY <2>1, <3>1 DEF ApiInv, CallInv, ChangeInv
    <3>2. \A d \in Calls : changed'[d] /\ req[d].op = "start" /\ d # c => req[d].id # s
      BY <2>6, <3>1
    <3> QED BY <2>1, <2>6, <3>2 DEF ApiInv, CreatedOnce
  <2> QED BY <2>7, <2>11, <2>12 DEF ApiInv
<1> QED BY <1>1, <1>2, <1>3 DEF StartStep

\* CancelSaga's Update, and what withSagaLock makes of its outcome.
LEMMA CancelKeeps == ASSUME ApiInv, NEW c \in Calls, CancelCommits(c) PROVE ApiInv'
<1> DEFINE s == req[c].id
           e == CASE status[s] = "NONE" -> "notFound" [] status[s] = "FAILED" -> "notAllowed"
                  [] OTHER -> "ok"
<1>0. /\ TypeOK /\ CallInv(c) /\ s \in Ids
      /\ pc[c] = "received" /\ req[c].op = "cancel"
      /\ UNCHANGED <<payload, req, answer, known>>
  BY DEF ApiInv, TypeOK, Request, CancelCommits, Handles
<1>1. PICK renewed \in BOOLEAN : Returns(c, cancelError(e, renewed))
  BY DEF CancelCommits
<1> DEFINE x == cancelError(e, renewed)
<1>2. /\ x \in Errors
      /\ x = "ok" => status[s] \notin {"NONE", "FAILED"}
      /\ x = "notFound" => status[s] = "NONE"
      /\ status[s] \in Cancelable => x \in {"ok", "internal"}
  BY <1>0 DEF cancelError, Errors, Cancelable
<1> HIDE DEF x, e
<1>3. CASE status[s] \notin Cancelable
  <2>1. UNCHANGED <<status, open, payload, req, answer, changed, known>>
    BY <1>0, <1>3 DEF CancelCommits
  <2>2. x = "ok" => status[s] \in Ended
    BY <1>0, <1>2, <1>3 DEF TypeOK, Cancelable, Ended
  <2>3. Returns(c, x)
    BY <1>1 DEF x
  <2> QED BY <1>0, <1>2, <2>1, <2>2, <2>3, ReturnKeeps
<1>4. CASE status[s] \in Cancelable
  <2>1. Sagas!Cancel(s) /\ changed' = [changed EXCEPT ![c] = TRUE]
    BY <1>4 DEF CancelCommits
  <2>2. SagasTyped' /\ Moves
    <3>1. SagasTyped
      BY <1>0 DEF TypeOK, SagasTyped
    <3> QED BY <1>0, <2>1, <3>1, LifeMoves
  <2>3. status'[s] \in Ended
    BY <1>0, <2>1 DEF Sagas!Cancel, Sagas!Become, Ended, TypeOK
  <2>4. /\ pc' \in [Calls -> {"idle", "received", "existing", "respond", "done"}]
        /\ err' \in [Calls -> Errors]
        /\ pc'[c] = "respond" /\ err'[c] = x
        /\ \A d \in Calls : d # c => pc'[d] = pc[d] /\ err'[d] = err[d]
    BY <1>0, <1>1, <1>2, ReturnsShape DEF x
  <2>5. /\ changed' \in [Calls -> BOOLEAN] /\ changed'[c]
        /\ \A d \in Calls : d # c => changed'[d] = changed[d]
    BY <1>0, <2>1 DEF TypeOK
  <2>6. TypeOK'
    BY <1>0, <2>2, <2>4, <2>5 DEF TypeOK, SagasTyped, Errors
  <2>7. \A d \in Calls : d # c => Untouched(d)
    BY <1>0, <2>4, <2>5 DEF Untouched
  <2>8. CallInv(c)'
    <3>1. answer[c] = "none"
      BY <1>0 DEF CallInv, CallShape
    <3>2. CallShape(c)'
      BY <1>0, <2>4, <3>1 DEF CallShape
    <3>3. ChangeInv(c)'
      BY <1>0, <1>2, <1>4, <2>4, <3>1 DEF ChangeInv, Refused
    <3>4. status'[s] # "NONE"
      BY <2>3 DEF Ended
    <3>5. StoredInv(c)'
      BY <1>0, <1>2, <1>4, <2>3, <2>4, <3>1, <3>4 DEF StoredInv
    <3> QED BY <3>2, <3>3, <3>5 DEF CallInv
  <2>9. \A d \in Calls : CallInv(d)'
    BY <1>0, <2>2, <2>7, <2>8, UntouchedKeeps DEF ApiInv
  <2>10. CreatedOnce'
    BY <1>0, <2>5 DEF ApiInv, CreatedOnce
  <2> QED BY <2>6, <2>9, <2>10 DEF ApiInv
<1> QED BY <1>3, <1>4

\* What a client can read off the code of its answer.
LEMMA CodeTells ==
    ASSUME NEW c \in Calls, NEW op \in Ops, NEW e \in Errors
    PROVE  LET a == IF Transport[c] = "http" THEN httpCode(op, e) ELSE mapError(e) IN
           /\ a \in Codes(c)
           /\ a \in Accepted => e = "ok"
           /\ a \in Refused => e \notin {"ok", "internal"}
           /\ a \in {"404", "NotFound"} => e = "notFound"
<1>1. CASE Transport[c] = "http"
  BY <1>1 DEF httpCode, Codes, Accepted, Refused, Errors
<1>2. CASE Transport[c] # "http"
  BY <1>2 DEF mapError, Codes, Accepted, Refused, Errors
<1> QED BY <1>1, <1>2

\* The answer arrives, or is lost.
LEMMA AnswerKeeps ==
    ASSUME ApiInv, NEW c \in Calls, Respond(c) \/ AnswerLost(c)
    PROVE  ApiInv'
<1>0. TypeOK /\ CallShape(c) /\ ChangeInv(c) /\ StoredInv(c)
  BY DEF ApiInv, CallInv
<1>1. PICK a \in Codes(c) \cup {"lost"} :
        /\ answer' = [answer EXCEPT ![c] = a]
        /\ a \in Accepted => pc[c] = "respond" /\ err[c] = "ok"
        /\ a \in Refused => err[c] \notin {"ok", "internal"}
        /\ a \in {"404", "NotFound"} => err[c] = "notFound"
  <2>1. CASE Respond(c)
    <3> DEFINE a == IF Transport[c] = "http" THEN httpCode(req[c].op, err[c]) ELSE mapError(err[c])
    <3>1. req[c].op \in Ops /\ err[c] \in Errors
      BY <1>0 DEF TypeOK, Request, Errors
    <3>2. pc[c] = "respond" /\ answer' = [answer EXCEPT ![c] = a]
      BY <2>1 DEF Respond
    <3>3. /\ a \in Codes(c)
          /\ a \in Accepted => err[c] = "ok"
          /\ a \in Refused => err[c] \notin {"ok", "internal"}
          /\ a \in {"404", "NotFound"} => err[c] = "notFound"
      BY <3>1, CodeTells
    <3> HIDE DEF a
    <3> QED BY <3>2, <3>3
  <2>2. CASE AnswerLost(c)
    <3>1. answer' = [answer EXCEPT ![c] = "lost"]
      BY <2>2 DEF AnswerLost
    <3>2. "lost" \notin Accepted /\ "lost" \notin Refused /\ "lost" \notin {"404", "NotFound"}
      BY DEF Accepted, Refused
    <3> QED BY <3>1, <3>2
  <2> QED BY <2>1, <2>2
<1>2. /\ pc' = [pc EXCEPT ![c] = "done"] /\ err' = [err EXCEPT ![c] = "ok"]
      /\ pc[c] # "idle"
      /\ UNCHANGED <<status, open, payload, req, changed, known>>
  BY DEF Respond, AnswerLost
<1>3. /\ pc' \in [Calls -> {"idle", "received", "existing", "respond", "done"}]
      /\ err' \in [Calls -> Errors]
      /\ pc'[c] = "done" /\ err'[c] = "ok" /\ answer'[c] = a
      /\ DOMAIN answer' = Calls
      /\ \A d \in Calls : d # c => pc'[d] = pc[d] /\ err'[d] = err[d] /\ answer'[d] = answer[d]
  BY <1>0, <1>1, <1>2 DEF TypeOK, Errors
<1>4. \A d \in Calls : answer'[d] \in Codes(d) \cup {"none", "lost"}
  BY <1>0, <1>3 DEF TypeOK
<1>5. TypeOK'
  BY <1>0, <1>2, <1>3, <1>4 DEF TypeOK, Errors
<1>6. Moves /\ \A d \in Calls : d # c => Untouched(d)
  BY <1>2, <1>3 DEF Moves, Untouched
<1>7. CallInv(c)'
  <2>1. CallShape(c)'
    BY <1>0, <1>2, <1>3 DEF CallShape
  <2>2. ChangeInv(c)'
    BY <1>0, <1>1, <1>2, <1>3 DEF ChangeInv
  <2>3. Succeeds(c)' => Succeeds(c)
    BY <1>1, <1>3 DEF Succeeds
  <2>4. StoredInv(c)'
    BY <1>0, <1>1, <1>2, <1>3, <2>3 DEF StoredInv
  <2> QED BY <2>1, <2>2, <2>4 DEF CallInv
<1> QED BY <1>2, <1>5, <1>6, <1>7, CallKeeps

\* Every step keeps the invariant.
LEMMA NextApi == ApiInv /\ [Next]_vars => ApiInv'
<1> SUFFICES ASSUME ApiInv, [Next]_vars PROVE ApiInv'
  OBVIOUS
<1>1. ASSUME NEW s \in Ids, Progress(s) PROVE ApiInv'
  <2>1. SagasTyped
    BY DEF ApiInv, TypeOK, SagasTyped
  <2>2. SagasTyped' /\ Moves /\ payload' = payload /\ callVars' = callVars
    BY <1>1, <2>1, LifeMoves DEF Progress
  <2>3. TypeOK'
    BY <2>2 DEF ApiInv, TypeOK, SagasTyped, callVars
  <2>4. \A c \in Calls : CallInv(c)'
    BY <2>2, UntouchedKeeps DEF ApiInv, Untouched, callVars
  <2>5. CreatedOnce'
    BY <2>2 DEF ApiInv, CreatedOnce, callVars
  <2> QED BY <2>3, <2>4, <2>5 DEF ApiInv
<1>2. ASSUME NEW c \in Calls, Requests(c) PROVE ApiInv'
  <2>1. ASSUME NEW key \in Keys \cup {NoKey}, NEW pay \in Payloads \cup {Invalid},
               CallStart(c, key, pay)
        PROVE  ApiInv'
    <3> DEFINE r == [op |-> "start", id |-> generateSagaID(c, key), key |-> key, pay |-> pay]
    <3>1. r \in Request /\ r.id = generateSagaID(c, r.key)
      BY DEF Request, Ops, generateSagaID, Ids
    <3>2. Call(c, r)
      BY <2>1 DEF CallStart
    <3> HIDE DEF r
    <3> QED BY <3>1, <3>2, RequestKeeps
  <2>2. ASSUME NEW op \in {"get", "cancel"}, NEW id \in Ids, CallOther(c, op, id)
        PROVE  ApiInv'
    <3> DEFINE r == [NoRequest(c) EXCEPT !.op = op, !.id = id]
    <3>1. r \in Request /\ r.op # "start"
      BY DEF Request, Ops, NoRequest, Ids
    <3>2. Call(c, r)
      BY <2>2 DEF CallOther
    <3> HIDE DEF r
    <3> QED BY <3>1, <3>2, RequestKeeps
  <2> QED BY <1>2, <2>1, <2>2 DEF Requests
<1>3. ASSUME NEW c \in Calls, StoreFails(c) \/ CancelContended(c) PROVE ApiInv'
  BY <1>3, ReturnKeeps DEF StoreFails, CancelContended, Handles, Errors
<1>4. ASSUME NEW c \in Calls, Get(c) PROVE ApiInv'
  <2> DEFINE e == IF status[req[c].id] = "NONE" THEN "notFound" ELSE "ok"
  <2>1. /\ e \in Errors /\ Returns(c, e) /\ pc[c] \in {"received", "existing"}
        /\ UNCHANGED <<status, open, payload, req, answer, changed, known>>
    BY <1>4 DEF Get, Handles, Errors
  <2>2. req[c].op # "cancel"
    BY <1>4 DEF Get, Handles, ApiInv, CallInv, CallShape
  <2>3. e = "ok" <=> status[req[c].id] # "NONE"
    OBVIOUS
  <2>4. e = "notFound" <=> status[req[c].id] = "NONE"
    OBVIOUS
  <2> HIDE DEF e
  <2> QED BY <2>1, <2>2, <2>3, <2>4, ReturnKeeps
<1>5. CASE UNCHANGED vars
  <2>1. TypeOK'
    BY <1>5 DEF vars, callVars, ApiInv, TypeOK
  <2>2. \A c \in Calls : CallInv(c)'
    BY <1>5, UntouchedKeeps DEF ApiInv, Untouched, Moves, vars, callVars
  <2>3. CreatedOnce'
    BY <1>5 DEF ApiInv, CreatedOnce, vars, callVars
  <2> QED BY <2>1, <2>2, <2>3 DEF ApiInv
<1> QED BY <1>1, <1>2, <1>3, <1>4, <1>5, StartKeeps, CancelKeeps, AnswerKeeps DEF Next

\* Nothing is stored and nobody has called.
LEMMA InitApi == Init => ApiInv
<1> SUFFICES ASSUME Init PROVE ApiInv
  OBVIOUS
<1>1. TypeOK
  <2>1. \A s \in Ids : open[s] = {}
    BY DEF Init, Sagas!Init
  <2>2. \A c \in Calls : NoRequest(c) \in Request
    BY DEF NoRequest, Request, Ops, Ids
  <2> QED BY <2>1, <2>2 DEF Init, Sagas!Init, TypeOK
<1>2. ASSUME NEW c \in Calls PROVE CallInv(c)
  BY DEF Init, NoRequest, CallInv, CallShape, ChangeInv, StoredInv, Succeeds, Accepted, Refused
<1>3. CreatedOnce
  BY DEF Init, CreatedOnce
<1> QED BY <1>1, <1>2, <1>3 DEF ApiInv

-----------------------------------------------------------------------------

\* Every variable keeps its type; for every error of the service each handler
\* answers with a code that its interface documents (the switches of the HTTP
\* handlers, mapError).
THEOREM ApiTypeCorrect == Spec => []TypeOK
<1>1. ApiInv => TypeOK
  BY DEF ApiInv
<1> QED BY <1>1, InitApi, NextApi, PTL DEF Spec

\* However many calls with one idempotency key overlap, fail and are repeated,
\* they start one saga, that of the call whose store.Create committed.
THEOREM KeysAreIdempotent == Spec => []KeyStartsOneSaga
<1>1. ApiInv => KeyStartsOneSaga
  <2> SUFFICES ASSUME ApiInv, NEW c \in Calls, NEW d \in Calls,
                      req[c].op = "start", req[d].op = "start",
                      req[c].key = req[d].key, req[c].key # NoKey
               PROVE  /\ changed[c] /\ changed[d] => c = d
                      /\ IsAccepted(c, "start") /\ IsAccepted(d, "start") => req[c].id = req[d].id
                      /\ IsAccepted(c, "start") /\ changed[d] => payload[req[c].id] = req[d].pay
    BY DEF KeyStartsOneSaga
  <2>1. req[c].id = req[d].id
    BY DEF ApiInv, CallInv, CallShape, generateSagaID
  <2>2. changed[d] => payload[req[d].id] = req[d].pay
    BY DEF ApiInv, CallInv, ChangeInv
  <2>3. changed[c] /\ changed[d] => c = d
    BY <2>1 DEF ApiInv, CreatedOnce
  <2> QED BY <2>1, <2>2, <2>3
<1> QED BY <1>1, InitApi, NextApi, PTL DEF Spec

\* Once a client was told that its saga was started, no later call by either
\* interface is told that there is none.
THEOREM AcceptedStartIsFound == Spec => []StartedSagaIsFound
<1>1. ApiInv => StartedSagaIsFound
  BY DEF ApiInv, CallInv, StoredInv, StartedSagaIsFound
<1> QED BY <1>1, InitApi, NextApi, PTL DEF Spec

\* A cancel that was accepted, or is about to be, sticks (CancelSaga under the
\* saga's lock, whatever the runner does before and after).
THEOREM CancelIsFinal == Spec => []AcceptedCancelSticks
<1>1. ApiInv => AcceptedCancelSticks
  BY DEF ApiInv, CallInv, StoredInv, Succeeds, AcceptedCancelSticks, IsAccepted, Ended
<1> QED BY <1>1, InitApi, NextApi, PTL DEF Spec

\* No call that has changed the store is answered with a refusal, whichever
\* error the store or the lock adds after the commit (joinLockErrors,
\* mapStoreError).
THEOREM RefusalIsHonest == Spec => []RefusedChangesNothing
<1>1. ApiInv => RefusedChangesNothing
  BY DEF ApiInv, CallInv, ChangeInv, RefusedChangesNothing
<1> QED BY <1>1, InitApi, NextApi, PTL DEF Spec
=============================================================================
