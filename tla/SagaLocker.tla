------------------------------ MODULE SagaLocker ------------------------------
(***************************************************************************)
(* sagaLocker.withSagaLock over lock.Redis, with its clocks: the TTL of    *)
(* the key, the renew ticker and renew timeout (each half the TTL), the    *)
(* acquire deadline and the answers of Redis, which take time.  One key;   *)
(* time passes in Tick, in units of which TTL and Latency are multiples.   *)
(*                                                                         *)
(* SagaRunner only knows a lock that may be lost or may not; this module   *)
(* shows when it may not, and how long a lost lock stays unnoticed.        *)
(*                                                                         *)
(* Redis and redsync are not part of the repository: SET NX PX, the        *)
(* compare-and-expire of Extend and the compare-and-delete of Release are  *)
(* modelled by what redis.go expects of them.                              *)
(***************************************************************************)
EXTENDS Naturals

CONSTANTS
    Procs,          \* callers of withSagaLock
    HasDeadline,    \* those whose ctx carries a deadline of its own
    TTL,            \* SCIPIO_LOCK_TTL
    Latency,        \* an answer of Redis that takes longer is late; redsync's
                    \* timeout for one attempt to set the key
    RetryInterval,  \* SCIPIO_LOCK_RETRY_INTERVAL, and redsync's own delays
    Nobody, Orphan  \* the key is not set; set by a caller that has left

\* A faulty ticker and a faulty timeout, of a whole TTL each, and a deadline
\* that leaves room for one attempt only.
renewIntervalTTL == TTL
renewTimeoutTTL == TTL
acquireTimeoutRetry == RetryInterval

\* Never zero: the code's minimum of a nanosecond is a unit here.
lockRenewInterval == IF TTL \div 2 > 0 THEN TTL \div 2 ELSE 1
lockRenewTimeout == IF TTL \div 2 > 0 THEN TTL \div 2 ELSE 1
lockAcquireTimeout == IF TTL > 0 THEN TTL ELSE 1

\* With answers this quick a renewal sent half a TTL after the caller learned
\* that the key is set arrives before the key expires.  Not so with a TTL of a
\* single unit, which newSagaLocker accepts as well: the renew interval is then
\* the whole TTL.
ASSUME TimingAssumption ==
    /\ TTL \in Nat
    /\ Latency \in Nat
    /\ RetryInterval \in Nat \ {0}
    /\ 4 * Latency < TTL /\ 1 < TTL
    /\ HasDeadline \subseteq Procs
    /\ Nobody # Orphan
    /\ {Nobody, Orphan} \cap Procs = {}

VARIABLES
    owner,      \* Redis: whose token the key holds
    ttl,        \* Redis: remaining life of the key
    pc,         \* where the caller is in withSagaLock
    attempt,    \* its attempt to set the key: sent, or served and how
    ext,        \* its watchdog's Extend: sent, or served and how
    age,        \* time since the attempt or the Release was sent, or the
                \* last attempt failed
    wait,       \* time spent in Acquire
    tick,       \* time until the renew ticker fires
    lockCtx,    \* lockCtx is not cancelled
    reqCtx,     \* the caller's ctx is not cancelled
    dog,        \* the watchdog runs
    renewErr,   \* what is in renewErrCh: no error, a failed renewal, or the
                \* caller's deadline
    sawTaken,   \* history: an attempt found the key taken
    lost,       \* history: how long fn has run without the key, lockCtx alive
    responsive, \* history: Redis has answered every request, and none late
    answer      \* what withSagaLock returned

clocks == <<age, wait, tick, lost>>
ctxs == <<lockCtx, reqCtx>>
vars == <<owner, ttl, pc, attempt, ext, clocks, ctxs, dog, renewErr, sawTaken, responsive, answer>>

Init ==
    /\ owner = Nobody
    /\ ttl = 0
    /\ pc = [p \in Procs |-> "idle"]
    /\ attempt = [p \in Procs |-> "none"]
    /\ ext = [p \in Procs |-> "none"]
    /\ age = [p \in Procs |-> 0]
    /\ wait = [p \in Procs |-> 0]
    /\ tick = [p \in Procs |-> 0]
    /\ lost = [p \in Procs |-> 0]
    /\ lockCtx = [p \in Procs |-> FALSE]
    /\ reqCtx = [p \in Procs |-> TRUE]
    /\ dog = [p \in Procs |-> FALSE]
    /\ renewErr = [p \in Procs |-> "none"]
    /\ sawTaken = [p \in Procs |-> FALSE]
    /\ responsive = TRUE
    /\ answer = [p \in Procs |-> "none"]

-----------------------------------------------------------------------------
(* Acquire *)

Begin(p) ==
    /\ pc[p] = "idle"
    /\ pc' = [pc EXCEPT ![p] = "acquire"]
    /\ answer' = [answer EXCEPT ![p] = "none"]
    /\ sawTaken' = [sawTaken EXCEPT ![p] = FALSE]
    /\ age' = [age EXCEPT ![p] = RetryInterval]
    /\ UNCHANGED <<owner, ttl, attempt, ext, wait, tick, lost, ctxs, dog, renewErr, responsive>>

\* The client goes away, or its deadline passes.  Derived contexts go with it.
RequestEnds(p) ==
    /\ pc[p] \in {"acquire", "fn"}
    /\ reqCtx[p]
    /\ reqCtx' = [reqCtx EXCEPT ![p] = FALSE]
    /\ lockCtx' = [lockCtx EXCEPT ![p] = FALSE]
    /\ UNCHANGED <<owner, ttl, pc, attempt, ext, clocks, dog, renewErr, sawTaken, answer, responsive>>

\* acquireCtx: the caller's, with a deadline of the locker's if that has none.
AcquireCtxDone(p) == ~reqCtx[p] \/ (p \notin HasDeadline /\ wait[p] >= lockAcquireTimeout)

\* mutex.LockContext: at once, and again with the next tick, which may come
\* any time within the interval.
SendAttempt(p) ==
    /\ pc[p] = "acquire"
    /\ attempt[p] = "none"
    /\ ~AcquireCtxDone(p)
    /\ attempt' = [attempt EXCEPT ![p] = "sent"]
    /\ age' = [age EXCEPT ![p] = 0]
    /\ UNCHANGED <<owner, ttl, pc, ext, wait, tick, lost, ctxs, dog, renewErr, sawTaken, answer, responsive>>

\* Redis executes SET NX PX.
ServeAttempt(p) ==
    /\ attempt[p] = "sent"
    /\ attempt' = [attempt EXCEPT ![p] = IF owner = Nobody THEN "set" ELSE "taken"]
    /\ owner' = IF owner = Nobody THEN p ELSE owner
    /\ ttl' = IF owner = Nobody THEN TTL ELSE ttl
    /\ UNCHANGED <<pc, ext, clocks, ctxs, dog, renewErr, sawTaken, answer, responsive>>

\* The key is set: the watchdog starts and fn is called.
Acquired(p) ==
    /\ pc[p] = "acquire"
    /\ attempt[p] = "set"
    /\ pc' = [pc EXCEPT ![p] = "fn"]
    /\ attempt' = [attempt EXCEPT ![p] = "none"]
    /\ tick' = [tick EXCEPT ![p] = lockRenewInterval]
    /\ lockCtx' = [lockCtx EXCEPT ![p] = reqCtx[p]]
    /\ dog' = [dog EXCEPT ![p] = TRUE]
    /\ age' = [age EXCEPT ![p] = 0]
    /\ wait' = [wait EXCEPT ![p] = 0]
    /\ UNCHANGED <<owner, ttl, ext, lost, reqCtx, renewErr, sawTaken, answer, responsive>>

\* A faulty isRaceError that knows none of redsync's errors.
TakenIsError(p) ==
    /\ pc[p] = "acquire"
    /\ attempt[p] = "taken"
    /\ attempt' = [attempt EXCEPT ![p] = "none"]
    /\ pc' = [pc EXCEPT ![p] = "idle"]
    /\ answer' = [answer EXCEPT ![p] = "error"]
    /\ sawTaken' = [sawTaken EXCEPT ![p] = TRUE]
    /\ age' = [age EXCEPT ![p] = 0]
    /\ wait' = [wait EXCEPT ![p] = 0]
    /\ UNCHANGED <<owner, ttl, ext, tick, lost, ctxs, dog, renewErr, responsive>>

\* isRaceError: somebody else's key, so Acquire waits and tries again.
Taken(p) ==
    /\ pc[p] = "acquire"
    /\ attempt[p] = "taken"
    /\ attempt' = [attempt EXCEPT ![p] = "none"]
    /\ sawTaken' = [sawTaken EXCEPT ![p] = TRUE]
    /\ age' = [age EXCEPT ![p] = 0]
    /\ UNCHANGED <<owner, ttl, pc, ext, wait, tick, lost, ctxs, dog, renewErr, answer, responsive>>

\* An abandoned attempt: redsync deletes the key it has set, if it can; one
\* that it cannot delete, or that is set later, stays until it expires.
Abandon(p) ==
    /\ attempt' = [attempt EXCEPT ![p] = "none"]
    /\ age' = [age EXCEPT ![p] = 0]
    /\ \/ /\ attempt[p] # "set"
          /\ UNCHANGED <<owner, ttl>>
       \/ /\ attempt[p] = "set" \/ (attempt[p] = "sent" /\ owner = Nobody)
          /\ owner' = IF owner \in {p, Nobody} THEN Orphan ELSE owner
          /\ ttl' = IF owner = Nobody THEN TTL ELSE ttl
       \/ /\ attempt[p] = "set" /\ owner = p
          /\ owner' = Nobody
          /\ ttl' = 0

\* Redis did not answer the attempt.  redsync tries again, or Acquire returns
\* its error, which is no race error.
AttemptLost(p) ==
    /\ pc[p] = "acquire"
    /\ attempt[p] # "none"
    /\ responsive' = FALSE
    /\ Abandon(p)
    /\ \/ UNCHANGED <<pc, wait, answer, reqCtx>>
       \/ /\ pc' = [pc EXCEPT ![p] = "idle"]
          /\ wait' = [wait EXCEPT ![p] = 0]
          /\ answer' = [answer EXCEPT ![p] = "error"]
          /\ reqCtx' = [reqCtx EXCEPT ![p] = TRUE]
    /\ UNCHANGED <<ext, tick, lost, lockCtx, dog, renewErr, sawTaken>>

isLockContended(p) == p \notin HasDeadline /\ reqCtx[p]

\* Acquire returns ctx.Err(): of the caller's ctx, or of the locker's own
\* deadline, which isLockContended reports as ErrLockContended.
AcquireEnds(p) ==
    /\ pc[p] = "acquire"
    /\ AcquireCtxDone(p)
    /\ Abandon(p)
    /\ pc' = [pc EXCEPT ![p] = "idle"]
    /\ wait' = [wait EXCEPT ![p] = 0]
    /\ answer' = [answer EXCEPT ![p] = IF isLockContended(p) THEN "contended"
                                                                   ELSE "canceled"]
    /\ reqCtx' = [reqCtx EXCEPT ![p] = TRUE]
    /\ UNCHANGED <<ext, tick, lost, lockCtx, dog, renewErr, sawTaken, responsive>>

-----------------------------------------------------------------------------
(* The watchdog *)

\* waitAndRenew takes the tick; when lockCtx is done as well, select may
\* still choose the tick.  The call does not end with lockCtx.
SendExtend(p) ==
    /\ dog[p]
    /\ ext[p] = "none"
    /\ tick[p] = 0
    /\ ext' = [ext EXCEPT ![p] = "sent"]
    /\ tick' = [tick EXCEPT ![p] = lockRenewInterval]
    /\ UNCHANGED <<owner, ttl, pc, attempt, age, wait, lost, ctxs, dog, renewErr, sawTaken, answer, responsive>>

SinceExtend(p) == lockRenewInterval - tick[p]

\* Redis compares the token and sets the expiry anew.
ServeExtend(p) ==
    /\ ext[p] = "sent"
    /\ ext' = [ext EXCEPT ![p] = IF owner = p THEN "extended" ELSE "refused"]
    /\ ttl' = IF owner = p THEN TTL ELSE ttl
    /\ UNCHANGED <<owner, pc, attempt, clocks, ctxs, dog, renewErr, sawTaken, answer, responsive>>

Extended(p) ==
    /\ ext[p] = "extended"
    /\ ext' = [ext EXCEPT ![p] = "none"]
    /\ UNCHANGED <<owner, ttl, pc, attempt, clocks, ctxs, dog, renewErr, sawTaken, answer, responsive>>

\* ErrExtendFailed, another error, or no answer within lockRenewTimeout: the
\* watchdog offers the error, cancels lockCtx and ends.
ExtendFails(p) ==
    /\ dog[p]
    /\ ext[p] # "none"
    /\ \/ ext[p] = "refused" /\ UNCHANGED responsive
       \/ responsive' = FALSE
    /\ ext' = [ext EXCEPT ![p] = "none"]
    /\ renewErr' = [renewErr EXCEPT ![p] = "failed"]
    /\ lockCtx' = [lockCtx EXCEPT ![p] = FALSE]
    /\ dog' = [dog EXCEPT ![p] = FALSE]
    /\ UNCHANGED <<owner, ttl, pc, attempt, clocks, reqCtx, sawTaken, answer>>

\* lockCtx is done.  When it was the deadline of the caller that ended it, and
\* not a cancellation, the watchdog takes that for a failed renewal.
DogEnds(p) ==
    /\ dog[p]
    /\ ext[p] = "none"
    /\ ~lockCtx[p]
    /\ dog' = [dog EXCEPT ![p] = FALSE]
    /\ \/ UNCHANGED renewErr
       \/ /\ p \in HasDeadline /\ ~reqCtx[p]
          /\ renewErr' = [renewErr EXCEPT ![p] = "deadline"]
    /\ UNCHANGED <<owner, ttl, pc, attempt, ext, clocks, ctxs, sawTaken, answer, responsive>>

-----------------------------------------------------------------------------
(* fn returns, and Release *)

\* A faulty withSagaLock that waits for the watchdog without cancelLock.
FnReturnsAlive(p) ==
    /\ pc[p] = "fn"
    /\ pc' = [pc EXCEPT ![p] = "closing"]
    /\ lost' = [lost EXCEPT ![p] = 0]
    /\ UNCHANGED <<owner, ttl, attempt, ext, age, wait, tick, ctxs, dog, renewErr, sawTaken, answer, responsive>>

\* cancelLock after fn.
FnReturns(p) ==
    /\ pc[p] = "fn"
    /\ pc' = [pc EXCEPT ![p] = "closing"]
    /\ lockCtx' = [lockCtx EXCEPT ![p] = FALSE]
    /\ lost' = [lost EXCEPT ![p] = 0]
    /\ UNCHANGED <<owner, ttl, attempt, ext, age, wait, tick, reqCtx, dog, renewErr, sawTaken, answer, responsive>>

\* <-watchdogDone, then the deferred Release is sent.
SendRelease(p) ==
    /\ pc[p] = "closing"
    /\ ~dog[p]
    /\ pc' = [pc EXCEPT ![p] = "release"]
    /\ tick' = [tick EXCEPT ![p] = 0]
    /\ UNCHANGED <<owner, ttl, attempt, ext, age, wait, lost, ctxs, dog, renewErr, sawTaken, answer, responsive>>

\* A faulty Release that does not compare the token.
ReleasedAnyKey(p) ==
    /\ pc[p] = "release"
    /\ owner' = Nobody
    /\ ttl' = 0
    /\ pc' = [pc EXCEPT ![p] = "idle"]
    /\ age' = [age EXCEPT ![p] = 0]
    /\ answer' = [answer EXCEPT ![p] = IF renewErr[p] = "none" THEN "ok" ELSE "error"]
    /\ renewErr' = [renewErr EXCEPT ![p] = "none"]
    /\ reqCtx' = [reqCtx EXCEPT ![p] = TRUE]
    /\ UNCHANGED <<attempt, ext, wait, tick, lost, lockCtx, dog, sawTaken, responsive>>

\* Redis compares the token and deletes the key, or the Release gets lost.
\* joinLockErrors: a failed renewal is an error also when fn succeeded.
Released(p) ==
    /\ pc[p] = "release"
    /\ \/ owner' = (IF owner = p THEN Nobody ELSE owner) /\ UNCHANGED responsive
       \/ owner' = (IF owner = p THEN Orphan ELSE owner) /\ responsive' = FALSE
    /\ ttl' = IF owner' = Nobody THEN 0 ELSE ttl
    /\ pc' = [pc EXCEPT ![p] = "idle"]
    /\ age' = [age EXCEPT ![p] = 0]
    /\ answer' = [answer EXCEPT ![p] =
        CASE renewErr[p] = "none" -> "ok"
          [] renewErr[p] = "deadline" -> "canceled"
          [] renewErr[p] = "failed" -> "error"]
    /\ renewErr' = [renewErr EXCEPT ![p] = "none"]
    /\ reqCtx' = [reqCtx EXCEPT ![p] = TRUE]
    /\ UNCHANGED <<attempt, ext, wait, tick, lost, lockCtx, dog, sawTaken>>

-----------------------------------------------------------------------------
(* Time *)

\* A faulty redsync without a timeout for the single attempt.
DueButAttempts(p) ==
    \/ pc[p] = "acquire" /\ AcquireCtxDone(p)
    \/ ext[p] # "none" /\ SinceExtend(p) >= lockRenewTimeout
    \/ dog[p] /\ ext[p] = "none" /\ (tick[p] = 0 \/ ~lockCtx[p])

\* Timers fire on time: what is due happens before the clock moves on.  An
\* attempt is due at once and after every retry interval.
Due(p) ==
    \/ pc[p] = "acquire" /\ attempt[p] = "none" /\ age[p] >= RetryInterval
    \/ pc[p] = "acquire" /\ AcquireCtxDone(p)
    \/ attempt[p] # "none" /\ age[p] >= Latency
    \/ ext[p] # "none" /\ SinceExtend(p) >= lockRenewTimeout
    \/ dog[p] /\ ext[p] = "none" /\ (tick[p] = 0 \/ ~lockCtx[p])

\* Redis has not answered a Release or an Extend in time.
Overdue(p) ==
    \/ pc[p] = "release" /\ age[p] >= Latency
    \/ ext[p] # "none" /\ SinceExtend(p) >= Latency

Runs(p) == pc[p] = "fn" /\ lockCtx[p]

Tick ==
    /\ \A p \in Procs : ~Due(p)
    /\ ttl' = IF ttl > 0 THEN ttl - 1 ELSE 0
    /\ owner' = IF ttl <= 1 THEN Nobody ELSE owner
    /\ age' = [p \in Procs |-> IF pc[p] = "acquire" \/ (pc[p] = "release" /\ age[p] < Latency)
                               THEN age[p] + 1 ELSE age[p]]
    /\ wait' = [p \in Procs |-> IF pc[p] = "acquire" /\ wait[p] < lockAcquireTimeout
                                THEN wait[p] + 1 ELSE wait[p]]
    /\ tick' = [p \in Procs |-> IF dog[p] /\ tick[p] > 0 THEN tick[p] - 1 ELSE tick[p]]
    /\ lost' = [p \in Procs |-> IF Runs(p) /\ owner # p THEN lost[p] + 1 ELSE lost[p]]
    /\ responsive' = (responsive /\ \A p \in Procs : ~Overdue(p))
    /\ UNCHANGED <<pc, attempt, ext, ctxs, dog, renewErr, sawTaken, answer>>

-----------------------------------------------------------------------------

AcquireStep(p) ==
    \/ SendAttempt(p) \/ Acquired(p) \/ Taken(p) \/ AttemptLost(p) \/ AcquireEnds(p)

WatchdogStep(p) == SendExtend(p) \/ Extended(p) \/ ExtendFails(p) \/ DogEnds(p)

ReleaseStep(p) == SendRelease(p) \/ Released(p)

RedisStep(p) == ServeAttempt(p) \/ ServeExtend(p)

Next ==
    \/ Tick
    \/ \E p \in Procs :
        \/ Begin(p) \/ RequestEnds(p) \/ FnReturns(p)
        \/ AcquireStep(p) \/ WatchdogStep(p) \/ ReleaseStep(p) \/ RedisStep(p)

Spec == Init /\ [][Next]_vars

\* The clock runs, also when ever new requests come and go (hence the strong
\* fairness: there are not infinitely many of them in an instant); goroutines
\* whose event is due run.  That fn returns is an assumption on its environment:
\* the calls to participants end by a timeout, but the statements it sends to
\* the store have none, and only lockCtx cuts them off.  A select chooses at random among the cases that are ready, so
\* the watchdog does not take the tick for ever.  A request without a deadline
\* need not end, and Redis need not answer.
Fairness ==
    /\ SF_vars(Tick)
    /\ \A p \in Procs :
        /\ WF_vars(AcquireStep(p))
        /\ WF_vars(WatchdogStep(p))
        /\ SF_vars(DogEnds(p))
        /\ WF_vars(ReleaseStep(p))
        /\ WF_vars(FnReturns(p))
        /\ p \in HasDeadline => WF_vars(RequestEnds(p))

LiveSpec == Spec /\ Fairness

-----------------------------------------------------------------------------
(* Properties *)

\* Every variable has its type, and no clock passes the deadline it is for.
TypeOK ==
    /\ owner \in Procs \cup {Nobody, Orphan}
    /\ ttl \in 0..TTL
    /\ pc \in [Procs -> {"idle", "acquire", "fn", "closing", "release"}]
    /\ attempt \in [Procs -> {"none", "sent", "set", "taken"}]
    /\ ext \in [Procs -> {"none", "sent", "extended", "refused"}]
    /\ DOMAIN age = Procs
    /\ \A p \in Procs : age[p] \in 0..(IF attempt[p] = "none" /\ pc[p] = "acquire"
                                         THEN RetryInterval ELSE Latency)
    /\ wait \in [Procs -> 0..lockAcquireTimeout]
    /\ tick \in [Procs -> 0..lockRenewInterval]
    /\ lost \in [Procs -> Nat]
    /\ lockCtx \in [Procs -> BOOLEAN]
    /\ reqCtx \in [Procs -> BOOLEAN]
    /\ dog \in [Procs -> BOOLEAN]
    /\ renewErr \in [Procs -> {"none", "failed", "deadline"}]
    /\ sawTaken \in [Procs -> BOOLEAN]
    /\ responsive \in BOOLEAN
    /\ answer \in [Procs -> {"none", "ok", "contended", "error", "canceled"}]

\* While Redis answers within Latency, fn never runs without the key unless
\* its lockCtx is cancelled: the renewal, sent half a TTL after the caller
\* learned that it has the lock, arrives in time, every time (what SagaRunner
\* assumes without LockCanBeLost).
HolderKeepsKey == responsive => \A p \in Procs : Runs(p) => owner = p

\* Whatever Redis does, fn runs without the key and with a live lockCtx for
\* no longer than the answer to the last successful request was under way:
\* renew interval and renew timeout together are not longer than the TTL.
UnawareIsBounded == \A p \in Procs : lost[p] <= Latency

\* A caller whose request did not end gets no error from the lock while Redis
\* answers: it gets the lock, or is told that the saga is busy.
ContentionIsNoError == responsive => \A p \in Procs : answer[p] # "error"

\* ErrLockContended, which the API answers as "saga is busy", is only returned
\* to a caller that met somebody else's lock, while Redis answers.
ContendedMeansHeld ==
    responsive => \A p \in Procs : answer[p] = "contended" => sawTaken[p]

\* withSagaLock returns: the wait for the watchdog, which may be in the middle
\* of an Extend that does not end with lockCtx, is no deadlock, even when Redis
\* never answers again.
WithSagaLockReturns == \A p \in Procs : pc[p] # "idle" ~> pc[p] = "idle"

-----------------------------------------------------------------------------
\* The abstract specification, for one key.
LockPhase(p) ==
    IF Runs(p) THEN "in"
    ELSE IF pc[p] \in {"fn", "closing", "release"} THEN "leaving" ELSE "out"

Lock == INSTANCE SagaLock WITH
    Sagas    <- {"saga"},
    owner    <- [s \in {"saga"} |-> owner],
    phase    <- [s \in {"saga"} |-> [p \in Procs |-> LockPhase(p)]],
    reliable <- responsive

\* The locker keeps the promise that SagaRunner builds on: as long as Redis
\* answers in time a key only expires when nobody runs fn under it, and in any
\* case nobody loses the key to the Release or the failed Acquire of another.
ImplementsLock == Lock!Spec
=============================================================================
