--------------------------- MODULE SagaLockerProofs ---------------------------
(***************************************************************************)
(* The clocks of withSagaLock, for any number of callers and every TTL,    *)
(* latency and retry interval that TimingAssumption allows.                *)
(***************************************************************************)
EXTENDS SagaLocker, TLAPS

\* Which parts of withSagaLock run together.
Shape(p) ==
    /\ attempt[p] # "none" => pc[p] = "acquire"
    /\ ext[p] # "none" => dog[p]
    /\ dog[p] => pc[p] \in {"fn", "closing"}
    /\ Runs(p) => dog[p]
    /\ pc[p] # "fn" => lost[p] = 0
    /\ pc[p] # "acquire" => wait[p] = 0

\* An attempt that has set the key is answered long before the key expires.
SetInv(p) == attempt[p] = "set" => owner = p /\ ttl + age[p] >= TTL

\* While Redis answers in time and the watchdog runs, the key outlives the
\* renew ticker by more than an answer takes, and then the answer.
RenewInv(p) ==
    /\ responsive /\ dog[p] =>
        /\ owner = p
        /\ ext[p] # "refused"
        /\ ext[p] = "sent" => SinceExtend(p) <= Latency /\ ttl + SinceExtend(p) > Latency
        /\ ext[p] # "sent" => ttl > tick[p] + Latency
    /\ responsive => renewErr[p] # "failed" /\ answer[p] # "error"

\* The time until the watchdog gives up unless Redis extends the key: the
\* ticker and a whole timeout, or the rest of the timeout.
Patience(p) == IF ext[p] \in {"none", "extended"} THEN tick[p] + lockRenewTimeout ELSE tick[p]

\* Whatever Redis does: the watchdog gives up at most Latency after the key
\* has expired.
UnawareInv(p) ==
    /\ lost[p] <= Latency
    /\ Runs(p) /\ owner = p => lost[p] = 0 /\ Patience(p) <= ttl + Latency
    /\ Runs(p) /\ owner # p => lost[p] + Patience(p) <= Latency

\* Until the first attempt is answered the acquire deadline is far.
AcquireInv(p) ==
    responsive =>
        /\ pc[p] = "acquire" /\ ~sawTaken[p] =>
            IF attempt[p] = "none" THEN age[p] = RetryInterval /\ wait[p] = 0
                                   ELSE wait[p] <= age[p]
        /\ answer[p] = "contended" => sawTaken[p]

CallerInv(p) == Shape(p) /\ SetInv(p) /\ RenewInv(p) /\ UnawareInv(p) /\ AcquireInv(p)

LockerInv == TypeOK /\ \A p \in Procs : CallerInv(p)

-----------------------------------------------------------------------------

\* What the proofs use of the code's constants: interval and timeout fit into
\* a TTL together, and interval and two answers do with room to spare.
LEMMA Timing ==
    /\ TTL \in Nat /\ Latency \in Nat /\ RetryInterval \in Nat /\ RetryInterval > 0
    /\ lockRenewInterval \in Nat /\ lockRenewInterval > 0
    /\ lockRenewTimeout = lockRenewInterval
    /\ lockRenewInterval + lockRenewInterval <= TTL
    /\ lockRenewInterval + Latency + Latency < TTL
    /\ lockAcquireTimeout = TTL
BY TimingAssumption DEF lockRenewInterval, lockRenewTimeout, lockAcquireTimeout

\* Nobody has called.
LEMMA InitLocker == Init => LockerInv
<1> SUFFICES ASSUME Init PROVE LockerInv
  OBVIOUS
<1>1. TypeOK
  BY Timing DEF Init, TypeOK
<1>2. ASSUME NEW p \in Procs PROVE CallerInv(p)
  BY Timing DEF Init, CallerInv, Shape, SetInv, RenewInv, UnawareInv, AcquireInv, Runs
<1> QED BY <1>1, <1>2 DEF LockerInv

\* A step of somebody else: nothing of this caller's changes, and neither does
\* its key.
Same(p) ==
    /\ pc'[p] = pc[p] /\ attempt'[p] = attempt[p] /\ ext'[p] = ext[p]
    /\ age'[p] = age[p] /\ wait'[p] = wait[p] /\ tick'[p] = tick[p] /\ lost'[p] = lost[p]
    /\ lockCtx'[p] = lockCtx[p] /\ reqCtx'[p] = reqCtx[p] /\ dog'[p] = dog[p]
    /\ renewErr'[p] = renewErr[p] /\ sawTaken'[p] = sawTaken[p] /\ answer'[p] = answer[p]

KeyStays(p) ==
    /\ owner = p => owner' = p /\ ttl' = ttl
    /\ owner' = p => owner = p
    /\ responsive' => responsive

LEMMA OtherKeeps ==
    ASSUME NEW p \in Procs, CallerInv(p), Same(p), KeyStays(p)
    PROVE  CallerInv(p)'
<1>1. Runs(p)' = Runs(p) /\ Patience(p)' = Patience(p) /\ SinceExtend(p)' = SinceExtend(p)
  BY DEF Same, Runs, Patience, SinceExtend
<1>2. Shape(p)'
  BY <1>1 DEF CallerInv, Shape, Same
<1>3. SetInv(p)'
  BY DEF CallerInv, SetInv, Same, KeyStays
<1>4. RenewInv(p)'
  BY <1>1 DEF CallerInv, RenewInv, Same, KeyStays
<1>5. UnawareInv(p)'
  BY <1>1 DEF CallerInv, UnawareInv, Same, KeyStays
<1>6. AcquireInv(p)'
  BY DEF CallerInv, AcquireInv, Same, KeyStays
<1> QED BY <1>2, <1>3, <1>4, <1>5, <1>6 DEF CallerInv

\* One caller's step.
LEMMA OneCaller ==
    ASSUME LockerInv, NEW p \in Procs, TypeOK', CallerInv(p)',
           \A q \in Procs : q # p => Same(q) /\ KeyStays(q)
    PROVE  LockerInv'
BY OtherKeeps DEF LockerInv

-----------------------------------------------------------------------------

\* withSagaLock is called.
LEMMA BeginKeeps == ASSUME LockerInv, NEW p \in Procs, Begin(p) PROVE LockerInv'
<1> USE Timing DEF LockerInv
<1>1. TypeOK'
  BY DEF Begin, TypeOK, CallerInv, Shape, ctxs
<1>2. \A q \in Procs : q # p => Same(q) /\ KeyStays(q)
  BY DEF Begin, TypeOK, Same, KeyStays, ctxs
<1>3. CallerInv(p)'
  BY DEF Begin, TypeOK, CallerInv, Shape, SetInv, RenewInv, UnawareInv, AcquireInv, Runs, ctxs,
         SinceExtend, Patience
<1> QED BY <1>1, <1>2, <1>3, OneCaller

\* The caller's ctx ends.
LEMMA RequestEndsKeeps == ASSUME LockerInv, NEW p \in Procs, RequestEnds(p) PROVE LockerInv'
<1> USE Timing DEF LockerInv
<1>1. TypeOK'
  BY DEF RequestEnds, TypeOK, clocks
<1>2. \A q \in Procs : q # p => Same(q) /\ KeyStays(q)
  BY DEF RequestEnds, TypeOK, Same, KeyStays, clocks
<1>3. Shape(p)'
  BY DEF RequestEnds, TypeOK, CallerInv, Shape, Runs, clocks
<1>4. SetInv(p)'
  BY DEF RequestEnds, TypeOK, CallerInv, SetInv, clocks
<1>5. RenewInv(p)'
  BY DEF RequestEnds, TypeOK, CallerInv, RenewInv, SinceExtend, clocks
<1>6. UnawareInv(p)'
  BY DEF RequestEnds, TypeOK, CallerInv, UnawareInv, Runs, clocks
<1>7. AcquireInv(p)'
  BY DEF RequestEnds, TypeOK, CallerInv, AcquireInv, clocks
<1> QED BY <1>1, <1>2, <1>3, <1>4, <1>5, <1>6, <1>7, OneCaller DEF CallerInv

\* An attempt to set the key is sent.
LEMMA SendAttemptKeeps == ASSUME LockerInv, NEW p \in Procs, SendAttempt(p) PROVE LockerInv'
<1> USE Timing DEF LockerInv
<1>1. TypeOK'
  BY DEF SendAttempt, TypeOK, ctxs
<1>2. \A q \in Procs : q # p => Same(q) /\ KeyStays(q)
  BY DEF SendAttempt, TypeOK, Same, KeyStays, ctxs
<1>3. Shape(p)'
  BY DEF SendAttempt, TypeOK, CallerInv, Shape, Runs
<1>4. SetInv(p)'
  BY DEF SendAttempt, TypeOK, SetInv
<1>5. RenewInv(p)'
  BY DEF SendAttempt, TypeOK, CallerInv, RenewInv, SinceExtend
<1>6. UnawareInv(p)'
  BY DEF SendAttempt, TypeOK, CallerInv, UnawareInv, Runs
<1>7. AcquireInv(p)'
  BY DEF SendAttempt, TypeOK, CallerInv, AcquireInv
<1> QED BY <1>1, <1>2, <1>3, <1>4, <1>5, <1>6, <1>7, OneCaller DEF CallerInv

\* Redis serves an attempt.
LEMMA ServeAttemptKeeps == ASSUME LockerInv, NEW p \in Procs, ServeAttempt(p) PROVE LockerInv'
<1> USE Timing DEF LockerInv
<1>1. TypeOK'
  BY DEF ServeAttempt, TypeOK, ctxs, clocks
<1>2. \A q \in Procs : q # p => Same(q) /\ KeyStays(q)
  BY TimingAssumption DEF ServeAttempt, TypeOK, Same, KeyStays, ctxs, clocks
<1>3. Shape(p)'
  BY DEF ServeAttempt, TypeOK, CallerInv, Shape, Runs, clocks
<1>4. SetInv(p)'
  BY DEF ServeAttempt, TypeOK, SetInv, clocks
<1>5. RenewInv(p)'
  BY DEF ServeAttempt, TypeOK, CallerInv, Shape, RenewInv
<1>6. UnawareInv(p)'
  BY DEF ServeAttempt, TypeOK, CallerInv, Shape, UnawareInv, Runs, clocks
<1>7. AcquireInv(p)'
  BY DEF ServeAttempt, TypeOK, CallerInv, AcquireInv, clocks
<1> QED BY <1>1, <1>2, <1>3, <1>4, <1>5, <1>6, <1>7, OneCaller DEF CallerInv

\* The caller learns that it has the lock.
LEMMA AcquiredKeeps == ASSUME LockerInv, NEW p \in Procs, Acquired(p) PROVE LockerInv'
<1> USE Timing DEF LockerInv
<1>1. TypeOK'
  BY DEF Acquired, TypeOK
<1>2. \A q \in Procs : q # p => Same(q) /\ KeyStays(q)
  BY DEF Acquired, TypeOK, Same, KeyStays
<1>3. Shape(p)'
  BY DEF Acquired, TypeOK, Shape
<1>4. SetInv(p)'
  BY DEF Acquired, TypeOK, SetInv
<1>5. RenewInv(p)'
  BY DEF Acquired, TypeOK, CallerInv, Shape, SetInv, RenewInv
<1>6. UnawareInv(p)'
  BY DEF Acquired, TypeOK, CallerInv, Shape, SetInv, UnawareInv, Patience
<1>7. AcquireInv(p)'
  BY DEF Acquired, TypeOK, CallerInv, AcquireInv
<1> QED BY <1>1, <1>2, <1>3, <1>4, <1>5, <1>6, <1>7, OneCaller DEF CallerInv

\* The key is somebody else's.
LEMMA TakenKeeps == ASSUME LockerInv, NEW p \in Procs, Taken(p) PROVE LockerInv'
<1> USE Timing DEF LockerInv
<1>1. TypeOK'
  BY DEF Taken, TypeOK, ctxs
<1>2. \A q \in Procs : q # p => Same(q) /\ KeyStays(q)
  BY DEF Taken, TypeOK, Same, KeyStays, ctxs
<1>3. Shape(p)'
  BY DEF Taken, TypeOK, CallerInv, Shape, Runs
<1>4. SetInv(p)'
  BY DEF Taken, TypeOK, SetInv
<1>5. RenewInv(p)'
  BY DEF Taken, TypeOK, CallerInv, RenewInv, SinceExtend
<1>6. UnawareInv(p)'
  BY DEF Taken, TypeOK, CallerInv, UnawareInv, Runs
<1>7. AcquireInv(p)'
  BY DEF Taken, TypeOK, AcquireInv
<1> QED BY <1>1, <1>2, <1>3, <1>4, <1>5, <1>6, <1>7, OneCaller DEF CallerInv

\* The renew ticker fires.
LEMMA SendExtendKeeps == ASSUME LockerInv, NEW p \in Procs, SendExtend(p) PROVE LockerInv'
<1> USE Timing DEF LockerInv
<1>1. TypeOK'
  BY DEF SendExtend, TypeOK, ctxs
<1>2. \A q \in Procs : q # p => Same(q) /\ KeyStays(q)
  BY DEF SendExtend, TypeOK, Same, KeyStays, ctxs
<1>3. Shape(p)'
  BY DEF SendExtend, TypeOK, CallerInv, Shape
<1>4. SetInv(p)'
  BY DEF SendExtend, TypeOK, CallerInv, SetInv
<1>5. RenewInv(p)'
  BY DEF SendExtend, TypeOK, CallerInv, RenewInv, SinceExtend
<1>6. UnawareInv(p)'
  BY DEF SendExtend, TypeOK, CallerInv, UnawareInv, Runs, Patience, ctxs
<1>7. AcquireInv(p)'
  BY DEF SendExtend, TypeOK, CallerInv, AcquireInv
<1> QED BY <1>1, <1>2, <1>3, <1>4, <1>5, <1>6, <1>7, OneCaller DEF CallerInv

\* Redis serves an Extend.
LEMMA ServeExtendKeeps == ASSUME LockerInv, NEW p \in Procs, ServeExtend(p) PROVE LockerInv'
<1> USE Timing DEF LockerInv
<1>1. TypeOK'
  BY DEF ServeExtend, TypeOK, ctxs, clocks
<1>2. \A q \in Procs : q # p => Same(q) /\ KeyStays(q)
  BY DEF ServeExtend, TypeOK, Same, KeyStays, ctxs, clocks
<1>3. Shape(p)'
  BY DEF ServeExtend, TypeOK, CallerInv, Shape, clocks
<1>4. SetInv(p)'
  BY DEF ServeExtend, TypeOK, CallerInv, Shape, SetInv
<1>5. RenewInv(p)'
  BY DEF ServeExtend, TypeOK, CallerInv, RenewInv, clocks
<1>6. UnawareInv(p)'
  BY DEF ServeExtend, TypeOK, CallerInv, UnawareInv, Runs, Patience, ctxs, clocks
<1>7. AcquireInv(p)'
  BY DEF ServeExtend, TypeOK, CallerInv, Shape, AcquireInv
<1> QED BY <1>1, <1>2, <1>3, <1>4, <1>5, <1>6, <1>7, OneCaller DEF CallerInv

\* The watchdog learns that the key is extended.
LEMMA ExtendedKeeps == ASSUME LockerInv, NEW p \in Procs, Extended(p) PROVE LockerInv'
<1> USE Timing DEF LockerInv
<1>1. TypeOK'
  BY DEF Extended, TypeOK, ctxs, clocks
<1>2. \A q \in Procs : q # p => Same(q) /\ KeyStays(q)
  BY DEF Extended, TypeOK, Same, KeyStays, ctxs, clocks
<1>3. Shape(p)'
  BY DEF Extended, TypeOK, CallerInv, Shape, clocks
<1>4. SetInv(p)'
  BY DEF Extended, TypeOK, CallerInv, Shape, SetInv
<1>5. RenewInv(p)'
  BY DEF Extended, TypeOK, CallerInv, RenewInv, clocks
<1>6. UnawareInv(p)'
  BY DEF Extended, TypeOK, CallerInv, UnawareInv, Runs, Patience, ctxs, clocks
<1>7. AcquireInv(p)'
  BY DEF Extended, TypeOK, CallerInv, Shape, AcquireInv
<1> QED BY <1>1, <1>2, <1>3, <1>4, <1>5, <1>6, <1>7, OneCaller DEF CallerInv

\* The watchdog gives up.
LEMMA ExtendFailsKeeps == ASSUME LockerInv, NEW p \in Procs, ExtendFails(p) PROVE LockerInv'
<1> USE Timing DEF LockerInv
<1>1. TypeOK'
  BY DEF ExtendFails, TypeOK, clocks
<1>2. \A q \in Procs : q # p => Same(q) /\ KeyStays(q)
  BY DEF ExtendFails, TypeOK, Same, KeyStays, clocks
<1>3. Shape(p)'
  BY DEF ExtendFails, TypeOK, CallerInv, Shape, Runs, clocks
<1>4. SetInv(p)'
  BY DEF ExtendFails, TypeOK, CallerInv, Shape, SetInv
<1>5. RenewInv(p)'
  BY DEF ExtendFails, TypeOK, CallerInv, RenewInv
<1>6. UnawareInv(p)'
  BY DEF ExtendFails, TypeOK, CallerInv, UnawareInv, Runs, clocks
<1>7. AcquireInv(p)'
  BY DEF ExtendFails, TypeOK, CallerInv, Shape, AcquireInv
<1> QED BY <1>1, <1>2, <1>3, <1>4, <1>5, <1>6, <1>7, OneCaller DEF CallerInv

\* The watchdog ends with lockCtx.
LEMMA DogEndsKeeps == ASSUME LockerInv, NEW p \in Procs, DogEnds(p) PROVE LockerInv'
<1> USE Timing DEF LockerInv
<1>1. TypeOK'
  BY DEF DogEnds, TypeOK, ctxs, clocks
<1>2. \A q \in Procs : q # p => Same(q) /\ KeyStays(q)
  BY DEF DogEnds, TypeOK, Same, KeyStays, ctxs, clocks
<1>3. Shape(p)'
  BY DEF DogEnds, TypeOK, CallerInv, Shape, Runs, ctxs, clocks
<1>4. SetInv(p)'
  BY DEF DogEnds, TypeOK, CallerInv, Shape, SetInv
<1>5. RenewInv(p)'
  BY DEF DogEnds, TypeOK, CallerInv, RenewInv
<1>6. UnawareInv(p)'
  BY DEF DogEnds, TypeOK, CallerInv, UnawareInv, Runs, ctxs, clocks
<1>7. AcquireInv(p)'
  BY DEF DogEnds, TypeOK, CallerInv, Shape, AcquireInv
<1> QED BY <1>1, <1>2, <1>3, <1>4, <1>5, <1>6, <1>7, OneCaller DEF CallerInv

\* fn returns.
LEMMA FnReturnsKeeps == ASSUME LockerInv, NEW p \in Procs, FnReturns(p) PROVE LockerInv'
<1> USE Timing DEF LockerInv
<1>1. TypeOK'
  BY DEF FnReturns, TypeOK
<1>2. \A q \in Procs : q # p => Same(q) /\ KeyStays(q)
  BY DEF FnReturns, TypeOK, Same, KeyStays
<1>3. Shape(p)'
  BY DEF FnReturns, TypeOK, CallerInv, Shape, Runs
<1>4. SetInv(p)'
  BY DEF FnReturns, TypeOK, CallerInv, SetInv
<1>5. RenewInv(p)'
  BY DEF FnReturns, TypeOK, CallerInv, RenewInv, SinceExtend
<1>6. UnawareInv(p)'
  BY DEF FnReturns, TypeOK, UnawareInv, Runs
<1>7. AcquireInv(p)'
  BY DEF FnReturns, TypeOK, CallerInv, AcquireInv
<1> QED BY <1>1, <1>2, <1>3, <1>4, <1>5, <1>6, <1>7, OneCaller DEF CallerInv

\* The watchdog has ended, the Release is sent.
LEMMA SendReleaseKeeps == ASSUME LockerInv, NEW p \in Procs, SendRelease(p) PROVE LockerInv'
<1> USE Timing DEF LockerInv
<1>1. TypeOK'
  BY DEF SendRelease, TypeOK, ctxs
<1>2. \A q \in Procs : q # p => Same(q) /\ KeyStays(q)
  BY DEF SendRelease, TypeOK, Same, KeyStays, ctxs
<1>3. Shape(p)'
  BY DEF SendRelease, TypeOK, CallerInv, Shape, Runs
<1>4. SetInv(p)'
  BY DEF SendRelease, TypeOK, CallerInv, SetInv
<1>5. RenewInv(p)'
  BY DEF SendRelease, TypeOK, CallerInv, RenewInv
<1>6. UnawareInv(p)'
  BY DEF SendRelease, TypeOK, CallerInv, UnawareInv, Runs
<1>7. AcquireInv(p)'
  BY DEF SendRelease, TypeOK, CallerInv, AcquireInv
<1> QED BY <1>1, <1>2, <1>3, <1>4, <1>5, <1>6, <1>7, OneCaller DEF CallerInv

\* The lock is given back, or left to expire.
LEMMA ReleasedKeeps == ASSUME LockerInv, NEW p \in Procs, Released(p) PROVE LockerInv'
<1> USE Timing DEF LockerInv
<1>1. TypeOK'
  <2>1. answer' \in [Procs -> {"none", "ok", "contended", "error", "canceled"}]
    BY DEF Released, TypeOK
  <2>2. owner' \in Procs \cup {Nobody, Orphan} /\ ttl' \in 0..TTL
    BY DEF Released, TypeOK
  <2>3. responsive' \in BOOLEAN /\ reqCtx' \in [Procs -> BOOLEAN]
    BY DEF Released, TypeOK
  <2>4. /\ DOMAIN age' = Procs
        /\ \A q \in Procs : age'[q] \in 0..(IF attempt'[q] = "none" /\ pc'[q] = "acquire"
                                           THEN RetryInterval ELSE Latency)
    BY DEF Released, TypeOK
  <2> QED BY <2>1, <2>2, <2>3, <2>4 DEF Released, TypeOK
<1>2. \A q \in Procs : q # p => Same(q) /\ KeyStays(q)
  BY TimingAssumption DEF Released, TypeOK, Same, KeyStays
<1>3. Shape(p)'
  BY DEF Released, TypeOK, CallerInv, Shape, Runs
<1>4. SetInv(p)'
  BY DEF Released, TypeOK, CallerInv, Shape, SetInv
<1>5. RenewInv(p)'
  BY DEF Released, TypeOK, CallerInv, Shape, RenewInv
<1>6. UnawareInv(p)'
  BY DEF Released, TypeOK, CallerInv, UnawareInv, Runs
<1>7. AcquireInv(p)'
  BY DEF Released, TypeOK, AcquireInv
<1> QED BY <1>1, <1>2, <1>3, <1>4, <1>5, <1>6, <1>7, OneCaller DEF CallerInv

\* What is left of an abandoned attempt is nobody's key.
LEMMA Abandoned ==
    ASSUME LockerInv, NEW p \in Procs, Abandon(p), responsive' => responsive
    PROVE  /\ attempt' \in [Procs -> {"none", "sent", "set", "taken"}] /\ attempt'[p] = "none"
           /\ DOMAIN age' = Procs /\ age'[p] = 0
           /\ \A q \in Procs : q # p => attempt'[q] = attempt[q] /\ age'[q] = age[q]
           /\ owner' \in Procs \cup {Nobody, Orphan} /\ ttl' \in 0..TTL
           /\ \A q \in Procs : q # p => KeyStays(q)
<1> USE Timing DEF LockerInv
<1>1. /\ attempt' \in [Procs -> {"none", "sent", "set", "taken"}] /\ attempt'[p] = "none"
      /\ DOMAIN age' = Procs /\ age'[p] = 0
      /\ \A q \in Procs : q # p => attempt'[q] = attempt[q] /\ age'[q] = age[q]
  BY DEF Abandon, TypeOK
<1>2. owner' \in Procs \cup {Nobody, Orphan} /\ ttl' \in 0..TTL
  BY DEF Abandon, TypeOK
<1>3. attempt[p] = "set" => owner = p
  BY DEF CallerInv, SetInv
<1>4. ASSUME NEW q \in Procs, q # p PROVE KeyStays(q)
  BY <1>3, <1>4, TimingAssumption DEF Abandon, KeyStays
<1> QED BY <1>1, <1>2, <1>4

\* Redis does not answer an attempt.
LEMMA AttemptLostKeeps == ASSUME LockerInv, NEW p \in Procs, AttemptLost(p) PROVE LockerInv'
<1> USE Timing DEF LockerInv
<1>1. /\ pc[p] = "acquire" /\ Abandon(p) /\ (responsive' => responsive)
      /\ UNCHANGED <<ext, tick, lost, lockCtx, dog, renewErr, sawTaken>>
  BY DEF AttemptLost
<1>2. /\ attempt' \in [Procs -> {"none", "sent", "set", "taken"}] /\ attempt'[p] = "none"
      /\ DOMAIN age' = Procs /\ age'[p] = 0
      /\ \A q \in Procs : q # p => attempt'[q] = attempt[q] /\ age'[q] = age[q]
      /\ owner' \in Procs \cup {Nobody, Orphan} /\ ttl' \in 0..TTL
      /\ \A q \in Procs : q # p => KeyStays(q)
  BY <1>1, Abandoned
<1>3. /\ pc' \in [Procs -> {"idle", "acquire", "fn", "closing", "release"}]
      /\ wait' \in [Procs -> 0..lockAcquireTimeout] /\ reqCtx' \in [Procs -> BOOLEAN]
      /\ answer' \in [Procs -> {"none", "ok", "contended", "error", "canceled"}]
      /\ responsive' \in BOOLEAN
      /\ \A q \in Procs : q # p => /\ pc'[q] = pc[q] /\ wait'[q] = wait[q]
                                   /\ reqCtx'[q] = reqCtx[q] /\ answer'[q] = answer[q]
  <2>1. responsive' \in BOOLEAN
    BY DEF AttemptLost
  <2>2. CASE UNCHANGED <<pc, wait, answer, reqCtx>>
    BY <2>1, <2>2 DEF TypeOK
  <2>3. CASE /\ pc' = [pc EXCEPT ![p] = "idle"] /\ wait' = [wait EXCEPT ![p] = 0]
             /\ answer' = [answer EXCEPT ![p] = "error"]
             /\ reqCtx' = [reqCtx EXCEPT ![p] = TRUE]
    BY <2>1, <2>3 DEF TypeOK
  <2> QED BY <2>2, <2>3 DEF AttemptLost
<1>4. TypeOK'
  <2>1. \A q \in Procs : age'[q] \in 0..(IF attempt'[q] = "none" /\ pc'[q] = "acquire"
                                       THEN RetryInterval ELSE Latency)
    BY <1>2, <1>3 DEF TypeOK
  <2> QED BY <1>1, <1>2, <1>3, <2>1 DEF TypeOK
<1>5. \A q \in Procs : q # p => Same(q)
  BY <1>1, <1>2, <1>3 DEF Same
<1>6. /\ pc'[p] \in {"idle", "acquire"} /\ (pc'[p] = "idle" => wait'[p] = 0) /\ ~responsive'
  BY <1>1 DEF AttemptLost, TypeOK
<1>7. CallerInv(p)'
  BY <1>1, <1>2, <1>6 DEF CallerInv, Shape, SetInv, RenewInv, UnawareInv, AcquireInv, Runs
<1> QED BY <1>2, <1>4, <1>5, <1>7, OneCaller

\* The acquire deadline passes, or the caller's ctx ends.
LEMMA AcquireEndsKeeps == ASSUME LockerInv, NEW p \in Procs, AcquireEnds(p) PROVE LockerInv'
<1> USE Timing DEF LockerInv
<1>1. /\ pc[p] = "acquire" /\ Abandon(p) /\ (responsive' => responsive)
      /\ UNCHANGED <<ext, tick, lost, lockCtx, dog, renewErr, sawTaken>>
  BY DEF AcquireEnds
<1>2. /\ attempt' \in [Procs -> {"none", "sent", "set", "taken"}] /\ attempt'[p] = "none"
      /\ DOMAIN age' = Procs /\ age'[p] = 0
      /\ \A q \in Procs : q # p => attempt'[q] = attempt[q] /\ age'[q] = age[q]
      /\ owner' \in Procs \cup {Nobody, Orphan} /\ ttl' \in 0..TTL
      /\ \A q \in Procs : q # p => KeyStays(q)
  BY <1>1, Abandoned
<1>3. /\ pc' \in [Procs -> {"idle", "acquire", "fn", "closing", "release"}]
      /\ wait' \in [Procs -> 0..lockAcquireTimeout] /\ reqCtx' \in [Procs -> BOOLEAN]
      /\ answer' \in [Procs -> {"none", "ok", "contended", "error", "canceled"}]
      /\ responsive' \in BOOLEAN
      /\ \A q \in Procs : q # p => /\ pc'[q] = pc[q] /\ wait'[q] = wait[q]
                                   /\ reqCtx'[q] = reqCtx[q] /\ answer'[q] = answer[q]
  BY DEF AcquireEnds, TypeOK
<1>4. TypeOK'
  <2>1. \A q \in Procs : age'[q] \in 0..(IF attempt'[q] = "none" /\ pc'[q] = "acquire"
                                       THEN RetryInterval ELSE Latency)
    BY <1>2, <1>3 DEF TypeOK
  <2> QED BY <1>1, <1>2, <1>3, <2>1 DEF TypeOK
<1>5. \A q \in Procs : q # p => Same(q)
  BY <1>1, <1>2, <1>3 DEF Same
<1>6. /\ pc'[p] = "idle" /\ wait'[p] = 0 /\ responsive' = responsive
      /\ answer'[p] = IF isLockContended(p) THEN "contended" ELSE "canceled"
  BY DEF AcquireEnds, TypeOK
<1>7. responsive /\ isLockContended(p) => sawTaken[p]
  <2>1. isLockContended(p) => wait[p] >= TTL
    BY DEF AcquireEnds, AcquireCtxDone, isLockContended
  <2>2. attempt[p] # "none" => age[p] \in 0..Latency
    BY DEF TypeOK
  <2> QED BY <1>1, <2>1, <2>2 DEF CallerInv, AcquireInv, TypeOK
<1>8. CallerInv(p)'
  BY <1>1, <1>2, <1>6, <1>7 DEF CallerInv, Shape, SetInv, RenewInv, UnawareInv, AcquireInv, Runs
<1> QED BY <1>2, <1>4, <1>5, <1>8, OneCaller

\* The clock moves on.
LEMMA TickKeeps == ASSUME LockerInv, Tick PROVE LockerInv'
<1> USE Timing DEF LockerInv
<1>1. /\ \A p \in Procs : ~Due(p)
      /\ ttl' = IF ttl > 0 THEN ttl - 1 ELSE 0
      /\ owner' = IF ttl <= 1 THEN Nobody ELSE owner
      /\ UNCHANGED <<pc, attempt, ext, lockCtx, reqCtx, dog, renewErr, sawTaken, answer>>
  BY DEF Tick, ctxs
<1>2. \A p \in Procs :
        /\ age'[p] = IF pc[p] = "acquire" \/ (pc[p] = "release" /\ age[p] < Latency)
                     THEN age[p] + 1 ELSE age[p]
        /\ wait'[p] = IF pc[p] = "acquire" /\ wait[p] < TTL THEN wait[p] + 1 ELSE wait[p]
        /\ tick'[p] = IF dog[p] /\ tick[p] > 0 THEN tick[p] - 1 ELSE tick[p]
        /\ lost'[p] = IF Runs(p) /\ owner # p THEN lost[p] + 1 ELSE lost[p]
  BY DEF Tick
<1>3. responsive' \in BOOLEAN /\ (responsive' => responsive /\ \A p \in Procs : ~Overdue(p))
  BY DEF Tick
<1>4. TypeOK'
  <2>1. owner' \in Procs \cup {Nobody, Orphan} /\ ttl' \in 0..TTL
    BY <1>1 DEF TypeOK
  <2>2. /\ DOMAIN age' = Procs
        /\ \A p \in Procs : age'[p] \in 0..(IF attempt'[p] = "none" /\ pc'[p] = "acquire"
                                           THEN RetryInterval ELSE Latency)
    <3>1. DOMAIN age' = Procs
      BY DEF Tick
    <3>2. ASSUME NEW p \in Procs
          PROVE  age'[p] \in 0..(IF attempt[p] = "none" /\ pc[p] = "acquire"
                                  THEN RetryInterval ELSE Latency)
      <4>1. age[p] \in 0..(IF attempt[p] = "none" /\ pc[p] = "acquire"
                            THEN RetryInterval ELSE Latency)
        BY DEF TypeOK
      <4>2. /\ pc[p] = "acquire" /\ attempt[p] = "none" => age[p] < RetryInterval
            /\ attempt[p] # "none" => age[p] < Latency
        BY <1>1, <4>1 DEF Due
      <4> QED BY <1>2, <4>1, <4>2
    <3> QED BY <1>1, <3>1, <3>2
  <2>3. wait' \in [Procs -> 0..lockAcquireTimeout]
    BY DEF Tick, TypeOK
  <2>4. tick' \in [Procs -> 0..lockRenewInterval]
    BY DEF Tick, TypeOK
  <2>5. lost' \in [Procs -> Nat]
    BY DEF Tick, TypeOK
  <2> QED BY <1>1, <1>3, <2>1, <2>2, <2>3, <2>4, <2>5 DEF TypeOK
<1>5. ASSUME NEW p \in Procs PROVE CallerInv(p)'
  <2>0. /\ Shape(p) /\ SetInv(p) /\ RenewInv(p) /\ UnawareInv(p) /\ AcquireInv(p)
        /\ ttl \in 0..TTL /\ tick[p] \in 0..lockRenewInterval /\ lost[p] \in Nat
        /\ wait[p] \in 0..TTL /\ p # Nobody
    BY TimingAssumption DEF CallerInv, TypeOK
  <2>1. Runs(p)' = Runs(p)
    BY <1>1 DEF Runs
  <2>2. dog[p] => tick[p] > 0 /\ tick'[p] = tick[p] - 1
    <3>1. ext[p] # "none" => lockRenewInterval - tick[p] < lockRenewInterval
      BY <1>1, <2>0 DEF Due, SinceExtend
    <3>2. dog[p] /\ ext[p] = "none" => tick[p] # 0
      BY <1>1 DEF Due
    <3> QED BY <1>2, <2>0, <3>1, <3>2
  <2>3. attempt[p] # "none" => /\ age[p] \in Nat /\ age[p] < Latency
                               /\ pc[p] = "acquire" /\ age'[p] = age[p] + 1
    BY <1>1, <1>2, <2>0 DEF Due, TypeOK, Shape
  <2>4. Shape(p)'
    BY <1>1, <1>2, <2>0, <2>1 DEF Shape, Runs
  <2>5. SetInv(p)'
    BY <1>1, <2>0, <2>3 DEF SetInv
  <2>6. RenewInv(p)'
    <3>1. CASE responsive' /\ dog[p]
      <4>1. responsive /\ ~Overdue(p)
        BY <1>3, <3>1
      <4>2. CASE ext[p] = "sent"
        <5>1. /\ owner = p /\ lockRenewInterval - tick[p] < Latency
              /\ ttl + (lockRenewInterval - tick[p]) > Latency
          BY <2>0, <3>1, <4>1, <4>2 DEF RenewInv, Overdue, SinceExtend
        <5> QED BY <1>1, <2>0, <2>2, <3>1, <4>1, <4>2, <5>1 DEF RenewInv, SinceExtend
      <4>3. CASE ext[p] # "sent"
        <5>1. owner = p /\ ttl > tick[p] + Latency
          BY <2>0, <3>1, <4>1, <4>3 DEF RenewInv
        <5> QED BY <1>1, <2>0, <2>2, <3>1, <4>1, <4>3, <5>1 DEF RenewInv
      <4> QED BY <4>2, <4>3
    <3>2. CASE ~(responsive' /\ dog[p])
      BY <1>1, <1>3, <2>0, <3>2 DEF RenewInv
    <3> QED BY <3>1, <3>2
  <2>7. UnawareInv(p)'
    <3>1. CASE ~Runs(p)
      BY <1>2, <2>0, <2>1, <3>1 DEF UnawareInv
    <3>2. CASE Runs(p)
      <4>1. dog[p] /\ Patience(p)' = Patience(p) - 1 /\ Patience(p) \in Nat /\ Patience(p) > 0
        BY <1>1, <2>0, <2>2, <3>2 DEF Shape, Patience
      <4>2. CASE owner = p
        BY <1>1, <1>2, <2>0, <2>1, <3>2, <4>1, <4>2 DEF UnawareInv
      <4>3. CASE owner # p
        BY <1>1, <1>2, <2>0, <2>1, <3>2, <4>1, <4>3 DEF UnawareInv
      <4> QED BY <4>2, <4>3
    <3> QED BY <3>1, <3>2
  <2>8. AcquireInv(p)'
    <3>1. pc[p] = "acquire" /\ attempt[p] = "none" => age[p] # RetryInterval
      BY <1>1 DEF Due
    <3> QED BY <1>1, <1>2, <1>3, <2>0, <2>3, <3>1 DEF AcquireInv
  <2> QED BY <2>4, <2>5, <2>6, <2>7, <2>8 DEF CallerInv
<1> QED BY <1>4, <1>5

\* Every step keeps the invariant.
LEMMA NextLocker == LockerInv /\ [Next]_vars => LockerInv'
<1> SUFFICES ASSUME LockerInv, [Next]_vars PROVE LockerInv'
  OBVIOUS
<1>1. CASE UNCHANGED vars
  <2>1. TypeOK'
    BY <1>1 DEF vars, clocks, ctxs, LockerInv, TypeOK
  <2>2. \A p \in Procs : Same(p) /\ KeyStays(p)
    BY <1>1 DEF vars, clocks, ctxs, Same, KeyStays
  <2> QED BY <2>1, <2>2, OtherKeeps DEF LockerInv
<1>2. ASSUME NEW p \in Procs, AcquireStep(p) PROVE LockerInv'
  BY <1>2, SendAttemptKeeps, AcquiredKeeps, TakenKeeps, AttemptLostKeeps, AcquireEndsKeeps
  DEF AcquireStep
<1>3. ASSUME NEW p \in Procs, WatchdogStep(p) PROVE LockerInv'
  BY <1>3, SendExtendKeeps, ExtendedKeeps, ExtendFailsKeeps, DogEndsKeeps DEF WatchdogStep
<1>4. ASSUME NEW p \in Procs, ReleaseStep(p) \/ RedisStep(p) PROVE LockerInv'
  BY <1>4, SendReleaseKeeps, ReleasedKeeps, ServeAttemptKeeps, ServeExtendKeeps
  DEF ReleaseStep, RedisStep
<1> QED BY <1>1, <1>2, <1>3, <1>4, TickKeeps, BeginKeeps, RequestEndsKeeps, FnReturnsKeeps DEF Next

-----------------------------------------------------------------------------

\* Every variable keeps its type, and no clock passes the deadline it is for.
THEOREM LockerTypeCorrect == Spec => []TypeOK
<1>1. LockerInv => TypeOK
  BY DEF LockerInv
<1> QED BY <1>1, InitLocker, NextLocker, PTL DEF Spec

\* While Redis answers within a quarter of the TTL no lock is lost under a live
\* holder (the renew ticker, lockRenewInterval), for every TTL but a single
\* unit: what SagaRunner calls ~LockCanBeLost.
THEOREM RenewalsAreInTime == Spec => []HolderKeepsKey
<1>1. LockerInv => HolderKeepsKey
  BY DEF LockerInv, CallerInv, Shape, RenewInv, HolderKeepsKey
<1> QED BY <1>1, InitLocker, NextLocker, PTL DEF Spec

\* So withSagaLock excludes: no two callers are in fn with a live lockCtx.
THEOREM RunsAlone ==
    Spec => [](responsive => \A p, q \in Procs : Runs(p) /\ Runs(q) => p = q)
<1>1. HolderKeepsKey => (responsive => \A p, q \in Procs : Runs(p) /\ Runs(q) => p = q)
  BY DEF HolderKeepsKey
<1> QED BY <1>1, RenewalsAreInTime, PTL

\* And when Redis does not answer, fn is cancelled at most Latency after the
\* key has expired (lockRenewTimeout).
THEOREM LossIsNoticed == Spec => []UnawareIsBounded
<1>1. LockerInv => UnawareIsBounded
  BY DEF LockerInv, CallerInv, UnawareInv, UnawareIsBounded
<1> QED BY <1>1, InitLocker, NextLocker, PTL DEF Spec

\* Contention alone is never reported as an error (isRaceError, waitAndRenew).
THEOREM ContentionIsHandled == Spec => []ContentionIsNoError
<1>1. LockerInv => ContentionIsNoError
  BY DEF LockerInv, CallerInv, RenewInv, ContentionIsNoError
<1> QED BY <1>1, InitLocker, NextLocker, PTL DEF Spec

\* Nobody is told that the saga is busy who has not met another's lock
\* (lockAcquireContext, isLockContended).
THEOREM BusyIsTrue == Spec => []ContendedMeansHeld
<1>1. LockerInv => ContendedMeansHeld
  BY DEF LockerInv, CallerInv, AcquireInv, ContendedMeansHeld
<1> QED BY <1>1, InitLocker, NextLocker, PTL DEF Spec

-----------------------------------------------------------------------------
(* The locker implements SagaLock *)

\* Only the caller that takes the step may change its phase.
OthersStay(p) == \A q \in Procs : q # p => LockPhase(q)' = LockPhase(q)

\* The functions of the abstract specification, which has a key per saga.
Keys == [s \in {"saga"} |-> owner]
Phases == [s \in {"saga"} |-> [p \in Procs |-> LockPhase(p)]]

LEMMA PhasesChange ==
    ASSUME NEW p \in Procs, OthersStay(p)
    PROVE  /\ Keys' = [Keys EXCEPT !["saga"] = owner']
           /\ Phases["saga"][p] = LockPhase(p)
           /\ Phases' = [Phases EXCEPT !["saga"][p] = LockPhase(p)']
           /\ LockPhase(p)' = LockPhase(p) => Phases' = Phases
BY DEF OthersStay, Keys, Phases

\* Nothing of the lock changes, but Redis may have been late.
LEMMA LockRests ==
    ASSUME owner' = owner, \A p \in Procs : LockPhase(p)' = LockPhase(p), responsive' => responsive
    PROVE  Lock!Next
<1>1. Keys' = Keys /\ Phases' = Phases
  BY DEF Keys, Phases
<1>2. Lock!Crash({})
  BY <1>1 DEF Lock!Crash, Keys, Phases
<1> QED BY <1>2 DEF Lock!Next

\* Steps that change the key only.
LEMMA LockIsSet ==
    ASSUME NEW p \in Procs, OthersStay(p), LockPhase(p)' = LockPhase(p), responsive' => responsive,
           owner = Nobody, owner' \in Procs \cup {Orphan}
    PROVE  Lock!Next
<1>1. Lock!Set("saga")
  BY PhasesChange DEF Lock!Set, Keys, Phases
<1> QED BY <1>1 DEF Lock!Next

LEMMA LockIsAbandoned ==
    ASSUME NEW p \in Procs, OthersStay(p), LockPhase(p)' = "out", LockPhase(p) = "out",
           responsive' => responsive, owner = p, owner' \in {Nobody, Orphan}
    PROVE  Lock!Next
<1>1. Lock!Abandon("saga", p)
  BY PhasesChange DEF Lock!Abandon, Lock!GiveUp, Keys, Phases
<1> QED BY <1>1 DEF Lock!Next

\* Steps of a caller.
LEMMA LockIsEntered ==
    ASSUME NEW p \in Procs, OthersStay(p), LockPhase(p) = "out", LockPhase(p)' \in {"in", "leaving"},
           responsive' => responsive, owner = p, owner' = p
    PROVE  Lock!Next
<1>1. Lock!Enter("saga", p)
  BY PhasesChange DEF Lock!Enter, Keys, Phases
<1> QED BY <1>1 DEF Lock!Next

LEMMA LockIsCanceled ==
    ASSUME NEW p \in Procs, OthersStay(p), LockPhase(p) = "in", LockPhase(p)' = "leaving",
           responsive' => responsive, owner' = owner
    PROVE  Lock!Next
<1>1. Lock!Cancel("saga", p)
  BY PhasesChange DEF Lock!Cancel, Keys, Phases
<1> QED BY <1>1 DEF Lock!Next

LEMMA LockIsLeft ==
    ASSUME NEW p \in Procs, OthersStay(p), LockPhase(p) = "leaving", LockPhase(p)' = "out",
           responsive' => responsive, NEW o \in {Nobody, Orphan},
           owner' = IF owner = p THEN o ELSE owner
    PROVE  Lock!Next
<1>1. Lock!Leave("saga", p)
  BY PhasesChange DEF Lock!Leave, Lock!GiveUp, Keys, Phases
<1> QED BY <1>1 DEF Lock!Next

\* A key that expires in time has no holder: if it had, it would have been
\* renewed.
LEMMA TickIsLockStep == ASSUME LockerInv, LockerInv', Tick PROVE Lock!Next
<1>1. (\A p \in Procs : LockPhase(p)' = LockPhase(p)) /\ (responsive' => responsive)
  BY DEF Tick, LockPhase, Runs, ctxs
<1>2. CASE owner' = owner
  BY <1>1, <1>2, LockRests
<1>3. CASE owner' # owner
  <2>1. owner' = Nobody
    BY <1>3 DEF Tick
  <2>2. ASSUME responsive', NEW p \in Procs, LockPhase(p) = "in" PROVE FALSE
    <3>1. Runs(p)'
      BY <1>1, <2>2 DEF LockPhase
    <3>2. owner' = p
      BY <2>2, <3>1 DEF LockerInv, CallerInv, Shape, RenewInv
    <3> QED BY <2>1, <3>2, TimingAssumption
  <2>3. Keys' = [Keys EXCEPT !["saga"] = Nobody] /\ Phases' = Phases
    BY <1>1, <2>1 DEF Keys, Phases
  <2>4. Lock!Expire("saga")
    BY <2>2, <2>3 DEF Lock!Expire, Keys, Phases
  <2> QED BY <1>1, <2>4 DEF Lock!Next
<1> QED BY <1>2, <1>3

\* Every step of the locker is one of SagaLock.
LEMMA NextIsLockStep ==
    ASSUME LockerInv, LockerInv', [Next]_vars PROVE [Lock!Next]_(Lock!vars)
<1> USE TimingAssumption DEF LockerInv
<1>1. ASSUME NEW p \in Procs, Begin(p) \/ SendAttempt(p) \/ Taken(p) PROVE Lock!Next
  BY <1>1, LockRests DEF Begin, SendAttempt, Taken, TypeOK, LockPhase, Runs, ctxs
<1>2. ASSUME NEW p \in Procs, SendExtend(p) \/ ServeExtend(p) \/ Extended(p) \/ DogEnds(p)
      PROVE  Lock!Next
  BY <1>2, LockRests DEF SendExtend, ServeExtend, Extended, DogEnds, LockPhase, Runs, ctxs
<1>3. ASSUME NEW p \in Procs, SendRelease(p) PROVE Lock!Next
  BY <1>3, LockRests DEF SendRelease, TypeOK, LockPhase, Runs, ctxs
<1>4. ASSUME NEW p \in Procs, ServeAttempt(p) PROVE Lock!Next
  <2>1. OthersStay(p) /\ LockPhase(p)' = LockPhase(p) /\ responsive' = responsive
    BY <1>4 DEF ServeAttempt, OthersStay, LockPhase, Runs, ctxs
  <2>2. CASE owner = Nobody
    BY <1>4, <2>1, <2>2, LockIsSet DEF ServeAttempt
  <2>3. CASE owner # Nobody
    BY <1>4, <2>1, <2>3, LockRests DEF ServeAttempt, OthersStay
  <2> QED BY <2>2, <2>3
<1>5. ASSUME NEW p \in Procs, Acquired(p) PROVE Lock!Next
  <2>1. /\ OthersStay(p) /\ responsive' = responsive /\ owner' = owner
        /\ LockPhase(p) = "out" /\ LockPhase(p)' \in {"in", "leaving"}
    BY <1>5 DEF Acquired, TypeOK, OthersStay, LockPhase, Runs
  <2>2. owner = p
    BY <1>5 DEF Acquired, CallerInv, SetInv
  <2> QED BY <2>1, <2>2, LockIsEntered
<1>6. ASSUME NEW p \in Procs, AttemptLost(p) \/ AcquireEnds(p) PROVE Lock!Next
  <2>1. /\ OthersStay(p) /\ (responsive' => responsive) /\ Abandon(p)
        /\ LockPhase(p) = "out" /\ LockPhase(p)' = "out"
    BY <1>6 DEF AttemptLost, AcquireEnds, TypeOK, OthersStay, LockPhase, Runs
  <2>2. \/ owner' = owner
        \/ owner = Nobody /\ owner' = Orphan
        \/ owner = p /\ owner' \in {Nobody, Orphan}
    BY <2>1 DEF Abandon
  <2> QED BY <2>1, <2>2, LockRests, LockIsSet, LockIsAbandoned DEF OthersStay
<1>7. ASSUME NEW p \in Procs, RequestEnds(p) \/ ExtendFails(p) \/ FnReturns(p) PROVE Lock!Next
  <2>1. /\ OthersStay(p) /\ (responsive' => responsive) /\ owner' = owner
        /\ \/ LockPhase(p)' = LockPhase(p)
           \/ LockPhase(p) = "in" /\ LockPhase(p)' = "leaving"
    BY <1>7 DEF RequestEnds, ExtendFails, FnReturns, TypeOK, OthersStay, LockPhase, Runs, ctxs
  <2> QED BY <2>1, LockRests, LockIsCanceled DEF OthersStay
<1>8. ASSUME NEW p \in Procs, Released(p) PROVE Lock!Next
  <2>1. /\ OthersStay(p) /\ (responsive' => responsive)
        /\ LockPhase(p) = "leaving" /\ LockPhase(p)' = "out"
    BY <1>8 DEF Released, TypeOK, OthersStay, LockPhase, Runs
  <2>2. \E o \in {Nobody, Orphan} : owner' = IF owner = p THEN o ELSE owner
    BY <1>8 DEF Released
  <2> QED BY <2>1, <2>2, LockIsLeft
<1>9. ASSUME UNCHANGED vars PROVE UNCHANGED Lock!vars
  BY <1>9 DEF vars, Lock!vars, LockPhase, Runs, ctxs
<1> QED
  BY <1>1, <1>2, <1>3, <1>4, <1>5, <1>6, <1>7, <1>8, <1>9, TickIsLockStep
  DEF Next, AcquireStep, WatchdogStep, ReleaseStep, RedisStep

\* withSagaLock over Redis implements the lock that SagaRunner is written for.
THEOREM LockerImplementsLock == Spec => ImplementsLock
<1>1. Init => Lock!Init
  BY DEF Init, Lock!Init, LockPhase, Runs
<1>2. LockerInv /\ LockerInv' /\ [Next]_vars => [Lock!Next]_(Lock!vars)
  BY NextIsLockStep
<1> QED BY <1>1, <1>2, InitLocker, NextLocker, PTL DEF Spec, Lock!Spec, ImplementsLock
=============================================================================
