------------------------------ MODULE SagaLock ------------------------------
(***************************************************************************)
(* The locks of the sagas as their callers see them: what withSagaLock     *)
(* promises, and what workers and cancel requests build on.                *)
(*                                                                         *)
(* A caller is "in" while fn runs with a live lockCtx.  It is "leaving"    *)
(* from the moment lockCtx is cancelled until its Release has been served; *)
(* nothing keeps the key for it any more.                                  *)
(***************************************************************************)
CONSTANTS
    Sagas,          \* saga ids; each has a key of its own
    Procs,          \* callers of withSagaLock
    Nobody, Orphan  \* the key is not set; set by a caller that has left

VARIABLES
    owner,      \* per saga: whose token the key holds
    phase,      \* per saga: how far each caller is
    reliable    \* no renewal has come too late

vars == <<owner, phase, reliable>>

Init ==
    /\ owner = [s \in Sagas |-> Nobody]
    /\ phase = [s \in Sagas |-> [p \in Procs |-> "out"]]
    /\ reliable \in BOOLEAN

\* The key is set, for a caller that will learn of it or has given up.
Set(s) ==
    /\ owner[s] = Nobody
    /\ \E o \in Procs \cup {Orphan} : owner' = [owner EXCEPT ![s] = o]
    /\ phase' = phase

\* Acquire returns no error.  lockCtx may be cancelled already.
Enter(s, p) ==
    /\ phase[s][p] = "out"
    /\ owner[s] \in {Nobody, p}
    /\ owner' = [owner EXCEPT ![s] = p]
    /\ \E in \in {"in", "leaving"} : phase' = [phase EXCEPT ![s][p] = in]

\* lockCtx is cancelled: by its caller, by the watchdog, or because fn returned.
Cancel(s, p) ==
    /\ phase[s][p] = "in"
    /\ phase' = [phase EXCEPT ![s][p] = "leaving"]
    /\ owner' = owner

\* The caller's token is deleted, or stays behind.
GiveUp(s, p) ==
    \E o \in {Nobody, Orphan} : owner' = [owner EXCEPT ![s] = IF @ = p THEN o ELSE @]

\* Release has been served, or is lost.
Leave(s, p) ==
    /\ phase[s][p] = "leaving"
    /\ phase' = [phase EXCEPT ![s][p] = "out"]
    /\ GiveUp(s, p)

\* Acquire returns an error although the key may be set.
Abandon(s, p) ==
    /\ phase[s][p] = "out"
    /\ phase' = phase
    /\ GiveUp(s, p)

\* The TTL runs out: not for a caller that is in, unless a renewal was late.
Expire(s) ==
    /\ reliable' => \A p \in Procs : phase[s][p] = "in" => owner[s] # p
    /\ owner' = [owner EXCEPT ![s] = Nobody]
    /\ phase' = phase

\* Some callers die; their keys stay until they expire.
Crash(dead) ==
    /\ owner' = [s \in Sagas |-> IF owner[s] \in dead THEN Orphan ELSE owner[s]]
    /\ phase' = [s \in Sagas |-> [p \in Procs |-> IF p \in dead THEN "out" ELSE phase[s][p]]]

Next ==
    /\ reliable' => reliable
    /\ \/ \E s \in Sagas : Set(s) \/ Expire(s)
       \/ \E s \in Sagas, p \in Procs : Enter(s, p) \/ Cancel(s, p) \/ Leave(s, p) \/ Abandon(s, p)
       \/ \E dead \in SUBSET Procs : Crash(dead)

Spec == Init /\ [][Next]_vars
=============================================================================
