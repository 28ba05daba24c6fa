---------------------------- MODULE SagaLifecycle ----------------------------
(***************************************************************************)
(* What the orchestrator promises about one saga to the clients that read  *)
(* its status: which statuses follow which, and what they say about the    *)
(* steps whose effects may have to be undone (the open steps).  There are  *)
(* no instances, claims, locks or calls here.                              *)
(***************************************************************************)
EXTENDS Naturals

CONSTANTS Sagas, StepCount

VARIABLES
    status,     \* of each saga; NONE before it is started
    open        \* per saga: steps that were started and are not undone

vars == <<status, open>>

Init ==
    /\ status = [s \in Sagas |-> "NONE"]
    /\ open = [s \in Sagas |-> {}]

Become(s, st, op) ==
    /\ status' = [status EXCEPT ![s] = st]
    /\ open' = [open EXCEPT ![s] = op]

Begin(s) == status[s] = "NONE" /\ Become(s, "CREATED", {})

\* Steps are started one by one, in order, and only while the saga executes.
StartStep(s) ==
    \E i \in 1..StepCount[s] :
        /\ status[s] \in {"CREATED", "RUNNING"}
        /\ open[s] = 1..(i - 1)
        /\ Become(s, status[s], 1..i)

Advance(s) ==
    /\ status[s] = "CREATED"
    /\ open[s] # {}
    /\ Become(s, "RUNNING", open[s])

Complete(s) ==
    /\ status[s] \in {"CREATED", "RUNNING"}
    /\ open[s] = 1..StepCount[s]
    /\ Become(s, "COMPLETED", open[s])

\* Cancelling is irrevocable, and immediate when there is nothing to undo.
Cancel(s) ==
    /\ status[s] \in {"CREATED", "RUNNING", "COMPLETED"}
    /\ Become(s, IF open[s] = {} THEN "COMPENSATED" ELSE "CANCELING", open[s])

\* The saga is compensated with the last step undone.
Undo(s) ==
    \E i \in open[s] :
        /\ status[s] = "CANCELING"
        /\ Become(s, IF open[s] = {i} THEN "COMPENSATED" ELSE "CANCELING", open[s] \ {i})

\* An execution or a compensation fails, and with it the saga, for good.
Fail(s) ==
    \E i \in open[s] :
        /\ status[s] \in {"CREATED", "RUNNING", "CANCELING", "FAILED"}
        /\ Become(s, "FAILED", open[s] \ {i})

Next == \E s \in Sagas :
    \/ Begin(s) \/ StartStep(s) \/ Advance(s) \/ Complete(s)
    \/ Cancel(s) \/ Undo(s) \/ Fail(s)

Spec == Init /\ [][Next]_vars
=============================================================================
