----------------------------- MODULE TaskQueue -----------------------------
(***************************************************************************)
(* What the HippoDrop task queue promises the callers of its HTTP API,     *)
(* with no scheduler, channel, worker, database connection or process in   *)
(* sight: a task that was accepted is attempted until one attempt succeeds *)
(* or MaxRetries retries have been used up, and the outcome is final.      *)
(* HippoDaemon implements it.                                              *)
(***************************************************************************)
EXTENDS Integers

CONSTANTS Tasks,       \* the task ids callers may obtain
          MaxRetries   \* storage.google_drive.retry_max_attempts

VARIABLES
    status,       \* Tasks -> Statuses, the status column; "absent" before the INSERT
    transferred,  \* the tasks of which at least one attempt moved the whole file
    fails         \* Tasks -> number of failed attempts, counted up to MaxRetries + 1

vars == <<status, transferred, fails>>

Statuses == {"absent", "pending", "running", "done", "failed"}

Running == {t \in Tasks : status[t] = "running"}

AtMost(n, bound) == IF n > bound THEN bound ELSE n

Init == /\ status = [t \in Tasks |-> "absent"]
        /\ transferred = {}
        /\ fails = [t \in Tasks |-> 0]

\* POST /tasks/upload or /tasks/download
Accept(t) == /\ status[t] = "absent"
             /\ status' = [status EXCEPT ![t] = "pending"]
             /\ UNCHANGED <<transferred, fails>>

Start(t) == /\ status[t] = "pending"
            /\ status' = [status EXCEPT ![t] = "running"]
            /\ UNCHANGED <<transferred, fails>>

\* An attempt at a running task ends: the file is there, or the provider gave an error.
Transfer(t) == /\ status[t] = "running"
               /\ transferred' = transferred \cup {t}
               /\ UNCHANGED <<status, fails>>

Fault(t) == /\ status[t] = "running"
            /\ fails' = [fails EXCEPT ![t] = AtMost(@ + 1, MaxRetries + 1)]
            /\ UNCHANGED <<status, transferred>>

\* The outcome is recorded, and only an earned one.
Settle(t) == /\ status[t] = "running"
             /\ \/ /\ t \in transferred
                   /\ status' = [status EXCEPT ![t] = "done"]
                \/ /\ fails[t] > MaxRetries
                   /\ status' = [status EXCEPT ![t] = "failed"]
             /\ UNCHANGED <<transferred, fails>>

\* A retry, a shutdown or the recovery after a restart puts running tasks back.
Release(S) == /\ S \subseteq Running
              /\ status' = [t \in Tasks |-> IF t \in S THEN "pending" ELSE status[t]]
              /\ UNCHANGED <<transferred, fails>>

Next == \/ \E t \in Tasks : Accept(t) \/ Start(t) \/ Transfer(t) \/ Fault(t) \/ Settle(t)
        \/ \E S \in SUBSET Tasks : Release(S)

Spec == Init /\ [][Next]_vars

----------------------------------------------------------------------------
(* What a caller may rely on.                                              *)

TypeOK == /\ status \in [Tasks -> Statuses]
          /\ transferred \subseteq Tasks
          /\ fails \in [Tasks -> 0 .. MaxRetries + 1]

\* A task reported done was transferred, one reported failed used up its retries.
Earned(t) == /\ status[t] = "done" => t \in transferred
             /\ status[t] = "failed" => fails[t] > MaxRetries

OutcomesEarned == \A t \in Tasks : Earned(t)

\* An id that was given out stays known, and an outcome that was reported stays as it is.
OutcomesFinal ==
    [][\A t \in Tasks : /\ status[t] # "absent" => status'[t] # "absent"
                        /\ status[t] \in {"done", "failed"} => status'[t] = status[t]]_vars
=============================================================================
