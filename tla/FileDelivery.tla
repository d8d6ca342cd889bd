---------------------------- MODULE FileDelivery ----------------------------
(***************************************************************************)
(* What Provider.Download promises the worker pool (storage/provider.go),  *)
(* with no chunk, offset, file descriptor or HTTP request in sight: a call *)
(* that returns nil has left a complete copy of the remote file at the     *)
(* local path, and the copy stays.  A call that fails may leave anything.  *)
(* The promise is void for a job whose local file or whose remote file     *)
(* somebody else has touched since the call began.                         *)
(***************************************************************************)

CONSTANT Jobs    \* the download tasks

VARIABLES
    call,      \* Jobs -> "idle", "running", "ok" or "error"
    intact,    \* the jobs whose local path holds a complete copy
    disturbed  \* the jobs the promise is void for

vars == <<call, intact, disturbed>>

Init == /\ call = [j \in Jobs |-> "idle"]
        /\ intact \subseteq Jobs
        /\ disturbed = {}

\* Only j and the disturbed jobs may find their files changed.
OthersKeep(j) == \A k \in Jobs \ (disturbed' \cup {j}) : k \in intact' <=> k \in intact

Begin(j) == /\ call[j] # "running"
            /\ call' = [call EXCEPT ![j] = "running"]
            /\ disturbed' \in {(disturbed \ {j}) \cup others : others \in SUBSET (Jobs \ {j})}
            /\ intact' \in SUBSET Jobs /\ OthersKeep(j)

Work(j) == /\ call[j] = "running"
           /\ disturbed' \in {disturbed \cup others : others \in SUBSET (Jobs \ {j})}
           /\ intact' \in SUBSET Jobs /\ OthersKeep(j)
           /\ UNCHANGED call

Succeed(j) == /\ call[j] = "running"
              /\ j \in intact \cup disturbed
              /\ call' = [call EXCEPT ![j] = "ok"]
              /\ UNCHANGED <<intact, disturbed>>

Fail(j) == /\ call[j] \in {"idle", "running"}
           /\ call' = [call EXCEPT ![j] = "error"]
           /\ UNCHANGED <<intact, disturbed>>

\* The pool puts the task back into the queue.
Requeue(j) == /\ call[j] = "error"
              /\ call' = [call EXCEPT ![j] = "idle"]
              /\ UNCHANGED <<intact, disturbed>>

SourceChanges == /\ \E S \in SUBSET {j \in Jobs : call[j] = "running"} :
                       disturbed' = disturbed \cup S
                 /\ intact' \in SUBSET Jobs
                 /\ \A k \in Jobs \ disturbed' : k \in intact' <=> k \in intact
                 /\ UNCHANGED call

Next == \/ \E j \in Jobs : Begin(j) \/ Work(j) \/ Succeed(j) \/ Fail(j) \/ Requeue(j)
        \/ SourceChanges

Spec == Init /\ [][Next]_vars
=============================================================================
