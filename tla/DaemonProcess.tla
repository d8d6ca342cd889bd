--------------------------- MODULE DaemonProcess ---------------------------
(***************************************************************************)
(* The daemon of a project as its database sees it: no process, or one     *)
(* that works on the tasks, is told to stop and ends, or ends at once; and *)
(* only when it is gone does the next one recover the tasks and begin.     *)
(* DaemonLifecycle implements it as long as commands do not overlap;       *)
(* HippoDaemon has one process at a time built in.                         *)
(***************************************************************************)
CONSTANT Pids

VARIABLE running    \* {}, or {<<process, "working" or "stopping">>}

Init == running = {}

\* recoverTasks has run; scheduler and workers are started.
Boot(p) == running = {} /\ running' = {<<p, "working">>}

\* A signal, or POST /stop.
Stop(p) == running = {<<p, "working">>} /\ running' = {<<p, "stopping">>}

\* The drain is over, or the process has crashed.
End(p) == running \in {{<<p, "working">>}, {<<p, "stopping">>}} /\ running' = {}

Next == \E p \in Pids : Boot(p) \/ Stop(p) \/ End(p)

Spec == Init /\ [][Next]_running
=============================================================================
