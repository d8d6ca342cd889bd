-------------------------- MODULE DaemonLifecycle --------------------------
(***************************************************************************)
(* The processes of one project: `hippo start`, `hippo stop`, `hippo rm`   *)
(* and `hippo init` (cmd/hippo/main.go) over the project's directory, its  *)
(* PID file, its TCP port and the migration of its database (queue/db.go). *)
(* HippoDaemon is one of these processes from the moment it has the        *)
(* database open, and takes for granted that there is no second one.       *)
(***************************************************************************)
EXTENDS Naturals, FiniteSets

CONSTANT
    Pids    \* the process ids the system gives out, again once they are free

\* The file and the port hold a process id or one of these.
ASSUME PidsAssumption == {"absent", "empty", "free"} \cap Pids = {}

VARIABLES
    config,   \* config.yml is there
    pidFile,  \* hippodrop.pid: "absent", "empty" or the process id in it
    columns,  \* how many of the four callback columns the tasks table has
    port,     \* "free", or the process listening on server.port
    pc,       \* where each process is in runStart; "none" is no process, "other" not ours
    added,    \* how many columns the process has added in migrateSchema
    detached, \* processes with a PID file or database open that was removed under them
    rm,       \* `hippo rm`: "none", or "prompt" while it waits for the confirmation
    \* history
    overlapped  \* a `start` or `rm` was given while another was under way

project == <<config, pidFile, columns>>
command == <<rm, overlapped>>
vars    == <<project, port, pc, added, detached, command>>

AllColumns == 4    \* callback_url, callback_status, callback_retry_count, callback_error

Alive(p) == pc[p] # "none"

Starting == {p \in Pids : pc[p] \in {"checking", "reading", "creating", "writing",
                                      "loading", "altering", "recovering", "opened"}}

\* The processes whose scheduler and workers are at work.
Daemons == {p \in Pids : pc[p] \in {"opened", "serving", "draining"}}

\* What the database sees of them.
Stage(p) == <<p, IF pc[p] = "draining" THEN "stopping" ELSE "working">>
Running  == {Stage(p) : p \in Daemons}
DP       == INSTANCE DaemonProcess WITH running <- Running

Quiet == Starting = {} /\ rm = "none"

\* A command is given.  What an earlier overlap left is over when no daemon runs.
Given == overlapped' = IF Quiet THEN overlapped /\ Daemons # {} ELSE TRUE

Goto(p, to) == pc' = [pc EXCEPT ![p] = to]

\* os.Exit, log.Fatalf, a signal before NotifyContext, kill -9: no deferred call runs.
Die(p) == /\ Goto(p, "none")
          /\ port' = IF port = p THEN "free" ELSE port
          /\ added' = [added EXCEPT ![p] = 0]
          /\ detached' = detached \ {p}

----------------------------------------------------------------------------
(* hippo start                                                             *)

Begin(p) == /\ pc[p] = "none"
            /\ Given
            /\ Goto(p, "checking")
            /\ UNCHANGED <<project, port, added, detached, rm>>

CheckConfig(p) == /\ pc[p] = "checking"
                  /\ IF config THEN Goto(p, "reading") /\ UNCHANGED <<port, added, detached>>
                               ELSE Die(p)
                  /\ UNCHANGED <<project, command>>

\* isProcessRunning: signal 0 reaches whatever process has that id now.
NamesProcess == pidFile \in Pids /\ Alive(pidFile)

\* Mutant: any readable file is overwritten.
NoDuplicateCheck(p) == /\ pc[p] = "reading"
                       /\ Goto(p, "creating")
                       /\ UNCHANGED <<project, port, added, detached, command>>

\* Mutant: removePIDFile is deferred before the check, not after it.
RefusalRemoves(p) == /\ pc[p] = "reading"
                     /\ IF NamesProcess
                        THEN Die(p) /\ pidFile' = "absent"
                        ELSE Goto(p, "creating") /\ UNCHANGED <<pidFile, port, added, detached>>
                     /\ UNCHANGED <<config, columns, command>>

\* A file that is missing, empty or names no process does not stop the start.
ReadPidFile(p) == /\ pc[p] = "reading"
                  /\ IF NamesProcess THEN Die(p)
                     ELSE Goto(p, "creating") /\ UNCHANGED <<port, added, detached>>
                  /\ UNCHANGED <<project, command>>

\* os.WriteFile creates or truncates the file, and then writes.
CreatePidFile(p) == /\ pc[p] = "creating"
                    /\ pidFile' = "empty"
                    /\ Goto(p, "writing")
                    /\ UNCHANGED <<config, columns, port, added, detached, command>>

WritePid(p) == /\ pc[p] = "writing"
               /\ pidFile' = IF p \in detached THEN pidFile ELSE p
               /\ Goto(p, "loading")
               /\ detached' = detached \ {p}
               /\ UNCHANGED <<config, columns, port, added, command>>

\* loadProjectConfig, then Open as far as the question whether callback_url exists; the
\* table itself is created without the callback columns.
LoadAndOpen(p) ==
    /\ pc[p] = "loading"
    /\ IF ~config THEN Die(p)
       ELSE /\ Goto(p, IF columns = 0 THEN "altering" ELSE "recovering")
            /\ UNCHANGED <<port, added, detached>>
    /\ UNCHANGED <<project, command>>

\* One ALTER TABLE, a transaction of its own; SQLite refuses a column that is there.
AddColumn(p) ==
    /\ pc[p] = "altering"
    /\ IF p \in detached \/ columns = added[p]
       THEN /\ columns' = IF p \in detached THEN columns ELSE columns + 1
            /\ added' = [added EXCEPT ![p] = @ + 1]
            /\ Goto(p, IF added'[p] = AllColumns THEN "recovering" ELSE "altering")
            /\ UNCHANGED <<port, detached>>
       ELSE Die(p) /\ UNCHANGED columns
    /\ UNCHANGED <<config, pidFile, command>>

\* recoverTasks; then the provider, the channel, the workers and the scheduler.
Recover(p) == /\ pc[p] = "recovering"
              /\ Goto(p, "opened")
              /\ added' = [added EXCEPT ![p] = 0]
              /\ UNCHANGED <<project, port, detached, command>>

Listen(p) == /\ pc[p] = "opened"
             /\ port = "free"
             /\ port' = p
             /\ Goto(p, "serving")
             /\ UNCHANGED <<project, added, detached, command>>

\* Mutant: the error of ListenAndServe is logged and no more.
ListenErrorLogged(p) == pc[p] = "opened" /\ UNCHANGED vars

\* The port is taken, by a daemon or by another program: log.Fatalf.
ListenFails(p) == /\ pc[p] = "opened"
                  /\ Die(p)
                  /\ UNCHANGED <<project, command>>

\* Mutant: the HTTP server is left running.
SignalKeepsPort(p) == /\ pc[p] \in {"opened", "serving"}
                      /\ Goto(p, "draining")
                      /\ UNCHANGED <<project, port, added, detached, command>>

\* SIGTERM, SIGINT or POST /stop; srv.Shutdown closes the listener first.
Signal(p) == /\ pc[p] \in {"opened", "serving"}
             /\ Goto(p, "draining")
             /\ port' = IF port = p THEN "free" ELSE port
             /\ UNCHANGED <<project, added, detached, command>>

\* Who has the PID file open writes to no file of the directory any more.
HasPidFileOpen == {p \in Pids : pc[p] = "writing"}

\* pool.Wait returned; the database is closed and the PID file removed, whoever's it is.
Exit(p) == /\ pc[p] = "draining"
           /\ Goto(p, "none")
           /\ pidFile' = "absent"
           /\ detached' = (detached \ {p}) \cup HasPidFileOpen
           /\ UNCHANGED <<config, columns, port, added, command>>

Crash(p) == /\ Alive(p)
            /\ Die(p)
            /\ UNCHANGED <<project, command>>

\* A process id that is free is given to a program that is not ours.
OtherProgram(p) == /\ pc[p] = "none"
                   /\ Goto(p, "other")
                   /\ UNCHANGED <<project, port, added, detached, command>>

----------------------------------------------------------------------------
(* hippo init, hippo rm                                                    *)

InitProject == /\ ~config
               /\ config' = TRUE
               /\ UNCHANGED <<pidFile, columns, port, pc, added, detached, command>>

\* Mutant: the PID file is not asked.
RmUnchecked == /\ rm = "none"
               /\ Given
               /\ rm' = "prompt"
               /\ UNCHANGED <<project, port, pc, added, detached>>

RmCheck == /\ rm = "none"
           /\ Given
           /\ ~NamesProcess
           /\ rm' = "prompt"
           /\ UNCHANGED <<project, port, pc, added, detached>>

HasDatabaseOpen == Daemons \cup {p \in Pids : pc[p] \in {"altering", "recovering"}}

\* os.RemoveAll of the project's directory; a process keeps the files it has open.
RmConfirmed == /\ rm = "prompt"
               /\ rm' = "none"
               /\ config' = FALSE
               /\ columns' = 0
               /\ pidFile' = "absent"
               /\ detached' = detached \cup HasPidFileOpen \cup HasDatabaseOpen
               /\ UNCHANGED <<port, pc, added, overlapped>>

RmAborted == /\ rm = "prompt"
             /\ rm' = "none"
             /\ UNCHANGED <<project, port, pc, added, detached, overlapped>>

----------------------------------------------------------------------------
\* A project that was set up by hand or by an earlier version, or not yet.
Init == /\ config \in BOOLEAN
        /\ pidFile = "absent"
        /\ columns \in {0, AllColumns} /\ (~config => columns = 0)
        /\ port = "free"
        /\ pc = [p \in Pids |-> "none"]
        /\ added = [p \in Pids |-> 0]
        /\ detached = {}
        /\ rm = "none" /\ overlapped = FALSE

Start(p) == \/ Begin(p) \/ CheckConfig(p) \/ ReadPidFile(p) \/ CreatePidFile(p)
            \/ WritePid(p) \/ LoadAndOpen(p) \/ AddColumn(p) \/ Recover(p)
            \/ Listen(p) \/ ListenFails(p)

Next == \/ \E p \in Pids : Start(p) \/ Signal(p) \/ Exit(p) \/ Crash(p) \/ OtherProgram(p)
        \/ InitProject \/ RmCheck \/ RmConfirmed \/ RmAborted

Spec == Init /\ [][Next]_vars

\* ListenAndServe returns or serves; a daemon that drains comes to its end, which is
\* HippoDaemon's ShutdownTerminates.
FairSpec == Spec /\ \A p \in Pids : WF_vars(Listen(p) \/ ListenFails(p)) /\ WF_vars(Exit(p))

----------------------------------------------------------------------------
(* Properties.                                                             *)

TypeOK ==
    /\ config \in BOOLEAN /\ columns \in 0 .. AllColumns
    /\ pidFile \in Pids \cup {"absent", "empty"} /\ port \in Pids \cup {"free"}
    /\ pc \in [Pids -> {"none", "other", "checking", "reading", "creating", "writing",
                        "loading", "altering", "recovering", "opened", "serving", "draining"}]
    /\ added \in [Pids -> 0 .. AllColumns]
    /\ detached \subseteq HasPidFileOpen \cup HasDatabaseOpen
    /\ rm \in {"none", "prompt"} /\ overlapped \in BOOLEAN
    /\ \A p \in Pids : pc[p] = "serving" <=> port = p

\* As long as commands do not overlap, one process at most works on the database: what
\* HippoDaemon takes for granted.  Crashes, stale PID files, process ids used again by
\* other programs and a taken port do not change that.
OneDaemon == overlapped \/ \A p, q \in Daemons : p = q

\* ... and they come one after another: tasks are recovered by a process that begins when the
\* one before is gone, and by no other.
OneAtATime == [][overlapped \/ DP!Next]_Running

\* ... and the PID file names it as long as it has the database open, so that `hippo ls`,
\* `hippo rm` and the next `hippo start` see it.
FileNamesDaemon == overlapped \/ \A p \in Daemons : pidFile = p

\* "hippo rm <project>   Remove a stopped project completely" (README.md:157): no daemon
\* loses its database to it, unless it was started during the confirmation.
RmOnlyStopped == [][RmConfirmed => overlapped \/ Daemons = {}]_vars

\* What the proofs carry besides.  migrateSchema counts as far as there are columns, and
\* from nothing.
Migrates == \A p \in Pids : /\ pc[p] = "altering" => added[p] < AllColumns
                            /\ pc[p] \notin {"altering", "recovering"} => added[p] = 0

\* Without overlapping commands, one start at a time gets past the PID file, and only if
\* there is no daemon; the file is its own from the write on; a confirmation is waited
\* for while nobody is at work.
Alone ==
    /\ \A p, q \in Starting : p = q
    /\ \A p, q \in Daemons : p = q
    /\ \A p \in Starting, d \in Daemons : pc[p] \in {"checking", "reading"} \/ p = d
    /\ \A d \in Daemons : pidFile = d
    /\ \A p \in Pids : pc[p] \in {"loading", "altering", "recovering"} => pidFile = p
    /\ detached \cap HasPidFileOpen = {}
    /\ rm = "prompt" => Starting = {} /\ Daemons = {}

\* The inductive invariant.
IInv == TypeOK /\ Migrates /\ (overlapped \/ Alone)

\* Two daemons that were started at once do not both stay: the port lets only one serve.
OverlapEnds == \A p, q \in Pids : p # q => {p, q} \subseteq Daemons ~> ~({p, q} \subseteq Daemons)

----------------------------------------------------------------------------
(* What the comments say and the code does not do.                         *)

\* "Add callback columns dynamically if they do not exist" (db.go:76): a daemon finds all
\* of them.
SchemaWhole == overlapped \/ Daemons = {} \/ columns = AllColumns
=============================================================================
