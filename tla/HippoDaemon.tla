---------------------------- MODULE HippoDaemon ----------------------------
(***************************************************************************)
(* One HippoDrop daemon process: the SQLite task table (queue/db.go), the  *)
(* HTTP API that fills it (api/handler.go), the scheduler                  *)
(* (worker/scheduler.go), the task channel, the worker pool                *)
(* (worker/pool.go) and the start and shutdown sequence of `hippo start`   *)
(* (cmd/hippo/main.go), over crashes and restarts.  The columns of the     *)
(* table outlive the process; the channel, the scheduler's batch, the      *)
(* workers and the pause flag do not.  Processes come one after another:   *)
(* DaemonLifecycle says when that is so.                                   *)
(*                                                                         *)
(* One statement is one step: the table is reached through a single        *)
(* connection (SetMaxOpenConns(1)), and each UPDATE is atomic in SQLite.   *)
(***************************************************************************)
EXTENDS Integers, Sequences, FiniteSets

CONSTANTS
    Tasks,        \* the task ids callers may obtain
    PoolSize,     \* workers.pool_size
    MaxRetries,   \* storage.google_drive.retry_max_attempts
    RateLimit,    \* storage.google_drive.rate_limit_per_second
    MaxStamp,     \* bound: created_at takes the values 1..MaxStamp
    MaxDbFaults,  \* bound: at most this many tasks have a lost write at any time
    NoJob         \* what an idle worker holds

ASSUME TasksAssumption == IsFiniteSet(Tasks)
ASSUME SizesAssumption == PoolSize \in Nat /\ MaxRetries \in Nat /\ RateLimit \in Nat
ASSUME BoundsAssumption == MaxStamp \in Nat /\ MaxDbFaults \in Nat

Workers == 0 .. PoolSize - 1
ChanCap == 2 * PoolSize

\* *queue.Task as the scheduler reads it: a copy of the row, retry_count included.
Snapshots == [id : Tasks, retry : Nat]
ASSUME NoJobAssumption == NoJob \notin Snapshots

VARIABLES
    \* the row of each task
    status, retryCount, created,
    \* the process
    main,       \* "down", "serving", "draining" (srv.Shutdown) or "waiting" (pool.Wait)
    paused,     \* Scheduler.paused
    schedPc,    \* where the scheduler is in dispatchPendingTasks
    batch,      \* what is left of the `tasks` slice of dispatchPendingTasks
    taskChan,   \* the buffered channel between scheduler and workers
    wpc, job,   \* where each worker is in processTask, and the task it holds
    \* history, read by no guard of the code
    transferred, fails,  \* see TaskQueue
    moved,      \* tasks this process has transferred
    started,    \* tasks the scheduler has marked running at least once
    lostWrites  \* tasks whose latest status UPDATE met a database error

rows    == <<status, retryCount, created>>
pool    == <<wpc, job>>
sched   == <<schedPc, batch>>
history == <<transferred, fails, moved, started, lostWrites>>
vars    == <<rows, main, paused, sched, taskChan, pool, history>>

Held(w) == job[w].id

\* signal.NotifyContext: every component's ctx is live until the first signal.
CtxLive == main = "serving"

\* The daemon implements TaskQueue, whose variables are columns and history of its own.
TQ == INSTANCE TaskQueue WITH status <- status, transferred <- transferred, fails <- fails

----------------------------------------------------------------------------
(* The status UPDATEs.  The caller says whether the statement took effect. *)

\* The disk is full, the database is locked for longer than the busy timeout...
DbMayFail == Cardinality(lostWrites) < MaxDbFaults

SetStatus(t, s) == /\ status' = [status EXCEPT ![t] = s]
                   /\ lostWrites' = lostWrites \ {t}

\* ExecContext gives an error: the context is cancelled, or the database refuses.
\* The callers log it and go on.
UpdateLost(t, live) == /\ UNCHANGED <<status, retryCount>>
                       /\ \/ ~live /\ UNCHANGED lostWrites
                          \/ DbMayFail /\ lostWrites' = lostWrites \cup {t}

----------------------------------------------------------------------------
(* The HTTP API, open until the process is gone: srv.Shutdown lets the     *)
(* requests in flight finish.                                              *)

\* created_at is CURRENT_TIMESTAMP, whole seconds of a clock taken never to step back.
CreateTask(t) ==
    /\ main # "down"
    /\ status[t] = "absent"
    /\ \E now \in 1 .. MaxStamp :
          /\ \A u \in Tasks : created[u] <= now
          /\ created' = [created EXCEPT ![t] = now]
    /\ status' = [status EXCEPT ![t] = "pending"]
    /\ UNCHANGED <<retryCount, main, paused, sched, taskChan, pool, history>>

SetPaused(p) == /\ main # "down"
                /\ paused' = p
                /\ UNCHANGED <<rows, main, sched, taskChan, pool, history>>

Pause  == SetPaused(TRUE)
Resume == SetPaused(FALSE)

----------------------------------------------------------------------------
(* The scheduler: dispatchPendingTasks, once per tick.                     *)

\* Mutant: the pause flag is not asked.
CheckNothing == /\ schedPc = "idle" /\ CtxLive
                /\ schedPc' = "querying"
                /\ UNCHANGED <<rows, main, paused, batch, taskChan, pool, history>>

\* IsPaused and QueryContext are two steps: a pause may come between them.
CheckPaused == /\ schedPc = "idle" /\ CtxLive /\ ~paused
               /\ schedPc' = "querying"
               /\ UNCHANGED <<rows, main, paused, batch, taskChan, pool, history>>

Pending == {t \in Tasks : status[t] = "pending"}

\* Mutant: retry_count is not among the columns selected.
RowUncounted(t) == [id |-> t, retry |-> 0]

Row(t) == [id |-> t, retry |-> retryCount[t]]

\* Mutant: no ORDER BY.
AnyPending(n) == {b \in [1 .. n -> {Row(t) : t \in Pending}] :
                     \A i, j \in 1 .. n : i < j => b[i].id # b[j].id}

\* The first n rows of SELECT ... WHERE status = 'pending' ORDER BY created_at ASC:
\* rows of one second come in any order.
OldestPending(n) ==
    {b \in [1 .. n -> {Row(t) : t \in Pending}] :
        /\ \A i, j \in 1 .. n : i < j => b[i].id # b[j].id
        /\ \A i, j \in 1 .. n : i < j => created[b[i].id] <= created[b[j].id]
        /\ \A i \in 1 .. n, u \in Pending :
              (\A j \in 1 .. n : b[j].id # u) => created[b[i].id] <= created[u]}

BatchLimit == LET p == Cardinality(Pending) IN IF p < ChanCap THEN p ELSE ChanCap

\* A read cut short, by the context or by the database, ends rows.Next early and
\* rows.Err is not asked: dispatch goes on with the rows read so far.
QueryPending ==
    /\ schedPc = "querying"
    /\ \E n \in 0 .. BatchLimit :
          /\ n = BatchLimit \/ ~CtxLive \/ DbMayFail
          /\ batch' \in OldestPending(n)
          /\ schedPc' = IF n = 0 THEN "idle" ELSE "marking"
    /\ UNCHANGED <<rows, main, paused, taskChan, pool, history>>

NextInBatch == /\ batch' = Tail(batch)
               /\ schedPc' = IF Len(batch) = 1 THEN "idle" ELSE "marking"

\* Mutant: the UPDATE is left to someone else.
PushUnmarked == /\ schedPc = "marking"
                /\ schedPc' = "pushing"
                /\ UNCHANGED <<rows, main, paused, batch, taskChan, pool, history>>

\* UPDATE ... SET status = 'running' WHERE task_id = ? AND status = 'pending'.  The
\* number of rows changed is not looked at: the push follows whenever there is no error.
MarkRunning ==
    /\ schedPc = "marking"
    /\ LET t == Head(batch).id IN
          \/ /\ CtxLive
             /\ IF status[t] = "pending"
                THEN SetStatus(t, "running") /\ started' = started \cup {t}
                ELSE UNCHANGED <<status, lostWrites, started>>
             /\ schedPc' = "pushing"
             /\ UNCHANGED <<batch, retryCount>>
          \/ /\ UpdateLost(t, CtxLive)
             /\ NextInBatch
             /\ UNCHANGED started
    /\ UNCHANGED <<created, main, paused, taskChan, pool, transferred, fails, moved>>

\* Mutant: a select with a default case, which drops the task when the channel is full.
PushOrDrop == /\ schedPc = "pushing"
              /\ taskChan' = IF Len(taskChan) < ChanCap THEN Append(taskChan, Head(batch))
                                                        ELSE taskChan
              /\ NextInBatch
              /\ UNCHANGED <<rows, main, paused, pool, history>>

Push == /\ schedPc = "pushing"
        /\ Len(taskChan) < ChanCap
        /\ taskChan' = Append(taskChan, Head(batch))
        /\ NextInBatch
        /\ UNCHANGED <<rows, main, paused, pool, history>>

\* case <-ctx.Done(): the rest of the batch is dropped, the head stays marked.
PushAborted == /\ schedPc = "pushing"
               /\ ~CtxLive
               /\ batch' = <<>>
               /\ schedPc' = "idle"
               /\ UNCHANGED <<rows, main, paused, taskChan, pool, history>>

SchedulerStep == CheckPaused \/ QueryPending \/ MarkRunning \/ Push \/ PushAborted

----------------------------------------------------------------------------
(* The workers: worker, processTask, handleFailure.                        *)

\* The select of worker() chooses freely between a cancelled context and a task; a
\* task received after the cancellation is dropped by the limiter at once.
Receive(w) ==
    /\ wpc[w] = "idle"
    /\ taskChan # <<>>
    /\ taskChan' = Tail(taskChan)
    /\ IF CtxLive
       THEN /\ wpc' = [wpc EXCEPT ![w] = "limiter"]
            /\ job' = [job EXCEPT ![w] = Head(taskChan)]
       ELSE UNCHANGED pool
    /\ UNCHANGED <<rows, main, paused, sched, history>>

\* Mutant: the worker ranges over taskChan, which nobody closes.
WorkerNeverExits(w) == wpc[w] = "exited" /\ UNCHANGED vars

WorkerExit(w) == /\ wpc[w] = "idle"
                 /\ ~CtxLive
                 /\ wpc' = [wpc EXCEPT ![w] = "exited"]
                 /\ UNCHANGED <<rows, main, paused, sched, taskChan, job, history>>

Goto(w, pc) == /\ wpc' = [wpc EXCEPT ![w] = pc]
               /\ UNCHANGED job

Finish(w) == /\ wpc' = [wpc EXCEPT ![w] = "idle"]
             /\ job' = [job EXCEPT ![w] = NoJob]

\* rateLimiter.Wait: a bucket of RateLimit tokens refilled at RateLimit per second.
LimiterGrant(w) == /\ wpc[w] = "limiter"
                   /\ RateLimit > 0
                   /\ Goto(w, "calling")
                   /\ UNCHANGED <<rows, main, paused, sched, taskChan, history>>

\* Wait gives an error, on a cancelled context or because no bucket of size 0 can ever
\* hold a token: processTask returns, and the row stays 'running'.
LimiterRejects(w) == /\ wpc[w] = "limiter"
                     /\ ~CtxLive \/ RateLimit = 0
                     /\ Finish(w)
                     /\ UNCHANGED <<rows, main, paused, sched, taskChan, history>>

\* provider.Upload or provider.Download returns.
TransferSucceeds(w) ==
    /\ wpc[w] = "calling"
    /\ transferred' = transferred \cup {Held(w)}
    /\ moved' = moved \cup {Held(w)}
    /\ Goto(w, "completing")
    /\ UNCHANGED <<rows, main, paused, sched, taskChan, fails, started, lostWrites>>

\* ... or gives an error; handleFailure compares the snapshot's RetryCount.
FailedCall(w, goesOn) ==
    /\ wpc[w] = "calling"
    /\ fails' = [fails EXCEPT ![Held(w)] = TQ!AtMost(@ + 1, MaxRetries + 1)]
    /\ Goto(w, IF goesOn THEN "backoff" ELSE "failing")
    /\ UNCHANGED <<created, main, paused, sched, taskChan, transferred, moved, started>>

\* Mutant: the requeue comes ahead of the backoff.
RequeuesFirst(w) == FailedCall(w, job[w].retry < MaxRetries)
                    /\ SetStatus(Held(w), "pending") /\ UNCHANGED retryCount

\* Mutant: one retry too many.
RetriesOnceMore(w) == FailedCall(w, job[w].retry <= MaxRetries)
                      /\ UNCHANGED <<status, retryCount, lostWrites>>

TransferFails(w) == FailedCall(w, job[w].retry < MaxRetries)
                    /\ UNCHANGED <<status, retryCount, lostWrites>>

\* Mutant: handleFailure returns after the backoff.
BackoffForgets(w) == /\ wpc[w] = "backoff"
                     /\ Finish(w)
                     /\ UNCHANGED <<rows, main, paused, sched, taskChan, history>>

BackoffElapsed(w) == /\ wpc[w] = "backoff"
                     /\ Goto(w, "requeueing")
                     /\ UNCHANGED <<rows, main, paused, sched, taskChan, history>>

\* revertToPending(context.Background(), ...): the cancelled ctx does not touch it.
BackoffCancelled(w) ==
    /\ wpc[w] = "backoff"
    /\ ~CtxLive
    /\ \/ SetStatus(Held(w), "pending") /\ UNCHANGED retryCount
       \/ UpdateLost(Held(w), TRUE)
    /\ Finish(w)
    /\ UNCHANGED <<created, main, paused, sched, taskChan, transferred, fails, moved, started>>

\* completeTask, failTask and the requeueing UPDATE take the worker's ctx, and give up
\* after one try.
Record(w, pc, s) ==
    /\ wpc[w] = pc
    /\ \/ /\ CtxLive
          /\ SetStatus(Held(w), s)
          /\ retryCount' = IF s = "pending" THEN [retryCount EXCEPT ![Held(w)] = @ + 1]
                                            ELSE retryCount
       \/ UpdateLost(Held(w), CtxLive)
    /\ Finish(w)
    /\ UNCHANGED <<created, main, paused, sched, taskChan, transferred, fails, moved, started>>

\* Mutant: a row whose outcome could not be written goes back to pending.
CompleteOrRevert(w) ==
    /\ wpc[w] = "completing"
    /\ \/ CtxLive /\ SetStatus(Held(w), "done")
       \/ ~CtxLive /\ UNCHANGED <<status, lostWrites>>
       \/ DbMayFail /\ SetStatus(Held(w), "pending")
    /\ Finish(w)
    /\ UNCHANGED <<retryCount, created, main, paused, sched, taskChan, transferred, fails, moved,
                   started>>

CompleteTask(w) == Record(w, "completing", "done")
FailTask(w)     == Record(w, "failing", "failed")
RequeueTask(w)  == Record(w, "requeueing", "pending")

WorkerStep(w) ==
    \/ Receive(w) \/ WorkerExit(w) \/ LimiterGrant(w) \/ LimiterRejects(w)
    \/ TransferSucceeds(w) \/ TransferFails(w)
    \/ BackoffElapsed(w) \/ BackoffCancelled(w)
    \/ CompleteTask(w) \/ FailTask(w) \/ RequeueTask(w)

----------------------------------------------------------------------------
(* runStart: boot, shutdown, and the ways a process ends.                  *)

\* recoverTasks, in queue.Open: the tasks of an earlier process are pending again.
RecoverTasks == /\ status' = [t \in Tasks |-> IF status[t] = "running" THEN "pending"
                                                                      ELSE status[t]]
                /\ lostWrites' = lostWrites \ TQ!Running
                /\ UNCHANGED <<retryCount, created, transferred, fails, moved, started>>

Boot == /\ main = "down"
        /\ RecoverTasks
        /\ main' = "serving"
        /\ wpc' = [w \in Workers |-> "idle"]
        /\ UNCHANGED <<paused, sched, taskChan, job>>

\* The database was opened, then the provider could not be set up: log.Fatalf.
BootAborted == /\ main = "down"
               /\ RecoverTasks
               /\ UNCHANGED <<main, paused, sched, taskChan, pool>>

\* SIGINT, SIGTERM, or POST /stop signalling its own process.  A second signal is
\* swallowed, NotifyContext being in place until runStart returns.
Signal == /\ main = "serving"
          /\ main' = "draining"
          /\ UNCHANGED <<rows, paused, sched, taskChan, pool, history>>

\* srv.Shutdown returns, after 30 seconds at the latest.
HttpStopped == /\ main = "draining"
               /\ main' = "waiting"
               /\ UNCHANGED <<rows, paused, sched, taskChan, pool, history>>

\* What only the process held is gone.
Vanish == /\ main' = "down"
          /\ paused' = FALSE
          /\ schedPc' = "idle"
          /\ batch' = <<>>
          /\ taskChan' = <<>>
          /\ wpc' = [w \in Workers |-> "exited"]
          /\ job' = [w \in Workers |-> NoJob]
          /\ moved' = {}
          /\ UNCHANGED <<rows, transferred, fails, started, lostWrites>>

\* pool.Wait returned.  Nobody waits for the scheduler: it may be anywhere.
Exit == /\ main = "waiting"
        /\ \A w \in Workers : wpc[w] = "exited"
        /\ Vanish

\* kill -9, power loss, or log.Fatalf when the port cannot be bound.
Crash == main # "down" /\ Vanish

----------------------------------------------------------------------------
Init == /\ status = [t \in Tasks |-> "absent"]
        /\ retryCount = [t \in Tasks |-> 0]
        /\ created = [t \in Tasks |-> 0]
        /\ main = "down"
        /\ paused = FALSE
        /\ schedPc = "idle" /\ batch = <<>>
        /\ taskChan = <<>>
        /\ wpc = [w \in Workers |-> "exited"]
        /\ job = [w \in Workers |-> NoJob]
        /\ transferred = {} /\ moved = {} /\ started = {} /\ lostWrites = {}
        /\ fails = [t \in Tasks |-> 0]

Operator == Pause \/ Resume \/ Signal \/ (\E t \in Tasks : CreateTask(t))

Process == Boot \/ BootAborted \/ HttpStopped \/ Exit \/ Crash

Next == \/ Operator
        \/ SchedulerStep
        \/ \E w \in Workers : WorkerStep(w)
        \/ Process

Spec == Init /\ [][Next]_vars

\* The goroutines are scheduled, the timers fire, srv.Shutdown has its 30 seconds and
\* the provider answers every call; nobody has to boot, signal, pause or resume.
Fairness == /\ WF_vars(SchedulerStep)
            /\ \A w \in Workers : WF_vars(WorkerStep(w))
            /\ WF_vars(HttpStopped)
            /\ WF_vars(Exit)

FairSpec == Spec /\ Fairness

----------------------------------------------------------------------------
(* Properties.                                                             *)

Busy(w) == wpc[w] \notin {"idle", "exited"}

InChannel == {taskChan[i].id : i \in 1 .. Len(taskChan)}
InHands   == {Held(w) : w \in {v \in Workers : Busy(v)}}
AtPush    == {batch[i].id : i \in {j \in 1 .. Len(batch) : j = 1 /\ schedPc = "pushing"}}
Owned     == InChannel \cup InHands \cup AtPush

WorkerPcs == {"idle", "limiter", "calling", "backoff", "completing", "failing",
              "requeueing", "exited"}

\* Every variable has its type; a worker holds a task exactly while it processes one,
\* and a process that is down holds nothing.
TypeOK ==
    /\ status \in [Tasks -> TQ!Statuses]
    /\ retryCount \in [Tasks -> Nat] /\ created \in [Tasks -> 0 .. MaxStamp]
    /\ main \in {"down", "serving", "draining", "waiting"} /\ paused \in BOOLEAN
    /\ schedPc \in {"idle", "querying", "marking", "pushing"}
    /\ batch \in Seq(Snapshots) /\ (schedPc \in {"marking", "pushing"} <=> batch # <<>>)
    /\ taskChan \in Seq(Snapshots) /\ Len(taskChan) <= ChanCap
    /\ wpc \in [Workers -> WorkerPcs]
    /\ job \in [Workers -> Snapshots \cup {NoJob}]
    /\ \A w \in Workers : Busy(w) <=> job[w] # NoJob
    /\ transferred \subseteq Tasks /\ moved \subseteq Tasks
    /\ started \subseteq Tasks /\ lostWrites \subseteq Tasks
    /\ fails \in [Tasks -> 0 .. MaxRetries + 1]
    /\ main = "down" => /\ schedPc = "idle" /\ taskChan = <<>> /\ moved = {}
                        /\ \A w \in Workers : wpc[w] = "exited"

\* A task is in one place: one slot of the channel, one worker, or the scheduler about
\* to push it.  The scheduler relies on marking before pushing for this (scheduler.go:80)
\* and the workers' UPDATEs, which do not look at the current status, rely on it.
SingleOwner ==
    /\ \A i, j \in 1 .. Len(taskChan) : taskChan[i].id = taskChan[j].id => i = j
    /\ \A v, w \in Workers : Busy(v) /\ Busy(w) /\ Held(v) = Held(w) => v = w
    /\ \A i \in 1 .. Len(taskChan), w \in Workers : Busy(w) => taskChan[i].id # Held(w)
    /\ schedPc = "pushing" =>
          /\ \A i \in 1 .. Len(taskChan) : taskChan[i].id # batch[1].id
          /\ \A w \in Workers : Busy(w) => Held(w) # batch[1].id

\* The copy of the row a worker decides on is still the row: no one else changes a task
\* between the scheduler's SELECT and the worker's verdict, though no lock is held and
\* the copy may be many backoffs old when handleFailure reads RetryCount.
SnapshotFresh ==
    /\ \A i \in 1 .. Len(taskChan) : /\ status[taskChan[i].id] = "running"
                                     /\ retryCount[taskChan[i].id] = taskChan[i].retry
    /\ \A w \in Workers : Busy(w) => /\ status[Held(w)] = "running"
                                     /\ retryCount[Held(w)] = job[w].retry

\* The scheduler's rows: each task once, still as the SELECT saw it, and the one about to
\* be pushed marked.  So the UPDATE that marks always finds its row pending, and not
\* looking at RowsAffected (scheduler.go:81) does no harm.
BatchFresh ==
    /\ \A i, j \in 1 .. Len(batch) : batch[i].id = batch[j].id => i = j
    /\ \A i \in 1 .. Len(batch) :
          /\ retryCount[batch[i].id] = batch[i].retry
          /\ status[batch[i].id] = IF i = 1 /\ schedPc = "pushing" THEN "running" ELSE "pending"

\* While the daemon serves, a row says 'running' only if someone is working on it or an
\* UPDATE of it was refused by the database: the channel, the pool and the scheduler
\* lose no task, in whatever order they run.
OrphansAccounted ==
    main = "serving" /\ RateLimit > 0 =>
        \A t \in Tasks : status[t] = "running" => t \in Owned \cup lostWrites

\* retry_count never exceeds the failures that really happened, nor the configured
\* maximum, over crashes, lost writes and shutdowns.
RetryBudget == \A t \in Tasks : retryCount[t] <= MaxRetries /\ retryCount[t] <= fails[t]

\* One process never transfers a task again once it has transferred it, even when it
\* could not record the outcome: the upload API would create a second file.
OncePerProcess ==
    /\ \A w \in Workers : Busy(w) /\ Held(w) \in moved => wpc[w] = "completing"
    /\ \A i \in 1 .. Len(taskChan) : taskChan[i].id \notin moved

\* ORDER BY created_at: a task is not started before one created in an earlier second,
\* unless the database refused to mark the older one.
NoOvertaking ==
    \A t, u \in Tasks :
        /\ status[t] # "absent" /\ created[t] < created[u]
        /\ u \in started
        => t \in started \cup lostWrites

\* What the proofs carry besides: an outcome about to be recorded was earned, and a task
\* transferred by this process is not offered to a worker again.
Ownership == BatchFresh /\ SingleOwner /\ SnapshotFresh

VerdictEarned(w) ==
    /\ wpc[w] = "completing" => Held(w) \in transferred
    /\ wpc[w] = "failing" => fails[Held(w)] > MaxRetries
    /\ wpc[w] \in {"backoff", "requeueing"} => /\ retryCount[Held(w)] < MaxRetries
                                               /\ retryCount[Held(w)] < fails[Held(w)]
Verdicts == RetryBudget /\ \A w \in Workers : VerdictEarned(w)

MovedSettled ==
    /\ OncePerProcess
    /\ \A t \in moved : status[t] \in {"running", "done"}
    /\ schedPc = "pushing" => batch[1].id \notin moved

\* What ORDER BY gives the rest of the batch: a task older than one of its rows comes
\* before that row, was started or was refused.
RowsStarted == \A t \in Tasks : /\ status[t] \in {"running", "done", "failed"} => t \in started
                                /\ status[t] = "absent" => t \notin started

BatchInOrder ==
    CtxLive => \A i \in 1 .. Len(batch), t \in Tasks :
        status[t] # "absent" /\ created[t] < created[batch[i].id] =>
            t \in started \cup lostWrites \/ \E j \in 1 .. i - 1 : batch[j].id = t

InOrder == NoOvertaking /\ RowsStarted /\ BatchInOrder

\* The inductive invariant.
IInv == TypeOK /\ Ownership /\ Verdicts /\ MovedSettled /\ OrphansAccounted /\ InOrder

\* The daemon implements the task queue's promise: see TaskQueue.
ImplementsTaskQueue == TQ!Spec

\* A pause stops the dispatch after what is already past the check: while it lasts, every
\* task started was in the batch in hand or in the one query under way, so never more than
\* a channel's worth, whatever the pool and the API do.
Dispatchable == CASE schedPc = "idle"     -> 0
                  [] schedPc = "querying" -> ChanCap
                  [] schedPc = "marking"  -> Len(batch)
                  [] schedPc = "pushing"  -> Len(batch) - 1

NewlyRunning == {t \in Tasks : status[t] # "running" /\ status'[t] = "running"}

PauseDrains ==
    [][paused /\ paused' => Cardinality(NewlyRunning) + Dispatchable' <= Dispatchable]_vars

\* While the daemon serves a task only moves forward; back to the queue it comes only by
\* spending a retry.  With RetryBudget: after MaxRetries returns it can but settle.
Stage(t) == CASE status[t] = "absent"  -> 0
              [] status[t] = "pending" -> 1
              [] status[t] = "running" -> 2
              [] OTHER                 -> 3

ForwardOnly ==
    [][CtxLive /\ CtxLive' =>
         \A t \in Tasks :
            \/ retryCount'[t] = retryCount[t] /\ Stage(t)' >= Stage(t)
            \/ /\ retryCount'[t] = retryCount[t] + 1
               /\ status[t] = "running" /\ status'[t] = "pending"]_vars

\* After the signal the daemon runs down: no step gives a worker, the channel or the
\* scheduler more to do, and each of theirs leaves one of them less.  Rank counts the
\* steps a worker has before it at most, Backlog those of the scheduler and the channel,
\* each row of the batch still to be marked, pushed and received.
Rank(w) == CASE wpc[w] = "exited"  -> 0
             [] wpc[w] = "idle"    -> 1
             [] wpc[w] \in {"completing", "failing", "requeueing"} -> 2
             [] wpc[w] = "backoff" -> 3
             [] wpc[w] = "calling" -> 4
             [] wpc[w] = "limiter" -> 5

InBatch == CASE schedPc = "idle"     -> 0
             [] schedPc = "querying" -> 3 * ChanCap + 1
             [] schedPc = "marking"  -> 3 * Len(batch)
             [] schedPc = "pushing"  -> 3 * Len(batch) - 1

Backlog == InBatch + Len(taskChan)

Stopping == main \in {"draining", "waiting"}

RunsDown ==
    [][Stopping /\ Stopping' =>
         /\ \A w \in Workers : Rank(w)' <= Rank(w)
         /\ Backlog' <= Backlog
         /\ \/ UNCHANGED <<sched, taskChan, pool>>
            \/ Backlog' < Backlog
            \/ \E w \in Workers : Rank(w)' < Rank(w)]_vars

\* Without a rate limit in the configuration a daemon transfers nothing, settles nothing
\* and uses up no retry.
NothingMoves == RateLimit = 0 =>
    \A t \in Tasks : /\ t \notin transferred /\ fails[t] = 0 /\ retryCount[t] = 0
                     /\ status[t] \in {"absent", "pending", "running"}

\* A daemon that stays up and unpaused, with a database that works, settles every task
\* it has accepted.
StaysUp == <>[](main = "serving" /\ ~paused)
EverySettles ==
    StaysUp => \A t \in Tasks : status[t] = "pending" ~> status[t] \in {"done", "failed"}

\* A signal is always followed by the end of the process: no worker, channel or backoff
\* holds the shutdown up.
ShutdownTerminates == main = "draining" ~> main = "down"
----------------------------------------------------------------------------
(* What the documents say and the code does not do.                        *)

\* "Any worker change must preserve the SIGTERM -> drain -> flush -> exit sequence"
\* (RULES.md:38): a worker that has transferred a task leaves it recorded as done.
OutcomeFlushed ==
    [][\A w \in Workers : wpc[w] = "completing" /\ wpc'[w] = "idle"
                             => status'[Held(w)] = "done"]_vars
=============================================================================
