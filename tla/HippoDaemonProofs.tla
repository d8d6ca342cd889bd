------------------------- MODULE HippoDaemonProofs -------------------------
(***************************************************************************)
(* Theorems about HippoDaemon, for every number of tasks, workers, retries *)
(* and database faults, over crashes and restarts.                         *)
(***************************************************************************)
EXTENDS HippoDaemon, SequenceTheorems, FiniteSetTheorems, TLAPS

USE DEF Workers, ChanCap, CtxLive

----------------------------------------------------------------------------
(* Lemmas about the sequences the daemon is built from.                    *)

LEMMA TailFacts ==
    ASSUME NEW s \in Seq(Snapshots), s # <<>>
    PROVE  /\ Head(s) = s[1] /\ s[1] \in Snapshots
           /\ Len(s) \in Nat /\ Len(s) >= 1
           /\ Tail(s) \in Seq(Snapshots)
           /\ Len(Tail(s)) = Len(s) - 1
           /\ (Len(s) = 1) <=> (Tail(s) = <<>>)
           /\ \A i \in 1 .. Len(Tail(s)) : Tail(s)[i] = s[i + 1] /\ i + 1 \in 1 .. Len(s)
<1>1. Len(s) \in Nat /\ Len(s) >= 1
  BY EmptySeq
<1>2. Head(s) = s[1] /\ s[1] \in Snapshots
  BY <1>1
<1>3. /\ Tail(s) \in Seq(Snapshots) /\ Len(Tail(s)) = Len(s) - 1
      /\ \A i \in 1 .. Len(Tail(s)) : Tail(s)[i] = s[i + 1]
  BY HeadTailProperties
<1>4. (Len(s) = 1) <=> (Tail(s) = <<>>)
  <2>1. Len(<<>>) = 0
    BY EmptySeq
  <2>2. \A q \in Seq(Snapshots) : Len(q) = 0 => q = <<>>
    BY EmptySeq
  <2>3. (Len(Tail(s)) = 0) <=> (Tail(s) = <<>>)
    BY <1>3, <2>1, <2>2
  <2>4. (Len(s) = 1) <=> (Len(Tail(s)) = 0)
    BY <1>1, <1>3
  <2> QED BY <2>3, <2>4
<1>5. \A i \in 1 .. Len(Tail(s)) : i + 1 \in 1 .. Len(s)
  BY <1>1, <1>3
<1> QED BY <1>1, <1>2, <1>3, <1>4, <1>5

LEMMA ElementFacts ==
    ASSUME NEW s \in Seq(Snapshots), NEW i \in 1 .. Len(s)
    PROVE  s[i] \in Snapshots /\ s[i].id \in Tasks /\ s[i].retry \in Nat
<1>1. s[i] \in Snapshots
  BY ElementOfSeq
<1> QED BY <1>1 DEF Snapshots

LEMMA AppendFacts ==
    ASSUME NEW s \in Seq(Snapshots), NEW e \in Snapshots
    PROVE  /\ Append(s, e) \in Seq(Snapshots)
           /\ Len(s) \in Nat
           /\ Len(Append(s, e)) = Len(s) + 1
           /\ \A i \in 1 .. Len(s) : Append(s, e)[i] = s[i]
           /\ Append(s, e)[Len(s) + 1] = e
OBVIOUS

\* A batch is a sequence of copies of pending rows, each task once.
LEMMA BatchFacts ==
    ASSUME TypeOK, NEW n \in Nat, NEW b \in OldestPending(n)
    PROVE  /\ b \in Seq(Snapshots) /\ Len(b) = n
           /\ \A i \in 1 .. n : /\ status[b[i].id] = "pending"
                                /\ retryCount[b[i].id] = b[i].retry
           /\ \A i, j \in 1 .. n : b[i].id = b[j].id => i = j
<1>1. b \in [1 .. n -> {Row(t) : t \in Pending}]
  BY DEF OldestPending
<1>2. \A t \in Pending : Row(t) \in Snapshots
  BY DEF Row, Snapshots, Pending, TypeOK
<1>3. b \in [1 .. n -> Snapshots]
  BY <1>1, <1>2
<1>4. b \in Seq(Snapshots) /\ Len(b) = n
  BY <1>3, SeqDef
<1>5. \A i \in 1 .. n : \E t \in Pending : b[i] = Row(t)
  BY <1>1
<1>6. \A i \in 1 .. n : status[b[i].id] = "pending" /\ retryCount[b[i].id] = b[i].retry
  <2> SUFFICES ASSUME NEW i \in 1 .. n
               PROVE  status[b[i].id] = "pending" /\ retryCount[b[i].id] = b[i].retry
    OBVIOUS
  <2>1. PICK t \in Pending : b[i] = Row(t)
    BY <1>5
  <2>2. b[i].id = t /\ b[i].retry = retryCount[t]
    BY <2>1 DEF Row
  <2> QED BY <2>2 DEF Pending
<1>7. \A i, j \in 1 .. n : i < j => b[i].id # b[j].id
  BY DEF OldestPending
<1>8. \A i, j \in 1 .. n : b[i].id = b[j].id => i = j
  <2> SUFFICES ASSUME NEW i \in 1 .. n, NEW j \in 1 .. n, b[i].id = b[j].id, i # j
               PROVE  FALSE
    OBVIOUS
  <2>1. i < j \/ j < i
    OBVIOUS
  <2> QED BY <1>7, <2>1
<1> QED BY <1>4, <1>6, <1>8

\* How many rows a query may return.
LEMMA BatchLimitFacts == BatchLimit \in Nat
<1>1. IsFiniteSet(Pending) /\ Cardinality(Pending) \in Nat
  BY TasksAssumption, FS_Subset, FS_CardinalityType DEF Pending
<1> QED BY <1>1, SizesAssumption DEF BatchLimit

----------------------------------------------------------------------------
(* Type correctness.                                                       *)

LEMMA TypeInit == Init => TypeOK
<1> SUFFICES ASSUME Init PROVE TypeOK
  OBVIOUS
<1> USE SizesAssumption, BoundsAssumption DEF Init
<1>1. /\ status \in [Tasks -> TQ!Statuses]
      /\ retryCount \in [Tasks -> Nat] /\ created \in [Tasks -> 0 .. MaxStamp]
      /\ fails \in [Tasks -> 0 .. MaxRetries + 1]
  BY DEF TQ!Statuses
<1>2. <<>> \in Seq(Snapshots) /\ Len(<<>>) = 0
  BY EmptySeq
<1>3. batch \in Seq(Snapshots) /\ taskChan \in Seq(Snapshots) /\ Len(taskChan) <= ChanCap
  BY <1>2
<1>4. /\ wpc \in [Workers -> WorkerPcs] /\ job \in [Workers -> Snapshots \cup {NoJob}]
      /\ \A w \in Workers : Busy(w) <=> job[w] # NoJob
  BY DEF Busy, WorkerPcs
<1> QED BY <1>1, <1>3, <1>4 DEF TypeOK

LEMMA TypeOperator == TypeOK /\ Operator => TypeOK'
<1> SUFFICES ASSUME TypeOK, Operator PROVE TypeOK'
  OBVIOUS
<1> USE DEF rows, pool, sched, history, Busy
<1>1. CASE Pause \/ Resume
  BY <1>1 DEF Pause, Resume, SetPaused, TypeOK
<1>2. CASE Signal
  BY <1>2 DEF Signal, TypeOK
<1>3. ASSUME NEW t \in Tasks, CreateTask(t) PROVE TypeOK'
  BY <1>3, BoundsAssumption DEF CreateTask, TypeOK, TQ!Statuses
<1> QED BY <1>1, <1>2, <1>3 DEF Operator

LEMMA TypeScheduler == TypeOK /\ SchedulerStep => TypeOK'
<1> SUFFICES ASSUME TypeOK, SchedulerStep PROVE TypeOK'
  OBVIOUS
<1> USE DEF rows, pool, sched, history, Busy
<1>1. CASE CheckPaused
  BY <1>1 DEF CheckPaused, TypeOK
<1>2. CASE QueryPending
  <2>1. PICK n \in 0 .. BatchLimit : /\ batch' \in OldestPending(n)
                                     /\ schedPc' = IF n = 0 THEN "idle" ELSE "marking"
    BY <1>2 DEF QueryPending
  <2>2. n \in Nat
    BY BatchLimitFacts
  <2>3. batch' \in Seq(Snapshots) /\ Len(batch') = n
    BY <2>1, <2>2, BatchFacts
  <2>4. (n = 0) <=> (batch' = <<>>)
    BY <2>3, EmptySeq
  <2> QED BY <1>2, <2>1, <2>3, <2>4 DEF QueryPending, TypeOK
<1>3. CASE MarkRunning
  <2>1. batch # <<>> /\ batch \in Seq(Snapshots)
    BY <1>3 DEF MarkRunning, TypeOK
  <2>2. Head(batch).id \in Tasks
    BY <2>1, TailFacts DEF Snapshots
  <2>3. /\ batch' \in Seq(Snapshots) /\ (schedPc' \in {"marking", "pushing"} <=> batch' # <<>>)
        /\ schedPc' \in {"idle", "marking", "pushing"}
    BY <1>3, <2>1, TailFacts DEF MarkRunning, NextInBatch
  <2>4. /\ status' \in [Tasks -> TQ!Statuses] /\ lostWrites' \subseteq Tasks
        /\ started' \subseteq Tasks /\ retryCount' = retryCount
    <3> DEFINE t == Head(batch).id
    <3>1. CASE SetStatus(t, "running") /\ started' = started \cup {t} /\ retryCount' = retryCount
      BY <3>1, <2>2 DEF SetStatus, TypeOK, TQ!Statuses
    <3>2. CASE UNCHANGED <<status, lostWrites, started, retryCount>>
      BY <3>2 DEF TypeOK
    <3>3. CASE UpdateLost(t, CtxLive) /\ started' = started
      BY <3>3, <2>2 DEF UpdateLost, TypeOK
    <3> QED BY <1>3, <3>1, <3>2, <3>3 DEF MarkRunning
  <2> QED BY <1>3, <2>3, <2>4 DEF MarkRunning, TypeOK
<1>4. CASE Push
  <2>1. batch # <<>> /\ batch \in Seq(Snapshots)
    BY <1>4 DEF Push, TypeOK
  <2>2. /\ batch' \in Seq(Snapshots) /\ (schedPc' \in {"marking", "pushing"} <=> batch' # <<>>)
        /\ schedPc' \in {"idle", "marking", "pushing"}
    BY <1>4, <2>1, TailFacts DEF Push, NextInBatch
  <2>3. taskChan' \in Seq(Snapshots) /\ Len(taskChan') <= ChanCap
    BY <1>4, <2>1, TailFacts, AppendFacts, SizesAssumption DEF Push, TypeOK
  <2> QED BY <1>4, <2>2, <2>3 DEF Push, TypeOK
<1>5. CASE PushAborted
  BY <1>5, EmptySeq DEF PushAborted, TypeOK
<1> QED BY <1>1, <1>2, <1>3, <1>4, <1>5 DEF SchedulerStep

\* A worker that processes a task holds a copy of some row.
LEMMA HeldFacts ==
    ASSUME TypeOK, NEW w \in Workers, Busy(w)
    PROVE  job[w] \in Snapshots /\ Held(w) \in Tasks /\ job[w].retry \in Nat
<1>1. job[w] \in Snapshots
  BY DEF TypeOK
<1> QED BY <1>1 DEF Held, Snapshots

\* What the three ways a worker moves on do to its own types.
LEMMA GotoType ==
    ASSUME TypeOK, NEW w \in Workers, NEW pc \in WorkerPcs \ {"idle", "exited"},
           Busy(w), Goto(w, pc)
    PROVE  /\ wpc' \in [Workers -> WorkerPcs]
           /\ job' \in [Workers -> Snapshots \cup {NoJob}]
           /\ \A v \in Workers : Busy(v)' <=> job'[v] # NoJob
           /\ main # "down"
BY DEF Goto, TypeOK, Busy

LEMMA FinishType ==
    ASSUME TypeOK, NEW w \in Workers, Busy(w), Finish(w)
    PROVE  /\ wpc' \in [Workers -> WorkerPcs]
           /\ job' \in [Workers -> Snapshots \cup {NoJob}]
           /\ \A v \in Workers : Busy(v)' <=> job'[v] # NoJob
           /\ main # "down"
BY DEF Finish, TypeOK, Busy, WorkerPcs

LEMMA TypeWorker == ASSUME NEW w \in Workers PROVE TypeOK /\ WorkerStep(w) => TypeOK'
<1> SUFFICES ASSUME TypeOK, WorkerStep(w) PROVE TypeOK'
  OBVIOUS
<1> USE DEF rows, pool, sched, history
<1>1. CASE Receive(w)
  <2>1. taskChan # <<>> /\ taskChan \in Seq(Snapshots) /\ main # "down"
    BY <1>1 DEF Receive, TypeOK
  <2>2. /\ taskChan' \in Seq(Snapshots) /\ Len(taskChan') <= ChanCap
        /\ Head(taskChan) \in Snapshots
    BY <1>1, <2>1, TailFacts, SizesAssumption DEF Receive, TypeOK
  <2>3. /\ wpc' \in [Workers -> WorkerPcs] /\ job' \in [Workers -> Snapshots \cup {NoJob}]
        /\ \A v \in Workers : Busy(v)' <=> job'[v] # NoJob
    BY <1>1, <2>2, NoJobAssumption DEF Receive, TypeOK, Busy, WorkerPcs
  <2> QED BY <1>1, <2>1, <2>2, <2>3 DEF Receive, TypeOK
<1>2. CASE WorkerExit(w)
  BY <1>2 DEF WorkerExit, TypeOK, Busy, WorkerPcs
<1>3. CASE LimiterGrant(w)
  <2>1. Busy(w) /\ Goto(w, "calling") /\ "calling" \in WorkerPcs \ {"idle", "exited"}
    BY <1>3 DEF LimiterGrant, Busy, WorkerPcs
  <2> QED BY <1>3, <2>1, GotoType DEF LimiterGrant, TypeOK
<1>4. CASE LimiterRejects(w)
  <2>1. Busy(w) /\ Finish(w)
    BY <1>4 DEF LimiterRejects, Busy
  <2> QED BY <1>4, <2>1, FinishType DEF LimiterRejects, TypeOK
<1>5. CASE TransferSucceeds(w)
  <2>1. Busy(w) /\ Goto(w, "completing") /\ "completing" \in WorkerPcs \ {"idle", "exited"}
    BY <1>5 DEF TransferSucceeds, Busy, WorkerPcs
  <2> QED BY <1>5, <2>1, GotoType, HeldFacts DEF TransferSucceeds, TypeOK
<1>6. CASE TransferFails(w)
  <2>1. /\ Busy(w)
        /\ \E pc \in {"backoff", "failing"} : Goto(w, pc)
        /\ {"backoff", "failing"} \subseteq WorkerPcs \ {"idle", "exited"}
    BY <1>6 DEF TransferFails, FailedCall, Busy, WorkerPcs
  <2>2. Held(w) \in Tasks
    BY <2>1, HeldFacts
  <2>3. fails' \in [Tasks -> 0 .. MaxRetries + 1]
    <3>1. fails \in [Tasks -> 0 .. MaxRetries + 1]
      BY DEF TypeOK
    <3>2. TQ!AtMost(fails[Held(w)] + 1, MaxRetries + 1) \in 0 .. MaxRetries + 1
      BY <2>2, <3>1, SizesAssumption DEF TQ!AtMost
    <3>3. fails' = [fails EXCEPT ![Held(w)] = TQ!AtMost(fails[Held(w)] + 1, MaxRetries + 1)]
      BY <1>6 DEF TransferFails, FailedCall
    <3> QED BY <2>2, <3>1, <3>2, <3>3
  <2> QED BY <1>6, <2>1, <2>3, GotoType DEF TransferFails, FailedCall, TypeOK
<1>7. CASE BackoffElapsed(w)
  <2>1. Busy(w) /\ Goto(w, "requeueing") /\ "requeueing" \in WorkerPcs \ {"idle", "exited"}
    BY <1>7 DEF BackoffElapsed, Busy, WorkerPcs
  <2> QED BY <1>7, <2>1, GotoType DEF BackoffElapsed, TypeOK
<1>8. CASE BackoffCancelled(w)
  <2>1. Busy(w) /\ Finish(w)
    BY <1>8 DEF BackoffCancelled, Busy
  <2>2. Held(w) \in Tasks
    BY <2>1, HeldFacts
  <2>3. /\ status' \in [Tasks -> TQ!Statuses] /\ lostWrites' \subseteq Tasks
        /\ retryCount' = retryCount
    BY <1>8, <2>2 DEF BackoffCancelled, SetStatus, UpdateLost, TypeOK, TQ!Statuses
  <2> QED BY <1>8, <2>1, <2>3, FinishType DEF BackoffCancelled, TypeOK
<1>9. ASSUME NEW pc \in {"completing", "failing", "requeueing"},
             NEW s \in {"done", "failed", "pending"}, Record(w, pc, s)
      PROVE  TypeOK'
  <2>1. Busy(w) /\ Finish(w)
    BY <1>9 DEF Record, Busy
  <2>2. Held(w) \in Tasks
    BY <2>1, HeldFacts
  <2>3. /\ status' \in [Tasks -> TQ!Statuses] /\ lostWrites' \subseteq Tasks
        /\ retryCount' \in [Tasks -> Nat]
    <3>1. CASE UpdateLost(Held(w), CtxLive)
      BY <3>1, <2>2 DEF UpdateLost, TypeOK
    <3>2. CASE /\ SetStatus(Held(w), s)
               /\ retryCount' = IF s = "pending" THEN [retryCount EXCEPT ![Held(w)] = @ + 1]
                                                 ELSE retryCount
      BY <3>2, <2>2 DEF SetStatus, TypeOK, TQ!Statuses
    <3> QED BY <1>9, <3>1, <3>2 DEF Record
  <2> QED BY <1>9, <2>1, <2>3, FinishType DEF Record, TypeOK
<1> QED BY <1>1, <1>2, <1>3, <1>4, <1>5, <1>6, <1>7, <1>8, <1>9
        DEF WorkerStep, CompleteTask, FailTask, RequeueTask

LEMMA TypeProcess == TypeOK /\ Process => TypeOK'
<1> SUFFICES ASSUME TypeOK, Process PROVE TypeOK'
  OBVIOUS
<1> USE DEF rows, pool, sched, history
<1>1. CASE Boot \/ BootAborted
  <2>1. status' \in [Tasks -> TQ!Statuses] /\ lostWrites' \subseteq Tasks
    BY <1>1 DEF Boot, BootAborted, RecoverTasks, TypeOK, TQ!Statuses
  <2>2. \A w \in Workers : job[w] = NoJob
    BY <1>1 DEF Boot, BootAborted, TypeOK, Busy
  <2> QED BY <1>1, <2>1, <2>2
          DEF Boot, BootAborted, RecoverTasks, TypeOK, Busy, WorkerPcs
<1>2. CASE HttpStopped
  BY <1>2 DEF HttpStopped, TypeOK, Busy
<1>3. CASE Vanish
  <2>1. <<>> \in Seq(Snapshots) /\ Len(<<>>) = 0
    BY EmptySeq
  <2>2. /\ batch' \in Seq(Snapshots) /\ taskChan' \in Seq(Snapshots)
        /\ Len(taskChan') <= ChanCap
    BY <1>3, <2>1, SizesAssumption DEF Vanish
  <2> QED BY <1>3, <2>2 DEF Vanish, TypeOK, Busy, WorkerPcs
<1> QED BY <1>1, <1>2, <1>3 DEF Process, Exit, Crash

LEMMA TypeStep == TypeOK /\ [Next]_vars => TypeOK'
<1> SUFFICES ASSUME TypeOK, [Next]_vars PROVE TypeOK'
  OBVIOUS
<1>1. CASE UNCHANGED vars
  BY <1>1 DEF vars, rows, pool, sched, history, TypeOK, Busy
<1> QED BY <1>1, TypeOperator, TypeScheduler, TypeWorker, TypeProcess DEF Next

\* Every variable keeps its type, and what a worker holds agrees with where it is: the
\* state of scheduler.go, pool.go and the tasks table, over crashes and restarts.
THEOREM TypeCorrect == Spec => []TypeOK
BY TypeInit, TypeStep, PTL DEF Spec

----------------------------------------------------------------------------
(* Who owns a task.  SingleOwner alone is not inductive: that a task can   *)
(* be marked and pushed safely needs to know that no one owns a pending    *)
(* task (SnapshotFresh) and that the scheduler's rows are still pending    *)
(* when it comes to them (BatchFresh).                                     *)

LEMMA OwnershipInit == Init => Ownership
BY EmptySeq DEF Init, Ownership, BatchFresh, SingleOwner, SnapshotFresh, Busy

LEMMA OwnershipOperator ==
    TypeOK /\ Ownership /\ Operator => Ownership'
<1> SUFFICES ASSUME TypeOK, Ownership, Operator PROVE Ownership'
  OBVIOUS
<1> USE DEF rows, pool, sched, history, Ownership, BatchFresh, SingleOwner, SnapshotFresh,
            Busy, Held
<1>1. CASE Pause \/ Resume \/ Signal
  BY <1>1 DEF Pause, Resume, SetPaused, Signal
<1>2. ASSUME NEW t \in Tasks, CreateTask(t) PROVE Ownership'
  <2>1. \A u \in Tasks : u # t => status'[u] = status[u]
    BY <1>2 DEF CreateTask, TypeOK
  <2>2. \A i \in 1 .. Len(taskChan) : taskChan[i].id \in Tasks /\ taskChan[i].id # t
    BY <1>2, ElementFacts DEF CreateTask, TypeOK
  <2>3. \A i \in 1 .. Len(batch) : batch[i].id \in Tasks /\ batch[i].id # t
    BY <1>2, ElementFacts DEF CreateTask, TypeOK
  <2>4. \A w \in Workers : Busy(w) => Held(w) \in Tasks /\ Held(w) # t
    BY <1>2, HeldFacts DEF CreateTask
  <2> QED BY <1>2, <2>1, <2>2, <2>3, <2>4 DEF CreateTask
<1> QED BY <1>1, <1>2 DEF Operator

LEMMA OwnershipScheduler ==
    TypeOK /\ Ownership /\ SchedulerStep => Ownership'
<1> SUFFICES ASSUME TypeOK, Ownership, SchedulerStep PROVE Ownership'
  OBVIOUS
<1> USE DEF rows, pool, sched, history, Ownership
<1>1. CASE CheckPaused
  BY <1>1, EmptySeq DEF CheckPaused, BatchFresh, SingleOwner, SnapshotFresh, Busy, Held, TypeOK
<1>2. CASE QueryPending
  <2>1. PICK n \in 0 .. BatchLimit : /\ batch' \in OldestPending(n)
                                     /\ schedPc' = IF n = 0 THEN "idle" ELSE "marking"
    BY <1>2 DEF QueryPending
  <2>2. BatchFresh'
    BY <1>2, <2>1, BatchLimitFacts, BatchFacts DEF QueryPending, BatchFresh
  <2> QED BY <1>2, <2>1, <2>2 DEF QueryPending, SingleOwner, SnapshotFresh, Busy, Held
<1>3. CASE MarkRunning
  <2> DEFINE t == batch[1].id
  <2>1. batch # <<>> /\ batch \in Seq(Snapshots) /\ schedPc = "marking"
    BY <1>3 DEF MarkRunning, TypeOK
  <2>2. /\ Head(batch).id = t /\ t \in Tasks /\ status[t] = "pending"
        /\ Len(batch) \in Nat /\ Len(batch) >= 1
    BY <2>1, TailFacts, ElementFacts DEF BatchFresh
  <2>3. /\ \A i \in 1 .. Len(taskChan) : taskChan[i].id # t
        /\ \A w \in Workers : Busy(w) => Held(w) # t
    BY <2>2 DEF SnapshotFresh
  <2>4. UNCHANGED <<taskChan, wpc, job, retryCount>>
    BY <1>3 DEF MarkRunning, UpdateLost
  <2>5. CASE SetStatus(t, "running") /\ schedPc' = "pushing" /\ batch' = batch
    <3>1. status' = [status EXCEPT ![t] = "running"]
      BY <2>5 DEF SetStatus
    <3>2. \A u \in Tasks : status'[u] = IF u = t THEN "running" ELSE status[u]
      BY <2>2, <3>1 DEF TypeOK
    <3>3. \A i \in 1 .. Len(batch) : batch[i].id \in Tasks
      BY <2>1, ElementFacts
    <3>4. BatchFresh'
      BY <2>1, <2>2, <2>4, <2>5, <3>2, <3>3 DEF BatchFresh
    <3>5. SingleOwner'
      BY <2>3, <2>4, <2>5 DEF SingleOwner, Busy, Held
    <3>6. SnapshotFresh'
      <4>1. \A i \in 1 .. Len(taskChan) : taskChan[i].id \in Tasks
        BY ElementFacts DEF TypeOK
      <4>2. \A w \in Workers : Busy(w) => Held(w) \in Tasks
        BY HeldFacts
      <4> QED BY <2>3, <2>4, <3>2, <4>1, <4>2 DEF SnapshotFresh, Busy, Held
    <3> QED BY <3>4, <3>5, <3>6
  <2>6. CASE NextInBatch /\ status' = status
    <3>1. BatchFresh'
      BY <2>1, <2>4, <2>6, TailFacts DEF BatchFresh, NextInBatch
    <3> QED BY <2>4, <2>6, <3>1 DEF SingleOwner, SnapshotFresh, NextInBatch, Busy, Held
  <2> QED BY <1>3, <2>2, <2>5, <2>6 DEF MarkRunning, UpdateLost
<1>4. CASE Push
  <2> DEFINE t == batch[1].id
  <2>1. batch # <<>> /\ batch \in Seq(Snapshots) /\ schedPc = "pushing"
    BY <1>4 DEF Push, TypeOK
  <2>2. Head(batch) = batch[1] /\ batch[1] \in Snapshots
    BY <2>1, TailFacts
  <2>3. /\ taskChan \in Seq(Snapshots) /\ Len(taskChan) \in Nat
        /\ taskChan' \in Seq(Snapshots) /\ Len(taskChan') = Len(taskChan) + 1
        /\ \A i \in 1 .. Len(taskChan) : taskChan'[i] = taskChan[i]
        /\ taskChan'[Len(taskChan) + 1] = batch[1]
    BY <1>4, <2>2, AppendFacts DEF Push, TypeOK
  <2>4. status[t] = "running" /\ retryCount[t] = batch[1].retry
    BY <2>1, TailFacts DEF BatchFresh
  <2>5. BatchFresh'
    BY <1>4, <2>1, TailFacts DEF Push, BatchFresh, NextInBatch
  <2>6. schedPc' # "pushing" /\ UNCHANGED <<status, retryCount, wpc, job>>
    BY <1>4 DEF Push, NextInBatch
  <2>7. SnapshotFresh'
    BY <2>3, <2>4, <2>6 DEF SnapshotFresh, Busy, Held
  <2>8. SingleOwner'
    <3>1. \A i \in 1 .. Len(taskChan) : taskChan'[i].id # t
      BY <2>1, <2>3 DEF SingleOwner
    <3>2. \A i, j \in 1 .. Len(taskChan') : taskChan'[i].id = taskChan'[j].id => i = j
      BY <2>3, <3>1 DEF SingleOwner
    <3>3. \A w \in Workers : Busy(w) => Held(w) # t
      BY <2>1 DEF SingleOwner
    <3>4. \A i \in 1 .. Len(taskChan'), w \in Workers : Busy(w) => taskChan'[i].id # Held(w)
      BY <2>3, <3>3 DEF SingleOwner
    <3> QED BY <2>6, <3>2, <3>4 DEF SingleOwner, Busy, Held
  <2> QED BY <2>5, <2>7, <2>8
<1>5. CASE PushAborted
  BY <1>5, EmptySeq DEF PushAborted, BatchFresh, SingleOwner, SnapshotFresh, Busy, Held
<1> QED BY <1>1, <1>2, <1>3, <1>4, <1>5 DEF SchedulerStep

\* A worker that lets go of its task may change the row of that task, and of no other.
LEMMA OwnershipFinish ==
    ASSUME TypeOK, Ownership, NEW w \in Workers, Busy(w), Finish(w),
           UNCHANGED <<schedPc, batch, taskChan>>,
           \A u \in Tasks : u # Held(w) => status'[u] = status[u] /\ retryCount'[u] = retryCount[u]
    PROVE  Ownership'
<1> USE DEF Ownership
<1>1. \A v \in Workers : Busy(v)' => v # w /\ Busy(v) /\ Held(v)' = Held(v)
  BY DEF Finish, TypeOK, Busy, Held
<1>2. \A v \in Workers : Busy(v) => Held(v) \in Tasks
  BY HeldFacts
<1>3. \A i \in 1 .. Len(taskChan) : taskChan[i].id \in Tasks /\ taskChan[i].id # Held(w)
  BY ElementFacts DEF TypeOK, SingleOwner
<1>4. \A i \in 1 .. Len(batch) : batch[i].id \in Tasks /\ batch[i].id # Held(w)
  <2> SUFFICES ASSUME NEW i \in 1 .. Len(batch), batch[i].id = Held(w) PROVE FALSE
    BY ElementFacts DEF TypeOK
  <2>1. CASE i = 1 /\ schedPc = "pushing"
    BY <2>1 DEF SingleOwner
  <2>2. CASE ~(i = 1 /\ schedPc = "pushing")
    BY <2>2 DEF BatchFresh, SnapshotFresh
  <2> QED BY <2>1, <2>2
<1>5. BatchFresh'
  BY <1>4 DEF BatchFresh
<1>6. SingleOwner'
  BY <1>1 DEF SingleOwner
<1>7. SnapshotFresh'
  <2>1. \A i \in 1 .. Len(taskChan) : /\ status'[taskChan[i].id] = "running"
                                      /\ retryCount'[taskChan[i].id] = taskChan[i].retry
    BY <1>3 DEF SnapshotFresh
  <2>2. \A v \in Workers : Busy(v)' => /\ status'[Held(v)] = "running"
                                       /\ retryCount'[Held(v)] = job[v].retry
                                       /\ job'[v] = job[v]
    <3> SUFFICES ASSUME NEW v \in Workers, Busy(v)'
                 PROVE  /\ status'[Held(v)] = "running"
                        /\ retryCount'[Held(v)] = job[v].retry
                        /\ job'[v] = job[v]
      OBVIOUS
    <3>1. v # w /\ Busy(v) /\ Held(v) \in Tasks
      BY <1>1, <1>2
    <3>2. Held(v) # Held(w)
      BY <3>1 DEF SingleOwner
    <3> QED BY <3>1, <3>2 DEF SnapshotFresh, Finish, TypeOK
  <2> QED BY <1>1, <2>1, <2>2 DEF SnapshotFresh
<1> QED BY <1>5, <1>6, <1>7

LEMMA OwnershipGoto ==
    ASSUME TypeOK, Ownership, NEW w \in Workers, Busy(w), NEW pc, Goto(w, pc),
           UNCHANGED <<schedPc, batch, taskChan, status, retryCount>>
    PROVE  Ownership'
<1>1. \A v \in Workers : Busy(v)' => Busy(v) /\ Held(v)' = Held(v) /\ job'[v] = job[v]
  BY DEF Goto, TypeOK, Busy, Held
<1> QED BY <1>1 DEF Ownership, BatchFresh, SingleOwner, SnapshotFresh

LEMMA OwnershipReceive ==
    ASSUME TypeOK, Ownership, NEW w \in Workers, Receive(w)
    PROVE  Ownership'
<1> USE DEF Ownership
<1>1. taskChan # <<>> /\ taskChan \in Seq(Snapshots) /\ ~Busy(w)
  BY DEF Receive, TypeOK, Busy
<1>2. /\ Len(taskChan') \in Nat /\ Len(taskChan) >= 1 /\ Len(taskChan') = Len(taskChan) - 1
      /\ \A i \in 1 .. Len(taskChan') : /\ taskChan'[i] = taskChan[i + 1]
                                       /\ i + 1 \in 1 .. Len(taskChan)
      /\ Head(taskChan) = taskChan[1] /\ 1 \in 1 .. Len(taskChan)
  BY <1>1, TailFacts DEF Receive
<1>3. UNCHANGED <<status, retryCount, schedPc, batch>>
  BY DEF Receive, rows, sched
<1>4. BatchFresh'
  BY <1>3 DEF BatchFresh
<1>5. /\ \A i \in 1 .. Len(taskChan') : taskChan'[i].id # taskChan[1].id
      /\ \A i, j \in 1 .. Len(taskChan') : taskChan'[i].id = taskChan'[j].id => i = j
  <2>1. \A i, j \in 1 .. Len(taskChan) : taskChan[i].id = taskChan[j].id => i = j
    BY DEF SingleOwner
  <2>2. ASSUME NEW i \in 1 .. Len(taskChan') PROVE taskChan'[i].id # taskChan[1].id
    BY <1>2, <2>1
  <2>3. ASSUME NEW i \in 1 .. Len(taskChan'), NEW j \in 1 .. Len(taskChan'),
               taskChan'[i].id = taskChan'[j].id
        PROVE  i = j
    <3>1. taskChan[i + 1].id = taskChan[j + 1].id
      BY <1>2, <2>3
    <3> QED BY <1>2, <2>1, <3>1
  <2> QED BY <2>2, <2>3
<1>6. \A v \in Workers : Busy(v)' => \/ Busy(v) /\ job'[v] = job[v]
                                     \/ v = w /\ job'[v] = taskChan[1]
  BY <1>2 DEF Receive, pool, TypeOK, Busy
<1>7. SingleOwner'
  <2>1. \A u, v \in Workers : Busy(u)' /\ Busy(v)' /\ Held(u)' = Held(v)' => u = v
    BY <1>2, <1>6 DEF SingleOwner, Held
  <2>2. \A i \in 1 .. Len(taskChan'), v \in Workers : Busy(v)' => taskChan'[i].id # Held(v)'
    BY <1>2, <1>5, <1>6 DEF SingleOwner, Held
  <2>3. schedPc = "pushing" =>
          /\ \A i \in 1 .. Len(taskChan') : taskChan'[i].id # batch[1].id
          /\ \A v \in Workers : Busy(v)' => Held(v)' # batch[1].id
    <3> SUFFICES ASSUME schedPc = "pushing"
                 PROVE  /\ \A i \in 1 .. Len(taskChan') : taskChan'[i].id # batch[1].id
                        /\ \A v \in Workers : Busy(v)' => Held(v)' # batch[1].id
      OBVIOUS
    <3>1. \A i \in 1 .. Len(taskChan) : taskChan[i].id # batch[1].id
      BY DEF SingleOwner
    <3>2. \A v \in Workers : Busy(v) => Held(v) # batch[1].id
      BY DEF SingleOwner
    <3>3. \A i \in 1 .. Len(taskChan') : taskChan'[i].id # batch[1].id
      BY <1>2, <3>1
    <3>4. \A v \in Workers : Busy(v)' => Held(v)' # batch[1].id
      BY <1>2, <1>6, <3>1, <3>2 DEF Held
    <3> QED BY <3>3, <3>4
  <2> QED BY <1>3, <1>5, <2>1, <2>2, <2>3 DEF SingleOwner
<1>8. SnapshotFresh'
  BY <1>2, <1>3, <1>6 DEF SnapshotFresh, Held
<1> QED BY <1>4, <1>7, <1>8

LEMMA OwnershipWorker ==
    ASSUME NEW w \in Workers PROVE TypeOK /\ Ownership /\ WorkerStep(w) => Ownership'
<1> SUFFICES ASSUME TypeOK, Ownership, WorkerStep(w) PROVE Ownership'
  OBVIOUS
<1> USE DEF rows, pool, sched, history
<1>1. CASE Receive(w)
  BY <1>1, OwnershipReceive
<1>2. CASE WorkerExit(w)
  <2>1. \A v \in Workers : Busy(v)' => Busy(v)
    BY <1>2 DEF WorkerExit, TypeOK, Busy
  <2> QED BY <1>2, <2>1
          DEF WorkerExit, Ownership, BatchFresh, SingleOwner, SnapshotFresh, Held
<1>3. CASE LimiterGrant(w) \/ TransferSucceeds(w) \/ TransferFails(w) \/ BackoffElapsed(w)
  <2>1. Busy(w) /\ \E pc \in WorkerPcs : Goto(w, pc)
    BY <1>3 DEF LimiterGrant, TransferSucceeds, TransferFails, FailedCall, BackoffElapsed,
                Busy, WorkerPcs
  <2>2. UNCHANGED <<schedPc, batch, taskChan, status, retryCount>>
    BY <1>3 DEF LimiterGrant, TransferSucceeds, TransferFails, FailedCall, BackoffElapsed
  <2> QED BY <2>1, <2>2, OwnershipGoto
<1>4. CASE LimiterRejects(w) \/ BackoffCancelled(w) \/ CompleteTask(w) \/ FailTask(w)
           \/ RequeueTask(w)
  <2>1. Busy(w) /\ Finish(w) /\ UNCHANGED <<schedPc, batch, taskChan>>
    BY <1>4 DEF LimiterRejects, BackoffCancelled, CompleteTask, FailTask, RequeueTask,
                Record, Busy
  <2>2. \A u \in Tasks : u # Held(w) => status'[u] = status[u] /\ retryCount'[u] = retryCount[u]
    BY <1>4 DEF LimiterRejects, BackoffCancelled, CompleteTask, FailTask, RequeueTask,
                Record, SetStatus, UpdateLost, TypeOK
  <2> QED BY <2>1, <2>2, OwnershipFinish
<1> QED BY <1>1, <1>2, <1>3, <1>4 DEF WorkerStep

LEMMA OwnershipProcess == TypeOK /\ Ownership /\ Process => Ownership'
<1> SUFFICES ASSUME TypeOK, Ownership, Process PROVE Ownership'
  OBVIOUS
<1> USE DEF rows, pool, sched, history, Ownership
<1>1. CASE Boot \/ BootAborted
  <2>1. /\ batch = <<>> /\ taskChan = <<>> /\ schedPc = "idle"
        /\ UNCHANGED <<batch, taskChan, schedPc>>
    BY <1>1 DEF Boot, BootAborted, TypeOK
  <2>2. \A w \in Workers : ~Busy(w)'
    BY <1>1 DEF Boot, BootAborted, TypeOK, Busy
  <2>3. Len(<<>>) = 0
    BY EmptySeq
  <2> QED BY <2>1, <2>2, <2>3 DEF BatchFresh, SingleOwner, SnapshotFresh
<1>2. CASE HttpStopped
  BY <1>2 DEF HttpStopped, BatchFresh, SingleOwner, SnapshotFresh, Busy, Held
<1>3. CASE Vanish
  BY <1>3, EmptySeq DEF Vanish, BatchFresh, SingleOwner, SnapshotFresh, Busy
<1> QED BY <1>1, <1>2, <1>3 DEF Process, Exit, Crash

LEMMA OwnershipStep == TypeOK /\ Ownership /\ [Next]_vars => Ownership'
<1> SUFFICES ASSUME TypeOK, Ownership, [Next]_vars PROVE Ownership'
  OBVIOUS
<1>1. CASE UNCHANGED vars
  BY <1>1 DEF vars, rows, pool, sched, history, Ownership, BatchFresh, SingleOwner,
              SnapshotFresh, Busy, Held
<1> QED BY <1>1, OwnershipOperator, OwnershipScheduler, OwnershipWorker, OwnershipProcess
        DEF Next

LEMMA OwnershipInvariant == Spec => []Ownership
BY OwnershipInit, OwnershipStep, TypeCorrect, PTL DEF Spec

\* No two of the channel's slots, the workers and the scheduler ever have the same task,
\* for any number of workers and tasks, over crashes, restarts and lost writes.
THEOREM OneOwnerPerTask == Spec => []SingleOwner
BY OwnershipInvariant, PTL DEF Ownership

\* The copy a worker decides on is the row, so neither the retry limit of handleFailure
\* nor the unconditional UPDATEs of pool.go act on stale data.
THEOREM CopiesAreFresh == Spec => []SnapshotFresh
BY OwnershipInvariant, PTL DEF Ownership

----------------------------------------------------------------------------
(* Retries are paid for, and outcomes earned.                              *)

\* A worker whose task the step does not touch keeps its verdict: failures and
\* transfers only accumulate.
LEMMA VerdictKept ==
    ASSUME TypeOK, NEW w \in Workers, VerdictEarned(w),
           \A t \in Tasks : fails'[t] >= fails[t], transferred \subseteq transferred',
           fails' \in [Tasks -> 0 .. MaxRetries + 1],
           Busy(w)' => /\ wpc'[w] = wpc[w] /\ job'[w] = job[w]
                       /\ retryCount'[Held(w)] = retryCount[Held(w)]
    PROVE  VerdictEarned(w)'
<1>1. CASE ~Busy(w)'
  BY <1>1 DEF Busy, VerdictEarned
<1>2. CASE Busy(w)'
  <2>1. Busy(w)
    BY <1>2 DEF Busy
  <2>2. Held(w) \in Tasks /\ Held(w)' = Held(w)
    BY <1>2, <2>1, HeldFacts DEF Held
  <2>3. fails[Held(w)] \in Int /\ fails'[Held(w)] \in Int /\ retryCount[Held(w)] \in Int
    BY <2>2, SizesAssumption DEF TypeOK
  <2> QED BY <1>2, <2>2, <2>3, SizesAssumption DEF VerdictEarned
<1> QED BY <1>1, <1>2

LEMMA VerdictsInit == Init => Verdicts
BY SizesAssumption DEF Init, Verdicts, RetryBudget, VerdictEarned

\* Steps that move no worker into a verdict and no retry_count.
LEMMA VerdictsFrame ==
    ASSUME TypeOK, Verdicts, UNCHANGED <<retryCount, transferred, fails>>,
           \A w \in Workers : Busy(w)' => \/ wpc'[w] = wpc[w] /\ job'[w] = job[w]
                                          \/ wpc'[w] \in {"limiter", "calling"}
                                          \/ wpc'[w] = "requeueing" /\ wpc[w] = "backoff"
                                             /\ job'[w] = job[w]
    PROVE  Verdicts'
BY DEF Verdicts, RetryBudget, VerdictEarned, Busy, Held

LEMMA VerdictsWorker ==
    ASSUME NEW w \in Workers
    PROVE  TypeOK /\ TypeOK' /\ Ownership /\ Verdicts /\ WorkerStep(w) => Verdicts'
<1> SUFFICES ASSUME TypeOK, TypeOK', Ownership, Verdicts, WorkerStep(w) PROVE Verdicts'
  OBVIOUS
<1> USE DEF rows, pool, sched, history
<1>1. CASE Receive(w) \/ WorkerExit(w) \/ LimiterGrant(w) \/ LimiterRejects(w)
           \/ BackoffElapsed(w) \/ BackoffCancelled(w)
  <2>1. UNCHANGED <<retryCount, transferred, fails>>
    BY <1>1 DEF Receive, WorkerExit, LimiterGrant, LimiterRejects, BackoffElapsed,
                BackoffCancelled, SetStatus, UpdateLost
  <2>2. \A v \in Workers : Busy(v)' => \/ wpc'[v] = wpc[v] /\ job'[v] = job[v]
                                       \/ wpc'[v] \in {"limiter", "calling"}
                                       \/ wpc'[v] = "requeueing" /\ wpc[v] = "backoff"
                                          /\ job'[v] = job[v]
    BY <1>1 DEF Receive, WorkerExit, LimiterGrant, LimiterRejects, BackoffElapsed,
                BackoffCancelled, Goto, Finish, TypeOK, Busy
  <2> QED BY <2>1, <2>2, VerdictsFrame
<1>2. CASE TransferSucceeds(w)
  <2>1. /\ transferred' = transferred \cup {Held(w)} /\ UNCHANGED <<retryCount, fails, job>>
        /\ \A v \in Workers : v # w => wpc'[v] = wpc[v]
        /\ wpc'[w] = "completing" /\ Held(w)' = Held(w)
    BY <1>2 DEF TransferSucceeds, Goto, TypeOK, Held
  <2> QED BY <2>1 DEF Verdicts, RetryBudget, VerdictEarned, Held
<1>3. CASE TransferFails(w)
  <2> DEFINE h == Held(w)
  <2>1. Busy(w) /\ h \in Tasks /\ job[w].retry = retryCount[h]
    BY <1>3, HeldFacts DEF TransferFails, FailedCall, Busy, Ownership, SnapshotFresh
  <2>2. /\ fails[h] \in 0 .. MaxRetries + 1 /\ retryCount[h] \in Nat
        /\ retryCount[h] <= MaxRetries /\ retryCount[h] <= fails[h]
    BY <2>1, SizesAssumption DEF TypeOK, Verdicts, RetryBudget
  <2>3. /\ fails' = [fails EXCEPT ![h] = TQ!AtMost(@ + 1, MaxRetries + 1)]
        /\ UNCHANGED <<retryCount, transferred, job>>
        /\ \A v \in Workers : v # w => wpc'[v] = wpc[v]
        /\ wpc'[w] = IF job[w].retry < MaxRetries THEN "backoff" ELSE "failing"
    BY <1>3 DEF TransferFails, FailedCall, Goto, TypeOK
  <2>4. /\ fails'[h] = IF fails[h] + 1 > MaxRetries + 1 THEN MaxRetries + 1 ELSE fails[h] + 1
        /\ \A t \in Tasks : t # h => fails'[t] = fails[t]
    BY <2>1, <2>3 DEF TypeOK, TQ!AtMost
  <2>5. fails'[h] >= fails[h] /\ fails'[h] > retryCount[h]
    BY <2>2, <2>4, SizesAssumption
  <2>6. \A t \in Tasks : fails[t] \in Int /\ fails'[t] \in Int /\ fails'[t] >= fails[t]
    <3> SUFFICES ASSUME NEW t \in Tasks
                 PROVE  fails[t] \in Int /\ fails'[t] \in Int /\ fails'[t] >= fails[t]
      OBVIOUS
    <3>1. fails[t] \in 0 .. MaxRetries + 1 /\ fails'[t] \in 0 .. MaxRetries + 1
      BY DEF TypeOK
    <3> QED BY <2>4, <2>5, <3>1, SizesAssumption
  <2>7. VerdictEarned(w)'
    <3>1. wpc'[w] = "failing" => retryCount[h] = MaxRetries
      BY <2>1, <2>2, <2>3, SizesAssumption
    <3>2. Held(w)' = h
      BY <2>3 DEF Held
    <3> QED BY <2>1, <2>2, <2>3, <2>5, <3>1, <3>2 DEF VerdictEarned
  <2>8. \A v \in Workers : v # w => VerdictEarned(v)'
    BY <2>3, <2>6, VerdictKept DEF Verdicts, TypeOK
  <2>9. RetryBudget'
    BY <2>3, <2>6, SizesAssumption DEF Verdicts, RetryBudget, TypeOK
  <2> QED BY <2>7, <2>8, <2>9 DEF Verdicts
<1>4. ASSUME NEW pc, NEW s, Record(w, pc, s), s = "pending" => pc = "requeueing",
             pc \in {"completing", "failing", "requeueing"}
      PROVE  Verdicts'
  <2> DEFINE h == Held(w)
  <2>1. Busy(w) /\ h \in Tasks
    BY <1>4, HeldFacts DEF Record, Busy
  <2>2. /\ UNCHANGED <<transferred, fails>>
        /\ \A v \in Workers : Busy(v)' => v # w /\ wpc'[v] = wpc[v] /\ job'[v] = job[v]
    BY <1>4 DEF Record, Finish, TypeOK, Busy
  <2>3. \/ retryCount' = retryCount
        \/ wpc[w] = "requeueing" /\ retryCount' = [retryCount EXCEPT ![h] = @ + 1]
    BY <1>4 DEF Record, UpdateLost
  <2>4. \A t \in Tasks : t # h => retryCount'[t] = retryCount[t]
    BY <2>1, <2>3 DEF TypeOK
  <2>5. RetryBudget'
    <3>1. /\ retryCount[h] \in Nat /\ fails[h] \in Int
          /\ retryCount[h] <= MaxRetries /\ retryCount[h] <= fails[h]
      BY <2>1, SizesAssumption DEF TypeOK, Verdicts, RetryBudget
    <3>2. wpc[w] = "requeueing" => retryCount[h] < MaxRetries /\ retryCount[h] < fails[h]
      BY DEF Verdicts, VerdictEarned
    <3>3. retryCount'[h] <= MaxRetries /\ retryCount'[h] <= fails[h]
      BY <2>1, <2>3, <3>1, <3>2, SizesAssumption DEF TypeOK
    <3> QED BY <2>2, <2>4, <3>3 DEF Verdicts, RetryBudget
  <2>6. \A v \in Workers : VerdictEarned(v)'
    <3> SUFFICES ASSUME NEW v \in Workers PROVE VerdictEarned(v)'
      OBVIOUS
    <3>1. Busy(v)' => Busy(v) /\ Held(v) # h /\ Held(v) \in Tasks
      BY <2>1, <2>2, HeldFacts DEF Busy, Ownership, SingleOwner
    <3>2. Busy(v)' => retryCount'[Held(v)] = retryCount[Held(v)]
      BY <2>4, <3>1
    <3>3. /\ \A t \in Tasks : fails'[t] >= fails[t]
          /\ fails' \in [Tasks -> 0 .. MaxRetries + 1]
      <4>1. \A t \in Tasks : fails[t] \in 0 .. MaxRetries + 1
        BY DEF TypeOK
      <4>2. \A t \in Tasks : fails[t] >= fails[t]
        BY <4>1, SizesAssumption
      <4>3. fails' = fails /\ fails \in [Tasks -> 0 .. MaxRetries + 1]
        BY <2>2 DEF TypeOK
      <4> QED BY <4>2, <4>3
    <3> QED BY <2>2, <3>2, <3>3, VerdictKept DEF Verdicts
  <2> QED BY <2>5, <2>6 DEF Verdicts
<1> QED BY <1>1, <1>2, <1>3, <1>4 DEF WorkerStep, CompleteTask, FailTask, RequeueTask

LEMMA VerdictsStep == TypeOK /\ TypeOK' /\ Ownership /\ Verdicts /\ [Next]_vars => Verdicts'
<1> SUFFICES ASSUME TypeOK, TypeOK', Ownership, Verdicts, [Next]_vars PROVE Verdicts'
  OBVIOUS
<1> USE DEF rows, pool, sched, history
<1>1. CASE \E w \in Workers : WorkerStep(w)
  BY <1>1, VerdictsWorker
<1>2. CASE Operator \/ SchedulerStep \/ Process \/ UNCHANGED vars
  <2>1. UNCHANGED <<retryCount, transferred, fails>>
    BY <1>2 DEF Operator, Pause, Resume, SetPaused, Signal, CreateTask, SchedulerStep,
                CheckPaused, QueryPending, MarkRunning, UpdateLost, Push, PushAborted,
                Process, Boot, BootAborted, RecoverTasks, HttpStopped, Exit, Crash, Vanish,
                vars
  <2>2. \A w \in Workers : Busy(w)' => wpc'[w] = wpc[w] /\ job'[w] = job[w]
    BY <1>2 DEF Operator, Pause, Resume, SetPaused, Signal, CreateTask, SchedulerStep,
                CheckPaused, QueryPending, MarkRunning, UpdateLost, Push, PushAborted,
                Process, Boot, BootAborted, RecoverTasks, HttpStopped, Exit, Crash, Vanish,
                vars, Busy
  <2> QED BY <2>1, <2>2, VerdictsFrame
<1> QED BY <1>1, <1>2 DEF Next

LEMMA VerdictsInvariant == Spec => []Verdicts
BY VerdictsInit, VerdictsStep, TypeCorrect, OwnershipInvariant, PTL DEF Spec

\* retry_count is bounded by retry_max_attempts and by the failures that happened.
THEOREM RetriesArePaidFor == Spec => []RetryBudget
BY VerdictsInvariant, PTL DEF Verdicts

----------------------------------------------------------------------------
(* The daemon keeps the task queue's promise: every behaviour of           *)
(* HippoDaemon is one of TaskQueue, status, transferred and fails being    *)
(* the abstract variables of the same names.                               *)

LEMMA RefinesInit == Init => TQ!Init
BY DEF Init, TQ!Init

LEMMA RefinesOperator == TypeOK /\ Operator => [TQ!Next]_(TQ!vars)
<1> SUFFICES ASSUME TypeOK, Operator PROVE [TQ!Next]_(TQ!vars)
  OBVIOUS
<1> USE DEF rows, history, TQ!vars
<1>1. CASE Pause \/ Resume \/ Signal
  BY <1>1 DEF Pause, Resume, SetPaused, Signal
<1>2. ASSUME NEW t \in Tasks, CreateTask(t) PROVE TQ!Accept(t)
  BY <1>2 DEF CreateTask, TQ!Accept
<1> QED BY <1>1, <1>2 DEF Operator, TQ!Next

\* Marking a row is the abstract Start; everything else the scheduler does is hidden.
LEMMA RefinesScheduler == TypeOK /\ Ownership /\ SchedulerStep => [TQ!Next]_(TQ!vars)
<1> SUFFICES ASSUME TypeOK, Ownership, SchedulerStep PROVE [TQ!Next]_(TQ!vars)
  OBVIOUS
<1> USE DEF rows, history, TQ!vars
<1>1. CASE CheckPaused \/ QueryPending \/ Push \/ PushAborted
  BY <1>1 DEF CheckPaused, QueryPending, Push, PushAborted
<1>2. CASE MarkRunning
  <2> DEFINE t == Head(batch).id
  <2>1. batch # <<>> /\ batch \in Seq(Snapshots)
    BY <1>2 DEF MarkRunning, TypeOK
  <2>2. t \in Tasks
    BY <2>1, TailFacts, ElementFacts
  <2>3. UNCHANGED <<transferred, fails>>
    BY <1>2 DEF MarkRunning
  <2>4. \/ status[t] = "pending" /\ status' = [status EXCEPT ![t] = "running"]
        \/ status' = status
    BY <1>2 DEF MarkRunning, SetStatus, UpdateLost
  <2>5. TQ!Start(t) \/ UNCHANGED TQ!vars
    BY <2>3, <2>4 DEF TQ!Start
  <2> QED BY <2>2, <2>5 DEF TQ!Next
<1> QED BY <1>1, <1>2 DEF SchedulerStep

\* Putting one running task back.
LEMMA ReleaseOne ==
    ASSUME TypeOK, NEW t \in Tasks, status[t] = "running",
           status' = [status EXCEPT ![t] = "pending"], UNCHANGED <<transferred, fails>>
    PROVE  TQ!Next
<1>1. status' = [u \in Tasks |-> IF u \in {t} THEN "pending" ELSE status[u]]
  BY DEF TypeOK
<1>2. TQ!Release({t})
  BY <1>1 DEF TQ!Release, TQ!Running
<1> QED BY <1>2 DEF TQ!Next

LEMMA RefinesWorker ==
    ASSUME NEW w \in Workers
    PROVE  TypeOK /\ Ownership /\ Verdicts /\ WorkerStep(w) => [TQ!Next]_(TQ!vars)
<1> SUFFICES ASSUME TypeOK, Ownership, Verdicts, WorkerStep(w) PROVE [TQ!Next]_(TQ!vars)
  OBVIOUS
<1> USE DEF rows, history, TQ!vars
<1> DEFINE t == Held(w)
<1>1. Busy(w) => t \in Tasks /\ status[t] = "running"
  BY HeldFacts DEF Ownership, SnapshotFresh
<1>2. CASE Receive(w) \/ WorkerExit(w) \/ LimiterGrant(w) \/ LimiterRejects(w) \/ BackoffElapsed(w)
  BY <1>2 DEF Receive, WorkerExit, LimiterGrant, LimiterRejects, BackoffElapsed
<1>3. CASE TransferSucceeds(w)
  <2>1. TQ!Transfer(t) /\ t \in Tasks
    BY <1>1, <1>3 DEF TransferSucceeds, Busy, TQ!Transfer
  <2> QED BY <2>1 DEF TQ!Next
<1>4. CASE TransferFails(w)
  <2>1. TQ!Fault(t) /\ t \in Tasks
    BY <1>1, <1>4 DEF TransferFails, FailedCall, Busy, TQ!Fault
  <2> QED BY <2>1 DEF TQ!Next
<1>5. CASE BackoffCancelled(w)
  <2>1. t \in Tasks /\ status[t] = "running" /\ UNCHANGED <<transferred, fails>>
    BY <1>1, <1>5 DEF BackoffCancelled, Busy
  <2>2. status' = [status EXCEPT ![t] = "pending"] \/ status' = status
    BY <1>5 DEF BackoffCancelled, SetStatus, UpdateLost
  <2> QED BY <2>1, <2>2, ReleaseOne
<1>6. CASE CompleteTask(w) \/ FailTask(w)
  <2>1. t \in Tasks /\ status[t] = "running" /\ UNCHANGED <<transferred, fails>>
    BY <1>1, <1>6 DEF CompleteTask, FailTask, Record, Busy
  <2>2. \/ status' = status
        \/ t \in transferred /\ status' = [status EXCEPT ![t] = "done"]
        \/ fails[t] > MaxRetries /\ status' = [status EXCEPT ![t] = "failed"]
    BY <1>6 DEF CompleteTask, FailTask, Record, SetStatus, UpdateLost, Verdicts, VerdictEarned
  <2>3. TQ!Settle(t) \/ UNCHANGED TQ!vars
    BY <2>1, <2>2 DEF TQ!Settle
  <2> QED BY <2>1, <2>3 DEF TQ!Next
<1>7. CASE RequeueTask(w)
  <2>1. t \in Tasks /\ status[t] = "running" /\ UNCHANGED <<transferred, fails>>
    BY <1>1, <1>7 DEF RequeueTask, Record, Busy
  <2>2. status' = [status EXCEPT ![t] = "pending"] \/ status' = status
    BY <1>7 DEF RequeueTask, Record, SetStatus, UpdateLost
  <2> QED BY <2>1, <2>2, ReleaseOne
<1> QED BY <1>2, <1>3, <1>4, <1>5, <1>6, <1>7 DEF WorkerStep

\* Recovery is the abstract Release of every running task.
LEMMA RefinesProcess == TypeOK /\ Process => [TQ!Next]_(TQ!vars)
<1> SUFFICES ASSUME TypeOK, Process PROVE [TQ!Next]_(TQ!vars)
  OBVIOUS
<1> USE DEF rows, history, TQ!vars
<1>1. CASE Boot \/ BootAborted
  <2>1. RecoverTasks
    BY <1>1 DEF Boot, BootAborted
  <2>2. status' = [t \in Tasks |-> IF t \in TQ!Running THEN "pending" ELSE status[t]]
    BY <2>1 DEF RecoverTasks, TQ!Running
  <2>3. TQ!Release(TQ!Running) /\ TQ!Running \in SUBSET Tasks
    BY <2>1, <2>2 DEF RecoverTasks, TQ!Release, TQ!Running
  <2> QED BY <2>3 DEF TQ!Next
<1>2. CASE HttpStopped \/ Exit \/ Crash
  BY <1>2 DEF HttpStopped, Exit, Crash, Vanish
<1> QED BY <1>1, <1>2 DEF Process

LEMMA RefinesStep ==
    TypeOK /\ Ownership /\ Verdicts /\ [Next]_vars => [TQ!Next]_(TQ!vars)
<1> SUFFICES ASSUME TypeOK, Ownership, Verdicts, [Next]_vars PROVE [TQ!Next]_(TQ!vars)
  OBVIOUS
<1>1. CASE UNCHANGED vars
  BY <1>1 DEF vars, rows, history, TQ!vars
<1> QED BY <1>1, RefinesOperator, RefinesScheduler, RefinesWorker, RefinesProcess DEF Next

\* The daemon implements TaskQueue: an outcome is recorded only for a running task and
\* only if earned, and once recorded never changes, whatever the interleaving of
\* scheduler, workers, shutdown, crash and recovery.
THEOREM DaemonImplementsTaskQueue == Spec => ImplementsTaskQueue
<1>1. Spec => TQ!Init /\ [][TQ!Next]_(TQ!vars)
  BY RefinesInit, RefinesStep, TypeCorrect, OwnershipInvariant, VerdictsInvariant, PTL DEF Spec
<1> QED BY <1>1 DEF ImplementsTaskQueue, TQ!Spec

----------------------------------------------------------------------------
(* What that promise is worth to a caller of the API.                      *)

LEMMA QueueType == TQ!Init => TQ!TypeOK /\ TQ!OutcomesEarned
BY SizesAssumption DEF TQ!Init, TQ!TypeOK, TQ!Statuses, TQ!OutcomesEarned, TQ!Earned

LEMMA QueueKeeps ==
    TQ!TypeOK /\ TQ!OutcomesEarned /\ [TQ!Next]_(TQ!vars) =>
        /\ TQ!TypeOK' /\ TQ!OutcomesEarned'
        /\ \A t \in Tasks : /\ status[t] # "absent" => status'[t] # "absent"
                            /\ status[t] \in {"done", "failed"} => status'[t] = status[t]
<1> SUFFICES ASSUME TQ!TypeOK, TQ!OutcomesEarned, [TQ!Next]_(TQ!vars)
             PROVE  /\ TQ!TypeOK' /\ TQ!OutcomesEarned'
                    /\ \A t \in Tasks :
                          /\ status[t] # "absent" => status'[t] # "absent"
                          /\ status[t] \in {"done", "failed"} => status'[t] = status[t]
  OBVIOUS
<1> USE SizesAssumption DEF TQ!TypeOK, TQ!OutcomesEarned, TQ!Earned, TQ!Statuses
<1>1. ASSUME NEW t \in Tasks, TQ!Accept(t) \/ TQ!Start(t) \/ TQ!Settle(t)
      PROVE  /\ TQ!TypeOK' /\ TQ!OutcomesEarned'
             /\ \A u \in Tasks : /\ status[u] # "absent" => status'[u] # "absent"
                                 /\ status[u] \in {"done", "failed"} => status'[u] = status[u]
  BY <1>1 DEF TQ!Accept, TQ!Start, TQ!Settle
<1>2. ASSUME NEW t \in Tasks, TQ!Transfer(t) PROVE TQ!TypeOK' /\ TQ!OutcomesEarned'
  BY <1>2 DEF TQ!Transfer
<1>3. ASSUME NEW t \in Tasks, TQ!Fault(t) PROVE TQ!TypeOK' /\ TQ!OutcomesEarned'
  BY <1>3 DEF TQ!Fault, TQ!AtMost
<1>4. ASSUME NEW S \in SUBSET Tasks, TQ!Release(S)
      PROVE  /\ TQ!TypeOK' /\ TQ!OutcomesEarned'
             /\ \A u \in Tasks : /\ status[u] # "absent" => status'[u] # "absent"
                                 /\ status[u] \in {"done", "failed"} => status'[u] = status[u]
  BY <1>4 DEF TQ!Release, TQ!Running
<1>5. CASE UNCHANGED TQ!vars
  BY <1>5 DEF TQ!vars
<1>6. ASSUME NEW t \in Tasks, TQ!Transfer(t) \/ TQ!Fault(t) PROVE UNCHANGED status
  BY <1>6 DEF TQ!Transfer, TQ!Fault
<1> QED BY <1>1, <1>2, <1>3, <1>4, <1>5, <1>6 DEF TQ!Next

LEMMA QueueSpecKeeps == TQ!Spec => [](TQ!TypeOK /\ TQ!OutcomesEarned)
<1>1. TQ!TypeOK /\ TQ!OutcomesEarned /\ [TQ!Next]_(TQ!vars)
        => (TQ!TypeOK /\ TQ!OutcomesEarned)'
  BY QueueKeeps
<1> QED BY <1>1, QueueType, PTL DEF TQ!Spec

\* A caller of GET /tasks/{id} who reads "done" has the file in the cloud or on the disk,
\* and one who reads "failed" has had every retry, whatever the daemon went through.
THEOREM ReportedOutcomesAreEarned == Spec => []TQ!OutcomesEarned
<1>1. Spec => TQ!Spec
  BY DaemonImplementsTaskQueue DEF ImplementsTaskQueue
<1> QED BY <1>1, QueueSpecKeeps, PTL

\* An accepted task is never lost, and an outcome a caller has read never changes: not
\* when the daemon crashes, recovers, retries or is started again.
THEOREM ReportedOutcomesAreFinal == Spec => TQ!OutcomesFinal
<1>1. Spec => TQ!Spec
  BY DaemonImplementsTaskQueue DEF ImplementsTaskQueue
<1>2. TQ!Spec => TQ!OutcomesFinal
  BY QueueSpecKeeps, QueueKeeps, PTL DEF TQ!Spec, TQ!OutcomesFinal
<1> QED BY <1>1, <1>2

=============================================================================
