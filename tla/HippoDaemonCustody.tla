------------------------ MODULE HippoDaemonCustody ------------------------
(***************************************************************************)
(* No task is transferred twice by one process, none is lost by a serving  *)
(* one, and none is overtaken.  A pause stops the dispatch, a task only    *)
(* moves forward, and a shutdown runs down.                                *)
(***************************************************************************)
EXTENDS HippoDaemonProofs

USE DEF Workers, ChanCap, CtxLive

----------------------------------------------------------------------------
(* Nothing transferred by this process is offered to a worker again: what  *)
(* was moved is running or done, hence never among the pending rows the    *)
(* scheduler picks from.                                                   *)

LEMMA MovedInit == Init => MovedSettled
BY EmptySeq DEF Init, MovedSettled, OncePerProcess, Busy

\* Steps that leave every moved task running or done, and hand no moved one over.
LEMMA MovedFrame ==
    ASSUME TypeOK, MovedSettled, moved' = moved,
           \A t \in moved : status'[t] = status[t],
           schedPc' = "pushing" => batch'[1].id \notin moved,
           \A i \in 1 .. Len(taskChan') : taskChan'[i].id \notin moved,
           \A w \in Workers : Busy(w)' => \/ Busy(w) /\ job'[w] = job[w] /\ wpc[w] # "completing"
                                          \/ wpc'[w] = wpc[w] /\ job'[w] = job[w]
                                          \/ job'[w].id \notin moved
    PROVE  MovedSettled'
<1>1. ASSUME NEW w \in Workers, Busy(w)', Held(w)' \in moved
      PROVE  wpc'[w] = "completing"
  <2>1. ~(job'[w].id \notin moved)
    BY <1>1 DEF Held
  <2>2. CASE Busy(w) /\ job'[w] = job[w] /\ wpc[w] # "completing"
    BY <1>1, <2>2 DEF MovedSettled, OncePerProcess, Held
  <2>3. CASE wpc'[w] = wpc[w] /\ job'[w] = job[w]
    BY <1>1, <2>3 DEF MovedSettled, OncePerProcess, Held, Busy
  <2> QED BY <1>1, <2>1, <2>2, <2>3
<1> QED BY <1>1 DEF MovedSettled, OncePerProcess

LEMMA MovedScheduler ==
    TypeOK /\ Ownership /\ MovedSettled /\ SchedulerStep => MovedSettled'
<1> SUFFICES ASSUME TypeOK, Ownership, MovedSettled, SchedulerStep PROVE MovedSettled'
  OBVIOUS
<1> USE DEF rows, pool, sched, history
<1>1. \A i \in 1 .. Len(taskChan) : taskChan[i].id \notin moved
  BY DEF MovedSettled, OncePerProcess
<1>2. UNCHANGED <<moved, wpc, job>>
  BY DEF SchedulerStep, CheckPaused, QueryPending, MarkRunning, Push, PushAborted
<1>3. CASE CheckPaused \/ QueryPending \/ PushAborted
  <2>1. schedPc' # "pushing" /\ UNCHANGED <<status, taskChan>>
    BY <1>3 DEF CheckPaused, QueryPending, PushAborted
  <2> QED BY <1>1, <1>2, <2>1, MovedFrame DEF Busy
<1>4. CASE MarkRunning
  <2> DEFINE t == batch[1].id
  <2>1. batch # <<>> /\ batch \in Seq(Snapshots) /\ schedPc = "marking"
    BY <1>4 DEF MarkRunning, TypeOK
  <2>2. Head(batch).id = t /\ t \in Tasks /\ status[t] = "pending" /\ Len(batch) >= 1
    BY <2>1, TailFacts, ElementFacts DEF Ownership, BatchFresh
  <2>3. t \notin moved
    BY <2>2 DEF MovedSettled
  <2>4. status' = [status EXCEPT ![t] = "running"] \/ status' = status
    BY <1>4, <2>2 DEF MarkRunning, SetStatus, UpdateLost
  <2>5. \A u \in moved : status'[u] = status[u]
    BY <2>2, <2>3, <2>4 DEF TypeOK
  <2>6. schedPc' = "pushing" => batch' = batch
    BY <1>4 DEF MarkRunning, NextInBatch
  <2>7. taskChan' = taskChan
    BY <1>4 DEF MarkRunning
  <2> QED BY <1>1, <1>2, <2>3, <2>5, <2>6, <2>7, MovedFrame DEF Busy
<1>5. CASE Push
  <2>1. batch # <<>> /\ batch \in Seq(Snapshots) /\ schedPc = "pushing"
    BY <1>5 DEF Push, TypeOK
  <2>2. Head(batch) = batch[1] /\ batch[1] \in Snapshots /\ batch[1].id \notin moved
    BY <2>1, TailFacts DEF MovedSettled
  <2>3. \A i \in 1 .. Len(taskChan') : taskChan'[i].id \notin moved
    BY <1>1, <1>5, <2>2, AppendFacts DEF Push, TypeOK
  <2>4. schedPc' # "pushing" /\ status' = status
    BY <1>5 DEF Push, NextInBatch
  <2> QED BY <1>2, <2>3, <2>4, MovedFrame DEF Busy
<1> QED BY <1>3, <1>4, <1>5 DEF SchedulerStep

LEMMA MovedWorker ==
    ASSUME NEW w \in Workers
    PROVE  TypeOK /\ Ownership /\ MovedSettled /\ WorkerStep(w) => MovedSettled'
<1> SUFFICES ASSUME TypeOK, Ownership, MovedSettled, WorkerStep(w) PROVE MovedSettled'
  OBVIOUS
<1> USE DEF rows, pool, sched, history
<1> DEFINE t == Held(w)
<1>1. /\ \A i \in 1 .. Len(taskChan) : taskChan[i].id \notin moved
      /\ schedPc = "pushing" => batch[1].id \notin moved
  BY DEF MovedSettled, OncePerProcess
<1>2. UNCHANGED <<schedPc, batch>>
  BY DEF WorkerStep, Receive, WorkerExit, LimiterGrant, LimiterRejects, TransferSucceeds,
         TransferFails, FailedCall, BackoffElapsed, BackoffCancelled, CompleteTask, FailTask,
         RequeueTask, Record
<1>3. Busy(w) => t \in Tasks /\ status[t] = "running"
  BY HeldFacts DEF Ownership, SnapshotFresh
<1>4. CASE Receive(w)
  <2>1. taskChan # <<>> /\ taskChan \in Seq(Snapshots)
    BY <1>4 DEF Receive, TypeOK
  <2>2. /\ Head(taskChan).id \notin moved
        /\ \A i \in 1 .. Len(taskChan') : taskChan'[i].id \notin moved
    BY <1>1, <1>4, <2>1, TailFacts DEF Receive
  <2>3. \A v \in Workers : (wpc'[v] = wpc[v] /\ job'[v] = job[v]) \/ job'[v] = Head(taskChan)
    BY <1>4 DEF Receive, TypeOK
  <2>4. UNCHANGED <<moved, status>>
    BY <1>4 DEF Receive
  <2> QED BY <1>1, <1>2, <2>2, <2>3, <2>4, MovedFrame
<1>5. CASE WorkerExit(w) \/ LimiterGrant(w) \/ LimiterRejects(w) \/ TransferFails(w)
           \/ BackoffElapsed(w)
  <2>1. UNCHANGED <<moved, status, taskChan>>
    BY <1>5 DEF WorkerExit, LimiterGrant, LimiterRejects, TransferFails, FailedCall,
                BackoffElapsed
  <2>2. \A v \in Workers : Busy(v)' => \/ Busy(v) /\ job'[v] = job[v] /\ wpc[v] # "completing"
                                       \/ wpc'[v] = wpc[v] /\ job'[v] = job[v]
    BY <1>5 DEF WorkerExit, LimiterGrant, LimiterRejects, TransferFails, FailedCall,
                BackoffElapsed, Goto, Finish, TypeOK, Busy
  <2> QED BY <1>1, <1>2, <2>1, <2>2, MovedFrame
<1>6. CASE TransferSucceeds(w)
  <2>1. Busy(w) /\ moved' = moved \cup {t} /\ UNCHANGED <<status, taskChan, job>>
    BY <1>6 DEF TransferSucceeds, Goto, Busy
  <2>2. wpc' = [wpc EXCEPT ![w] = "completing"]
    BY <1>6 DEF TransferSucceeds, Goto
  <2>3. \A v \in Workers : Busy(v)' /\ Held(v)' \in moved' => wpc'[v] = "completing"
    <3> SUFFICES ASSUME NEW v \in Workers, Busy(v)', Held(v)' \in moved', v # w
                 PROVE  wpc'[v] = "completing"
      BY <2>2 DEF TypeOK
    <3>1. Busy(v) /\ wpc'[v] = wpc[v] /\ Held(v) \in moved'
      BY <2>1, <2>2 DEF TypeOK, Busy, Held
    <3>2. Held(v) # t
      BY <2>1, <3>1 DEF Ownership, SingleOwner
    <3> QED BY <2>1, <3>1, <3>2 DEF MovedSettled, OncePerProcess
  <2>4. \A i \in 1 .. Len(taskChan) : taskChan[i].id \notin moved'
    BY <1>1, <2>1 DEF Ownership, SingleOwner
  <2>5. schedPc = "pushing" => batch[1].id \notin moved'
    BY <1>1, <2>1 DEF Ownership, SingleOwner
  <2>6. \A u \in moved' : status[u] \in {"running", "done"}
    BY <1>3, <2>1 DEF MovedSettled
  <2> QED BY <1>2, <2>1, <2>3, <2>4, <2>5, <2>6 DEF MovedSettled, OncePerProcess
<1>7. CASE BackoffCancelled(w) \/ FailTask(w) \/ RequeueTask(w)
  <2>1. Busy(w) /\ t \notin moved /\ Finish(w) /\ UNCHANGED <<moved, taskChan>>
    BY <1>7 DEF BackoffCancelled, FailTask, RequeueTask, Record, Busy, MovedSettled,
                OncePerProcess
  <2>2. \/ status' = status
        \/ \E s \in {"pending", "failed"} : status' = [status EXCEPT ![t] = s]
    BY <1>7 DEF BackoffCancelled, FailTask, RequeueTask, Record, SetStatus, UpdateLost
  <2>3. \A u \in moved : status'[u] = status[u]
    BY <2>1, <2>2 DEF TypeOK
  <2>4. \A v \in Workers : Busy(v)' => wpc'[v] = wpc[v] /\ job'[v] = job[v]
    BY <2>1 DEF Finish, TypeOK, Busy
  <2> QED BY <1>1, <1>2, <2>1, <2>3, <2>4, MovedFrame
<1>8. CASE CompleteTask(w)
  <2>1. Busy(w) /\ Finish(w) /\ UNCHANGED <<moved, taskChan>>
    BY <1>8 DEF CompleteTask, Record, Busy
  <2>2. status' = status \/ status' = [status EXCEPT ![t] = "done"]
    BY <1>8 DEF CompleteTask, Record, SetStatus, UpdateLost
  <2>3. \A u \in moved : status'[u] \in {"running", "done"}
    BY <1>3, <2>1, <2>2 DEF MovedSettled, TypeOK
  <2>4. \A v \in Workers : Busy(v)' => Busy(v) /\ wpc'[v] = wpc[v] /\ Held(v)' = Held(v)
    BY <2>1 DEF Finish, TypeOK, Busy, Held
  <2> QED BY <1>2, <2>1, <2>3, <2>4 DEF MovedSettled, OncePerProcess
<1> QED BY <1>4, <1>5, <1>6, <1>7, <1>8 DEF WorkerStep

LEMMA MovedStep == TypeOK /\ Ownership /\ MovedSettled /\ [Next]_vars => MovedSettled'
<1> SUFFICES ASSUME TypeOK, Ownership, MovedSettled, [Next]_vars PROVE MovedSettled'
  OBVIOUS
<1> USE DEF rows, pool, sched, history
<1>1. CASE Boot \/ BootAborted
  <2>1. moved' = {} /\ taskChan' = <<>> /\ schedPc' = "idle"
    BY <1>1 DEF Boot, BootAborted, RecoverTasks, TypeOK
  <2> QED BY <2>1 DEF MovedSettled, OncePerProcess
<1>2. CASE Vanish
  BY <1>2 DEF Vanish, MovedSettled, OncePerProcess
<1>3. CASE HttpStopped \/ Pause \/ Resume \/ Signal \/ UNCHANGED vars
  BY <1>3 DEF HttpStopped, Pause, Resume, SetPaused, Signal, vars, MovedSettled,
              OncePerProcess, Busy, Held
<1>4. ASSUME NEW t \in Tasks, CreateTask(t) PROVE MovedSettled'
  <2>1. \A u \in moved : status'[u] = status[u]
    BY <1>4 DEF CreateTask, MovedSettled, TypeOK
  <2> QED BY <1>4, <2>1 DEF CreateTask, MovedSettled, OncePerProcess, Busy, Held
<1> QED BY <1>1, <1>2, <1>3, <1>4, MovedScheduler, MovedWorker
        DEF Next, Operator, Process, Exit, Crash

LEMMA MovedInvariant == Spec => []MovedSettled
BY MovedInit, MovedStep, TypeCorrect, OwnershipInvariant, PTL DEF Spec

\* One process transfers a task at most once, even when the database refuses to record
\* the outcome.
THEOREM TransferredOncePerProcess == Spec => []OncePerProcess
BY MovedInvariant, PTL DEF MovedSettled

----------------------------------------------------------------------------
(* While the daemon serves, a running task is owned or its UPDATE failed.  *)

Accounted == \A t \in Tasks : status[t] = "running" => t \in Owned \cup lostWrites

\* The three places a task can be in.
OwnedBy(t) == \/ \E i \in 1 .. Len(taskChan) : taskChan[i].id = t
              \/ \E w \in Workers : Busy(w) /\ Held(w) = t
              \/ schedPc = "pushing" /\ batch # <<>> /\ batch[1].id = t

LEMMA OwnedPlaces == ASSUME TypeOK, NEW t PROVE t \in Owned <=> OwnedBy(t)
<1>1. t \in InChannel <=> \E i \in 1 .. Len(taskChan) : taskChan[i].id = t
  BY DEF InChannel
<1>2. t \in InHands <=> \E w \in Workers : Busy(w) /\ Held(w) = t
  BY DEF InHands
<1>3. batch # <<>> <=> 1 \in 1 .. Len(batch)
  BY TailFacts, EmptySeq DEF TypeOK
<1>4. t \in AtPush <=> schedPc = "pushing" /\ batch # <<>> /\ batch[1].id = t
  BY <1>3 DEF AtPush
<1> QED BY <1>1, <1>2, <1>4 DEF Owned, OwnedBy

LEMMA OwnedPlacesNext == ASSUME TypeOK', NEW t \in Tasks PROVE t \in Owned' <=> OwnedBy(t)'
<1>1. t \in InChannel' <=> \E i \in 1 .. Len(taskChan') : taskChan'[i].id = t
  BY DEF InChannel
<1>2. t \in InHands' <=> \E w \in Workers : Busy(w)' /\ Held(w)' = t
  BY DEF InHands
<1>3. batch' # <<>> <=> 1 \in 1 .. Len(batch')
  BY TailFacts, EmptySeq DEF TypeOK
<1>4. t \in AtPush' <=> schedPc' = "pushing" /\ batch' # <<>> /\ batch'[1].id = t
  BY <1>3 DEF AtPush
<1> QED BY <1>1, <1>2, <1>4 DEF Owned, OwnedBy

\* It suffices to follow one running task from owner to owner.
LEMMA AccountedStep ==
    ASSUME TypeOK, TypeOK', Accounted,
           ASSUME NEW t \in Tasks, status'[t] = "running",
                  status[t] = "running" => OwnedBy(t) \/ t \in lostWrites
           PROVE  OwnedBy(t)' \/ t \in lostWrites'
    PROVE  Accounted'
<1> SUFFICES ASSUME NEW t \in Tasks, status'[t] = "running"
             PROVE  t \in Owned' \cup lostWrites'
  BY DEF Accounted
<1>1. status[t] = "running" => OwnedBy(t) \/ t \in lostWrites
  BY OwnedPlaces DEF Accounted
<1>2. OwnedBy(t)' \/ t \in lostWrites'
  BY <1>1
<1> QED BY <1>2, OwnedPlacesNext

LEMMA AccountedScheduler ==
    TypeOK /\ TypeOK' /\ Accounted /\ SchedulerStep /\ main = "serving" => Accounted'
<1> SUFFICES ASSUME TypeOK, TypeOK', Accounted, SchedulerStep, main = "serving"
             PROVE  Accounted'
  OBVIOUS
<1> SUFFICES ASSUME NEW t \in Tasks, status'[t] = "running",
                    status[t] = "running" => OwnedBy(t) \/ t \in lostWrites
             PROVE  OwnedBy(t)' \/ t \in lostWrites'
  BY AccountedStep
<1> USE DEF rows, pool, sched, history
<1>1. CASE CheckPaused \/ QueryPending \/ PushAborted
  BY <1>1 DEF CheckPaused, QueryPending, PushAborted, OwnedBy, Busy, Held
<1>2. CASE MarkRunning
  <2> DEFINE h == Head(batch).id
  <2>1. batch # <<>> /\ batch \in Seq(Snapshots) /\ schedPc = "marking"
    BY <1>2 DEF MarkRunning, TypeOK
  <2>2. h = batch[1].id /\ h \in Tasks
    BY <2>1, TailFacts, ElementFacts
  <2>3. UNCHANGED <<taskChan, wpc, job>>
    BY <1>2 DEF MarkRunning
  <2>4. CASE /\ SetStatus(h, "running") \/ UNCHANGED <<status, lostWrites>>
             /\ schedPc' = "pushing" /\ batch' = batch
    <3>1. t = h => OwnedBy(t)'
      BY <2>1, <2>2, <2>4 DEF OwnedBy
    <3>2. t # h => (status[t] = "running" /\ (t \in lostWrites => t \in lostWrites'))
      BY <2>2, <2>4 DEF SetStatus, TypeOK
    <3>3. OwnedBy(t) => OwnedBy(t)'
      BY <2>1, <2>3 DEF OwnedBy, Busy, Held
    <3> QED BY <3>1, <3>2, <3>3
  <2>5. CASE UpdateLost(h, CtxLive)
    BY <2>1, <2>3, <2>5 DEF UpdateLost, OwnedBy, Busy, Held
  <2> QED BY <1>2, <2>4, <2>5 DEF MarkRunning
<1>3. CASE Push
  <2>1. batch # <<>> /\ batch \in Seq(Snapshots) /\ taskChan \in Seq(Snapshots)
    BY <1>3 DEF Push, TypeOK
  <2>2. /\ Head(batch) = batch[1] /\ Len(taskChan) + 1 \in 1 .. Len(taskChan')
        /\ \A i \in 1 .. Len(taskChan) : i \in 1 .. Len(taskChan') /\ taskChan'[i] = taskChan[i]
        /\ taskChan'[Len(taskChan) + 1] = batch[1]
    BY <1>3, <2>1, TailFacts, AppendFacts DEF Push
  <2>3. UNCHANGED <<status, lostWrites, wpc, job>>
    BY <1>3 DEF Push
  <2> QED BY <2>2, <2>3 DEF OwnedBy, Busy, Held
<1> QED BY <1>1, <1>2, <1>3 DEF SchedulerStep

LEMMA AccountedWorker ==
    ASSUME NEW w \in Workers
    PROVE  /\ TypeOK /\ TypeOK' /\ Accounted /\ WorkerStep(w)
           /\ main = "serving" /\ RateLimit > 0
           => Accounted'
<1> SUFFICES ASSUME TypeOK, TypeOK', Accounted, WorkerStep(w), main = "serving", RateLimit > 0
             PROVE  Accounted'
  OBVIOUS
<1> SUFFICES ASSUME NEW t \in Tasks, status'[t] = "running",
                    status[t] = "running" => OwnedBy(t) \/ t \in lostWrites
             PROVE  OwnedBy(t)' \/ t \in lostWrites'
  BY AccountedStep
<1> USE DEF rows, pool, sched, history
<1>1. CASE Receive(w)
  <2>1. taskChan # <<>> /\ taskChan \in Seq(Snapshots) /\ ~Busy(w)
    BY <1>1 DEF Receive, TypeOK, Busy
  <2>2. /\ Head(taskChan) = taskChan[1]
        /\ \A i \in 1 .. Len(taskChan) : i # 1 =>
              i - 1 \in 1 .. Len(taskChan') /\ taskChan'[i - 1] = taskChan[i]
    BY <1>1, <2>1, TailFacts DEF Receive
  <2>3. /\ Busy(w)' /\ Held(w)' = taskChan[1].id
        /\ \A v \in Workers : v # w => (Busy(v)' <=> Busy(v)) /\ Held(v)' = Held(v)
        /\ UNCHANGED <<status, lostWrites, schedPc, batch>>
    BY <1>1, <2>2 DEF Receive, TypeOK, Busy, Held
  <2>4. (\E i \in 1 .. Len(taskChan) : taskChan[i].id = t) => OwnedBy(t)'
    BY <2>2, <2>3 DEF OwnedBy
  <2>5. (\E v \in Workers : Busy(v) /\ Held(v) = t) => OwnedBy(t)'
    BY <2>1, <2>3 DEF OwnedBy
  <2> QED BY <2>3, <2>4, <2>5 DEF OwnedBy
<1>2. CASE WorkerExit(w) \/ LimiterRejects(w) \/ BackoffCancelled(w)
  BY <1>2, SizesAssumption DEF WorkerExit, LimiterRejects, BackoffCancelled
<1>3. CASE LimiterGrant(w) \/ TransferSucceeds(w) \/ TransferFails(w) \/ BackoffElapsed(w)
  <2>1. /\ \A v \in Workers : (Busy(v)' <=> Busy(v)) /\ Held(v)' = Held(v)
        /\ UNCHANGED <<status, lostWrites, taskChan, schedPc, batch>>
    BY <1>3 DEF LimiterGrant, TransferSucceeds, TransferFails, FailedCall, BackoffElapsed,
                Goto, TypeOK, Busy, Held
  <2> QED BY <2>1 DEF OwnedBy
<1>4. CASE CompleteTask(w) \/ FailTask(w) \/ RequeueTask(w)
  <2>1. Busy(w) /\ Finish(w) /\ UNCHANGED <<taskChan, schedPc, batch>>
    BY <1>4 DEF CompleteTask, FailTask, RequeueTask, Record, Busy
  <2>2. Held(w) \in Tasks
    BY <2>1, HeldFacts
  <2>3. \A v \in Workers : v # w => (Busy(v)' <=> Busy(v)) /\ Held(v)' = Held(v)
    BY <2>1 DEF Finish, TypeOK, Busy, Held
  <2>4. \/ /\ \E s \in {"done", "failed", "pending"} : status' = [status EXCEPT ![Held(w)] = s]
           /\ lostWrites' = lostWrites \ {Held(w)}
        \/ status' = status /\ lostWrites' = lostWrites \cup {Held(w)}
    BY <1>4 DEF CompleteTask, FailTask, RequeueTask, Record, SetStatus, UpdateLost
  <2>5. CASE t = Held(w)
    BY <2>2, <2>4, <2>5 DEF TypeOK
  <2>6. CASE t # Held(w)
    <3>1. status'[t] = status[t] /\ (t \in lostWrites => t \in lostWrites')
      BY <2>2, <2>4, <2>6 DEF TypeOK
    <3>2. OwnedBy(t) => OwnedBy(t)'
      BY <2>1, <2>3, <2>6 DEF OwnedBy
    <3> QED BY <3>1, <3>2
  <2> QED BY <2>5, <2>6
<1> QED BY <1>1, <1>2, <1>3, <1>4 DEF WorkerStep

LEMMA OrphansStep ==
    TypeOK /\ TypeOK' /\ OrphansAccounted /\ [Next]_vars => OrphansAccounted'
<1> SUFFICES ASSUME TypeOK, TypeOK', OrphansAccounted, [Next]_vars,
                    main' = "serving", RateLimit > 0
             PROVE  Accounted'
  BY DEF OrphansAccounted, Accounted
<1> USE DEF rows, pool, sched, history
<1>1. CASE Boot
  BY <1>1 DEF Boot, RecoverTasks, Accounted, TypeOK
<1>2. CASE BootAborted \/ HttpStopped \/ Signal \/ Vanish
  BY <1>2 DEF BootAborted, HttpStopped, Signal, Vanish
<1>3. CASE Pause \/ Resume \/ UNCHANGED vars
  BY <1>3 DEF Pause, Resume, SetPaused, vars, OrphansAccounted, Accounted, Owned,
              InChannel, InHands, AtPush, Busy, Held
<1>4. ASSUME NEW u \in Tasks, CreateTask(u) PROVE Accounted'
  <2>1. main = "serving" /\ \A t \in Tasks : status'[t] = "running" => status[t] = "running"
    BY <1>4 DEF CreateTask, TypeOK
  <2>2. Owned' = Owned /\ lostWrites' = lostWrites
    BY <1>4 DEF CreateTask, Owned, InChannel, InHands, AtPush, Busy, Held
  <2> QED BY <2>1, <2>2 DEF OrphansAccounted, Accounted
<1>5. CASE SchedulerStep
  <2>1. main = "serving"
    BY <1>5 DEF SchedulerStep, CheckPaused, QueryPending, MarkRunning, Push, PushAborted
  <2> QED BY <1>5, <2>1, AccountedScheduler DEF OrphansAccounted, Accounted
<1>6. ASSUME NEW w \in Workers, WorkerStep(w) PROVE Accounted'
  <2>1. main = "serving"
    BY <1>6 DEF WorkerStep, Receive, WorkerExit, LimiterGrant, LimiterRejects,
                TransferSucceeds, TransferFails, FailedCall, BackoffElapsed,
                BackoffCancelled, CompleteTask, FailTask, RequeueTask, Record
  <2> QED BY <1>6, <2>1, AccountedWorker DEF OrphansAccounted, Accounted
<1> QED BY <1>1, <1>2, <1>3, <1>4, <1>5, <1>6 DEF Next, Operator, Process, Exit, Crash

\* No interleaving of scheduler, channel and workers loses a task: while the daemon
\* serves, a row left 'running' with nobody at work is one the database refused to update.
THEOREM NoTaskLostWhileServing == Spec => []OrphansAccounted
<1>1. Init => OrphansAccounted
  BY DEF Init, OrphansAccounted
<1> QED BY <1>1, OrphansStep, TypeCorrect, PTL DEF Spec

----------------------------------------------------------------------------
(* The dispatch order.                                                     *)

LEMMA OrderInit == Init => InOrder
BY EmptySeq DEF Init, InOrder, NoOvertaking, RowsStarted, BatchInOrder

\* A step that starts nothing, forgets no refusal but of a started task, and leaves the
\* batch alone.
LEMMA OrderFrame ==
    ASSUME TypeOK, InOrder, UNCHANGED <<created, started>>,
           \A t \in Tasks : (status'[t] = "absent") <=> (status[t] = "absent"),
           \A t \in Tasks : status'[t] \in {"running", "done", "failed"} =>
                               status[t] \in {"running", "done", "failed"},
           \A t \in lostWrites : t \in lostWrites' \cup started,
           CtxLive' => (CtxLive /\ batch' = batch) \/ batch' = <<>>
    PROVE  InOrder'
<1>1. NoOvertaking'
  BY DEF InOrder, NoOvertaking
<1>2. RowsStarted'
  BY DEF InOrder, RowsStarted
<1>3. ASSUME CtxLive', NEW i \in 1 .. Len(batch'), NEW t \in Tasks,
             status'[t] # "absent", created'[t] < created'[batch'[i].id]
      PROVE  t \in started' \cup lostWrites' \/ \E j \in 1 .. i - 1 : batch'[j].id = t
  <2>1. batch' # <<>>
    BY <1>3, EmptySeq
  <2> QED BY <1>3, <2>1 DEF InOrder, BatchInOrder
<1> QED BY <1>1, <1>2, <1>3 DEF InOrder, BatchInOrder

LEMMA OrderOperator == TypeOK /\ Ownership /\ InOrder /\ Operator => InOrder'
<1> SUFFICES ASSUME TypeOK, Ownership, InOrder, Operator PROVE InOrder'
  OBVIOUS
<1> USE DEF rows, pool, sched, history
<1>1. CASE Pause \/ Resume \/ Signal
  BY <1>1, OrderFrame DEF Pause, Resume, SetPaused, Signal
<1>2. ASSUME NEW t \in Tasks, CreateTask(t) PROVE InOrder'
  <2>1. /\ \A u \in Tasks : u # t => status'[u] = status[u] /\ created'[u] = created[u]
        /\ \A u \in Tasks : created[u] <= created'[t]
        /\ \A u \in Tasks : created[u] \in Int /\ created'[u] \in Int
        /\ status[t] = "absent" /\ status'[t] = "pending"
        /\ UNCHANGED <<main, batch, started, lostWrites>>
    BY <1>2, BoundsAssumption DEF CreateTask, TypeOK
  <2>2. t \notin started
    BY <2>1 DEF InOrder, RowsStarted
  <2>3. NoOvertaking'
    <3> SUFFICES ASSUME NEW u \in Tasks, NEW v \in Tasks, status'[u] # "absent",
                        created'[u] < created'[v], v \in started
                 PROVE  u \in started \cup lostWrites
      BY <2>1 DEF NoOvertaking
    <3>1. v # t /\ u # t
      BY <2>1, <2>2
    <3> QED BY <2>1, <3>1 DEF InOrder, NoOvertaking
  <2>4. RowsStarted'
    BY <2>1 DEF InOrder, RowsStarted
  <2>5. ASSUME CtxLive', NEW i \in 1 .. Len(batch'), NEW u \in Tasks,
               status'[u] # "absent", created'[u] < created'[batch'[i].id]
        PROVE  u \in started' \cup lostWrites' \/ \E j \in 1 .. i - 1 : batch'[j].id = u
    <3>1. i \in 1 .. Len(batch) /\ batch[i].id \in Tasks /\ batch[i].id # t
      BY <2>1, ElementFacts DEF TypeOK, Ownership, BatchFresh
    <3>2. u # t
      BY <2>1, <2>5, <3>1
    <3> QED BY <2>1, <2>5, <3>1, <3>2 DEF InOrder, BatchInOrder
  <2>6. BatchInOrder'
    BY <2>5 DEF BatchInOrder
  <2> QED BY <2>3, <2>4, <2>6 DEF InOrder
<1> QED BY <1>1, <1>2 DEF Operator

\* SELECT ... ORDER BY created_at: an older task that waits is read first.
LEMMA OrderQuery == TypeOK /\ Ownership /\ InOrder /\ QueryPending => InOrder'
<1> SUFFICES ASSUME TypeOK, Ownership, InOrder, QueryPending PROVE InOrder'
  OBVIOUS
<1> USE DEF rows, pool, sched, history
<1>1. PICK n \in 0 .. BatchLimit : batch' \in OldestPending(n)
  BY DEF QueryPending
<1>2. n \in Nat
  BY BatchLimitFacts
<1>3. batch' \in Seq(Snapshots) /\ Len(batch') = n
  BY <1>1, <1>2, BatchFacts
<1>4. UNCHANGED <<status, created, started, lostWrites, main>>
  BY DEF QueryPending
<1>5. ASSUME NEW i \in 1 .. Len(batch'), NEW t \in Tasks,
             status[t] # "absent", created[t] < created[batch'[i].id], t \notin started
      PROVE  \E j \in 1 .. i - 1 : batch'[j].id = t
  <2>1. t \in Pending
    BY <1>5 DEF InOrder, RowsStarted, Pending, TypeOK, TQ!Statuses
  <2>2. batch'[i].id \in Tasks
    BY <1>3, ElementFacts
  <2>3. created[t] \in Int /\ created[batch'[i].id] \in Int
    BY <2>2, BoundsAssumption DEF TypeOK
  <2>4. PICK j \in 1 .. n : batch'[j].id = t
    BY <1>1, <1>3, <1>5, <2>1, <2>3 DEF OldestPending
  <2>5. i < j => created[batch'[i].id] <= created[batch'[j].id]
    BY <1>1, <1>3 DEF OldestPending
  <2>6. i # j /\ ~(i < j)
    BY <1>5, <2>3, <2>4, <2>5
  <2> QED BY <1>2, <1>3, <2>4, <2>6
<1>6. BatchInOrder'
  BY <1>4, <1>5 DEF BatchInOrder
<1> QED BY <1>4, <1>6 DEF InOrder, NoOvertaking, RowsStarted

\* The head of the batch goes: what it stood for is started or was refused.
LEMMA OrderNextInBatch ==
    ASSUME TypeOK, InOrder, CtxLive, batch # <<>>, batch' = Tail(batch),
           UNCHANGED <<status, created, started>>, lostWrites \subseteq lostWrites',
           batch[1].id \in started \cup lostWrites'
    PROVE  InOrder'
<1>1. batch \in Seq(Snapshots)
  BY DEF TypeOK
<1>2. ASSUME NEW i \in 1 .. Len(batch'), NEW t \in Tasks,
             status[t] # "absent", created[t] < created[batch'[i].id],
             t \notin started \cup lostWrites'
      PROVE  \E j \in 1 .. i - 1 : batch'[j].id = t
  <2> DEFINE m == i + 1
  <2>1. batch'[i] = batch[m] /\ m \in 1 .. Len(batch) /\ m - 1 = i
    BY <1>1, TailFacts
  <2> HIDE DEF m
  <2>2. PICK j \in 1 .. m - 1 : batch[j].id = t
    BY <1>2, <2>1 DEF InOrder, BatchInOrder
  <2>3. j # 1
    BY <1>2, <2>2
  <2> DEFINE k == j - 1
  <2>4. k \in 1 .. Len(Tail(batch)) /\ k \in 1 .. i - 1 /\ k + 1 = j
    BY <1>1, <2>1, <2>2, <2>3, TailFacts
  <2> HIDE DEF k
  <2>5. batch'[k] = batch[k + 1]
    BY <1>1, <2>4, TailFacts
  <2>6. batch'[k].id = t
    BY <2>2, <2>4, <2>5
  <2> QED BY <2>4, <2>6
<1>3. NoOvertaking'
  BY DEF InOrder, NoOvertaking
<1>4. BatchInOrder'
  BY <1>2 DEF BatchInOrder
<1> QED BY <1>3, <1>4 DEF InOrder, RowsStarted

LEMMA OrderMark == TypeOK /\ Ownership /\ InOrder /\ MarkRunning => InOrder'
<1> SUFFICES ASSUME TypeOK, Ownership, InOrder, MarkRunning PROVE InOrder'
  OBVIOUS
<1> USE DEF rows, pool, sched, history
<1> DEFINE h == batch[1].id
<1>1. batch # <<>> /\ batch \in Seq(Snapshots) /\ schedPc = "marking"
  BY DEF MarkRunning, TypeOK
<1>2. /\ Head(batch).id = h /\ h \in Tasks /\ status[h] = "pending"
      /\ 1 \in 1 .. Len(batch)
  BY <1>1, TailFacts, ElementFacts DEF Ownership, BatchFresh
<1>3. UNCHANGED <<created, main>>
  BY DEF MarkRunning
<1>4. CASE /\ CtxLive /\ SetStatus(h, "running") /\ started' = started \cup {h}
           /\ batch' = batch
  <2>1. /\ status'[h] = "running" /\ \A t \in Tasks : t # h => status'[t] = status[t]
        /\ lostWrites' = lostWrites \ {h}
    BY <1>2, <1>4 DEF SetStatus, TypeOK
  <2>2. ASSUME NEW t \in Tasks, status'[t] # "absent", created[t] < created[h]
        PROVE  t \in started \cup lostWrites
    <3>1. status[t] # "absent"
      BY <1>2, <2>1, <2>2
    <3>2. t \in started \cup lostWrites \/ \E j \in 1 .. 1 - 1 : batch[j].id = t
      BY <1>2, <1>4, <2>2, <3>1 DEF InOrder, BatchInOrder
    <3> QED BY <3>2
  <2>3. NoOvertaking'
    <3> SUFFICES ASSUME NEW t \in Tasks, NEW u \in Tasks, status'[t] # "absent",
                        created[t] < created[u], u \in started \cup {h}
                 PROVE  t \in started' \cup lostWrites'
      BY <1>3, <1>4 DEF NoOvertaking
    <3>1. t \in started \cup lostWrites
      <4>1. CASE u = h
        BY <2>2, <4>1
      <4>2. CASE u \in started
        BY <1>2, <2>1, <4>2 DEF InOrder, NoOvertaking
      <4> QED BY <4>1, <4>2
    <3> QED BY <1>4, <2>1, <3>1
  <2>4. RowsStarted'
    BY <1>4, <2>1 DEF InOrder, RowsStarted
  <2>5. ASSUME NEW i \in 1 .. Len(batch), NEW t \in Tasks,
               status'[t] # "absent", created[t] < created[batch[i].id]
        PROVE  t \in started' \cup lostWrites' \/ \E j \in 1 .. i - 1 : batch[j].id = t
    <3>1. status[t] # "absent"
      BY <1>2, <2>1, <2>5
    <3>2. t \in started \cup lostWrites \/ \E j \in 1 .. i - 1 : batch[j].id = t
      BY <1>4, <2>5, <3>1 DEF InOrder, BatchInOrder
    <3> QED BY <1>4, <2>1, <3>2
  <2>6. BatchInOrder'
    BY <1>3, <1>4, <2>5 DEF BatchInOrder
  <2> QED BY <2>3, <2>4, <2>6 DEF InOrder
<1>5. CASE UpdateLost(h, CtxLive) /\ NextInBatch /\ started' = started
  <2>1. CASE CtxLive
    BY <1>1, <1>3, <1>5, <2>1, OrderNextInBatch DEF UpdateLost, NextInBatch
  <2>2. CASE ~CtxLive
    BY <1>3, <1>5, <2>2, OrderFrame DEF UpdateLost
  <2> QED BY <2>1, <2>2
<1> QED BY <1>2, <1>4, <1>5 DEF MarkRunning

LEMMA OrderScheduler == TypeOK /\ Ownership /\ InOrder /\ SchedulerStep => InOrder'
<1> SUFFICES ASSUME TypeOK, Ownership, InOrder, SchedulerStep PROVE InOrder'
  OBVIOUS
<1> USE DEF rows, pool, sched, history
<1>1. CASE CheckPaused \/ PushAborted
  BY <1>1, OrderFrame DEF CheckPaused, PushAborted
<1>2. CASE Push
  <2>1. batch # <<>> /\ batch \in Seq(Snapshots) /\ schedPc = "pushing"
    BY <1>2 DEF Push, TypeOK
  <2>2. batch[1].id \in Tasks /\ status[batch[1].id] = "running"
    BY <2>1, TailFacts, ElementFacts DEF Ownership, BatchFresh
  <2>3. batch[1].id \in started
    BY <2>2 DEF InOrder, RowsStarted
  <2>4. UNCHANGED <<status, created, started, lostWrites, main>> /\ batch' = Tail(batch)
    BY <1>2 DEF Push, NextInBatch
  <2>5. CASE CtxLive
    BY <2>1, <2>3, <2>4, <2>5, OrderNextInBatch
  <2>6. CASE ~CtxLive
    BY <2>4, <2>6, OrderFrame
  <2> QED BY <2>5, <2>6
<1> QED BY <1>1, <1>2, OrderQuery, OrderMark DEF SchedulerStep

LEMMA OrderWorker ==
    ASSUME NEW w \in Workers
    PROVE  TypeOK /\ Ownership /\ InOrder /\ WorkerStep(w) => InOrder'
<1> SUFFICES ASSUME TypeOK, Ownership, InOrder, WorkerStep(w) PROVE InOrder'
  OBVIOUS
<1> USE DEF rows, pool, sched, history
<1>1. UNCHANGED <<created, started, main, batch>>
  BY DEF WorkerStep, Receive, WorkerExit, LimiterGrant, LimiterRejects, TransferSucceeds,
         TransferFails, FailedCall, BackoffElapsed, BackoffCancelled, CompleteTask, FailTask,
         RequeueTask, Record
<1>2. CASE Receive(w) \/ WorkerExit(w) \/ LimiterGrant(w) \/ LimiterRejects(w)
           \/ TransferSucceeds(w) \/ TransferFails(w) \/ BackoffElapsed(w)
  <2>1. UNCHANGED <<status, lostWrites>>
    BY <1>2 DEF Receive, WorkerExit, LimiterGrant, LimiterRejects, TransferSucceeds,
                TransferFails, FailedCall, BackoffElapsed
  <2> QED BY <1>1, <2>1, OrderFrame
<1>3. CASE BackoffCancelled(w) \/ CompleteTask(w) \/ FailTask(w) \/ RequeueTask(w)
  <2>1. Busy(w)
    BY <1>3 DEF BackoffCancelled, CompleteTask, FailTask, RequeueTask, Record, Busy
  <2>2. Held(w) \in Tasks /\ status[Held(w)] = "running" /\ Held(w) \in started
    BY <2>1, HeldFacts DEF Ownership, SnapshotFresh, InOrder, RowsStarted
  <2>3. \/ /\ \E s \in {"pending", "done", "failed"} : status' = [status EXCEPT ![Held(w)] = s]
           /\ lostWrites' = lostWrites \ {Held(w)}
        \/ status' = status /\ lostWrites \subseteq lostWrites'
    BY <1>3 DEF BackoffCancelled, CompleteTask, FailTask, RequeueTask, Record, SetStatus,
                UpdateLost
  <2>4. \A t \in Tasks : t # Held(w) => status'[t] = status[t]
    BY <2>3 DEF TypeOK
  <2>5. status'[Held(w)] # "absent"
    BY <2>2, <2>3 DEF TypeOK
  <2>6. \A t \in lostWrites : t \in lostWrites' \cup started
    BY <2>2, <2>3
  <2> QED BY <1>1, <2>2, <2>4, <2>5, <2>6, OrderFrame
<1> QED BY <1>2, <1>3 DEF WorkerStep

LEMMA OrderProcess == TypeOK /\ InOrder /\ Process => InOrder'
<1> SUFFICES ASSUME TypeOK, InOrder, Process PROVE InOrder'
  OBVIOUS
<1> USE DEF rows, pool, sched, history
<1>1. CASE Boot \/ BootAborted
  <2>1. batch' = <<>> /\ UNCHANGED <<created, started>>
    BY <1>1 DEF Boot, BootAborted, RecoverTasks, TypeOK
  <2>2. \A t \in Tasks : status'[t] = IF status[t] = "running" THEN "pending" ELSE status[t]
    BY <1>1 DEF Boot, BootAborted, RecoverTasks
  <2>3. \A t \in lostWrites : t \in lostWrites' \cup started
    BY <1>1 DEF Boot, BootAborted, RecoverTasks, TQ!Running, InOrder, RowsStarted, TypeOK
  <2> QED BY <2>1, <2>2, <2>3, OrderFrame
<1>2. CASE HttpStopped \/ Vanish
  BY <1>2, OrderFrame DEF HttpStopped, Vanish
<1> QED BY <1>1, <1>2 DEF Process, Exit, Crash

LEMMA OrderStep == TypeOK /\ Ownership /\ InOrder /\ [Next]_vars => InOrder'
<1> SUFFICES ASSUME TypeOK, Ownership, InOrder, [Next]_vars PROVE InOrder'
  OBVIOUS
<1>1. CASE UNCHANGED vars
  BY <1>1, OrderFrame DEF vars, rows, pool, sched, history
<1> QED BY <1>1, OrderOperator, OrderScheduler, OrderWorker, OrderProcess DEF Next

LEMMA OrderInvariant == Spec => []InOrder
BY OrderInit, OrderStep, TypeCorrect, OwnershipInvariant, PTL DEF Spec

\* A task is not started before one created in an earlier second, unless the database
\* refused to mark the older one: ORDER BY created_at survives reads cut short, retries,
\* recoveries and everything the workers do meanwhile.
THEOREM NoTaskOvertaken == Spec => []NoOvertaking
BY OrderInvariant, PTL DEF InOrder

\* The invariant the daemon's safety rests on, as the model checker evaluates it.
THEOREM DaemonInvariant == Spec => []IInv
BY TypeCorrect, OwnershipInvariant, VerdictsInvariant, MovedInvariant,
   NoTaskLostWhileServing, OrderInvariant, PTL DEF IInv

----------------------------------------------------------------------------
(* How the work left goes down: what a pause and a signal let go on.       *)

LEMMA BatchLimitBound == BatchLimit \in 0 .. ChanCap
<1>1. IsFiniteSet(Pending) /\ Cardinality(Pending) \in Nat
  BY TasksAssumption, FS_Subset, FS_CardinalityType DEF Pending
<1> QED BY <1>1, SizesAssumption DEF BatchLimit

LEMMA BatchLength ==
    ASSUME TypeOK
    PROVE  /\ Len(batch) \in Nat /\ Len(taskChan) \in Nat
           /\ schedPc \in {"marking", "pushing"} => Len(batch) >= 1
<1>1. batch \in Seq(Snapshots) /\ taskChan \in Seq(Snapshots)
  BY DEF TypeOK
<1>2. batch # <<>> => Len(batch) >= 1
  BY <1>1, TailFacts
<1> QED BY <1>1, <1>2 DEF TypeOK

\* What the scheduler's steps do to its place in the batch.
LEMMA SchedulerMoves ==
    ASSUME TypeOK, SchedulerStep
    PROVE  \/ /\ schedPc = "idle" /\ schedPc' = "querying" /\ CtxLive /\ ~paused
              /\ UNCHANGED <<taskChan, status>>
           \/ /\ schedPc = "querying" /\ UNCHANGED <<taskChan, status>>
              /\ \E n \in 0 .. ChanCap : /\ Len(batch') = n
                                         /\ schedPc' = IF n = 0 THEN "idle" ELSE "marking"
           \/ /\ schedPc = "marking" /\ schedPc' = "pushing" /\ CtxLive
              /\ UNCHANGED <<taskChan, batch>>
              /\ \A t \in Tasks : t # Head(batch).id => status'[t] = status[t]
           \/ /\ schedPc = "marking" /\ UNCHANGED <<taskChan, status>>
              /\ Len(batch') = Len(batch) - 1
              /\ schedPc' = IF Len(batch) = 1 THEN "idle" ELSE "marking"
           \/ /\ schedPc = "pushing" /\ UNCHANGED status
              /\ Len(taskChan') = Len(taskChan) + 1
              /\ Len(batch') = Len(batch) - 1
              /\ schedPc' = IF Len(batch) = 1 THEN "idle" ELSE "marking"
           \/ /\ schedPc = "pushing" /\ schedPc' = "idle" /\ UNCHANGED <<taskChan, status>>
<1> USE DEF rows, pool, history
<1>1. CASE CheckPaused
  BY <1>1 DEF CheckPaused
<1>2. CASE QueryPending
  <2>1. PICK n \in 0 .. BatchLimit : /\ batch' \in OldestPending(n)
                                     /\ schedPc' = IF n = 0 THEN "idle" ELSE "marking"
    BY <1>2 DEF QueryPending
  <2>2. n \in 0 .. ChanCap /\ n \in Nat
    BY <2>1, BatchLimitBound, SizesAssumption
  <2>3. Len(batch') = n
    BY <2>1, <2>2, BatchFacts
  <2> QED BY <1>2, <2>1, <2>2, <2>3 DEF QueryPending
<1>3. ASSUME schedPc \in {"marking", "pushing"}
      PROVE  /\ NextInBatch => /\ Len(batch') = Len(batch) - 1
                               /\ schedPc' = IF Len(batch) = 1 THEN "idle" ELSE "marking"
             /\ Head(batch) \in Snapshots
  <2>1. batch \in Seq(Snapshots) /\ batch # <<>>
    BY <1>3 DEF TypeOK
  <2> QED BY <2>1, TailFacts DEF NextInBatch
<1>4. CASE MarkRunning
  <2>1. CASE schedPc' = "pushing"
    <3>1. CtxLive /\ batch' = batch
      BY <1>4, <1>3, <2>1 DEF MarkRunning, NextInBatch
    <3>2. \A t \in Tasks : t # Head(batch).id => status'[t] = status[t]
      BY <1>4 DEF MarkRunning, SetStatus, UpdateLost, TypeOK
    <3> QED BY <1>4, <2>1, <3>1, <3>2 DEF MarkRunning
  <2>2. CASE schedPc' # "pushing"
    BY <1>4, <1>3, <2>2 DEF MarkRunning, UpdateLost
  <2> QED BY <2>1, <2>2
<1>5. CASE Push
  <2>1. Len(taskChan') = Len(taskChan) + 1
    BY <1>5, <1>3, AppendFacts DEF Push, TypeOK
  <2> QED BY <1>5, <1>3, <2>1 DEF Push
<1>6. CASE PushAborted
  BY <1>6 DEF PushAborted
<1> QED BY <1>1, <1>2, <1>4, <1>5, <1>6 DEF SchedulerStep

\* A status column none of whose rows becomes 'running'.
StartsNone == \A t \in Tasks : status'[t] = "running" => status[t] = "running"

LEMMA NoneStarted == ASSUME StartsNone PROVE Cardinality(NewlyRunning) = 0
<1>1. NewlyRunning = {}
  BY DEF StartsNone, NewlyRunning
<1> QED BY <1>1, FS_EmptySet

\* Everything but the scheduler leaves the batch alone, while the process lives.
LEMMA OthersStartNone ==
    ASSUME TypeOK, Operator \/ (\E w \in Workers : WorkerStep(w)) \/ Process \/ UNCHANGED vars
    PROVE  StartsNone /\ (UNCHANGED sched \/ Vanish)
<1> USE DEF rows, pool, history, sched
<1>1. CASE Operator
  <2>1. CASE Pause \/ Resume \/ Signal
    BY <2>1 DEF Pause, Resume, SetPaused, Signal, StartsNone
  <2>2. ASSUME NEW t \in Tasks, CreateTask(t) PROVE StartsNone /\ UNCHANGED sched
    BY <2>2 DEF CreateTask, StartsNone, TypeOK
  <2> QED BY <1>1, <2>1, <2>2 DEF Operator
<1>2. ASSUME NEW w \in Workers, WorkerStep(w) PROVE StartsNone /\ UNCHANGED sched
  <2>1. CASE Receive(w) \/ WorkerExit(w) \/ LimiterGrant(w) \/ LimiterRejects(w)
             \/ TransferSucceeds(w) \/ TransferFails(w) \/ BackoffElapsed(w)
    BY <2>1 DEF Receive, WorkerExit, LimiterGrant, LimiterRejects, TransferSucceeds,
                TransferFails, FailedCall, BackoffElapsed, StartsNone
  <2>2. CASE BackoffCancelled(w) \/ CompleteTask(w) \/ FailTask(w) \/ RequeueTask(w)
    <3>1. \/ \E s \in {"pending", "done", "failed"} : status' = [status EXCEPT ![Held(w)] = s]
          \/ status' = status
      BY <2>2 DEF BackoffCancelled, CompleteTask, FailTask, RequeueTask, Record, SetStatus,
                  UpdateLost
    <3>2. StartsNone
      BY <3>1 DEF StartsNone, TypeOK
    <3> QED BY <2>2, <3>2 DEF BackoffCancelled, CompleteTask, FailTask, RequeueTask, Record
  <2> QED BY <1>2, <2>1, <2>2 DEF WorkerStep
<1>3. CASE Process
  <2>1. CASE Boot \/ BootAborted
    <3>1. StartsNone
      BY <2>1 DEF Boot, BootAborted, RecoverTasks, StartsNone
    <3> QED BY <2>1, <3>1 DEF Boot, BootAborted
  <2>2. CASE HttpStopped \/ Vanish
    BY <2>2 DEF HttpStopped, Vanish, StartsNone
  <2> QED BY <1>3, <2>1, <2>2 DEF Process, Exit, Crash
<1>4. CASE UNCHANGED vars
  BY <1>4 DEF vars, StartsNone
<1> QED BY <1>1, <1>2, <1>3, <1>4

LEMMA SingletonSubset ==
    ASSUME NEW e, NEW S \in SUBSET {e}
    PROVE  Cardinality(S) \in Nat /\ Cardinality(S) <= 1
<1>1. IsFiniteSet({e}) /\ Cardinality({e}) = 1
  BY FS_Singleton
<1> QED BY <1>1, FS_Subset, FS_CardinalityType

LEMMA PauseStep ==
    TypeOK /\ [Next]_vars /\ paused /\ paused' =>
        Cardinality(NewlyRunning) + Dispatchable' <= Dispatchable
<1> SUFFICES ASSUME TypeOK, [Next]_vars, paused, paused'
             PROVE  Cardinality(NewlyRunning) + Dispatchable' <= Dispatchable
  OBVIOUS
<1> USE BatchLength
<1>0. ChanCap \in Nat
  BY SizesAssumption
<1>1. CASE Operator \/ (\E w \in Workers : WorkerStep(w)) \/ Process \/ UNCHANGED vars
  <2>1. StartsNone /\ (UNCHANGED sched \/ Vanish)
    BY <1>1, OthersStartNone
  <2>2. ~Vanish
    BY DEF Vanish
  <2>3. Dispatchable \in Nat /\ Dispatchable' = Dispatchable
    BY <1>0, <2>1, <2>2 DEF Dispatchable, sched, TypeOK
  <2> QED BY <2>1, <2>3, NoneStarted
<1>2. CASE SchedulerStep
  <2>1. CASE schedPc = "marking" /\ schedPc' = "pushing" /\ batch' = batch
             /\ \A t \in Tasks : t # Head(batch).id => status'[t] = status[t]
    <3>1. NewlyRunning \subseteq {Head(batch).id}
      BY <2>1 DEF NewlyRunning
    <3>2. Cardinality(NewlyRunning) \in Nat /\ Cardinality(NewlyRunning) <= 1
      BY <3>1, SingletonSubset
    <3> QED BY <2>1, <3>2 DEF Dispatchable
  <2>2. CASE UNCHANGED status /\ ~(schedPc = "idle" /\ schedPc' = "querying")
    <3>1. Cardinality(NewlyRunning) = 0
      BY <2>2, NoneStarted DEF StartsNone
    <3>2. Dispatchable' <= Dispatchable /\ Dispatchable' \in Nat
      BY <1>0, <1>2, <2>2, SchedulerMoves DEF Dispatchable
    <3> QED BY <3>1, <3>2
  <2> QED BY <1>2, <2>1, <2>2, SchedulerMoves
<1> QED BY <1>1, <1>2 DEF Next

\* `POST /pause` lets the daemon start no more than a channel's worth of tasks, namely the
\* batch in hand and the query under way, at whatever point of a tick it comes, and until
\* it is resumed.
THEOREM PauseStopsTheDispatch == Spec => PauseDrains
BY PauseStep, TypeCorrect, PTL DEF Spec, PauseDrains

\* A verdict moves a running task on, or back at the price of a retry; nothing else but
\* the scheduler and the API changes the row of a task while the daemon serves.
LEMMA ForwardStep ==
    TypeOK /\ Ownership /\ [Next]_vars /\ CtxLive /\ CtxLive' =>
        \A t \in Tasks :
           \/ retryCount'[t] = retryCount[t] /\ Stage(t)' >= Stage(t)
           \/ /\ retryCount'[t] = retryCount[t] + 1
              /\ status[t] = "running" /\ status'[t] = "pending"
<1> SUFFICES ASSUME TypeOK, Ownership, [Next]_vars, CtxLive, CtxLive', NEW t \in Tasks
             PROVE  \/ retryCount'[t] = retryCount[t] /\ Stage(t)' >= Stage(t)
                    \/ /\ retryCount'[t] = retryCount[t] + 1
                       /\ status[t] = "running" /\ status'[t] = "pending"
  OBVIOUS
<1> USE DEF rows, pool, history
<1>0. CASE UNCHANGED <<status, retryCount>>
  BY <1>0 DEF Stage
<1>1. CASE Operator \/ UNCHANGED vars
  <2>1. ASSUME NEW u \in Tasks, CreateTask(u)
        PROVE  /\ UNCHANGED retryCount /\ status[u] = "absent"
               /\ status' = [status EXCEPT ![u] = "pending"]
    BY <2>1 DEF CreateTask
  <2>2. ASSUME NEW u \in Tasks, CreateTask(u)
        PROVE  retryCount'[t] = retryCount[t] /\ Stage(t)' >= Stage(t)
    BY <2>1, <2>2 DEF Stage, TypeOK
  <2> QED BY <1>0, <1>1, <2>2 DEF Operator, Pause, Resume, SetPaused, Signal, vars
<1>2. CASE SchedulerStep
  <2>1. CASE CheckPaused \/ QueryPending \/ Push \/ PushAborted
    BY <1>0, <2>1 DEF CheckPaused, QueryPending, Push, PushAborted
  <2>2. CASE MarkRunning
    <3> DEFINE h == Head(batch).id
    <3>1. UNCHANGED retryCount
      BY <2>2 DEF MarkRunning, UpdateLost
    <3>2. \/ status[h] = "pending" /\ status' = [status EXCEPT ![h] = "running"]
          \/ status' = status
      BY <2>2 DEF MarkRunning, SetStatus, UpdateLost
    <3> QED BY <3>1, <3>2 DEF Stage, TypeOK
  <2> QED BY <1>2, <2>1, <2>2 DEF SchedulerStep
<1>3. ASSUME NEW w \in Workers, WorkerStep(w)
      PROVE  \/ retryCount'[t] = retryCount[t] /\ Stage(t)' >= Stage(t)
             \/ /\ retryCount'[t] = retryCount[t] + 1
                /\ status[t] = "running" /\ status'[t] = "pending"
  <2>1. CASE CompleteTask(w) \/ FailTask(w) \/ RequeueTask(w)
    <3>1. Busy(w)
      BY <2>1 DEF CompleteTask, FailTask, RequeueTask, Record, Busy
    <3>2. Held(w) \in Tasks /\ status[Held(w)] = "running"
      BY <3>1, HeldFacts DEF Ownership, SnapshotFresh
    <3>3. \/ UNCHANGED <<status, retryCount>>
          \/ /\ \E s \in {"done", "failed"} : status' = [status EXCEPT ![Held(w)] = s]
             /\ UNCHANGED retryCount
          \/ /\ status' = [status EXCEPT ![Held(w)] = "pending"]
             /\ retryCount' = [retryCount EXCEPT ![Held(w)] = @ + 1]
      BY <2>1 DEF CompleteTask, FailTask, RequeueTask, Record, SetStatus, UpdateLost
    <3> QED BY <1>0, <3>2, <3>3 DEF Stage, TypeOK
  <2>2. CASE Receive(w) \/ WorkerExit(w) \/ LimiterGrant(w) \/ LimiterRejects(w)
             \/ TransferSucceeds(w) \/ TransferFails(w) \/ BackoffElapsed(w)
    BY <1>0, <2>2 DEF Receive, WorkerExit, LimiterGrant, LimiterRejects, TransferSucceeds,
                TransferFails, FailedCall, BackoffElapsed
  <2>3. ~BackoffCancelled(w)
    BY DEF BackoffCancelled
  <2> QED BY <1>3, <2>1, <2>2, <2>3 DEF WorkerStep
<1>4. CASE Process
  BY <1>0, <1>4 DEF Process, Boot, BootAborted, HttpStopped, Exit, Crash, Vanish
<1> QED BY <1>1, <1>2, <1>3, <1>4 DEF Next

\* While the daemon serves, a task comes back to the queue only by spending a retry, of
\* which RetriesArePaidFor leaves it MaxRetries: the bound behind EverySettles, though the
\* workers' UPDATEs look at no status.
THEOREM TasksMoveForward == Spec => ForwardOnly
BY ForwardStep, TypeCorrect, OwnershipInvariant, PTL DEF Spec, ForwardOnly

LEMMA InBatchType == TypeOK => InBatch \in Nat /\ Len(taskChan) \in Nat
<1> SUFFICES ASSUME TypeOK PROVE InBatch \in Nat /\ Len(taskChan) \in Nat
  OBVIOUS
<1>1. CASE schedPc = "querying"
  BY <1>1, BatchLength, SizesAssumption DEF InBatch
<1>2. CASE schedPc # "querying"
  <2>1. schedPc \in {"idle", "marking", "pushing"}
    BY <1>2 DEF TypeOK
  <2> QED BY <2>1, BatchLength DEF InBatch
<1> QED BY <1>1, <1>2

LEMMA InBatchNext == TypeOK' => (InBatch \in Nat /\ Len(taskChan) \in Nat)'
BY InBatchType, PTL

\* Two units are enough for the place in the channel a push takes.
LEMMA SchedulerRunsDown ==
    ASSUME TypeOK, SchedulerStep, ~CtxLive, TypeOK'
    PROVE  UNCHANGED pool /\ Backlog' < Backlog
<1>1. UNCHANGED pool
  BY DEF SchedulerStep, CheckPaused, QueryPending, MarkRunning, Push, PushAborted
<1>2. /\ InBatch \in Nat /\ Len(taskChan) \in Nat
      /\ InBatch' \in Nat /\ Len(taskChan') \in Nat
  BY InBatchType, InBatchNext
<1>3. \/ InBatch' < InBatch /\ taskChan' = taskChan
      \/ InBatch' + 2 <= InBatch /\ Len(taskChan') = Len(taskChan) + 1
  <2> USE SizesAssumption, BatchLength
  <2>1. CASE schedPc = "querying" /\ UNCHANGED taskChan
    <3>1. PICK n \in 0 .. ChanCap : /\ Len(batch') = n
                                    /\ schedPc' = IF n = 0 THEN "idle" ELSE "marking"
      BY <2>1, SchedulerMoves
    <3>2. InBatch = 3 * ChanCap + 1
      BY <2>1 DEF InBatch
    <3>3. InBatch' = 3 * n
      BY <3>1 DEF InBatch
    <3> QED BY <2>1, <3>1, <3>2, <3>3
  <2>2. CASE schedPc = "marking" /\ UNCHANGED taskChan
    BY <2>2, SchedulerMoves DEF InBatch
  <2>3. CASE schedPc = "pushing" /\ schedPc' = "idle" /\ UNCHANGED taskChan
    BY <2>3 DEF InBatch
  <2>4. CASE /\ schedPc = "pushing" /\ Len(taskChan') = Len(taskChan) + 1
             /\ Len(batch') = Len(batch) - 1
             /\ schedPc' = IF Len(batch) = 1 THEN "idle" ELSE "marking"
    BY <2>4 DEF InBatch
  <2> QED BY <2>1, <2>2, <2>3, <2>4, SchedulerMoves
<1>4. InBatch' + Len(taskChan') < InBatch + Len(taskChan)
  <2> DEFINE i == InBatch
             l == Len(taskChan)
             j == InBatch'
             m == Len(taskChan')
  <2>1. i \in Nat /\ l \in Nat /\ j \in Nat /\ m \in Nat
    BY <1>2
  <2>2. \/ j < i /\ m = l
        \/ j + 2 <= i /\ m = l + 1
    BY <1>3
  <2>3. j + m < i + l
    <3> HIDE DEF i, j, l, m
    <3> QED BY <2>1, <2>2
  <2> QED BY <2>3
<1> QED BY <1>1, <1>4 DEF Backlog

LEMMA BacklogKept == ASSUME TypeOK, UNCHANGED <<sched, taskChan>> PROVE Backlog' <= Backlog
<1>1. InBatch' = InBatch /\ InBatch \in Nat /\ Len(taskChan) \in Nat
  BY InBatchType DEF InBatch, sched
<1> QED BY <1>1 DEF Backlog

LEMMA RankFacts ==
    ASSUME TypeOK, NEW w \in Workers, NEW pc \in WorkerPcs, wpc' = [wpc EXCEPT ![w] = pc]
    PROVE  /\ wpc'[w] = pc
           /\ \A v \in Workers : v # w => wpc'[v] = wpc[v]
           /\ \A v \in Workers : Rank(v) \in 0 .. 5 /\ (v # w => Rank(v)' = Rank(v))
<1>1. wpc'[w] = pc /\ \A v \in Workers : v # w => wpc'[v] = wpc[v]
  BY DEF TypeOK
<1>2. \A v \in Workers : Rank(v) \in 0 .. 5
  BY DEF TypeOK, WorkerPcs, Rank
<1> QED BY <1>1, <1>2 DEF Rank

\* A worker moves towards its end; what it receives after the signal it drops.
LEMMA WorkerRunsDown ==
    ASSUME TypeOK, NEW w \in Workers, WorkerStep(w), ~CtxLive
    PROVE  /\ \A v \in Workers : Rank(v)' <= Rank(v)
           /\ Backlog' <= Backlog
           /\ Backlog' < Backlog \/ Rank(w)' < Rank(w)
<1> USE DEF pool, sched
<1>1. UNCHANGED sched
  BY DEF WorkerStep, Receive, WorkerExit, LimiterGrant, LimiterRejects, TransferSucceeds,
         TransferFails, FailedCall, BackoffElapsed, BackoffCancelled, CompleteTask, FailTask,
         RequeueTask, Record
<1>2. CASE Receive(w)
  <2>1. UNCHANGED pool
    BY <1>2 DEF Receive
  <2>2. \A v \in Workers : Rank(v)' = Rank(v) /\ Rank(v) \in 0 .. 5
    BY <2>1 DEF Rank, TypeOK, WorkerPcs
  <2>3. Len(taskChan') = Len(taskChan) - 1 /\ Len(taskChan) \in Nat
    BY <1>2, TailFacts DEF Receive, TypeOK
  <2>4. InBatch' = InBatch /\ InBatch \in Nat
    BY <1>1, InBatchType DEF InBatch
  <2>5. Backlog' < Backlog /\ Backlog' <= Backlog
    BY <2>3, <2>4 DEF Backlog
  <2> QED BY <2>2, <2>5
<1>3. CASE ~Receive(w)
  <2>1. UNCHANGED taskChan
    BY <1>3 DEF WorkerStep, WorkerExit, LimiterGrant, LimiterRejects, TransferSucceeds,
           TransferFails, FailedCall, BackoffElapsed, BackoffCancelled, CompleteTask, FailTask,
           RequeueTask, Record
  <2>2. Backlog' <= Backlog
    BY <1>1, <2>1, BacklogKept
  <2>3. PICK pc \in WorkerPcs : /\ wpc' = [wpc EXCEPT ![w] = pc]
                                /\ \/ wpc[w] = "idle" /\ pc = "exited"
                                   \/ wpc[w] = "limiter" /\ pc \in {"calling", "idle"}
                                   \/ /\ wpc[w] = "calling"
                                      /\ pc \in {"completing", "backoff", "failing"}
                                   \/ wpc[w] = "backoff" /\ pc \in {"requeueing", "idle"}
                                   \/ /\ wpc[w] \in {"completing", "failing", "requeueing"}
                                      /\ pc = "idle"
    <3> USE DEF WorkerPcs
    <3>1. CASE WorkerExit(w)
      BY <3>1 DEF WorkerExit
    <3>2. CASE LimiterGrant(w) \/ LimiterRejects(w)
      BY <3>2 DEF LimiterGrant, LimiterRejects, Goto, Finish
    <3>3. CASE TransferSucceeds(w)
      BY <3>3 DEF TransferSucceeds, Goto
    <3>4. CASE TransferFails(w)
      BY <3>4 DEF TransferFails, FailedCall, Goto
    <3>5. CASE BackoffElapsed(w) \/ BackoffCancelled(w)
      BY <3>5 DEF BackoffElapsed, BackoffCancelled, Goto, Finish
    <3>6. CASE CompleteTask(w) \/ FailTask(w) \/ RequeueTask(w)
      BY <3>6 DEF CompleteTask, FailTask, RequeueTask, Record, Finish
    <3> QED BY <1>3, <3>1, <3>2, <3>3, <3>4, <3>5, <3>6 DEF WorkerStep
  <2>4. wpc'[w] = pc /\ \A v \in Workers : Rank(v) \in 0 .. 5 /\ (v # w => Rank(v)' = Rank(v))
    BY <2>3, RankFacts
  <2>5. Rank(w)' < Rank(w)
    BY <2>3, <2>4 DEF Rank
  <2>6. \A v \in Workers : Rank(v)' <= Rank(v)
    <3> SUFFICES ASSUME NEW v \in Workers PROVE Rank(v)' <= Rank(v)
      OBVIOUS
    <3>1. CASE v = w
      BY <3>1, <2>3, <2>4 DEF Rank
    <3>2. CASE v # w
      BY <3>2, <2>4
    <3> QED BY <3>1, <3>2
  <2> QED BY <2>2, <2>5, <2>6
<1> QED BY <1>2, <1>3

LEMMA RunsDownStep ==
    TypeOK /\ [Next]_vars /\ Stopping /\ Stopping' =>
         /\ \A w \in Workers : Rank(w)' <= Rank(w)
         /\ Backlog' <= Backlog
         /\ \/ UNCHANGED <<sched, taskChan, pool>>
            \/ Backlog' < Backlog
            \/ \E w \in Workers : Rank(w)' < Rank(w)
<1> SUFFICES ASSUME TypeOK, [Next]_vars, Stopping, Stopping'
             PROVE  /\ \A w \in Workers : Rank(w)' <= Rank(w)
                    /\ Backlog' <= Backlog
                    /\ \/ UNCHANGED <<sched, taskChan, pool>>
                       \/ Backlog' < Backlog
                       \/ \E w \in Workers : Rank(w)' < Rank(w)
  OBVIOUS
<1> USE DEF rows, pool, history, sched
<1>0. ~CtxLive /\ main # "down" /\ main' # "down"
  BY DEF Stopping
<1>6. TypeOK'
  BY TypeStep
<1>1. ASSUME UNCHANGED pool PROVE \A w \in Workers : Rank(w)' <= Rank(w)
  BY <1>1 DEF Rank, TypeOK, WorkerPcs
<1>2. CASE UNCHANGED <<sched, taskChan, pool>>
  <2>1. Backlog' <= Backlog
    BY <1>2, BacklogKept
  <2> QED BY <1>1, <1>2, <2>1
<1>3. CASE Operator \/ Process \/ UNCHANGED vars
  BY <1>0, <1>2, <1>3 DEF Operator, Pause, Resume, SetPaused, Signal, CreateTask, Process, Boot,
     BootAborted, HttpStopped, Exit, Crash, Vanish, vars
<1>4. CASE SchedulerStep
  <2>1. UNCHANGED pool /\ Backlog' < Backlog
    BY <1>0, <1>4, <1>6, SchedulerRunsDown
  <2>2. Backlog \in Int /\ Backlog' \in Int
    BY <1>6, InBatchType, InBatchNext DEF Backlog
  <2> QED BY <1>1, <2>1, <2>2
<1>5. ASSUME NEW w \in Workers, WorkerStep(w)
      PROVE  /\ \A v \in Workers : Rank(v)' <= Rank(v)
             /\ Backlog' <= Backlog
             /\ Backlog' < Backlog \/ \E v \in Workers : Rank(v)' < Rank(v)
  BY <1>0, <1>5, WorkerRunsDown
<1> QED BY <1>3, <1>4, <1>5 DEF Next

\* After the signal every step of a worker or of the scheduler uses up work that none
\* adds to: before the process can end they take at most Backlog plus every worker's Rank
\* steps, whatever the provider, the database and the API do.  No worker waits for another
\* one then, so that this is the bound behind ShutdownTerminates.
THEOREM ShutdownRunsDown == Spec => RunsDown
BY RunsDownStep, TypeCorrect, PTL DEF Spec, RunsDown

----------------------------------------------------------------------------
(* No rate limit in config.yml, hence 0.  NothingMoves rests on no worker  *)
(* getting past the limiter.                                               *)

NoGrants == RateLimit = 0 => \A w \in Workers : wpc[w] \in {"idle", "limiter", "exited"}

LEMMA NoMovesInit == Init => NothingMoves /\ NoGrants
BY DEF Init, NothingMoves, NoGrants

LEMMA NoMovesStep ==
    TypeOK /\ NothingMoves /\ NoGrants /\ [Next]_vars => NothingMoves' /\ NoGrants'
<1> SUFFICES ASSUME TypeOK, NothingMoves, NoGrants, [Next]_vars, RateLimit = 0
             PROVE  NothingMoves' /\ NoGrants'
  BY DEF NothingMoves, NoGrants
<1> USE DEF rows, pool, history
<1>0. ASSUME UNCHANGED <<transferred, fails, retryCount>>, UNCHANGED pool,
             \A t \in Tasks : status'[t] \in {status[t], "pending", "running"}
      PROVE  NothingMoves' /\ NoGrants'
  BY <1>0 DEF NothingMoves, NoGrants
<1>1. CASE Operator \/ UNCHANGED vars
  <2>1. ASSUME NEW t \in Tasks, CreateTask(t) PROVE NothingMoves' /\ NoGrants'
    BY <1>0, <2>1 DEF CreateTask, TypeOK
  <2> QED BY <1>0, <1>1, <2>1 DEF Operator, Pause, Resume, SetPaused, Signal, vars
<1>2. CASE SchedulerStep
  <2>1. CASE CheckPaused \/ QueryPending \/ Push \/ PushAborted
    BY <1>0, <2>1 DEF CheckPaused, QueryPending, Push, PushAborted
  <2>2. CASE MarkRunning
    <3>1. UNCHANGED <<transferred, fails, retryCount>> /\ UNCHANGED pool
      BY <2>2 DEF MarkRunning, UpdateLost
    <3>2. \/ status' = [status EXCEPT ![Head(batch).id] = "running"]
          \/ status' = status
      BY <2>2 DEF MarkRunning, SetStatus, UpdateLost
    <3> QED BY <1>0, <3>1, <3>2 DEF TypeOK
  <2> QED BY <1>2, <2>1, <2>2 DEF SchedulerStep
<1>3. ASSUME NEW w \in Workers, WorkerStep(w) PROVE NothingMoves' /\ NoGrants'
  <2>1. Receive(w) \/ WorkerExit(w) \/ LimiterRejects(w)
    <3>1. wpc[w] \in {"idle", "limiter", "exited"}
      BY DEF NoGrants
    <3>2. ~LimiterGrant(w) /\ ~TransferSucceeds(w) /\ ~TransferFails(w)
      BY <3>1 DEF LimiterGrant, TransferSucceeds, TransferFails, FailedCall
    <3>3. ~BackoffElapsed(w) /\ ~BackoffCancelled(w)
      BY <3>1 DEF BackoffElapsed, BackoffCancelled
    <3>4. ~CompleteTask(w) /\ ~FailTask(w) /\ ~RequeueTask(w)
      BY <3>1 DEF CompleteTask, FailTask, RequeueTask, Record
    <3> QED BY <1>3, <3>2, <3>3, <3>4 DEF WorkerStep
  <2>2. UNCHANGED <<transferred, fails, retryCount, status>>
    BY <2>1 DEF Receive, WorkerExit, LimiterRejects
  <2>3. wpc' = wpc \/ \E pc \in {"idle", "limiter", "exited"} : wpc' = [wpc EXCEPT ![w] = pc]
    BY <2>1 DEF Receive, WorkerExit, LimiterRejects, Finish
  <2>4. NoGrants'
    BY <2>3 DEF NoGrants, TypeOK
  <2> QED BY <2>2, <2>4 DEF NothingMoves
<1>4. CASE Process
  <2>1. UNCHANGED <<transferred, fails, retryCount>>
    BY <1>4 DEF Process, Boot, BootAborted, RecoverTasks, HttpStopped, Exit, Crash, Vanish
  <2>2. \A t \in Tasks : status'[t] \in {status[t], "pending", "running"}
    BY <1>4 DEF Process, Boot, BootAborted, RecoverTasks, HttpStopped, Exit, Crash, Vanish
  <2>3. NothingMoves'
    BY <2>1, <2>2 DEF NothingMoves
  <2>4. NoGrants'
    BY <1>4 DEF Process, Boot, BootAborted, HttpStopped, Exit, Crash, Vanish, NoGrants
  <2> QED BY <2>3, <2>4
<1> QED BY <1>1, <1>2, <1>3, <1>4 DEF Next

\* Without rate_limit_per_second a daemon accepts tasks and marks them running, but none
\* is transferred, fails or uses up a retry, for ever and over restarts: the limiter has no
\* token, and its error leaves the row as it is (pool.go:65).
THEOREM NoLimitNoTransfer == Spec => []NothingMoves
BY NoMovesInit, NoMovesStep, TypeCorrect, PTL DEF Spec
=============================================================================
