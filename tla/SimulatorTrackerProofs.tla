---------------------- MODULE SimulatorTrackerProofs ----------------------
(***************************************************************************)
(* Proofs about SimulatorTracker, for any number of tasks, services and    *)
(* retries.                                                                *)
(***************************************************************************)
EXTENDS SimulatorTracker, TLAPS

USE NamesAssumption DEF world, network, queue, disk, service, process, turn, tracker,
        Up, At, Move, TurnEnds, InHand, Queue!Statuses

----------------------------------------------------------------------------
LEMMA InitIInv == Init => IInv
  BY DEF Init, Queue!Init, IInv, TypeOK, FileThere, NothingLost, LeaksAccounted, Sent, InHands,
         StillTrue

----------------------------------------------------------------------------
(* The daemon and the network.                                            *)

LEMMA CreateTaskStep == ASSUME IInv, NEW t \in Tasks, CreateTask(t) PROVE IInv'
<1>1. TypeOK' /\ NothingLost' /\ LeaksAccounted' /\ InHands' /\ StillTrue'
  BY DEF IInv, TypeOK, NothingLost, LeaksAccounted, InHands, StillTrue, CreateTask, Queue!Accept
<1>2. FileThere'
  BY DEF IInv, Sent, FileThere, CreateTask, Queue!Accept
<1>3. Sent'
  BY DEF IInv, TypeOK, Sent, CreateTask, Queue!Accept
<1> QED BY <1>1, <1>2, <1>3 DEF IInv

LEMMA StartStep ==
    ASSUME IInv, NEW t \in Tasks, Queue!Start(t),
           UNCHANGED <<network, disk, process, tracker>>
    PROVE  IInv'
  BY DEF IInv, TypeOK, FileThere, NothingLost, LeaksAccounted, Sent, InHands, StillTrue,
         Queue!Start

LEMMA TransferStep ==
    ASSUME IInv, NEW t \in Tasks, file[t] = "whole", Queue!Transfer(t),
           UNCHANGED <<network, disk, process, tracker>>
    PROVE  IInv'
  BY DEF IInv, TypeOK, FileThere, NothingLost, LeaksAccounted, Sent, InHands, StillTrue,
         Queue!Transfer

LEMMA FaultStep ==
    ASSUME IInv, NEW t \in Tasks, Queue!Fault(t),
           UNCHANGED <<network, disk, process, tracker>>
    PROVE  IInv'
  BY DEF IInv, TypeOK, FileThere, NothingLost, LeaksAccounted, Sent, InHands, StillTrue,
         Queue!Fault, Queue!AtMost

LEMMA SettleStep ==
    ASSUME IInv, NEW t \in Tasks, Queue!Settle(t),
           UNCHANGED <<network, disk, process, tracker>>
    PROVE  IInv'
<1>1. TypeOK' /\ InHands'
  BY DEF IInv, TypeOK, InHands, Queue!Settle
<1>2. FileThere' /\ NothingLost' /\ LeaksAccounted' /\ Sent' /\ StillTrue'
  BY DEF IInv, TypeOK, FileThere, NothingLost, LeaksAccounted, Sent, StillTrue, Queue!Settle
<1> QED BY <1>1, <1>2 DEF IInv

LEMMA ReleaseStep ==
    ASSUME IInv, NEW S \in SUBSET Tasks, Queue!Release(S),
           UNCHANGED <<network, disk, process, tracker>>
    PROVE  IInv'
<1>1. TypeOK' /\ FileThere' /\ NothingLost' /\ LeaksAccounted' /\ InHands'
  BY DEF IInv, TypeOK, FileThere, NothingLost, LeaksAccounted, InHands, Queue!Release,
         Queue!Running
<1>2. Sent' /\ StillTrue'
  BY DEF IInv, TypeOK, Sent, StillTrue, Queue!Release, Queue!Running
<1> QED BY <1>1, <1>2 DEF IInv

LEMMA LostStep == ASSUME IInv, Lost PROVE IInv'
  BY DEF IInv, TypeOK, FileThere, NothingLost, LeaksAccounted, Sent, InHands, StillTrue, Lost

----------------------------------------------------------------------------
(* The services.                                                         *)

LEMMA GenerateStep == ASSUME IInv, NEW s \in Services, Generate(s) PROVE IInv'
<1>1. TypeOK' /\ FileThere' /\ NothingLost' /\ Sent' /\ StillTrue'
  BY DEF IInv, TypeOK, FileThere, NothingLost, Sent, StillTrue, Generate
<1>2. LeaksAccounted'
  BY DEF IInv, TypeOK, LeaksAccounted, Generate
<1>3. InHands'
  BY DEF IInv, TypeOK, Sent, InHands, Generate
<1> QED BY <1>1, <1>2, <1>3 DEF IInv

LEMMA GenerateFailsStep == ASSUME IInv, NEW s \in Services, GenerateFails(s) PROVE IInv'
<1>1. TypeOK' /\ FileThere' /\ NothingLost' /\ LeaksAccounted' /\ Sent' /\ StillTrue'
  BY DEF IInv, TypeOK, FileThere, NothingLost, LeaksAccounted, Sent, StillTrue, GenerateFails
<1>2. InHands'
  BY DEF IInv, TypeOK, InHands, GenerateFails
<1> QED BY <1>1, <1>2 DEF IInv

LEMMA PostStep == ASSUME IInv, NEW s \in Services, Post(s) PROVE IInv'
<1>1. TypeOK' /\ FileThere' /\ NothingLost' /\ LeaksAccounted'
  BY DEF IInv, TypeOK, FileThere, NothingLost, LeaksAccounted, Post
<1>2. Sent' /\ StillTrue'
  BY DEF IInv, TypeOK, InHands, Sent, StillTrue, Post
<1>3. InHands'
  BY DEF IInv, TypeOK, InHands, Post
<1> QED BY <1>1, <1>2, <1>3 DEF IInv

LEMMA EnqueuedStep == ASSUME IInv, NEW s \in Services, Enqueued(s) PROVE IInv'
<1>1. TypeOK' /\ FileThere' /\ NothingLost' /\ LeaksAccounted' /\ Sent' /\ StillTrue'
  BY DEF IInv, TypeOK, FileThere, NothingLost, LeaksAccounted, Sent, StillTrue, Enqueued
<1>2. InHands'
  BY DEF IInv, TypeOK, InHands, Enqueued
<1> QED BY <1>1, <1>2 DEF IInv

LEMMA PostFailsStep == ASSUME IInv, NEW s \in Services, PostFails(s) PROVE IInv'
<1>1. TypeOK' /\ FileThere' /\ NothingLost' /\ LeaksAccounted' /\ Sent' /\ StillTrue'
  BY DEF IInv, TypeOK, FileThere, NothingLost, LeaksAccounted, Sent, StillTrue, PostFails
<1>2. InHands'
  BY DEF IInv, TypeOK, InHands, PostFails
<1> QED BY <1>1, <1>2 DEF IInv

LEMMA ReturnsStep == ASSUME IInv, NEW s \in Services, Returns(s) PROVE IInv'
  BY DEF IInv, TypeOK, FileThere, NothingLost, LeaksAccounted, Sent, InHands, StillTrue, Returns

----------------------------------------------------------------------------
(* The tracker.                                                          *)

LEMMA CheckTasksStep == ASSUME IInv, CheckTasks PROVE IInv'
  BY DEF IInv, TypeOK, FileThere, NothingLost, LeaksAccounted, Sent, InHands, StillTrue,
         CheckTasks

LEMMA AskStep == ASSUME IInv, NEW t \in Tasks, Ask(t) PROVE IInv'
  BY DEF IInv, TypeOK, FileThere, NothingLost, LeaksAccounted, Sent, InHands, StillTrue, Ask

LEMMA PassEndsStep == ASSUME IInv, PassEnds PROVE IInv'
  BY DEF IInv, TypeOK, FileThere, NothingLost, LeaksAccounted, Sent, InHands, StillTrue, PassEnds

LEMMA GetTaskStep == ASSUME IInv, GetTask PROVE IInv'
  BY DEF IInv, TypeOK, FileThere, NothingLost, LeaksAccounted, Sent, InHands, StillTrue, GetTask

LEMMA PollFailsStep == ASSUME IInv, PollFails PROVE IInv'
  BY DEF IInv, TypeOK, FileThere, NothingLost, LeaksAccounted, Sent, InHands, StillTrue,
         PollFails

LEMMA RemoveStep == ASSUME IInv, Remove PROVE IInv'
<1>1. TypeOK'
  BY DEF IInv, TypeOK, Remove, IsDone
<1>2. FileThere'
  BY DEF IInv, TypeOK, StillTrue, FileThere, Remove, IsDone
<1>3. NothingLost'
  BY DEF IInv, TypeOK, Sent, StillTrue, NothingLost, Remove, IsDone
<1>4. LeaksAccounted' /\ Sent' /\ InHands' /\ StillTrue'
  BY DEF IInv, TypeOK, LeaksAccounted, Sent, InHands, StillTrue, Remove, IsDone
<1> QED BY <1>1, <1>2, <1>3, <1>4 DEF IInv

LEMMA RetainStep == ASSUME IInv, Retain PROVE IInv'
  BY DEF IInv, TypeOK, FileThere, NothingLost, LeaksAccounted, Sent, InHands, StillTrue, Retain,
         IsDone

LEMMA NotYetStep == ASSUME IInv, NotYet PROVE IInv'
  BY DEF IInv, TypeOK, FileThere, NothingLost, LeaksAccounted, Sent, InHands, StillTrue, NotYet

LEMMA UntrackStep == ASSUME IInv, Untrack PROVE IInv'
<1>1. TypeOK' /\ FileThere' /\ NothingLost' /\ Sent' /\ InHands' /\ StillTrue'
  BY DEF IInv, TypeOK, FileThere, NothingLost, Sent, InHands, StillTrue, Untrack
<1>2. LeaksAccounted'
  BY DEF IInv, TypeOK, StillTrue, LeaksAccounted, Untrack
<1> QED BY <1>1, <1>2 DEF IInv

----------------------------------------------------------------------------
(* The process.                                                          *)

LEMMA EndsStep == ASSUME IInv, Ends PROVE IInv'
  BY DEF IInv, TypeOK, FileThere, NothingLost, LeaksAccounted, Sent, InHands, StillTrue, Ends

LEMMA IdleStep == ASSUME IInv, Signal \/ Boot \/ UNCHANGED vars PROVE IInv'
  BY DEF IInv, TypeOK, FileThere, NothingLost, LeaksAccounted, Sent, InHands, StillTrue, Signal,
         Boot, vars

----------------------------------------------------------------------------
LEMMA Step == ASSUME IInv, [Next]_vars PROVE IInv'
<1>1. CASE Daemon
  BY <1>1, StartStep, TransferStep, FaultStep, SettleStep, ReleaseStep DEF Daemon, Attempt
<1>2. CASE \E t \in Tasks : CreateTask(t)
  BY <1>2, CreateTaskStep
<1>3. CASE Lost
  BY <1>3, LostStep
<1>4. ASSUME NEW s \in Services, ServiceStep(s) PROVE IInv'
  BY <1>4, GenerateStep, GenerateFailsStep, PostStep, EnqueuedStep, PostFailsStep, ReturnsStep
     DEF ServiceStep
<1>5. CASE TrackerStep
  BY <1>5, CheckTasksStep, AskStep, PassEndsStep, GetTaskStep, PollFailsStep, RemoveStep,
     RetainStep, NotYetStep, UntrackStep DEF TrackerStep
<1>6. CASE Exit \/ Crash
  BY <1>6, EndsStep DEF Exit, Crash
<1>7. CASE Signal \/ Boot \/ UNCHANGED vars
  BY <1>7, IdleStep
<1> QED BY <1>1, <1>2, <1>3, <1>4, <1>5, <1>6, <1>7 DEF Next

\* The inductive invariant: what is posted is written, what is tracked was accepted, and the
\* answer the tracker is about to act on is still true.
THEOREM SimulatorInvariant == Spec => []IInv
<1>1. IInv /\ [Next]_vars => IInv'
  BY Step
<1> QED BY InitIInv, <1>1, PTL DEF Spec

\* Every variable keeps its type, and the tracker asks only about tasks it tracks.
THEOREM SimulatorTypeCorrect == Spec => []TypeOK
<1>1. IInv => TypeOK
  BY DEF IInv
<1> QED BY <1>1, SimulatorInvariant, PTL

\* A task that may still be attempted finds its file, whatever requests, answers and
\* runs of the simulator were lost.
THEOREM FilesStayForAttempts == Spec => []FileThere
<1>1. IInv => FileThere
  BY DEF IInv
<1> QED BY <1>1, SimulatorInvariant, PTL

\* No file is deleted before it is in the cloud.
THEOREM NoFileLost == Spec => []NothingLost
<1>1. IInv => NothingLost
  BY DEF IInv
<1> QED BY <1>1, SimulatorInvariant, PTL

\* A file is left behind only for one of the causes recorded.
THEOREM LeaksHaveCauses == Spec => []LeaksAccounted
<1>1. IInv => LeaksAccounted
  BY DEF IInv
<1> QED BY <1>1, SimulatorInvariant, PTL

----------------------------------------------------------------------------
(* The queue behind the network, and what the tracker makes of its answers. *)

LEMMA QueueStep == ASSUME [Next]_vars PROVE Queue!Next \/ UNCHANGED queue
<1>1. CASE Daemon
  BY <1>1 DEF Daemon, Attempt, Queue!Next
<1>2. CASE \E t \in Tasks : CreateTask(t)
  BY <1>2 DEF CreateTask, Queue!Next
<1>3. CASE Lost \/ Signal \/ Boot \/ Exit \/ Crash \/ UNCHANGED vars
  BY <1>3 DEF Lost, Signal, Boot, Exit, Crash, Ends, vars
<1>4. ASSUME NEW s \in Services, ServiceStep(s) PROVE UNCHANGED queue
  BY <1>4 DEF ServiceStep, Generate, GenerateFails, Post, Enqueued, PostFails, Returns
<1>5. CASE TrackerStep
  BY <1>5 DEF TrackerStep, CheckTasks, Ask, PassEnds, GetTask, PollFails, Remove, Retain, NotYet,
              Untrack
<1> QED BY <1>1, <1>2, <1>3, <1>4, <1>5 DEF Next

LEMMA FinishedStays ==
    ASSUME IInv, [Next]_vars, NEW t \in Tasks, Finished(t)
    PROVE  status'[t] = status[t]
<1>1. CASE UNCHANGED queue
  BY <1>1
<1>2. ASSUME NEW u \in Tasks, Queue!Accept(u) \/ Queue!Start(u) \/ Queue!Settle(u)
      PROVE  status'[t] = status[t]
  <2>1. u # t
    BY <1>2 DEF Finished, Queue!Accept, Queue!Start, Queue!Settle
  <2> QED BY <1>2, <2>1 DEF IInv, TypeOK, Queue!Accept, Queue!Start, Queue!Settle
<1>3. ASSUME NEW u \in Tasks, Queue!Transfer(u) \/ Queue!Fault(u) PROVE status'[t] = status[t]
  BY <1>3 DEF Queue!Transfer, Queue!Fault
<1>4. ASSUME NEW S \in SUBSET Tasks, Queue!Release(S) PROVE status'[t] = status[t]
  BY <1>4 DEF Finished, Queue!Release, Queue!Running
<1> QED BY <1>1, <1>2, <1>3, <1>4, QueueStep DEF Queue!Next

\* The task the tracker is about to let go of.
Leaving == tpc = "untracking" => Finished(asked)

LEMMA LeavingStep == ASSUME IInv, Leaving, [Next]_vars PROVE Leaving'
<1>1. CASE Remove \/ Retain
  <2>1. tpc = "answered" /\ answer \in {"done", "failed"} /\ UNCHANGED <<status, asked>>
    BY <1>1 DEF Remove, Retain, IsDone
  <2>2. Finished(asked)
    BY <2>1 DEF IInv, StillTrue, Finished
  <2> QED BY <2>1, <2>2 DEF Leaving, Finished
<1>2. CASE tpc' # "untracking"
  BY <1>2 DEF Leaving
<1>3. CASE tpc' = tpc /\ asked' = asked /\ tpc = "untracking"
  <2>1. asked \in Tasks /\ Finished(asked)
    BY <1>3 DEF IInv, TypeOK, Leaving
  <2>2. status'[asked] = status[asked]
    BY <2>1, FinishedStays
  <2> QED BY <1>3, <2>1, <2>2 DEF Leaving, Finished
<1>4. Remove \/ Retain \/ tpc' # "untracking" \/ (tpc' = tpc /\ asked' = asked)
  <2>1. CASE Daemon \/ (\E t \in Tasks : CreateTask(t)) \/ Lost \/ Signal \/ Boot \/ UNCHANGED vars
    BY <2>1 DEF Daemon, CreateTask, Lost, Signal, Boot, vars
  <2>2. ASSUME NEW s \in Services, ServiceStep(s) PROVE tpc' = tpc /\ asked' = asked
    BY <2>2 DEF ServiceStep, Generate, GenerateFails, Post, Enqueued, PostFails, Returns
  <2>3. CASE TrackerStep
    BY <2>3 DEF TrackerStep, CheckTasks, Ask, PassEnds, GetTask, PollFails, NotYet, Untrack
  <2>4. CASE Exit \/ Crash
    BY <2>4 DEF Exit, Crash, Ends
  <2> QED BY <2>1, <2>2, <2>3, <2>4 DEF Next
<1> QED BY <1>1, <1>2, <1>3, <1>4

LEMMA LetGoStep ==
    ASSUME IInv, Leaving, [Next]_vars, NEW t \in tracked \ tracked'
    PROVE  Finished(t) \/ sim' = "down"
<1>1. CASE Daemon \/ (\E u \in Tasks : CreateTask(u)) \/ Lost \/ Signal \/ Boot \/ UNCHANGED vars
  BY <1>1 DEF Daemon, CreateTask, Lost, Signal, Boot, vars
<1>2. ASSUME NEW s \in Services, ServiceStep(s) PROVE tracked \subseteq tracked'
  BY <1>2 DEF ServiceStep, Generate, GenerateFails, Post, Enqueued, PostFails, Returns
<1>3. CASE Untrack
  BY <1>3 DEF Untrack, Leaving
<1>4. CASE TrackerStep /\ ~Untrack
  BY <1>4 DEF TrackerStep, CheckTasks, Ask, PassEnds, GetTask, PollFails, Remove, Retain, NotYet
<1>5. CASE Exit \/ Crash
  BY <1>5 DEF Exit, Crash, Ends
<1> QED BY <1>1, <1>2, <1>3, <1>4, <1>5 DEF Next

\* The tracker forgets a task only with its outcome read and still true, or when the process
\* ends: not because a service added one during a pass, nor on a late answer (checkTasks).
THEOREM OnlyFinishedTasksAreLetGo == Spec => LetGoFinished
<1>1. Init => Leaving
  BY DEF Init, Leaving
<1>2. IInv /\ Leaving /\ [Next]_vars => Leaving'
  BY LeavingStep
<1>3. IInv /\ Leaving /\ [Next]_vars
        => [\A t \in tracked \ tracked' : Finished(t) \/ sim' = "down"]_vars
  BY LetGoStep
<1> QED BY <1>1, <1>2, <1>3, SimulatorInvariant, PTL DEF Spec, LetGoFinished
=============================================================================
