----------------------- MODULE DaemonLifecycleProofs -----------------------
(***************************************************************************)
(* Proofs about DaemonLifecycle, for any number of process ids: the types, *)
(* and that commands which do not overlap leave one daemon, named by the   *)
(* PID file and spared by `hippo rm`.                                      *)
(***************************************************************************)
EXTENDS DaemonLifecycle, TLAPS

----------------------------------------------------------------------------
(* Types, and the count of the columns a migration has added.              *)

Typed == TypeOK /\ Migrates

LEMMA TypedInit == Init => Typed
<1> SUFFICES ASSUME Init PROVE Typed
  OBVIOUS
<1>1. \A p \in Pids : port # p /\ pc[p] = "none" /\ added[p] = 0
  BY PidsAssumption DEF Init
<1>2. columns \in 0 .. AllColumns
  BY DEF Init, AllColumns
<1>3. added \in [Pids -> 0 .. AllColumns]
  BY DEF Init, AllColumns
<1> QED BY <1>1, <1>2, <1>3 DEF Init, Typed, TypeOK, Migrates

\* A process that dies takes its listener and its open files with it.
LEMMA TypedDie ==
    ASSUME Typed, NEW p \in Pids, Die(p), config' \in BOOLEAN, columns' \in 0 .. AllColumns,
           pidFile' \in Pids \cup {"absent", "empty"}, rm' \in {"none", "prompt"},
           overlapped' \in BOOLEAN
    PROVE  Typed'
BY PidsAssumption
DEF Typed, TypeOK, Migrates, Die, Goto, AllColumns, HasPidFileOpen, HasDatabaseOpen, Daemons

LEMMA TypedStart == ASSUME NEW p \in Pids PROVE Typed /\ Start(p) => Typed'
<1> SUFFICES ASSUME Typed, Start(p) PROVE Typed'
  OBVIOUS
<1> USE DEF project, command
<1>t. /\ config \in BOOLEAN /\ columns \in 0 .. AllColumns /\ rm \in {"none", "prompt"}
      /\ pidFile \in Pids \cup {"absent", "empty"} /\ overlapped \in BOOLEAN
  BY DEF Typed, TypeOK
<1>0. CASE Die(p) /\ UNCHANGED <<project, command>>
  BY <1>0, <1>t, TypedDie
<1> USE PidsAssumption DEF Typed, TypeOK, Migrates, Goto, AllColumns, HasPidFileOpen,
        HasDatabaseOpen, Daemons
<1>1. CASE Begin(p)
  BY <1>1 DEF Begin, Given
<1>2. CASE CheckConfig(p)
  BY <1>2, <1>0 DEF CheckConfig
<1>3. CASE ReadPidFile(p)
  BY <1>3, <1>0 DEF ReadPidFile
<1>4. CASE CreatePidFile(p)
  BY <1>4 DEF CreatePidFile
<1>5. CASE WritePid(p)
  BY <1>5 DEF WritePid
<1>6. CASE LoadAndOpen(p)
  BY <1>6, <1>0 DEF LoadAndOpen
<1>7. CASE AddColumn(p)
  <2>1. CASE p \in detached \/ columns = added[p]
    <3>1. /\ columns' \in 0 .. AllColumns
          /\ added' = [added EXCEPT ![p] = @ + 1] /\ added[p] + 1 \in 0 .. AllColumns
      BY <1>7, <2>1 DEF AddColumn
    <3> QED BY <1>7, <2>1, <3>1 DEF AddColumn
  <2>2. CASE ~(p \in detached \/ columns = added[p])
    BY <1>7, <2>2, <1>0 DEF AddColumn
  <2> QED BY <2>1, <2>2
<1>8. CASE Recover(p)
  BY <1>8 DEF Recover
<1>9. CASE Listen(p)
  BY <1>9 DEF Listen
<1>10. CASE ListenFails(p)
  BY <1>10, <1>0 DEF ListenFails
<1> QED BY <1>1, <1>2, <1>3, <1>4, <1>5, <1>6, <1>7, <1>8, <1>9, <1>10 DEF Start

LEMMA TypedStep == Typed /\ [Next]_vars => Typed'
<1> SUFFICES ASSUME Typed, [Next]_vars PROVE Typed'
  OBVIOUS
<1> USE DEF project, command
<1>1. ASSUME NEW p \in Pids, Crash(p) PROVE Typed'
  BY <1>1, TypedDie DEF Crash, Typed, TypeOK
<1>2. ASSUME NEW p \in Pids, Signal(p) \/ Exit(p) \/ OtherProgram(p) PROVE Typed'
  BY <1>2, PidsAssumption
  DEF Signal, Exit, OtherProgram, Typed, TypeOK, Migrates, Goto, HasPidFileOpen,
      HasDatabaseOpen, Daemons
<1>3. CASE InitProject \/ RmCheck \/ RmConfirmed \/ RmAborted
  <2>1. /\ config' \in BOOLEAN /\ columns' \in 0 .. AllColumns
        /\ rm' \in {"none", "prompt"} /\ overlapped' \in BOOLEAN
        /\ pidFile' \in Pids \cup {"absent", "empty"}
        /\ detached' \subseteq HasPidFileOpen \cup HasDatabaseOpen
    <3> USE DEF Typed, TypeOK, AllColumns
    <3>1. CASE InitProject \/ RmAborted
      BY <3>1 DEF InitProject, RmAborted
    <3>2. CASE RmCheck
      <4>1. overlapped' \in BOOLEAN
        BY <3>2 DEF RmCheck, Given
      <4> QED BY <3>2, <4>1 DEF RmCheck
    <3>3. CASE RmConfirmed
      <4>1. detached' \subseteq HasPidFileOpen \cup HasDatabaseOpen
        BY <3>3 DEF RmConfirmed
      <4>2. overlapped' \in BOOLEAN
        BY <3>3, Zenon DEF RmConfirmed
      <4>4. config' = FALSE /\ columns' \in 0 .. AllColumns /\ rm' \in {"none", "prompt"}
        BY <3>3 DEF RmConfirmed
      <4>3. pidFile' \in Pids \cup {"absent", "empty"}
        BY <3>3 DEF RmConfirmed
      <4> QED BY <4>1, <4>2, <4>3, <4>4
    <3> QED BY <1>3, <3>1, <3>2, <3>3
  <2>2. UNCHANGED <<port, pc, added>>
    BY <1>3 DEF InitProject, RmCheck, RmConfirmed, RmAborted
  <2> QED BY <2>1, <2>2 DEF Typed, TypeOK, Migrates, HasPidFileOpen, HasDatabaseOpen, Daemons
<1>4. CASE UNCHANGED vars
  BY <1>4 DEF vars, Typed, TypeOK, Migrates, HasPidFileOpen, HasDatabaseOpen, Daemons
<1> QED BY <1>1, <1>2, <1>3, <1>4, TypedStart DEF Next

\* Every variable has its type: a process listens exactly while it serves, only processes
\* with an open file can have lost it, and the migration stays within four columns.
THEOREM LifecycleTypeCorrect == Spec => []TypeOK
<1>1. Spec => []Typed
  BY TypedInit, TypedStep, PTL DEF Spec
<1> QED BY <1>1, PTL DEF Typed

----------------------------------------------------------------------------
(* One start at a time.  OneDaemon is not inductive: that a second daemon  *)
(* does not open the database rests on the PID file naming the first, that *)
(* on nobody else being past the check, and that on no start or rm being   *)
(* under way when a command is given.                                      *)

LEMMA AloneInit == Init => Alone
<1> SUFFICES ASSUME Init PROVE Alone
  OBVIOUS
<1>1. Starting = {} /\ Daemons = {} /\ detached = {}
  BY DEF Init, Starting, Daemons
<1> QED BY <1>1 DEF Init, Alone

\* What an overlap left is gone once a command finds neither command nor daemon.
LEMMA AloneGiven ==
    ASSUME Typed, overlapped \/ Alone, Given, ~overlapped'
    PROVE  Alone /\ Starting = {} /\ rm = "none"
<1>1. Quiet /\ (~overlapped \/ Daemons = {})
  BY DEF Given
<1>2. Starting = {} /\ rm = "none"
  BY <1>1 DEF Quiet
<1>3. CASE Daemons = {}
  <2>1. \A p \in Pids : pc[p] \notin {"loading", "altering", "recovering", "writing"}
    BY <1>2 DEF Starting
  <2> QED BY <1>2, <1>3, <2>1 DEF Alone, HasPidFileOpen
<1>4. CASE ~overlapped
  BY <1>2, <1>4
<1> QED BY <1>1, <1>2, <1>3, <1>4

LEMMA AloneDie ==
    ASSUME Typed, Alone, NEW p \in Pids, Die(p), UNCHANGED <<pidFile, rm>>
    PROVE  Alone'
BY DEF Typed, TypeOK, Alone, Die, Goto, Starting, Daemons, HasPidFileOpen

LEMMA AloneStart ==
    ASSUME NEW p \in Pids, Typed, overlapped \/ Alone, Start(p), ~overlapped'
    PROVE  Alone'
<1> USE DEF project, command
<1>1. CASE Begin(p)
  <2>1. Alone /\ Starting = {} /\ rm = "none"
    BY <1>1, AloneGiven DEF Begin
  <2> QED BY <1>1, <2>1 DEF Begin, Goto, Typed, TypeOK, Alone, Starting, Daemons, HasPidFileOpen
<1>2. CASE ~Begin(p)
  <2>1. Alone
    BY <1>2 DEF Start, CheckConfig, ReadPidFile, CreatePidFile, WritePid, LoadAndOpen,
                AddColumn, Recover, Listen, ListenFails
  <2>0. CASE Die(p) /\ UNCHANGED <<pidFile, rm>>
    BY <2>1, <2>0, AloneDie
  <2> USE <2>1 DEF Goto, Typed, TypeOK, Alone, Starting, Daemons, HasPidFileOpen
  <2>2. CASE CheckConfig(p)
    BY <2>2, <2>0 DEF CheckConfig
  <2>3. CASE ReadPidFile(p)
    <3>1. CASE NamesProcess
      BY <2>3, <3>1, <2>0 DEF ReadPidFile
    <3>2. CASE ~NamesProcess
      \* A daemon would be named, and is alive.
      <4>1. Daemons = {}
        BY <3>2 DEF NamesProcess, Alive
      <4> QED BY <2>3, <3>2, <4>1 DEF ReadPidFile
    <3> QED BY <3>1, <3>2
  <2>4. CASE CreatePidFile(p)
    <3>1. p \notin detached /\ Daemons = {}
      BY <2>4 DEF CreatePidFile, HasDatabaseOpen
    <3> QED BY <2>4, <3>1 DEF CreatePidFile
  <2>5. CASE WritePid(p)
    <3>1. pidFile' = p /\ Daemons = {}
      BY <2>5 DEF WritePid
    <3> QED BY <2>5, <3>1 DEF WritePid
  <2>6. CASE LoadAndOpen(p)
    BY <2>6, <2>0 DEF LoadAndOpen
  <2>7. CASE AddColumn(p)
    BY <2>7, <2>0 DEF AddColumn
  <2>8. CASE Recover(p)
    BY <2>8 DEF Recover
  <2>9. CASE Listen(p)
    BY <2>9 DEF Listen
  <2>10. CASE ListenFails(p)
    BY <2>10, <2>0 DEF ListenFails
  <2> QED BY <1>2, <2>2, <2>3, <2>4, <2>5, <2>6, <2>7, <2>8, <2>9, <2>10 DEF Start
<1> QED BY <1>1, <1>2

LEMMA AloneStep == Typed /\ (overlapped \/ Alone) /\ [Next]_vars => (overlapped \/ Alone)'
<1> SUFFICES ASSUME Typed, overlapped \/ Alone, [Next]_vars, ~overlapped' PROVE Alone'
  OBVIOUS
<1> USE DEF project, command
<1>1. ASSUME NEW p \in Pids, Crash(p) PROVE Alone'
  BY <1>1, AloneDie DEF Crash
<1>2. ASSUME NEW p \in Pids, Signal(p) \/ OtherProgram(p) PROVE Alone'
  BY <1>2 DEF Signal, OtherProgram, Goto, Typed, TypeOK, Alone, Starting, Daemons, HasPidFileOpen
<1>3. ASSUME NEW p \in Pids, Exit(p) PROVE Alone'
  \* The last daemon goes, and no start is past the check.
  <2>1. Alone /\ p \in Daemons /\ p \notin Starting
    BY <1>3 DEF Exit, Daemons, Starting
  <2>2. \A q \in Pids : pc[q] \notin {"creating", "writing", "loading", "altering", "recovering"}
    BY <2>1 DEF Alone, Starting
  <2> QED BY <1>3, <2>1, <2>2
          DEF Exit, Goto, Typed, TypeOK, Alone, Starting, Daemons, HasPidFileOpen
<1>4. CASE RmCheck
  <2>1. Alone /\ Starting = {}
    BY <1>4, AloneGiven DEF RmCheck
  <2>2. Daemons = {}
    BY <1>4, <2>1 DEF RmCheck, Alone, NamesProcess, Alive, Daemons
  <2> QED BY <1>4, <2>1, <2>2 DEF RmCheck, Alone, Starting, Daemons, HasPidFileOpen
<1>5. CASE RmConfirmed
  <2>1. Alone /\ Starting = {} /\ Daemons = {}
    BY <1>5 DEF RmConfirmed, Alone
  <2> QED BY <1>5, <2>1 DEF RmConfirmed, Alone, Starting, Daemons, HasPidFileOpen
<1>6. CASE InitProject \/ RmAborted \/ UNCHANGED vars
  BY <1>6 DEF InitProject, RmAborted, vars, Alone, Starting, Daemons, HasPidFileOpen
<1> QED BY <1>1, <1>2, <1>3, <1>4, <1>5, <1>6, AloneStart DEF Next

\* The inductive invariant of the commands of a project: as long as they did not overlap,
\* one process has the database open, and the PID file and the port agree with it.
THEOREM LifecycleInvariant == Spec => []IInv
<1>1. Init => Typed /\ (overlapped \/ Alone)
  BY TypedInit, AloneInit
<1>2. Typed /\ (overlapped \/ Alone) /\ [Next]_vars => Typed' /\ (overlapped \/ Alone)'
  BY TypedStep, AloneStep
<1>3. Typed /\ (overlapped \/ Alone) => IInv
  BY DEF Typed, IInv
<1> QED BY <1>1, <1>2, <1>3, PTL DEF Spec

\* While commands do not overlap, two processes never work on one database, over crashes,
\* stale PID files and process ids used again: what writePIDFile is there for.
THEOREM OneDaemonPerDatabase == Spec => []OneDaemon
<1>1. IInv => OneDaemon
  BY DEF IInv, Alone, OneDaemon
<1> QED BY <1>1, LifecycleInvariant, PTL

\* ... and the PID file, which `hippo ls`, `hippo rm` and the next start go by, names the
\* daemon from before the database is open until after it is closed.
THEOREM PidFileNamesTheDaemon == Spec => []FileNamesDaemon
<1>1. IInv => FileNamesDaemon
  BY DEF IInv, Alone, FileNamesDaemon
<1> QED BY <1>1, LifecycleInvariant, PTL

\* `hippo rm` removes the directory of no daemon that was not started behind its prompt.
THEOREM RmSparesDaemons == Spec => RmOnlyStopped
<1>1. IInv /\ [Next]_vars => [RmConfirmed => overlapped \/ Daemons = {}]_vars
  BY DEF IInv, Alone, RmConfirmed
<1> QED BY <1>1, LifecycleInvariant, PTL DEF Spec, RmOnlyStopped

----------------------------------------------------------------------------
(* One process after another.                                              *)

\* A step that leaves every daemon what it is.
LEMMA RunningStays ==
    ASSUME Daemons' = Daemons,
           \A p \in Daemons : pc'[p] = "draining" <=> pc[p] = "draining"
    PROVE  Running' = Running
BY DEF Running, Stage

LEMMA RunningOne ==
    ASSUME IInv, ~overlapped, NEW p \in Daemons
    PROVE  Daemons = {p} /\ Running = {Stage(p)}
<1>1. Daemons = {p}
  BY DEF IInv, Alone
<1> QED BY <1>1 DEF Running

\* A daemon dies; the death of another process is not seen.
LEMMA RunningDies ==
    ASSUME IInv, ~overlapped, NEW p \in Pids, Die(p) \/ Exit(p)
    PROVE  Running' = Running \/ DP!End(p)
<1>1. pc'[p] = "none" /\ \A q \in Pids \ {p} : pc'[q] = pc[q]
  BY DEF Die, Exit, Goto, IInv, TypeOK
<1>2. CASE p \in Daemons
  <2>1. Daemons = {p} /\ Running = {Stage(p)}
    BY <1>2, RunningOne
  <2>2. Daemons' = {}
    BY <1>1, <2>1 DEF Daemons
  <2>3. Running' = {}
    BY <2>2 DEF Running
  <2>4. Stage(p) = <<p, "working">> \/ Stage(p) = <<p, "stopping">>
    BY DEF Stage
  <2> QED BY <2>1, <2>3, <2>4 DEF DP!End
<1>3. CASE p \notin Daemons
  <2>1. Daemons' = Daemons
    BY <1>1, <1>3 DEF Daemons
  <2> QED BY <1>1, <1>3, <2>1, RunningStays DEF Daemons
<1> QED BY <1>2, <1>3

LEMMA RunningStarts ==
    ASSUME IInv, ~overlapped, NEW p \in Pids, Start(p)
    PROVE  Running' = Running \/ DP!Boot(p) \/ DP!End(p)
<1>1. CASE Recover(p)
  <2>1. p \in Starting /\ pc[p] = "recovering" /\ p \notin Daemons
    BY <1>1 DEF Recover, Starting, Daemons
  <2>2. Daemons = {}
    BY <2>1 DEF IInv, Alone, Daemons
  <2>3. pc'[p] = "opened" /\ \A q \in Pids \ {p} : pc'[q] = pc[q]
    BY <1>1 DEF Recover, Goto, IInv, TypeOK
  <2>4. Daemons' = {p}
    BY <2>2, <2>3 DEF Daemons
  <2>5. Stage(p)' = <<p, "working">>
    BY <2>3 DEF Stage
  <2>6. Running = {} /\ Running' = {<<p, "working">>}
    BY <2>2, <2>4, <2>5 DEF Running
  <2> QED BY <2>6 DEF DP!Boot
<1>2. CASE Die(p)
  BY <1>2, RunningDies
<1>3. CASE ~Recover(p) /\ ~Die(p)
  <2>1. \A q \in Pids \ {p} : pc'[q] = pc[q]
    BY <1>3 DEF Start, Begin, CheckConfig, ReadPidFile, CreatePidFile, WritePid, LoadAndOpen,
                AddColumn, Listen, ListenFails, Goto, IInv, TypeOK
  <2>2. /\ p \in Daemons <=> pc'[p] \in {"opened", "serving", "draining"}
        /\ pc[p] # "draining" /\ pc'[p] # "draining"
    BY <1>3 DEF Start, Begin, CheckConfig, ReadPidFile, CreatePidFile, WritePid, LoadAndOpen,
                AddColumn, Listen, ListenFails, Goto, IInv, TypeOK, Daemons
  <2>3. Daemons' = Daemons
    BY <2>1, <2>2 DEF Daemons
  <2> QED BY <2>1, <2>2, <2>3, RunningStays DEF Daemons
<1> QED BY <1>1, <1>2, <1>3

LEMMA RunningStep == IInv /\ [Next]_vars => [overlapped \/ DP!Next]_Running
<1> SUFFICES ASSUME IInv, [Next]_vars, ~overlapped PROVE Running' = Running \/ DP!Next
  BY Zenon
<1>1. ASSUME NEW p \in Pids, Start(p) PROVE Running' = Running \/ DP!Next
  BY <1>1, RunningStarts DEF DP!Next
<1>2. ASSUME NEW p \in Pids, Exit(p) \/ Crash(p) PROVE Running' = Running \/ DP!Next
  BY <1>2, RunningDies DEF DP!Next, Crash
<1>3. ASSUME NEW p \in Pids, Signal(p) PROVE DP!Next
  <2>1. p \in Daemons /\ pc[p] # "draining" /\ pc'[p] = "draining"
        /\ \A q \in Pids \ {p} : pc'[q] = pc[q]
    BY <1>3 DEF Signal, Goto, Daemons, IInv, TypeOK
  <2>2. Daemons = {p} /\ Running = {Stage(p)}
    BY <2>1, RunningOne
  <2>3. Daemons' = {p}
    BY <2>1, <2>2 DEF Daemons
  <2>4. Stage(p) = <<p, "working">> /\ Stage(p)' = <<p, "stopping">>
    BY <2>1 DEF Stage
  <2>5. Running' = {<<p, "stopping">>}
    BY <2>3, <2>4 DEF Running
  <2> QED BY <2>2, <2>4, <2>5 DEF DP!Next, DP!Stop
<1>4. ASSUME NEW p \in Pids, OtherProgram(p) PROVE Running' = Running
  <2>1. pc[p] = "none" /\ pc'[p] = "other" /\ \A q \in Pids \ {p} : pc'[q] = pc[q]
    BY <1>4 DEF OtherProgram, Goto, IInv, TypeOK
  <2>2. Daemons' = Daemons
    BY <2>1 DEF Daemons
  <2> QED BY <2>1, <2>2, RunningStays DEF Daemons
<1>5. CASE InitProject \/ RmCheck \/ RmConfirmed \/ RmAborted \/ UNCHANGED vars
  <2>1. pc' = pc
    BY <1>5 DEF InitProject, RmCheck, RmConfirmed, RmAborted, vars
  <2> QED BY <2>1, RunningStays DEF Daemons
<1> QED BY <1>1, <1>2, <1>3, <1>4, <1>5 DEF Next

\* Unless commands overlapped, the processes of a project are those of DaemonProcess, which is
\* what HippoDaemon builds on: a process recovers the tasks (recoverTasks, in runStart) when
\* the one before it has ended, so no other worker is behind a row it puts back.
THEOREM DaemonsComeOneByOne == Spec => OneAtATime
BY RunningStep, LifecycleInvariant, PTL DEF Spec, OneAtATime
=============================================================================
