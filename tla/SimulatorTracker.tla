-------------------------- MODULE SimulatorTracker --------------------------
(***************************************************************************)
(* The simulator, the client that comes with HippoDrop (cmd/simulator,     *)
(* internal/simulator): services write a file each and post its upload,    *)
(* and one tracker polls the tasks they obtained and deletes the file of   *)
(* a task that is done.  Requests and answers cross a network that may     *)
(* lose or delay them.                                                     *)
(*                                                                         *)
(* The daemon on the other side is here by its promise, TaskQueue, which   *)
(* HippoDaemon implements; its workers can transfer only a file that is    *)
(* there.  A task has the name of the file it was posted for: file names   *)
(* carry the time in nanoseconds, and no file is posted twice.             *)
(***************************************************************************)
EXTENDS Integers, FiniteSets

CONSTANTS
    Tasks, MaxRetries,  \* see TaskQueue
    Services,           \* the services of simulator.yml, a goroutine each
    NoTask              \* no file in hand

ASSUME NamesAssumption == NoTask \notin Tasks /\ MaxRetries \in Nat

VARIABLES
    status, transferred, fails,  \* the queue: see TaskQueue
    posts,     \* the POST requests on their way
    accepted,  \* the 202 answers on their way
    \* the simulator
    file,      \* Tasks -> "none", "partial", "whole" or "removed": the local file
    sim,       \* "up", "stopping" (its ctx cancelled) or "down"
    svc,       \* Services -> "idle", "writing", "posting" or "gone" (returned)
    hand,      \* Services -> the file the service is about
    tracked,   \* Tracker.tasks
    todo,      \* the rest of activeTasks in checkTasks
    tpc,       \* the tracker: "idle", "next", "asking", "answered" or "untracking"
    asked,     \* the task of the turn
    answer,    \* the status pollTask returned
    \* history
    forgotten  \* files whose task the simulator does not know of, or no longer

queue   == <<status, transferred, fails>>
network == <<posts, accepted>>
world   == <<queue, network>>
disk    == <<file, forgotten>>
service == <<svc, hand>>
process == <<sim, service>>
turn    == <<asked, answer>>
tracker == <<tracked, todo, tpc, turn>>
vars    == <<world, disk, process, tracker>>

Queue == INSTANCE TaskQueue WITH
             status <- status, transferred <- transferred, fails <- fails

Up == sim # "down"

----------------------------------------------------------------------------
(* The daemon.                                                             *)

\* createTask inserts the row and answers, also for a client that has given up waiting.
CreateTask(t) == /\ t \in posts
                 /\ posts' = posts \ {t}
                 /\ Queue!Accept(t)
                 /\ accepted' = accepted \cup {t}
                 /\ UNCHANGED <<disk, process, tracker>>

\* Its workers open the local file.
Attempt(t) == \/ file[t] = "whole" /\ Queue!Transfer(t)
              \/ Queue!Start(t) \/ Queue!Fault(t) \/ Queue!Settle(t)

Daemon == /\ (\E t \in Tasks : Attempt(t)) \/ (\E S \in SUBSET Tasks : Queue!Release(S))
          /\ UNCHANGED <<network, disk, process, tracker>>

\* A request never arrives, finds no daemon or is refused; an answer is lost.
Lost == /\ \E t \in Tasks : \/ t \in posts /\ posts' = posts \ {t} /\ UNCHANGED accepted
                            \/ t \in accepted /\ accepted' = accepted \ {t} /\ UNCHANGED posts
        /\ UNCHANGED <<queue, disk, process, tracker>>

----------------------------------------------------------------------------
(* A service: runService, GenerateFakeFile, UploadFile.                    *)

At(s, from, to) == /\ Up /\ svc[s] = from
                   /\ svc' = [svc EXCEPT ![s] = to]

\* The ticker ticks; after the signal, too, when select finds both cases ready.
Generate(s) == /\ At(s, "idle", "writing")
               /\ \E t \in Tasks : /\ file[t] = "none"
                                   /\ file' = [file EXCEPT ![t] = "partial"]
                                   /\ hand' = [hand EXCEPT ![s] = t]
               /\ UNCHANGED <<world, forgotten, sim, tracker>>

\* The disk is full: what was written stays there.
GenerateFails(s) == /\ At(s, "writing", "idle")
                    /\ forgotten' = forgotten \cup {hand[s]}
                    /\ hand' = [hand EXCEPT ![s] = NoTask]
                    /\ UNCHANGED <<world, file, sim, tracker>>

\* Mutant: the request goes out before the file is written.
PostEarly(s) == /\ At(s, "writing", "posting")
                /\ posts' = posts \cup {hand[s]}
                /\ UNCHANGED <<queue, accepted, disk, sim, hand, tracker>>

Post(s) == /\ At(s, "writing", "posting")
           /\ file' = [file EXCEPT ![hand[s]] = "whole"]
           /\ posts' = posts \cup {hand[s]}
           /\ UNCHANGED <<queue, accepted, forgotten, sim, hand, tracker>>

\* The 202 arrives: AddTask.
Enqueued(s) == /\ At(s, "posting", "idle") /\ hand[s] \in accepted
               /\ accepted' = accepted \ {hand[s]}
               /\ tracked' = tracked \cup {hand[s]}
               /\ hand' = [hand EXCEPT ![s] = NoTask]
               /\ UNCHANGED <<queue, posts, disk, sim, todo, tpc, turn>>

\* Mutant: a file that could not be posted is cleaned up.
PostFailsTidily(s) == /\ At(s, "posting", "idle")
                      /\ file' = [file EXCEPT ![hand[s]] = "removed"]
                      /\ forgotten' = forgotten \cup {hand[s]}
                      /\ hand' = [hand EXCEPT ![s] = NoTask]
                      /\ UNCHANGED <<world, sim, tracker>>

\* No connection, the ten seconds' timeout, another status, a body that does not parse:
\* the task may exist all the same, now or later.
PostFails(s) == /\ At(s, "posting", "idle")
                /\ forgotten' = forgotten \cup {hand[s]}
                /\ hand' = [hand EXCEPT ![s] = NoTask]
                /\ UNCHANGED <<world, file, sim, tracker>>

Returns(s) == /\ sim = "stopping" /\ At(s, "idle", "gone")
              /\ UNCHANGED <<world, disk, sim, hand, tracker>>

ServiceStep(s) == \/ Generate(s) \/ GenerateFails(s) \/ Post(s) \/ Enqueued(s) \/ PostFails(s)
                  \/ Returns(s)

----------------------------------------------------------------------------
(* The tracker: Start, checkTasks, pollTask.                               *)

Move(from, to) == Up /\ tpc = from /\ tpc' = to

\* A tick: the tasks are copied out of the map.
CheckTasks == /\ Move("idle", "next")
              /\ todo' = tracked
              /\ UNCHANGED <<world, disk, process, tracked, turn>>

\* The map's order is any.
Ask(t) == /\ Move("next", "asking") /\ t \in todo
          /\ todo' = todo \ {t}
          /\ asked' = t
          /\ UNCHANGED <<world, disk, process, tracked, answer>>

PassEnds == /\ Move("next", "idle") /\ todo = {}
            /\ UNCHANGED <<world, disk, process, tracked, todo, turn>>

\* handleGetTask reads the row; until the tracker acts on the answer anything may happen.
GetTask == /\ Move("asking", "answered")
           /\ answer' = status[asked]
           /\ UNCHANGED <<world, disk, process, tracked, todo, asked>>

TurnEnds(from) == /\ Move(from, "next")
                  /\ asked' = NoTask /\ answer' = "absent"
                  /\ UNCHANGED <<world, disk, process, todo>>

\* No connection, a timeout, another status than 200: on to the next one.
PollFails == TurnEnds("asking") /\ UNCHANGED tracked

\* Mutant: a failed task is done, too.
Settled == answer \in {"done", "failed"}

IsDone == answer = "done"

\* os.Remove, whose error is ignored.
Remove == /\ Move("answered", "untracking") /\ IsDone
          /\ \/ file' = [file EXCEPT ![asked] = "removed"] /\ UNCHANGED forgotten
             \/ forgotten' = forgotten \cup {asked} /\ UNCHANGED file
          /\ UNCHANGED <<world, process, tracked, todo, turn>>

\* A failed task is let go of, its file retained.
Retain == /\ Move("answered", "untracking") /\ ~IsDone /\ answer = "failed"
          /\ UNCHANGED <<world, disk, process, tracked, todo, turn>>

NotYet == answer \in {"pending", "running"} /\ TurnEnds("answered") /\ UNCHANGED tracked

\* Mutants: the whole copy is taken out of the map; the entry stays.
UntrackAll  == TurnEnds("untracking") /\ tracked' = tracked \ (todo \cup {asked})
KeepTracked == TurnEnds("untracking") /\ UNCHANGED tracked

Untrack == TurnEnds("untracking") /\ tracked' = tracked \ {asked}

TrackerStep == \/ CheckTasks \/ (\E t \in Tasks : Ask(t)) \/ PassEnds \/ GetTask \/ PollFails
               \/ Remove \/ Retain \/ NotYet \/ Untrack

----------------------------------------------------------------------------
(* The simulator's process.  What it tracks is in memory only.             *)

Signal == /\ sim = "up"
          /\ sim' = "stopping"
          /\ UNCHANGED <<world, disk, service, tracker>>

\* It ends after wg.Wait, which the tracker is not asked for, or is killed.
InHand == {hand[s] : s \in Services} \ {NoTask}
Ends == /\ sim' = "down"
        /\ forgotten' = forgotten \cup tracked \cup InHand
        /\ tracked' = {} /\ todo' = {} /\ tpc' = "idle" /\ asked' = NoTask /\ answer' = "absent"
        /\ svc' = [s \in Services |-> "idle"] /\ hand' = [s \in Services |-> NoTask]
        /\ UNCHANGED <<world, file>>

Exit  == sim = "stopping" /\ (\A s \in Services : svc[s] = "gone") /\ Ends
Crash == Up /\ Ends

Boot == /\ sim = "down"
        /\ sim' = "up"
        /\ UNCHANGED <<world, disk, service, tracker>>

Init == /\ Queue!Init
        /\ posts = {} /\ accepted = {}
        /\ file = [t \in Tasks |-> "none"] /\ sim = "down"
        /\ svc = [s \in Services |-> "idle"] /\ hand = [s \in Services |-> NoTask]
        /\ tracked = {} /\ todo = {} /\ tpc = "idle" /\ asked = NoTask /\ answer = "absent"
        /\ forgotten = {}

Next == \/ Daemon \/ (\E t \in Tasks : CreateTask(t)) \/ Lost
        \/ (\E s \in Services : ServiceStep(s)) \/ TrackerStep
        \/ Signal \/ Exit \/ Crash \/ Boot

Spec == Init /\ [][Next]_vars

\* Requests end within the client's timeout, and the ticker ticks.
FairSpec == Spec /\ WF_vars(TrackerStep)

----------------------------------------------------------------------------
(* Properties.                                                             *)

TypeOK ==
    /\ status \in [Tasks -> Queue!Statuses] /\ transferred \subseteq Tasks
    /\ fails \in [Tasks -> 0 .. MaxRetries + 1]
    /\ posts \subseteq Tasks /\ accepted \subseteq Tasks /\ forgotten \subseteq Tasks
    /\ file \in [Tasks -> {"none", "partial", "whole", "removed"}]
    /\ sim \in {"up", "stopping", "down"}
    /\ svc \in [Services -> {"idle", "writing", "posting", "gone"}]
    /\ hand \in [Services -> Tasks \cup {NoTask}]
    /\ \A s \in Services : hand[s] = NoTask <=> svc[s] \in {"idle", "gone"}
    /\ tracked \subseteq Tasks /\ todo \subseteq tracked \ {asked}
    /\ tpc \in {"idle", "next", "asking", "answered", "untracking"}
    /\ IF tpc \in {"idle", "next"} THEN asked = NoTask ELSE asked \in tracked
    /\ tpc = "idle" => todo = {}
    /\ answer \in Queue!Statuses

\* A task that may still be attempted, by this daemon or after its restart, finds its
\* file, whole: the simulator removes none on an old, a lost or a failed answer.
FileThere == \A t \in Tasks : status[t] \in {"pending", "running"} => file[t] = "whole"

\* A file leaves the disk only when it is in the cloud: the tracker acts on an answer that
\* was given before, but the outcome of a task is final.
NothingLost == \A t \in Tasks : file[t] = "removed" => t \in transferred /\ status[t] = "done"

\* A file is left behind for good only if its task failed, the answer to its POST was lost,
\* its removal failed or the simulator ended before it was told; never because a pass of
\* the tracker overlapped with a service that added a task.
LeaksAccounted ==
    \A t \in Tasks : file[t] \in {"partial", "whole"} =>
                        t \in tracked \cup InHand \cup forgotten \/ status[t] = "failed"

\* What the proof carries besides: a request is sent for a file that is written, and none
\* before; services have files of their own, which the tracker knows nothing of; and the
\* answer it is about to act on is still true.
Sent ==
    /\ \A t \in Tasks : file[t] \in {"none", "partial"} => t \notin posts /\ status[t] = "absent"
    /\ \A t \in posts : status[t] = "absent" /\ file[t] = "whole"
    /\ \A t \in accepted \cup tracked : status[t] # "absent"
    /\ \A t \in Tasks : status[t] = "done" => t \in transferred
InHands ==
    /\ \A r, s \in Services : hand[r] = hand[s] /\ hand[r] # NoTask => r = s
    /\ \A s \in Services :
          /\ hand[s] \notin tracked
          /\ svc[s] = "writing" => file[hand[s]] = "partial"
          /\ svc[s] = "posting" => file[hand[s]] = "whole"
StillTrue ==
    /\ tpc = "answered" /\ answer \in {"done", "failed"} => status[asked] = answer
    /\ tpc = "untracking" => \/ status[asked] = "failed"
                             \/ asked \in forgotten \/ file[asked] = "removed"

\* The inductive invariant.
IInv == /\ TypeOK /\ FileThere /\ NothingLost /\ LeaksAccounted
        /\ Sent /\ InHands /\ StillTrue

\* The tracker stops asking about a task when it has read its outcome, whatever was added,
\* lost or answered late meanwhile, or with the process.
Finished(t) == status[t] \in {"done", "failed"}
LetGoFinished == [][\A t \in tracked \ tracked' : Finished(t) \/ sim' = "down"]_vars

\* A simulator that stays up lets go of every finished task, once polls are answered.
StaysUp == <>[](sim = "up")
Answered == <>[][~PollFails]_vars
LetsGo == StaysUp /\ Answered =>
              \A t \in Tasks : t \in tracked /\ status[t] \in {"done", "failed"} ~> t \notin tracked
=============================================================================
