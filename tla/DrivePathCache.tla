--------------------------- MODULE DrivePathCache ---------------------------
(***************************************************************************)
(* The Google Drive adapter (storage/googledrive.go) as the workers of the *)
(* pool use it: GetPathID resolves a path, folder by folder, through the   *)
(* path_cache table and the Drive API, and creates the folders an upload   *)
(* lacks; then one file is created or fetched.  Drive knows objects by id: *)
(* a folder may hold several objects of one name.                          *)
(*                                                                         *)
(* Each API call and each SQL statement is a step, so that the workers,    *)
(* and a person who deletes things in Drive, may come in between.  Paths   *)
(* are those resolveRemotePath returns: rootDir, then the parts of the     *)
(* task's remote_path, of which "/" has none.                              *)
(***************************************************************************)
EXTENDS Naturals, Sequences, FiniteSets

CONSTANTS
    Workers,
    Tasks,       \* records [op : {"upload", "download"}, path : Seq of names]
    Batches,     \* bound: the sets of tasks the queue may have
    Idle,        \* what a worker without a task holds
    MaxRetries,  \* max_retries of a task
    MaxFaults,   \* bound: calls that fail for no reason of their own
    MaxDeletes   \* bound: deletions in Drive

\* What the parts of the paths are called.
Names == UNION {{t.path[n] : n \in 1 .. Len(t.path)} : t \in Tasks}

ASSUME TasksAssumption == \A t \in Tasks : /\ t.op \in {"upload", "download"}
                                          /\ t.path \in Seq(Names) /\ Len(t.path) > 0
ASSUME BatchesAssumption == Batches \subseteq SUBSET Tasks
ASSUME IdleAssumption  == Idle \notin Tasks
ASSUME BoundsAssumption == MaxRetries \in Nat /\ MaxFaults \in Nat /\ MaxDeletes \in Nat

VARIABLES
    drive,    \* the objects ever created, in order; the id of an object is its place
    gone,     \* ids of deleted objects
    cache,    \* path_cache: Paths -> id, or Root for no row
    todo,     \* tasks neither completed nor failed: the queue brings them back
    retries,  \* their retry_count
    job, pc,  \* the task each worker holds, and where it is in Upload or Download
    at,       \* the loop of GetPathID: parts resolved so far, and currentID
    \* history
    landed,   \* <<task, id>> of the files uploads have created and downloads have fetched
    raced,    \* a folder was created that another worker was about to create
    faults, deletes

Objects == [name : Names, parent : Nat, folder : BOOLEAN]

remote  == <<drive, gone>>
calls   == <<job, pc, at>>
history == <<landed, raced, faults, deletes>>
tasks   == <<todo, retries>>
vars    == <<remote, cache, tasks, calls, history>>

Root == 0
Ids  == 1 .. Len(drive)
Live == Ids \ gone

\* An object that can be named as a parent.
Holds(id) == id = Root \/ (id \in Live /\ drive[id].folder)

\* What GetPathID is asked for: the parent of an upload, the file of a download.
Target(t) == IF t.op = "upload" THEN SubSeq(t.path, 1, Len(t.path) - 1) ELSE t.path

Paths == UNION {{SubSeq(t.path, 1, n) : n \in 1 .. Len(t.path)} : t \in Tasks}

Goto(w, to) == pc' = [pc EXCEPT ![w] = to]

Start == [i |-> 0, id |-> Root]

Leave(w) == /\ Goto(w, "idle")
            /\ job' = [job EXCEPT ![w] = Idle]
            /\ at' = [at EXCEPT ![w] = Start]

\* The call gives an error: handleFailure brings the task back while it has retries.
GiveBack(w) == LET t == job[w] IN
    /\ Leave(w)
    /\ IF retries[t] < MaxRetries
       THEN retries' = [retries EXCEPT ![t] = @ + 1] /\ UNCHANGED todo
       ELSE todo' = todo \ {t} /\ UNCHANGED retries

----------------------------------------------------------------------------
\* Mutant: a task that another worker holds is handed out again.
TakeHeld(w) == /\ pc[w] = "idle"
               /\ \E t \in todo : job' = [job EXCEPT ![w] = t]
               /\ Goto(w, "lookup")
               /\ UNCHANGED <<remote, cache, tasks, at, history>>

Take(w) == /\ pc[w] = "idle"
           /\ \E t \in todo : /\ \A v \in Workers : job[v] # t
                              /\ job' = [job EXCEPT ![w] = t]
           /\ Goto(w, "lookup")
           /\ UNCHANGED <<remote, cache, tasks, at, history>>

\* GetPathID("/") is "root", of which the cache has no row.
Lookup(w) ==
    LET p  == Target(job[w])
        id == IF p = <<>> THEN Root ELSE cache[p] IN
    /\ pc[w] = "lookup"
    /\ IF p = <<>> \/ id # Root
       THEN Goto(w, "transferring") /\ at' = [at EXCEPT ![w] = [i |-> 0, id |-> id]]
       ELSE Goto(w, "listing") /\ UNCHANGED at
    /\ UNCHANGED <<remote, cache, tasks, job, history>>

\* The part of the path the loop of GetPathID is at.
Part(w) == Target(job[w])[at[w].i + 1]

Reach(w, id) == at' = [at EXCEPT ![w] = [i |-> @.i + 1, id |-> id]]

\* Mutant: "in parents" is left out of the query.
FoundAnywhere(w) == {o \in Live : drive[o].name = Part(w)}

\* files.list: the first part is any folder of that name, wherever it is; the others are
\* the children of the object before, files and folders alike.
Found(w) == {o \in Live : /\ drive[o].name = Part(w)
                          /\ IF at[w].id = Root THEN drive[o].folder
                                                ELSE drive[o].parent = at[w].id}

\* Mutants: nothing is ever found; nothing is ever created.
ListNothing(w) == /\ pc[w] = "listing"
                  /\ Goto(w, "creating")
                  /\ UNCHANGED <<remote, cache, tasks, job, at, history>>
ListOnly(w) == /\ pc[w] = "listing"
               /\ \/ /\ \E o \in Found(w) : Reach(w, o) /\ Goto(w, "saving")
                     /\ UNCHANGED <<job, tasks>>
                  \/ Found(w) = {} /\ GiveBack(w)
               /\ UNCHANGED <<remote, cache, history>>

\* Files[0]: Drive promises no order.
List(w) ==
    /\ pc[w] = "listing"
    /\ \/ \E o \in Found(w) : Reach(w, o) /\ Goto(w, "saving") /\ UNCHANGED <<job, tasks>>
       \/ /\ Found(w) = {}
          /\ IF job[w].op = "upload" THEN Goto(w, "creating") /\ UNCHANGED <<job, tasks, at>>
                                     ELSE GiveBack(w)
    /\ UNCHANGED <<remote, cache, history>>

NewObject(w, name, folder) ==
    drive' = Append(drive, [name |-> name, parent |-> at[w].id, folder |-> folder])

NewFolder(w) ==
    /\ NewObject(w, Part(w), TRUE)
    /\ raced' = (raced \/ \E v \in Workers \ {w} :
                     pc[v] = "creating" /\ at[v].id = at[w].id /\ Part(v) = Part(w))

\* Mutant: a folder that was created is looked for once more.
CreateAndList(w) ==
    /\ pc[w] = "creating"
    /\ IF Holds(at[w].id)
       THEN NewFolder(w) /\ Goto(w, "listing") /\ UNCHANGED <<job, at, tasks>>
       ELSE GiveBack(w) /\ UNCHANGED <<drive, raced>>
    /\ UNCHANGED <<gone, cache, landed, faults, deletes>>

\* files.create of a folder.  A parent that is gone, or is a file, gives an error.
Create(w) ==
    /\ pc[w] = "creating"
    /\ IF Holds(at[w].id)
       THEN NewFolder(w) /\ Reach(w, Len(drive')) /\ Goto(w, "saving") /\ UNCHANGED <<job, tasks>>
       ELSE GiveBack(w) /\ UNCHANGED <<drive, raced>>
    /\ UNCHANGED <<gone, cache, landed, faults, deletes>>

\* Mutant: the row is written for the whole path from the first part on.
SaveTarget(w) ==
    /\ pc[w] = "saving"
    /\ cache' = [cache EXCEPT ![Target(job[w])] = at[w].id]
    /\ Goto(w, IF at[w].i = Len(Target(job[w])) THEN "transferring" ELSE "listing")
    /\ UNCHANGED <<remote, tasks, job, at, history>>

\* INSERT OR REPLACE INTO path_cache; its error is ignored.
Save(w) ==
    /\ pc[w] = "saving"
    /\ \/ /\ cache' = [cache EXCEPT ![SubSeq(Target(job[w]), 1, at[w].i)] = at[w].id]
          /\ UNCHANGED faults
       \/ /\ faults < MaxFaults
          /\ faults' = faults + 1
          /\ UNCHANGED cache
    /\ Goto(w, IF at[w].i = Len(Target(job[w])) THEN "transferring" ELSE "listing")
    /\ UNCHANGED <<remote, tasks, job, at, landed, raced, deletes>>

FileName(t) == t.path[Len(t.path)]

\* The file is created, or fetched: however many requests that takes, it changes nothing here
\* before the last of them.  ChunkedDownload has the requests of a download; those of a long
\* upload are the client library's.  An object that is gone gives an error, and the row of the
\* cache that led to it stays.
Transfer(w) ==
    LET t == job[w] IN
    /\ pc[w] = "transferring"
    /\ \/ /\ t.op = "upload" /\ Holds(at[w].id)
          /\ NewObject(w, FileName(t), FALSE)
          /\ landed' = landed \cup {<<t, Len(drive')>>}
          /\ todo' = todo \ {t} /\ UNCHANGED retries /\ Leave(w)
       \/ /\ t.op = "download" /\ at[w].id \in Live /\ ~drive[at[w].id].folder
          /\ landed' = landed \cup {<<t, at[w].id>>}
          /\ todo' = todo \ {t} /\ UNCHANGED <<retries, drive>> /\ Leave(w)
       \/ /\ IF t.op = "upload" THEN ~Holds(at[w].id)
                                 ELSE at[w].id \notin Live \/ drive[at[w].id].folder
          /\ GiveBack(w) /\ UNCHANGED <<drive, landed>>
    /\ UNCHANGED <<gone, cache, raced, faults, deletes>>

\* The local file, the cache or an API call fails.  The object that a call was to create
\* may be there all the same.
CallLost(w) ==
    /\ pc[w] \in {"lookup", "listing", "creating", "transferring"}
    /\ faults < MaxFaults
    /\ faults' = faults + 1
    /\ GiveBack(w)
    /\ \/ UNCHANGED <<drive, raced>>
       \/ pc[w] = "creating" /\ Holds(at[w].id) /\ NewFolder(w)
       \/ /\ pc[w] = "transferring" /\ job[w].op = "upload" /\ Holds(at[w].id)
          /\ NewObject(w, FileName(job[w]), FALSE)
          /\ UNCHANGED raced
    /\ UNCHANGED <<gone, cache, landed, deletes>>

\* An object and the folders it is in.
Line == LET up[o \in {Root} \cup Ids] == IF o = Root THEN {} ELSE {o} \cup up[drive[o].parent]
        IN  up

\* Someone deletes an object in Drive, with all that is in it.
Delete == /\ deletes < MaxDeletes
          /\ deletes' = deletes + 1
          /\ \E o \in Live : gone' = gone \cup {x \in Ids : o \in Line[x]}
          /\ UNCHANGED <<drive, cache, tasks, calls, landed, raced, faults>>

----------------------------------------------------------------------------
Init == /\ drive = <<>> /\ gone = {}
        /\ cache = [p \in Paths |-> Root]
        /\ todo \in Batches /\ retries = [t \in Tasks |-> 0]
        /\ job = [w \in Workers |-> Idle] /\ pc = [w \in Workers |-> "idle"]
        /\ at = [w \in Workers |-> Start]
        /\ landed = {} /\ raced = FALSE /\ faults = 0 /\ deletes = 0

WorkerStep(w) == \/ Take(w) \/ Lookup(w) \/ List(w) \/ Create(w) \/ Save(w) \/ Transfer(w)

Next == (\E w \in Workers : WorkerStep(w) \/ CallLost(w)) \/ Delete

Spec == Init /\ [][Next]_vars

\* The pool's workers go on; a call ends one way or another.
FairSpec == Spec /\ \A w \in Workers : WF_vars(WorkerStep(w))

----------------------------------------------------------------------------
(* Properties.                                                             *)

TypeOK ==
    /\ drive \in Seq(Objects) /\ \A o \in Ids : drive[o].parent < o
    /\ gone \subseteq Ids
    /\ todo \subseteq Tasks /\ retries \in [Tasks -> 0 .. MaxRetries]
    /\ cache \in [Paths -> {Root} \cup Ids]
    /\ job \in [Workers -> Tasks \cup {Idle}]
    /\ pc \in [Workers -> {"idle", "lookup", "listing", "creating", "saving", "transferring"}]
    /\ \A w \in Workers : pc[w] = "idle" <=> job[w] = Idle
    /\ at \in [Workers -> [i : Nat, id : {Root} \cup Ids]]
    /\ landed \subseteq Tasks \X Ids
    /\ raced \in BOOLEAN /\ faults \in 0 .. MaxFaults /\ deletes \in 0 .. MaxDeletes

\* Among the objects d, o is reached by the path p: up are the objects of its parts before
\* the last.  The first part is a folder, anywhere.
IsAt(d, o, p) ==
    /\ o \in 1 .. Len(d) /\ d[o].name = p[Len(p)]
    /\ \E up \in [1 .. Len(p) - 1 -> 1 .. Len(d)] :
          /\ \A n \in 1 .. Len(p) - 1 : d[up[n]].name = p[n]
          /\ \A n \in 2 .. Len(p) - 1 : d[up[n]].parent = up[n - 1]
          /\ IF Len(p) = 1 THEN d[o].folder
                           ELSE d[up[1]].folder /\ d[o].parent = up[Len(p) - 1]

\* A row of the cache names an object that is, or was, at its path, although several
\* workers write rows for the same path and errors leave some out.
CacheSound == \A p \in Paths : cache[p] # Root => IsAt(drive, cache[p], p)

\* ... is a file there.  A path of one part names a file in the root itself.
FileAt(d, o, p) == IF Len(p) = 1 THEN /\ o \in 1 .. Len(d)
                                      /\ d[o].name = p[1] /\ d[o].parent = Root /\ ~d[o].folder
                                 ELSE IsAt(d, o, p) /\ ~d[o].folder

\* A file is put where the task says, and a download takes the file the task names,
\* whatever the cache held and other workers created meanwhile.
RightPlace == \A l \in landed : FileAt(drive, l[2], l[1].path)

\* How many copies of a file Drive holds.  A task lands once, so the retries that follow an
\* error never add to what one of them has done; and a file that no upload was credited with is
\* that of a call whose answer was lost, at the path of a task, one for each fault at most.
Credited == {l[2] : l \in {m \in landed : m[1].op = "upload"}}
Stray    == {o \in Ids : ~drive[o].folder} \ Credited

OneCopy == /\ \A l, m \in landed : l[1] = m[1] => l = m
           /\ Cardinality(Stray) <= faults
           /\ \A o \in Stray : \E t \in Tasks : t.op = "upload" /\ FileAt(drive, o, t.path)

\* The calls GetPathID may still make for a task, a list and a create for each part of its
\* path.  They all go on the one token the rate limiter gave the task, so the provider sees
\* more calls than the limiter counts; but every call brings GetPathID closer to its end,
\* whatever Drive answers.  The requests for the file itself come on top (see Transfer).
CallsLeft(w) == LET left == Len(Target(job[w])) - at[w].i IN
    CASE pc[w] \in {"lookup", "listing", "saving"} -> 2 * left
      [] pc[w] = "creating"                         -> 2 * left - 1
      [] pc[w] \in {"idle", "transferring"}         -> 0

RunsDown(w) == /\ CallsLeft(w)' \in 0 .. CallsLeft(w)
               /\ pc[w] \in {"listing", "creating"} /\ pc'[w] # pc[w]
                     => CallsLeft(w)' # CallsLeft(w)

CallsRunDown == [][\A w \in Workers : pc[w] # "idle" => RunsDown(w)]_vars

\* A folder exists once, over failed calls, lost answers and deletions, unless two workers
\* created it at the same time: nothing but that splits a directory in two.
OneFolder == raced \/ \A a, b \in Live :
                /\ drive[a].folder /\ drive[b].folder
                /\ drive[a].name = drive[b].name /\ drive[a].parent = drive[b].parent
                => a = b

\* The proof carries besides where GetPathID is: the object it has come to is at the part of
\* the path it has resolved, and the folder it is about to create is missing unless another
\* worker was about to create it too.
Resolved(w) == SubSeq(Target(job[w]), 1, at[w].i)

Underway(w) ==
    /\ pc[w] \in {"idle", "lookup"} => at[w] = Start
    /\ pc[w] \in {"listing", "creating"} => /\ at[w].i < Len(Target(job[w]))
                                            /\ IF at[w].i = 0 THEN at[w].id = Root
                                               ELSE IsAt(drive, at[w].id, Resolved(w))
    /\ pc[w] = "saving" => /\ at[w].i \in 1 .. Len(Target(job[w]))
                           /\ IsAt(drive, at[w].id, Resolved(w))
    /\ pc[w] = "transferring" => IF Target(job[w]) = <<>> THEN at[w].id = Root
                                  ELSE IsAt(drive, at[w].id, Target(job[w]))

StillMissing(w) ==
    pc[w] = "creating" => \A o \in Live : drive[o].folder =>
                              ~(drive[o].name = Part(w) /\ drive[o].parent = at[w].id)

\* The inductive invariant.
IInv == /\ TypeOK /\ CacheSound /\ RightPlace /\ OneFolder
        /\ \A w \in Workers : Underway(w) /\ (raced \/ StillMissing(w))

\* While nobody deletes anything in Drive, every upload succeeds in the end, over a fault for
\* each retry it has, whoever creates the folders and whichever tasks the queue begins with.
Landed(b) == \A t \in b : t.op = "upload" => \E l \in landed : l[1] = t

UploadsSucceed == \A b \in Batches : todo = b => <>(gone # {} \/ Landed(b))

\* "Cache는 보조 수단이며(Advisory)" (docs/storage.md:25): the cache is advisory.  So every
\* upload succeeds, deletions or not: folders that are gone are created again.
CacheIsAdvisory == \A b \in Batches : todo = b => <>Landed(b)
=============================================================================
