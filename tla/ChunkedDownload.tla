-------------------------- MODULE ChunkedDownload --------------------------
(***************************************************************************)
(* GoogleDriveAdapter.Download (storage/googledrive.go): the workers fetch *)
(* remote files into local ones by ranges of chunkSize bytes.  Jobs may    *)
(* have one local path in common - no code compares them - and a remote    *)
(* file may get new content while it is fetched.  A failed call is made    *)
(* again from the start (worker/pool.go).                                  *)
(*                                                                         *)
(* A position stands for what io.Copy moves in one piece.  A file is what  *)
(* was written at each position since it was truncated: each call has a    *)
(* file descriptor, and an offset in the file, of its own.                 *)
(***************************************************************************)
EXTENDS Naturals

CONSTANTS
    Jobs,        \* the download tasks
    Dest,        \* Jobs -> the local path of each
    Source,      \* Jobs -> the remote file of each
    MaxEdits,    \* bound: the content of a remote file changes this often at most
    Length,      \* the length of each version of each remote file
    MaxLength,   \* bound on the lengths
    Chunk,       \* chunkSize, in positions
    MaxRetries,  \* storage.google_drive.retry_max_attempts
    Blank        \* nothing was written here: a zero byte, or past the end

Paths    == {Dest[j] : j \in Jobs}
Objects  == {Source[j] : j \in Jobs}
Versions == 0 .. MaxEdits
Positions == 1 .. MaxLength

ASSUME DestAssumption == Dest \in [Jobs -> Paths] /\ Source \in [Jobs -> Objects]
ASSUME SizesAssumption ==
    /\ MaxEdits \in Nat /\ MaxLength \in Nat /\ MaxRetries \in Nat /\ Chunk \in Nat \ {0}
    /\ Length \in [Objects -> [Versions -> 0 .. MaxLength]]

\* The byte at a position of a version of a remote file.
Byte(o, v, i) == [file |-> o, version |-> v, at |-> i]
Bytes == [file : Objects, version : Versions, at : Positions]
ASSUME BlankAssumption == Blank \notin Bytes

VARIABLES
    live,      \* the daemon's context is not cancelled
    version,   \* Objects -> the version Drive has
    local,     \* Paths -> the bytes in the local file
    pc,        \* "idle", "requesting", "copying", "error", "done" or "failed"
    offset,    \* the variable of Download: where the next range begins
    pos,       \* the offset of the file descriptor: bytes written by this call
    end,       \* the last position of the response's body
    seen,      \* the version the call reads
    tries,     \* retry_count
    \* history
    faults,    \* Jobs -> requests, writes and opens that failed
    disturbed  \* see FileDelivery

call    == <<offset, pos, end, seen>>
history == <<faults, disturbed>>
vars    == <<live, version, local, pc, call, tries, history>>

Content(o, v) == [i \in Positions |-> IF i <= Length[o][v] THEN Byte(o, v, i) ELSE Blank]

\* The size of the remote file as it is now.
Size(j) == Length[Source[j]][version[Source[j]]]

Sharing(j) == {k \in Jobs \ {j} : Dest[k] = Dest[j]}
InFlight(j) == pc[j] \in {"requesting", "copying"}

Goto(j, to) == pc' = [pc EXCEPT ![j] = to]

----------------------------------------------------------------------------
\* Mutant: O_CREATE without O_TRUNC.
OpenNoTruncate(j) ==
    /\ pc[j] = "idle" /\ live
    /\ Goto(j, "requesting")
    /\ offset' = [offset EXCEPT ![j] = 0] /\ pos' = [pos EXCEPT ![j] = 0]
    /\ seen' = [seen EXCEPT ![j] = version[Source[j]]]
    /\ disturbed' = (disturbed \ {j}) \cup Sharing(j)
    /\ UNCHANGED <<live, version, local, end, tries, faults>>

\* GetPathID found the file, and os.Create truncates what was at the path, whoever is
\* writing or has written it.
Open(j) ==
    /\ pc[j] = "idle" /\ live
    /\ Goto(j, "requesting")
    /\ local' = [local EXCEPT ![Dest[j]] = [i \in Positions |-> Blank]]
    /\ offset' = [offset EXCEPT ![j] = 0] /\ pos' = [pos EXCEPT ![j] = 0]
    /\ seen' = [seen EXCEPT ![j] = version[Source[j]]]
    /\ disturbed' = (disturbed \ {j}) \cup Sharing(j)
    /\ UNCHANGED <<live, version, end, tries, faults>>

Fault(j) == /\ Goto(j, "error")
            /\ faults' = [faults EXCEPT ![j] = @ + 1]
            /\ UNCHANGED <<live, version, local, call, tries, disturbed>>

\* The path is not found, the local directory is missing, the context is cancelled.
OpenFails(j) == pc[j] = "idle" /\ Fault(j)

\* A range that begins inside the file is answered with the bytes there are of it.  The
\* request has no context: it is made after the signal as well as before.
Request(j) ==
    /\ pc[j] = "requesting" /\ offset[j] < Size(j)
    /\ Goto(j, "copying")
    /\ seen' = [seen EXCEPT ![j] = version[Source[j]]]
    /\ end' = [end EXCEPT ![j] = IF offset[j] + Chunk < Size(j) THEN offset[j] + Chunk
                                                                ELSE Size(j)]
    /\ UNCHANGED <<live, version, local, offset, pos, tries, history>>

\* Mutant: 416 is an error like any other.
PastEndIsError(j) == /\ pc[j] = "requesting" /\ offset[j] >= Size(j)
                     /\ Goto(j, "error")
                     /\ UNCHANGED <<live, version, local, call, tries, history>>

\* 416 Range Not Satisfiable, or a body of no bytes: the file ended with the last chunk.
PastEnd(j) == /\ pc[j] = "requesting" /\ offset[j] >= Size(j)
              /\ Goto(j, "done")
              /\ UNCHANGED <<live, version, local, call, tries, history>>

\* Mutant: O_APPEND.
Appended(j) == LET free == {i \in Positions : local[Dest[j]][i] = Blank} IN
    /\ pc[j] = "copying" /\ pos[j] < end[j] /\ free # {}
    /\ local' = [local EXCEPT ![Dest[j]][CHOOSE i \in free : \A k \in free : i <= k] =
                                   Byte(Source[j], seen[j], pos[j] + 1)]
    /\ pos' = [pos EXCEPT ![j] = @ + 1]
    /\ disturbed' = disturbed \cup Sharing(j)
    /\ UNCHANGED <<live, version, pc, offset, end, seen, tries, faults>>

\* One write of io.Copy, at the descriptor's own offset.
Copy(j) ==
    /\ pc[j] = "copying" /\ pos[j] < end[j]
    /\ local' = [local EXCEPT ![Dest[j]][pos[j] + 1] = Byte(Source[j], seen[j], pos[j] + 1)]
    /\ pos' = [pos EXCEPT ![j] = @ + 1]
    /\ disturbed' = disturbed \cup Sharing(j)
    /\ UNCHANGED <<live, version, pc, offset, end, seen, tries, faults>>

\* The request is refused, the connection breaks in the body, the disk is full: the
\* local file stays as it is.
TransferFails(j) == InFlight(j) /\ Fault(j)

\* Mutants: a full chunk is taken for the last one; only an empty one is; the next range
\* begins where this did.
FullChunkIsLast(n) == n <= Chunk
EmptyChunkIsLast(n) == n = 0
ChunkAgain(j) == /\ pc[j] = "copying" /\ pos[j] = end[j]
                 /\ Goto(j, IF pos[j] - offset[j] < Chunk THEN "done" ELSE "requesting")
                 /\ pos' = [pos EXCEPT ![j] = offset[j]]
                 /\ UNCHANGED <<live, version, local, offset, end, seen, tries, history>>

\* "If we downloaded less than chunkSize, we've reached the end of the file".
ShortChunk(n) == n < Chunk

ChunkEnds(j) ==
    /\ pc[j] = "copying" /\ pos[j] = end[j]
    /\ offset' = [offset EXCEPT ![j] = pos[j]]
    /\ Goto(j, IF ShortChunk(pos[j] - offset[j]) THEN "done" ELSE "requesting")
    /\ UNCHANGED <<live, version, local, pos, end, seen, tries, history>>

\* handleFailure, after the backoff; the task comes back from the queue.
Retry(j) == /\ pc[j] = "error" /\ live /\ tries[j] < MaxRetries
            /\ tries' = [tries EXCEPT ![j] = @ + 1]
            /\ Goto(j, "idle")
            /\ UNCHANGED <<live, version, local, call, history>>

GiveUp(j) == /\ pc[j] = "error" /\ tries[j] >= MaxRetries
             /\ Goto(j, "failed")
             /\ UNCHANGED <<live, version, local, call, tries, history>>

Signal == /\ live
          /\ live' = FALSE
          /\ UNCHANGED <<version, local, pc, call, tries, history>>

\* Somebody saves the remote file anew.
Edit(o) == /\ version[o] < MaxEdits
           /\ version' = [version EXCEPT ![o] = @ + 1]
           /\ disturbed' = disturbed \cup {j \in Jobs : Source[j] = o /\ InFlight(j)}
           /\ UNCHANGED <<live, local, pc, call, tries, faults>>

----------------------------------------------------------------------------
Init == /\ live = TRUE
        /\ version = [o \in Objects |-> 0]
        /\ local = [f \in Paths |-> [i \in Positions |-> Blank]]
        /\ pc = [j \in Jobs |-> "idle"]
        /\ offset = [j \in Jobs |-> 0] /\ pos = [j \in Jobs |-> 0]
        /\ end = [j \in Jobs |-> 0] /\ seen = [j \in Jobs |-> 0]
        /\ tries = [j \in Jobs |-> 0] /\ faults = [j \in Jobs |-> 0]
        /\ disturbed = {}

Download(j) == \/ Open(j) \/ OpenFails(j) \/ Request(j) \/ PastEnd(j) \/ Copy(j)
               \/ TransferFails(j) \/ ChunkEnds(j)

Next == \/ \E j \in Jobs : Download(j) \/ Retry(j) \/ GiveUp(j)
        \/ Signal
        \/ \E o \in Objects : Edit(o)

Spec == Init /\ [][Next]_vars

\* Drive answers, with an answer or an error, and the worker goes on.
FairSpec == Spec /\ \A j \in Jobs : WF_vars(Download(j))

----------------------------------------------------------------------------
(* Properties.                                                             *)

TypeOK ==
    /\ live \in BOOLEAN
    /\ version \in [Objects -> Versions] /\ seen \in [Jobs -> Versions]
    /\ local \in [Paths -> [Positions -> Bytes \cup {Blank}]]
    /\ pc \in [Jobs -> {"idle", "requesting", "copying", "error", "done", "failed"}]
    /\ offset \in [Jobs -> 0 .. MaxLength] /\ pos \in [Jobs -> 0 .. MaxLength]
    /\ end \in [Jobs -> 0 .. MaxLength]
    /\ tries \in [Jobs -> 0 .. MaxRetries] /\ faults \in [Jobs -> Nat]
    /\ disturbed \subseteq Jobs

Complete(j) == local[Dest[j]] = Content(Source[j], seen[j])

\* A download that is reported as done has left the remote file at its path, to the last
\* byte and nothing after it, whatever earlier attempts had left there - unless another
\* job wrote that path meanwhile or the remote file changed between two of its chunks,
\* which nothing in the code notices.
DoneIsWhole == \A j \in Jobs : pc[j] = "done" => j \in disturbed \/ Complete(j)

\* Downloads that write one path at once may leave holes and mix their files, but each
\* byte is where it belongs: no chunk is ever written at another's place.
BytesInPlace ==
    \A f \in Paths : \A i \in Positions :
        local[f][i] # Blank =>
            /\ local[f][i].at = i
            /\ \E j \in Jobs : Dest[j] = f /\ Source[j] = local[f][i].file

\* A download is counted as failed only for failures: to probe past the end, as Download
\* does for a file whose length is a multiple of chunkSize, is none.
FailuresAreFaults ==
    \A j \in Jobs : faults[j] = tries[j] + (IF pc[j] \in {"error", "failed"} THEN 1 ELSE 0)

\* What the proofs carry besides.  The descriptor is at the offset, or in the chunk that
\* begins there and ends with it or with the file; what a job nobody has disturbed has
\* written so far is the beginning of the file Drive has.
Ranges ==
    \A j \in Jobs :
        /\ pc[j] = "requesting" => /\ pos[j] = offset[j]
                                   /\ pos[j] <= Length[Source[j]][seen[j]]
        /\ pc[j] = "copying" =>
              /\ offset[j] <= pos[j] /\ pos[j] <= end[j] /\ offset[j] < end[j]
              /\ end[j] <= Length[Source[j]][seen[j]]
              /\ end[j] < offset[j] + Chunk => end[j] = Length[Source[j]][seen[j]]
              /\ end[j] <= offset[j] + Chunk

Prefix(j) == /\ seen[j] = version[Source[j]]
             /\ pos[j] <= Length[Source[j]][seen[j]]
             /\ local[Dest[j]] = [i \in Positions |->
                                    IF i <= pos[j] THEN Byte(Source[j], seen[j], i) ELSE Blank]

Undisturbed == \A j \in Jobs \ disturbed : InFlight(j) => Prefix(j)

\* The inductive invariant.
IInv == /\ TypeOK /\ DoneIsWhole /\ BytesInPlace /\ FailuresAreFaults
        /\ Ranges /\ Undisturbed

\* Download keeps the promise of FileDelivery.
CallOf(j) == CASE pc[j] = "idle"              -> "idle"
               [] InFlight(j)                 -> "running"
               [] pc[j] = "done"              -> "ok"
               [] pc[j] \in {"error", "failed"} -> "error"

Delivery == INSTANCE FileDelivery WITH
                call <- [j \in Jobs |-> CallOf(j)],
                intact <- {j \in Jobs : Complete(j)}

ImplementsDelivery == Delivery!Spec

\* The chunk loop nears its end with every request and every write, however the remote file
\* changes between two chunks: no answer sends it back, and no chunk is fetched for nothing.
StepsLeft(j) ==
    CASE pc[j] = "requesting" -> 3 * (MaxLength - pos[j]) + 1
      [] pc[j] = "copying"    -> 3 * (MaxLength - pos[j]) + (IF pos[j] = offset[j] THEN 0 ELSE 2)
      [] OTHER                -> 0

NearsEnd(j) == /\ StepsLeft(j)' \in 0 .. StepsLeft(j)
               /\ <<pc[j], pos[j]>>' # <<pc[j], pos[j]>> => StepsLeft(j)' # StepsLeft(j)

LoopRunsDown == [][\A j \in Jobs : InFlight(j) => NearsEnd(j)]_vars

\* What the requests of a call may still ask for, when no version of the file is longer than
\* n: a chunk each, and an empty one at the end.  So a call makes n \div Chunk + 1 requests at
\* most, whatever it meets, all on the one token the limiter gave the task (pool.go:65): one
\* for each full chunk, and one that is short or finds that the file has ended.
Due(j, n) == CASE pc[j] = "requesting" -> n - offset[j] + Chunk
               [] pc[j] = "copying"    -> n - offset[j]
               [] OTHER                -> 0

Fits(j, n) == \A v \in Versions : Length[Source[j]][v] <= n

AsksLess(j, n) == /\ Due(j, n)' \in 0 .. Due(j, n)
                  /\ pc[j] = "requesting" /\ pc'[j] # pc[j] => Due(j, n)' + Chunk <= Due(j, n)

RequestsRunDown ==
    [][\A j \in Jobs, n \in 0 .. MaxLength : InFlight(j) /\ Fits(j, n) => AsksLess(j, n)]_vars

\* Every call of Download comes to an end.
CallReturns == \A j \in Jobs : InFlight(j) ~> ~InFlight(j)
=============================================================================
