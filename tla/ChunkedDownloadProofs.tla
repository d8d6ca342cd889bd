----------------------- MODULE ChunkedDownloadProofs -----------------------
(***************************************************************************)
(* Proofs about ChunkedDownload, for any number of jobs, any sharing of    *)
(* paths and remote files, any lengths and any chunk size: what Download   *)
(* leaves on the disk, and that it keeps the promise of FileDelivery.      *)
(***************************************************************************)
EXTENDS ChunkedDownload, TLAPS

LEMMA Squeeze == \A a, b \in Nat : a >= b /\ a <= b => a = b
OBVIOUS

LEMMA UpToNext == \A i, p \in Nat : (i <= p + 1) <=> (i <= p \/ i = p + 1)
OBVIOUS

USE DestAssumption, SizesAssumption, BlankAssumption

----------------------------------------------------------------------------
(* Lemmas about lengths and bytes.                                         *)

LEMMA LengthType == \A o \in Objects, v \in Versions : Length[o][v] \in 0 .. MaxLength
OBVIOUS

LEMMA JobTypes == \A j \in Jobs : Dest[j] \in Paths /\ Source[j] \in Objects
BY DEF Paths, Objects

LEMMA SizeType == ASSUME TypeOK, NEW j \in Jobs
                  PROVE  Size(j) \in 0 .. MaxLength /\ version[Source[j]] \in Versions
BY LengthType, JobTypes DEF Size, TypeOK

LEMMA ByteFacts == ASSUME NEW o \in Objects, NEW v \in Versions, NEW i \in Positions
                   PROVE  /\ Byte(o, v, i) \in Bytes /\ Byte(o, v, i) # Blank
                          /\ Byte(o, v, i).at = i /\ Byte(o, v, i).file = o
BY DEF Byte, Bytes

\* A file written to its end is the remote file.
LEMMA PrefixComplete == ASSUME NEW j \in Jobs, Prefix(j), pos[j] = Length[Source[j]][seen[j]]
                        PROVE  Complete(j)
BY DEF Prefix, Complete, Content

----------------------------------------------------------------------------
(* The steps.                                                              *)

LEMMA InitIInv == Init => IInv
<1> SUFFICES ASSUME Init PROVE IInv
  OBVIOUS
<1>1. TypeOK
  BY DEF Init, TypeOK, Versions, Objects, Paths
<1>2. \A j \in Jobs : pc[j] = "idle" /\ faults[j] = 0 /\ tries[j] = 0
  BY DEF Init
<1>3. DoneIsWhole /\ FailuresAreFaults /\ Ranges /\ Undisturbed
  BY <1>2 DEF DoneIsWhole, FailuresAreFaults, Ranges, Undisturbed, InFlight
<1>4. BytesInPlace
  BY DEF Init, BytesInPlace
<1> QED BY <1>1, <1>3, <1>4 DEF IInv

LEMMA IInvOpen == ASSUME IInv, NEW j \in Jobs, Open(j) PROVE IInv'
<1> USE DEF IInv
<1>1. Dest[j] \in Paths /\ Source[j] \in Objects /\ version[Source[j]] \in Versions
  BY JobTypes, SizeType
<1>2. TypeOK'
  BY <1>1 DEF TypeOK, Open, Goto, Sharing
<1>3. \A k \in Jobs \ {j} : /\ pc'[k] = pc[k] /\ offset'[k] = offset[k] /\ pos'[k] = pos[k]
                            /\ end'[k] = end[k] /\ seen'[k] = seen[k]
                            /\ k \notin disturbed' => k \notin disturbed /\ Dest[k] # Dest[j]
                            /\ Dest[k] # Dest[j] => local'[Dest[k]] = local[Dest[k]]
  BY <1>1, JobTypes DEF TypeOK, Open, Goto, Sharing
<1>4. /\ pc'[j] = "requesting" /\ offset'[j] = 0 /\ pos'[j] = 0
      /\ seen'[j] = version[Source[j]] /\ version' = version
      /\ local'[Dest[j]] = [i \in Positions |-> Blank]
  BY <1>1 DEF TypeOK, Open, Goto
<1>5. DoneIsWhole'
  BY <1>3, <1>4 DEF DoneIsWhole, Complete
<1>6. BytesInPlace'
  BY <1>1 DEF BytesInPlace, Open, TypeOK
<1>7. FailuresAreFaults'
  BY DEF FailuresAreFaults, Open, Goto, TypeOK
<1>8. Ranges'
  <2>1. /\ pos'[j] = offset'[j]
        /\ pos'[j] <= Length[Source[j]][seen'[j]]
    <3>1. Length[Source[j]][version[Source[j]]] \in Nat
      BY <1>1, LengthType
    <3> QED BY <1>4, <3>1
  <2> QED BY <2>1, <1>3, <1>4 DEF Ranges
<1>9. Undisturbed'
  <2>1. Prefix(j)'
    <3>1. Length[Source[j]][version[Source[j]]] \in Nat
      BY <1>1, LengthType
    <3>2. \A i \in Positions : ~(i <= 0)
      BY DEF Positions
    <3> QED BY <1>4, <3>1, <3>2 DEF Prefix
  <2>2. ASSUME NEW k \in Jobs \ {j}, k \notin disturbed', InFlight(k)' PROVE Prefix(k)'
    <3>1. Prefix(k)
      BY <2>2, <1>3 DEF Undisturbed, InFlight
    <3> QED BY <3>1, <2>2, <1>3, <1>4 DEF Prefix
  <2>3. \A k \in Jobs \ disturbed' : InFlight(k)' => Prefix(k)'
    BY <2>1, <2>2, Zenon
  <2> QED BY <2>3, Zenon DEF Undisturbed
<1> QED BY <1>2, <1>5, <1>6, <1>7, <1>8, <1>9

\* Steps of a job that leave the files, its call and the others alone.
LEMMA IInvQuiet ==
    ASSUME IInv, NEW j \in Jobs, NEW to \in {"idle", "error", "failed"}, Goto(j, to),
           UNCHANGED <<live, version, local, call, disturbed>>,
           tries' \in [Jobs -> 0 .. MaxRetries], faults' \in [Jobs -> Nat],
           FailuresAreFaults'
    PROVE  IInv'
<1> USE DEF IInv, call
<1>1. TypeOK'
  BY DEF TypeOK, Goto
<1>2. \A k \in Jobs : pc'[k] = pc[k] \/ pc'[k] = to
  BY DEF TypeOK, Goto
<1>3. DoneIsWhole'
  BY <1>2 DEF DoneIsWhole, Complete
<1>4. BytesInPlace'
  BY DEF BytesInPlace
<1>5. Ranges'
  BY <1>2 DEF Ranges
<1>6. Undisturbed'
  <2> SUFFICES ASSUME NEW k \in Jobs, k \notin disturbed', InFlight(k)' PROVE Prefix(k)'
    BY DEF Undisturbed
  <2>1. InFlight(k)
    BY <1>2 DEF InFlight
  <2>2. Prefix(k)
    BY <2>1 DEF Undisturbed
  <2> QED BY <2>2 DEF Prefix
<1> QED BY <1>1, <1>3, <1>4, <1>5, <1>6

LEMMA IInvFault == ASSUME IInv, NEW j \in Jobs, OpenFails(j) \/ TransferFails(j) PROVE IInv'
<1>1. pc[j] \notin {"error", "failed"} /\ Fault(j)
  BY DEF OpenFails, TransferFails, InFlight
<1>2. faults' \in [Jobs -> Nat] /\ tries' \in [Jobs -> 0 .. MaxRetries]
  BY <1>1 DEF Fault, IInv, TypeOK
<1>3. FailuresAreFaults'
  <2>1. \A k \in Jobs \ {j} : pc'[k] = pc[k] /\ faults'[k] = faults[k] /\ tries'[k] = tries[k]
    BY <1>1 DEF Fault, Goto, IInv, TypeOK
  <2>2. pc'[j] = "error" /\ faults'[j] = faults[j] + 1 /\ tries'[j] = tries[j]
    BY <1>1 DEF Fault, Goto, IInv, TypeOK
  <2>3. faults[j] = tries[j]
    BY <1>1 DEF IInv, FailuresAreFaults, TypeOK
  <2> QED BY <2>1, <2>2, <2>3 DEF IInv, FailuresAreFaults, TypeOK
<1> QED BY <1>1, <1>2, <1>3, IInvQuiet DEF Fault

LEMMA IInvRetry == ASSUME IInv, NEW j \in Jobs, Retry(j) \/ GiveUp(j) PROVE IInv'
<1>1. faults' \in [Jobs -> Nat] /\ tries' \in [Jobs -> 0 .. MaxRetries]
  <2>1. CASE Retry(j)
    <3>1. tries[j] + 1 \in 0 .. MaxRetries
      BY <2>1 DEF Retry, IInv, TypeOK
    <3> QED BY <2>1, <3>1 DEF Retry, history, IInv, TypeOK
  <2>2. CASE GiveUp(j)
    BY <2>2 DEF GiveUp, history, IInv, TypeOK
  <2> QED BY <2>1, <2>2
<1>2. FailuresAreFaults'
  <2>1. \A k \in Jobs \ {j} : pc'[k] = pc[k] /\ faults'[k] = faults[k] /\ tries'[k] = tries[k]
    BY DEF Retry, GiveUp, history, Goto, IInv, TypeOK
  <2>2. faults'[j] = faults[j] /\ faults[j] = tries[j] + 1
    BY DEF Retry, GiveUp, history, IInv, FailuresAreFaults
  <2>3. \/ pc'[j] = "idle" /\ tries'[j] = tries[j] + 1
        \/ pc'[j] = "failed" /\ tries'[j] = tries[j]
    BY DEF Retry, GiveUp, Goto, IInv, TypeOK
  <2>4. tries[j] \in Nat
    BY DEF IInv, TypeOK
  <2>5. ASSUME NEW k \in Jobs \ {j}
        PROVE  faults'[k] = tries'[k] + (IF pc'[k] \in {"error", "failed"} THEN 1 ELSE 0)
    BY <2>1 DEF IInv, FailuresAreFaults
  <2>6. faults'[j] = tries'[j] + (IF pc'[j] \in {"error", "failed"} THEN 1 ELSE 0)
    BY <2>2, <2>3, <2>4
  <2> QED BY <2>5, <2>6 DEF FailuresAreFaults
<1> QED BY <1>1, <1>2, IInvQuiet DEF Retry, GiveUp, history

LEMMA IInvRequest == ASSUME IInv, NEW j \in Jobs, Request(j) PROVE IInv'
<1> USE DEF IInv
<1>1. /\ Dest[j] \in Paths /\ Source[j] \in Objects /\ version[Source[j]] \in Versions
      /\ Size(j) \in 0 .. MaxLength
  BY JobTypes, SizeType
<1>2. /\ offset[j] \in Nat /\ offset[j] < Size(j) /\ pos[j] = offset[j]
      /\ pc[j] = "requesting"
  BY DEF Request, Ranges, TypeOK
<1>3. /\ pc'[j] = "copying" /\ offset'[j] = offset[j] /\ pos'[j] = pos[j]
      /\ seen'[j] = version[Source[j]] /\ version' = version /\ local' = local
      /\ disturbed' = disturbed
      /\ end'[j] = IF offset[j] + Chunk < Size(j) THEN offset[j] + Chunk ELSE Size(j)
  BY DEF Request, Goto, TypeOK, history
<1>4. \A k \in Jobs \ {j} : /\ pc'[k] = pc[k] /\ offset'[k] = offset[k] /\ pos'[k] = pos[k]
                            /\ end'[k] = end[k] /\ seen'[k] = seen[k]
  BY DEF TypeOK, Request, Goto
<1>5. end'[j] \in 0 .. MaxLength
  BY <1>1, <1>2, <1>3
<1>6. TypeOK'
  BY <1>1, <1>5 DEF TypeOK, Request, Goto, history
<1>7. DoneIsWhole' /\ BytesInPlace'
  BY <1>3, <1>4 DEF DoneIsWhole, Complete, BytesInPlace
<1>8. FailuresAreFaults'
  BY <1>2 DEF FailuresAreFaults, Request, Goto, TypeOK, history
<1>9. Ranges'
  BY <1>1, <1>2, <1>3, <1>4 DEF Ranges, Size
<1>10. Undisturbed'
  <2>1. ASSUME j \notin disturbed PROVE Prefix(j)'
    <3>1. Prefix(j)
      BY <2>1, <1>2 DEF Undisturbed, InFlight
    <3>2. seen'[j] = seen[j]
      BY <3>1, <1>3 DEF Prefix
    <3> QED BY <3>1, <3>2, <1>3 DEF Prefix
  <2>2. ASSUME NEW k \in Jobs \ {j}, k \notin disturbed', InFlight(k)' PROVE Prefix(k)'
    <3>1. Prefix(k)
      BY <2>2, <1>3, <1>4 DEF Undisturbed, InFlight
    <3> QED BY <3>1, <1>3, <1>4 DEF Prefix
  <2>3. \A k \in Jobs : k \notin disturbed' /\ InFlight(k)' => Prefix(k)'
    BY <2>1, <2>2, <1>3
  <2> QED BY <2>3, Zenon DEF Undisturbed
<1> QED BY <1>6, <1>7, <1>8, <1>9, <1>10

LEMMA IInvCopy == ASSUME IInv, NEW j \in Jobs, Copy(j) PROVE IInv'
<1> USE DEF IInv
<1>1. /\ Dest[j] \in Paths /\ Source[j] \in Objects /\ seen[j] \in Versions
      /\ Length[Source[j]][seen[j]] \in 0 .. MaxLength
  BY JobTypes, LengthType DEF TypeOK
<1>2. /\ pc[j] = "copying" /\ pos[j] \in Nat /\ pos[j] < end[j] /\ end[j] <= MaxLength
      /\ end[j] \in Nat /\ offset[j] \in Nat
  BY DEF Copy, TypeOK
<1>3. pos[j] + 1 \in Positions /\ pos[j] + 1 \in 0 .. MaxLength
  BY <1>2 DEF Positions
<1> DEFINE b == Byte(Source[j], seen[j], pos[j] + 1)
<1>4. b \in Bytes /\ b # Blank /\ b.at = pos[j] + 1 /\ b.file = Source[j]
  BY <1>1, <1>3, ByteFacts
<1>5. /\ pc' = pc /\ offset' = offset /\ end' = end /\ seen' = seen /\ version' = version
      /\ pos'[j] = pos[j] + 1 /\ tries' = tries /\ faults' = faults /\ live' = live
      /\ disturbed' = disturbed \cup Sharing(j)
  BY DEF Copy, TypeOK
<1>6. \A k \in Jobs \ {j} : /\ pos'[k] = pos[k]
                            /\ k \notin disturbed' => k \notin disturbed /\ Dest[k] # Dest[j]
                            /\ Dest[k] # Dest[j] => local'[Dest[k]] = local[Dest[k]]
  BY <1>1, JobTypes DEF TypeOK, Copy, Sharing
<1>7. local'[Dest[j]] = [local[Dest[j]] EXCEPT ![pos[j] + 1] = b]
  BY <1>1 DEF Copy, TypeOK
<1>8. \A f \in Paths \ {Dest[j]} : local'[f] = local[f]
  BY <1>1 DEF Copy, TypeOK
<1>9. local[Dest[j]] \in [Positions -> Bytes \cup {Blank}]
  BY <1>1 DEF TypeOK
<1>10. local' \in [Paths -> [Positions -> Bytes \cup {Blank}]]
  BY <1>1, <1>3, <1>4, <1>9 DEF Copy, TypeOK
<1> HIDE DEF b
<1>11. TypeOK'
  <2>1. pos' \in [Jobs -> 0 .. MaxLength]
    BY <1>3 DEF Copy, TypeOK
  <2> QED BY <2>1, <1>5, <1>10 DEF TypeOK, Sharing
<1>12. DoneIsWhole'
  BY <1>2, <1>5, <1>6 DEF DoneIsWhole, Complete
<1>13. BytesInPlace'
  <2> SUFFICES ASSUME NEW f \in Paths, NEW i \in Positions, local'[f][i] # Blank
               PROVE  /\ local'[f][i].at = i
                      /\ \E k \in Jobs : Dest[k] = f /\ Source[k] = local'[f][i].file
    BY DEF BytesInPlace
  <2>1. CASE f = Dest[j] /\ i = pos[j] + 1
    BY <2>1, <1>4, <1>7, <1>9
  <2>2. CASE ~(f = Dest[j] /\ i = pos[j] + 1)
    <3>1. local'[f][i] = local[f][i]
      BY <2>2, <1>7, <1>8, <1>9
    <3> QED BY <3>1 DEF BytesInPlace
  <2> QED BY <2>1, <2>2
<1>14. FailuresAreFaults'
  BY <1>5 DEF FailuresAreFaults
<1>15. Ranges'
  <2>1. \A k \in Jobs \ {j} : pos'[k] = pos[k]
    BY <1>6
  <2>2. /\ offset[j] <= pos[j] /\ offset[j] < end[j]
        /\ end[j] <= Length[Source[j]][seen[j]]
        /\ end[j] < offset[j] + Chunk => end[j] = Length[Source[j]][seen[j]]
        /\ end[j] <= offset[j] + Chunk
    BY <1>2 DEF Ranges
  <2>3. offset[j] <= pos'[j] /\ pos'[j] <= end[j]
    BY <2>2, <1>2, <1>5
  <2>4. ASSUME NEW k \in Jobs
        PROVE  /\ pc[k] = "requesting" => pos'[k] = offset[k]
               /\ pc[k] = "copying" => offset[k] <= pos'[k] /\ pos'[k] <= end[k]
    BY <2>1, <2>3, <1>2 DEF Ranges
  <2> QED BY <2>4, <1>5 DEF Ranges
<1>16. Undisturbed'
  <2>1. ASSUME j \notin disturbed PROVE Prefix(j)'
    <3>1. /\ seen[j] = version[Source[j]]
          /\ local[Dest[j]] = [i \in Positions |->
                 IF i <= pos[j] THEN Byte(Source[j], seen[j], i) ELSE Blank]
      BY <2>1, <1>2 DEF Undisturbed, InFlight, Prefix
    <3>2. pos'[j] <= Length[Source[j]][seen[j]]
      BY <1>1, <1>2, <1>5 DEF Ranges
    <3>3. \A i \in Positions : (i <= pos[j] + 1) <=> (i <= pos[j] \/ i = pos[j] + 1)
      <4>1. pos[j] \in Nat /\ \A i \in Positions : i \in Nat
        BY <1>2 DEF Positions
      <4> QED BY <4>1, UpToNext, Zenon
    <3>4. local'[Dest[j]] = [i \in Positions |->
                 IF i <= pos[j] + 1 THEN Byte(Source[j], seen[j], i) ELSE Blank]
      BY <3>1, <3>3, <1>3, <1>7, <1>2 DEF b, Positions
    <3> QED BY <3>1, <3>2, <3>4, <1>5 DEF Prefix
  <2>2. ASSUME NEW k \in Jobs \ {j}, k \notin disturbed', InFlight(k)' PROVE Prefix(k)'
    <3>1. Prefix(k)
      BY <2>2, <1>5, <1>6 DEF Undisturbed, InFlight
    <3> QED BY <3>1, <2>2, <1>5, <1>6 DEF Prefix
  <2>3. j \notin Sharing(j)
    BY DEF Sharing
  <2> QED BY <2>1, <2>2, <2>3, <1>5 DEF Undisturbed
<1> QED BY <1>11, <1>12, <1>13, <1>14, <1>15, <1>16

LEMMA IInvEnds == ASSUME IInv, NEW j \in Jobs, PastEnd(j) \/ ChunkEnds(j) PROVE IInv'
<1> USE DEF IInv
<1>1. /\ Dest[j] \in Paths /\ Source[j] \in Objects /\ seen[j] \in Versions
      /\ Length[Source[j]][seen[j]] \in 0 .. MaxLength
      /\ Size(j) \in 0 .. MaxLength
  BY JobTypes, LengthType, SizeType DEF TypeOK
<1>2. /\ UNCHANGED <<live, version, local, pos, end, seen, tries, faults, disturbed>>
      /\ \A k \in Jobs \ {j} : pc'[k] = pc[k] /\ offset'[k] = offset[k]
      /\ offset'[j] \in {offset[j], pos[j]}
      /\ InFlight(j)
      /\ pc'[j] \in {"done", "requesting"}
      /\ pc'[j] = "requesting" => offset'[j] = pos[j]
  BY DEF PastEnd, ChunkEnds, Goto, TypeOK, history, call, InFlight
<1>3. pos[j] \in Nat /\ offset[j] \in Nat /\ end[j] \in Nat
  BY DEF TypeOK
<1>4. TypeOK'
  <2>1. offset' \in [Jobs -> 0 .. MaxLength]
    BY DEF PastEnd, ChunkEnds, TypeOK, call
  <2>2. pc' \in [Jobs -> {"idle", "requesting", "copying", "error", "done", "failed"}]
    BY DEF PastEnd, ChunkEnds, Goto, TypeOK
  <2> QED BY <2>1, <2>2, <1>2 DEF TypeOK
<1>5. ASSUME pc'[j] = "done", j \notin disturbed PROVE Complete(j)
  <2>1. Prefix(j)
    BY <1>5, <1>2 DEF Undisturbed
  <2>2. CASE PastEnd(j)
    <3>1. pos[j] = offset[j] /\ offset[j] >= Size(j)
      BY <2>2 DEF PastEnd, Ranges
    <3>2. Size(j) = Length[Source[j]][seen[j]]
      BY <2>1 DEF Size, Prefix
    <3>3. pos[j] <= Length[Source[j]][seen[j]]
      BY <2>1 DEF Prefix
    <3>4. Length[Source[j]][seen[j]] \in Nat /\ pos[j] >= Length[Source[j]][seen[j]]
      BY <3>1, <3>2, <1>1
    <3>5. pos[j] = Length[Source[j]][seen[j]]
      BY <3>3, <3>4, <1>3, Squeeze, Zenon
    <3> QED BY <2>1, <3>5, PrefixComplete
  <2>3. CASE ChunkEnds(j)
    <3>1. pc[j] = "copying" /\ pos[j] = end[j] /\ pos[j] - offset[j] < Chunk
      BY <2>3, <1>5 DEF ChunkEnds, ShortChunk, Goto, TypeOK
    <3>2. end[j] < offset[j] + Chunk
      BY <3>1, <1>3
    <3>3. pos[j] = Length[Source[j]][seen[j]]
      BY <3>1, <3>2 DEF Ranges
    <3> QED BY <2>1, <3>3, PrefixComplete
  <2> QED BY <2>2, <2>3
<1>6. DoneIsWhole'
  BY <1>2, <1>5 DEF DoneIsWhole, Complete
<1>7. BytesInPlace'
  BY <1>2 DEF BytesInPlace
<1>8. FailuresAreFaults'
  BY <1>2 DEF FailuresAreFaults, InFlight
<1>9. Ranges'
  <2>1. ASSUME pc'[j] = "requesting" PROVE pos[j] <= Length[Source[j]][seen[j]]
    <3>1. pc[j] = "copying" /\ pos[j] = end[j]
      BY <2>1 DEF PastEnd, ChunkEnds, Goto, TypeOK
    <3> QED BY <3>1 DEF Ranges
  <2> QED BY <2>1, <1>2 DEF Ranges
<1>10. Undisturbed'
  <2> SUFFICES ASSUME NEW k \in Jobs, k \notin disturbed', InFlight(k)' PROVE Prefix(k)'
    BY DEF Undisturbed
  <2>1. InFlight(k)
    BY <1>2 DEF InFlight
  <2>2. Prefix(k)
    BY <2>1, <1>2 DEF Undisturbed
  <2> QED BY <2>2, <1>2 DEF Prefix
<1> QED BY <1>4, <1>6, <1>7, <1>8, <1>9, <1>10

LEMMA IInvEdit == ASSUME IInv, NEW o \in Objects, Edit(o) PROVE IInv'
<1> USE DEF IInv
<1>1. UNCHANGED <<live, local, pc, offset, pos, end, seen, tries, faults>>
  BY DEF Edit, call
<1>2. TypeOK'
  BY <1>1 DEF TypeOK, Edit, Versions
<1>3. DoneIsWhole' /\ BytesInPlace' /\ FailuresAreFaults' /\ Ranges'
  BY <1>1 DEF DoneIsWhole, Complete, BytesInPlace, FailuresAreFaults, Ranges, Edit
<1>4. Undisturbed'
  <2> SUFFICES ASSUME NEW k \in Jobs, k \notin disturbed', InFlight(k) PROVE Prefix(k)'
    BY <1>1 DEF Undisturbed, InFlight
  <2>1. Prefix(k) /\ Source[k] # o
    BY DEF Undisturbed, Edit
  <2>2. version'[Source[k]] = version[Source[k]]
    BY <2>1, JobTypes DEF Edit, TypeOK
  <2> QED BY <2>1, <2>2, <1>1 DEF Prefix
<1> QED BY <1>2, <1>3, <1>4

LEMMA IInvStutter == ASSUME IInv, Signal \/ UNCHANGED vars PROVE IInv'
<1>1. UNCHANGED <<version, local, pc, offset, pos, end, seen, tries, faults, disturbed>>
  BY DEF Signal, vars, call, history
<1>2. live' \in BOOLEAN
  BY Zenon DEF Signal, vars, IInv, TypeOK
<1>3. TypeOK'
  BY <1>1, <1>2 DEF IInv, TypeOK
<1> QED BY <1>1, <1>3 DEF IInv, DoneIsWhole, Complete, BytesInPlace, FailuresAreFaults,
                          Ranges, Undisturbed, InFlight, Prefix

LEMMA IInvNext == IInv /\ [Next]_vars => IInv'
<1> SUFFICES ASSUME IInv, [Next]_vars PROVE IInv'
  OBVIOUS
<1>1. ASSUME NEW j \in Jobs, Download(j) \/ Retry(j) \/ GiveUp(j) PROVE IInv'
  BY <1>1, IInvOpen, IInvFault, IInvRequest, IInvCopy, IInvEnds, IInvRetry DEF Download
<1>2. ASSUME NEW o \in Objects, Edit(o) PROVE IInv'
  BY <1>2, IInvEdit
<1>3. CASE Signal \/ UNCHANGED vars
  BY <1>3, IInvStutter
<1> QED BY <1>1, <1>2, <1>3 DEF Next

\* The strengthened invariant, which the run checks on a small instance, holds of every
\* behaviour.
THEOREM DownloadInvariant == Spec => []IInv
BY InitIInv, IInvNext, PTL DEF Spec

\* Every variable of the model keeps its type; no position past the bound is written.
THEOREM DownloadTypeCorrect == Spec => []TypeOK
<1>1. IInv => TypeOK
  BY DEF IInv
<1> QED BY <1>1, DownloadInvariant, PTL

\* googledrive.go:132-162: nil is returned for a whole file only, whatever the length, the
\* chunk size, the failures before and what was at the path, unless somebody else touched
\* one of the two files.
THEOREM DoneMeansWhole == Spec => []DoneIsWhole
<1>1. IInv => DoneIsWhole
  BY DEF IInv
<1> QED BY <1>1, DownloadInvariant, PTL

\* googledrive.go:122-145: however many downloads write one path, no byte is ever at
\* another's place.
THEOREM BytesStayInPlace == Spec => []BytesInPlace
<1>1. IInv => BytesInPlace
  BY DEF IInv
<1> QED BY <1>1, DownloadInvariant, PTL

\* googledrive.go:138-140 and pool.go:92: the range past the end costs no retry.
THEOREM FailuresAreReal == Spec => []FailuresAreFaults
<1>1. IInv => FailuresAreFaults
  BY DEF IInv
<1> QED BY <1>1, DownloadInvariant, PTL

----------------------------------------------------------------------------
(* The refinement: every step of Download is a step of FileDelivery, or    *)
(* none.                                                                   *)

calls == [j \in Jobs |-> CallOf(j)]
whole == {j \in Jobs : Complete(j)}

LEMMA CallOfCases ==
    ASSUME IInv, NEW j \in Jobs
    PROVE  /\ pc[j] = "idle" => CallOf(j) = "idle"
           /\ InFlight(j) => CallOf(j) = "running"
           /\ pc[j] = "done" => CallOf(j) = "ok"
           /\ pc[j] \in {"error", "failed"} => CallOf(j) = "error"
           /\ calls[j] = CallOf(j)
BY DEF CallOf, InFlight, calls

LEMMA DeliveryInit == Init => Delivery!Init
<1> SUFFICES ASSUME Init PROVE Delivery!Init
  OBVIOUS
<1>1. ASSUME NEW j \in Jobs PROVE CallOf(j) = "idle"
  <2>1. pc[j] = "idle"
    BY DEF Init
  <2> QED BY <2>1 DEF CallOf, InFlight
<1>2. calls = [j \in Jobs |-> "idle"]
  BY <1>1 DEF calls
<1> QED BY <1>2 DEF Init, Delivery!Init, calls

\* A step in which only job j's place in the code changes.
LEMMA CallsStep ==
    ASSUME IInv, IInv', NEW j \in Jobs, NEW to, Goto(j, to)
    PROVE  calls' = [calls EXCEPT ![j] = CallOf(j)']
<1>1. \A k \in Jobs \ {j} : pc'[k] = pc[k]
  BY DEF Goto, IInv, TypeOK
<1>2. \A k \in Jobs \ {j} : CallOf(k)' = CallOf(k)
  BY <1>1 DEF CallOf, InFlight
<1> QED BY <1>2 DEF calls

LEMMA SameCalls == ASSUME UNCHANGED pc PROVE UNCHANGED calls
BY DEF calls, CallOf, InFlight

LEMMA SameWhole == ASSUME UNCHANGED <<local, seen>> PROVE UNCHANGED whole
BY DEF whole, Complete

\* A job whose path is not written and whose version stays is whole or not as before.
LEMMA OthersWhole ==
    ASSUME NEW j \in Jobs, NEW k \in Jobs, local'[Dest[k]] = local[Dest[k]], seen'[k] = seen[k]
    PROVE  k \in whole' <=> k \in whole
BY DEF whole, Complete

LEMMA DeliveryOpen == ASSUME IInv, IInv', NEW j \in Jobs, Open(j) PROVE Delivery!Begin(j)
<1>1. /\ CallOf(j) = "idle" /\ calls[j] = "idle"
  BY CallOfCases DEF Open
<1>2. pc'[j] = "requesting"
  BY DEF Open, Goto, IInv, TypeOK
<1>3. CallOf(j)' = "running"
  BY <1>2 DEF CallOf, InFlight
<1>4. calls' = [calls EXCEPT ![j] = "running"]
  BY <1>3, CallsStep DEF Open
<1>5. disturbed' = (disturbed \ {j}) \cup Sharing(j) /\ Sharing(j) \in SUBSET (Jobs \ {j})
  BY DEF Open, Sharing
<1>6. \A k \in Jobs \ (disturbed' \cup {j}) :
          seen'[k] = seen[k] /\ local'[Dest[k]] = local[Dest[k]]
  BY <1>5, JobTypes DEF Open, Sharing, IInv, TypeOK
<1>7. \A k \in Jobs \ (disturbed' \cup {j}) : k \in whole' <=> k \in whole
  BY <1>6, OthersWhole
<1> QED BY <1>1, <1>4, <1>5, <1>7 DEF Delivery!Begin, Delivery!OthersKeep, calls, whole

LEMMA DeliveryCopy == ASSUME IInv, IInv', NEW j \in Jobs, Copy(j) PROVE Delivery!Work(j)
<1>1. calls[j] = "running"
  BY CallOfCases DEF Copy, InFlight
<1>2. calls' = calls
  BY SameCalls DEF Copy
<1>3. disturbed' = disturbed \cup Sharing(j) /\ Sharing(j) \in SUBSET (Jobs \ {j})
  BY DEF Copy, Sharing
<1>4. \A k \in Jobs \ (disturbed' \cup {j}) :
          seen'[k] = seen[k] /\ local'[Dest[k]] = local[Dest[k]]
  BY <1>3, JobTypes DEF Copy, Sharing, IInv, TypeOK
<1>5. \A k \in Jobs \ (disturbed' \cup {j}) : k \in whole' <=> k \in whole
  BY <1>4, OthersWhole
<1> QED BY <1>1, <1>2, <1>3, <1>5 DEF Delivery!Work, Delivery!OthersKeep, calls, whole

\* A request may read a newer version: of a job that was disturbed by the edit.
LEMMA DeliveryRequest == ASSUME IInv, IInv', NEW j \in Jobs, Request(j) PROVE Delivery!Work(j)
<1>1. calls[j] = "running"
  BY CallOfCases DEF Request, InFlight
<1>2. CallOf(j)' = "running"
  <2>1. pc'[j] = "copying"
    BY DEF Request, Goto, IInv, TypeOK
  <2> QED BY <2>1 DEF CallOf, InFlight
<1>3. calls' = [calls EXCEPT ![j] = "running"]
  BY <1>2, CallsStep DEF Request
<1>4. calls' = calls
  BY <1>1, <1>3 DEF calls
<1>5. disturbed' = disturbed \cup {} /\ {} \in SUBSET (Jobs \ {j})
  BY DEF Request, history
<1>6. \A k \in Jobs \ (disturbed' \cup {j}) :
          seen'[k] = seen[k] /\ local'[Dest[k]] = local[Dest[k]]
  BY DEF Request, IInv, TypeOK
<1>7. \A k \in Jobs \ (disturbed' \cup {j}) : k \in whole' <=> k \in whole
  BY <1>6, OthersWhole
<1> QED BY <1>1, <1>4, <1>5, <1>7 DEF Delivery!Work, Delivery!OthersKeep, calls, whole

LEMMA DeliveryEnds ==
    ASSUME IInv, IInv', NEW j \in Jobs, PastEnd(j) \/ ChunkEnds(j)
    PROVE  Delivery!Succeed(j) \/ UNCHANGED Delivery!vars
<1>1. calls[j] = "running"
  BY CallOfCases DEF PastEnd, ChunkEnds, InFlight
<1>2. UNCHANGED <<local, seen, disturbed>>
  BY DEF PastEnd, ChunkEnds, call, history
<1>3. UNCHANGED whole
  BY <1>2, SameWhole
<1>4. CASE pc'[j] = "done"
  <2>1. CallOf(j)' = "ok"
    BY <1>4 DEF CallOf, InFlight
  <2>2. calls' = [calls EXCEPT ![j] = "ok"]
    BY <2>1, CallsStep DEF PastEnd, ChunkEnds
  <2>3. j \in whole \cup disturbed
    BY <1>2, <1>4 DEF IInv, DoneIsWhole, Complete, whole
  <2> QED BY <1>1, <1>2, <1>3, <2>2, <2>3 DEF Delivery!Succeed, calls, whole
<1>5. CASE pc'[j] = "requesting"
  <2>1. CallOf(j)' = "running"
    BY <1>5 DEF CallOf, InFlight
  <2>2. calls' = [calls EXCEPT ![j] = "running"]
    BY <2>1, CallsStep DEF PastEnd, ChunkEnds
  <2>3. calls' = calls
    BY <1>1, <2>2 DEF calls
  <2> QED BY <1>2, <1>3, <2>3 DEF Delivery!vars, calls, whole
<1>6. pc'[j] \in {"done", "requesting"}
  BY DEF PastEnd, ChunkEnds, Goto, IInv, TypeOK
<1> QED BY <1>4, <1>5, <1>6

LEMMA DeliveryFails ==
    ASSUME IInv, IInv', NEW j \in Jobs, OpenFails(j) \/ TransferFails(j)
    PROVE  Delivery!Fail(j)
<1>1. calls[j] \in {"idle", "running"}
  BY CallOfCases DEF OpenFails, TransferFails
<1>2. Fault(j)
  BY DEF OpenFails, TransferFails
<1>3. CallOf(j)' = "error"
  <2>1. pc'[j] = "error"
    BY <1>2 DEF Fault, Goto, IInv, TypeOK
  <2> QED BY <2>1 DEF CallOf, InFlight
<1>4. calls' = [calls EXCEPT ![j] = "error"]
  BY <1>2, <1>3, CallsStep DEF Fault
<1>5. UNCHANGED <<whole, disturbed>>
  BY <1>2, SameWhole DEF Fault, call
<1> QED BY <1>1, <1>4, <1>5 DEF Delivery!Fail, calls, whole

LEMMA DeliveryRetry ==
    ASSUME IInv, IInv', NEW j \in Jobs, Retry(j) \/ GiveUp(j)
    PROVE  Delivery!Requeue(j) \/ UNCHANGED Delivery!vars
<1>1. calls[j] = "error"
  BY CallOfCases DEF Retry, GiveUp
<1>2. UNCHANGED <<whole, disturbed>>
  BY SameWhole DEF Retry, GiveUp, call, history
<1>3. CASE Retry(j)
  <2>1. pc'[j] = "idle"
    BY <1>3 DEF Retry, Goto, IInv, TypeOK
  <2>2. CallOf(j)' = "idle"
    BY <2>1 DEF CallOf, InFlight
  <2>3. calls' = [calls EXCEPT ![j] = "idle"]
    BY <1>3, <2>2, CallsStep DEF Retry
  <2> QED BY <1>1, <1>2, <2>3 DEF Delivery!Requeue, calls, whole
<1>4. CASE GiveUp(j)
  <2>1. pc'[j] = "failed"
    BY <1>4 DEF GiveUp, Goto, IInv, TypeOK
  <2>2. CallOf(j)' = "error"
    BY <2>1 DEF CallOf, InFlight
  <2>3. calls' = [calls EXCEPT ![j] = "error"]
    BY <1>4, <2>2, CallsStep DEF GiveUp
  <2>4. calls' = calls
    BY <1>1, <2>3 DEF calls
  <2> QED BY <1>2, <2>4 DEF Delivery!vars, calls, whole
<1> QED BY <1>3, <1>4

LEMMA DeliveryEdit ==
    ASSUME IInv, IInv', NEW o \in Objects, Edit(o) PROVE Delivery!SourceChanges
<1> DEFINE S == {j \in Jobs : Source[j] = o /\ InFlight(j)}
<1>1. disturbed' = disturbed \cup S
  BY DEF Edit
<1>2. S \in SUBSET {j \in Jobs : calls[j] = "running"}
  BY CallOfCases
<1>3. UNCHANGED <<calls, whole>>
  BY SameCalls, SameWhole DEF Edit, call
<1> QED BY <1>1, <1>2, <1>3 DEF Delivery!SourceChanges, calls, whole

LEMMA DeliveryStep == ASSUME IInv, IInv', [Next]_vars PROVE [Delivery!Next]_Delivery!vars
<1>1. ASSUME NEW j \in Jobs, Download(j) \/ Retry(j) \/ GiveUp(j)
      PROVE  [Delivery!Next]_Delivery!vars
  BY <1>1, DeliveryOpen, DeliveryFails, DeliveryRequest, DeliveryCopy, DeliveryEnds,
     DeliveryRetry DEF Download, Delivery!Next
<1>2. ASSUME NEW o \in Objects, Edit(o) PROVE [Delivery!Next]_Delivery!vars
  BY <1>2, DeliveryEdit DEF Delivery!Next
<1>3. CASE Signal \/ UNCHANGED vars
  <2>1. UNCHANGED <<pc, local, seen, disturbed>>
    BY <1>3 DEF Signal, vars, call, history
  <2>2. UNCHANGED <<calls, whole>>
    BY <2>1, SameCalls, SameWhole
  <2> QED BY <2>1, <2>2 DEF Delivery!vars, calls, whole
<1> QED BY <1>1, <1>2, <1>3 DEF Next

\* Download keeps the promise of FileDelivery, which is all the worker pool knows of it.
THEOREM DownloadDelivers == Spec => ImplementsDelivery
<1>1. IInv /\ IInv' /\ [Next]_vars => [Delivery!Next]_Delivery!vars
  BY DeliveryStep
<1> QED BY DeliveryInit, <1>1, DownloadInvariant, PTL
        DEF Spec, ImplementsDelivery, Delivery!Spec

----------------------------------------------------------------------------
(* The chunk loop ends.                                                    *)

LEMMA LoopFacts ==
    ASSUME IInv, NEW j \in Jobs, InFlight(j)
    PROVE  /\ pos[j] \in 0 .. MaxLength /\ offset[j] \in 0 .. MaxLength /\ MaxLength \in Nat
           /\ pc[j] = "copying" => offset[j] <= pos[j] /\ offset[j] < end[j] /\ end[j] <= MaxLength
           /\ StepsLeft(j) \in Nat /\ StepsLeft(j) > 0
<1>1. pos[j] \in 0 .. MaxLength /\ offset[j] \in 0 .. MaxLength /\ MaxLength \in Nat
      /\ end[j] \in 0 .. MaxLength
  BY SizesAssumption DEF IInv, TypeOK
<1>2. pc[j] = "copying" => offset[j] <= pos[j] /\ pos[j] <= end[j] /\ offset[j] < end[j]
  BY DEF IInv, Ranges
<1>3. pc[j] = "requesting" => StepsLeft(j) = 3 * (MaxLength - pos[j]) + 1
  BY DEF StepsLeft
<1>4. pc[j] = "copying" => StepsLeft(j) = 3 * (MaxLength - pos[j])
                                             + (IF pos[j] = offset[j] THEN 0 ELSE 2)
  BY DEF StepsLeft
<1> DEFINE p == pos[j]
           o == offset[j]
           e == end[j]
<1> HIDE DEF p, o, e
<1>5. pc[j] = "requesting" => StepsLeft(j) \in Nat /\ StepsLeft(j) > 0
  BY <1>1, <1>3 DEF p
<1>6. pc[j] = "copying" => StepsLeft(j) \in Nat /\ StepsLeft(j) > 0
  BY <1>1, <1>2, <1>4 DEF p, o, e
<1> QED BY <1>1, <1>2, <1>5, <1>6 DEF InFlight

LEMMA LoopLeaves ==
    ASSUME IInv, NEW j \in Jobs, InFlight(j), pc'[j] \in {"idle", "error", "done", "failed"}
    PROVE  NearsEnd(j)
<1>1. StepsLeft(j)' = 0
  BY DEF StepsLeft
<1> QED BY <1>1, LoopFacts DEF NearsEnd

LEMMA LoopStays ==
    ASSUME IInv, NEW j \in Jobs, InFlight(j),
           pc'[j] = pc[j], pos'[j] = pos[j], offset'[j] = offset[j]
    PROVE  NearsEnd(j)
<1>1. StepsLeft(j)' = StepsLeft(j)
  BY DEF StepsLeft
<1> QED BY <1>1, LoopFacts DEF NearsEnd

LEMMA LoopStep ==
    ASSUME IInv, NEW j \in Jobs, InFlight(j), Download(j)
    PROVE  NearsEnd(j)
<1> USE DEF call, history
<1> DEFINE p == pos[j]
           o == offset[j]
           N == MaxLength
<1>1. /\ p \in 0 .. N /\ o \in 0 .. N /\ N \in Nat
      /\ pc[j] = "copying" => o <= p /\ o < end[j] /\ end[j] <= N
  BY LoopFacts
<1>2. CASE PastEnd(j) \/ TransferFails(j)
  <2>1. pc'[j] \in {"done", "error"}
    BY <1>2 DEF PastEnd, TransferFails, Fault, Goto, IInv, TypeOK
  <2> QED BY <2>1, LoopLeaves
<1>3. CASE Request(j)
  <2>1. /\ pc[j] = "requesting" /\ pc'[j] = "copying" /\ pos'[j] = p /\ offset'[j] = o
        /\ p = o
    BY <1>3 DEF Request, Goto, IInv, TypeOK, Ranges
  <2>2. StepsLeft(j) = 3 * (N - p) + 1 /\ StepsLeft(j)' = 3 * (N - p) + 0
    BY <2>1 DEF StepsLeft
  <2> HIDE DEF p, o, N
  <2>3. StepsLeft(j)' \in 0 .. StepsLeft(j) /\ StepsLeft(j)' # StepsLeft(j)
    BY <1>1, <2>2
  <2> QED BY <2>3 DEF NearsEnd
<1>4. CASE Copy(j)
  <2>1. /\ pc[j] = "copying" /\ pc'[j] = "copying" /\ pos'[j] = p + 1 /\ offset'[j] = o
        /\ p < end[j]
    BY <1>4 DEF Copy, IInv, TypeOK
  <2>2. /\ StepsLeft(j) = 3 * (N - p) + (IF p = o THEN 0 ELSE 2)
        /\ StepsLeft(j)' = 3 * (N - (p + 1)) + (IF p + 1 = o THEN 0 ELSE 2)
    BY <2>1 DEF StepsLeft
  <2>3. end[j] \in Nat
    BY DEF IInv, TypeOK
  <2>4. p + 1 # o /\ p + 1 <= N
    BY <1>1, <2>1, <2>3
  <2> HIDE DEF p, o, N
  <2>5. StepsLeft(j)' \in 0 .. StepsLeft(j) /\ StepsLeft(j)' # StepsLeft(j)
    BY <1>1, <2>2, <2>4
  <2> QED BY <2>5 DEF NearsEnd
<1>5. CASE ChunkEnds(j)
  <2>1. pc[j] = "copying" /\ pos'[j] = p /\ p = end[j] /\ pc'[j] \in {"done", "requesting"}
    BY <1>5 DEF ChunkEnds, Goto, IInv, TypeOK
  <2>2. p # o
    BY <1>1, <2>1
  <2>3. CASE pc'[j] = "done"
    BY <2>3, LoopLeaves
  <2>4. CASE pc'[j] = "requesting"
    <3>1. StepsLeft(j) = 3 * (N - p) + 2 /\ StepsLeft(j)' = 3 * (N - p) + 1
      BY <2>1, <2>2, <2>4 DEF StepsLeft
    <3> HIDE DEF p, o, N
    <3>2. StepsLeft(j)' \in 0 .. StepsLeft(j) /\ StepsLeft(j)' # StepsLeft(j)
      BY <1>1, <3>1
    <3> QED BY <3>2 DEF NearsEnd
  <2> QED BY <2>1, <2>3, <2>4
<1> QED BY <1>2, <1>3, <1>4, <1>5 DEF Download, Open, OpenFails, InFlight

LEMMA OthersLoop ==
    ASSUME IInv, NEW j \in Jobs, NEW k \in Jobs, k # j, Download(k) \/ Retry(k) \/ GiveUp(k)
    PROVE  pc'[j] = pc[j] /\ pos'[j] = pos[j] /\ offset'[j] = offset[j]
BY DEF Download, Open, OpenFails, Request, PastEnd, Copy, TransferFails, ChunkEnds, Retry, GiveUp,
       Fault, Goto, call, history, IInv, TypeOK

\* Every request and every write brings a call of Download nearer its end, for files and
\* chunks of any length and whatever other jobs, editors and failures do meanwhile: what
\* CallReturns needs besides fairness.
THEOREM ChunkLoopRunsDown == Spec => LoopRunsDown
<1>1. IInv /\ [Next]_vars => [\A j \in Jobs : InFlight(j) => NearsEnd(j)]_vars
  <2> SUFFICES ASSUME IInv, Next, NEW j \in Jobs, InFlight(j) PROVE NearsEnd(j)
    OBVIOUS
  <2>1. ASSUME NEW k \in Jobs, Download(k) \/ Retry(k) \/ GiveUp(k) PROVE NearsEnd(j)
    <3>1. CASE k = j
      BY <2>1, <3>1, LoopStep DEF Retry, GiveUp, InFlight
    <3>2. CASE k # j
      BY <2>1, <3>2, OthersLoop, LoopStays
    <3> QED BY <3>1, <3>2
  <2>2. CASE Signal \/ \E o \in Objects : Edit(o)
    BY <2>2, LoopStays DEF Signal, Edit, call
  <2> QED BY <2>1, <2>2 DEF Next
<1> QED BY <1>1, DownloadInvariant, PTL DEF Spec, LoopRunsDown

----------------------------------------------------------------------------
(* How many requests a call makes.                                         *)

LEMMA DueFacts ==
    ASSUME IInv, NEW j \in Jobs, NEW n \in 0 .. MaxLength, InFlight(j), Fits(j, n)
    PROVE  /\ offset[j] \in Nat /\ n \in Nat /\ Chunk \in Nat \ {0} /\ offset[j] <= n
           /\ pc[j] = "copying" => pos[j] \in Nat /\ end[j] \in Nat /\ end[j] <= n
           /\ Due(j, n) \in Nat /\ (pc[j] = "requesting" => Chunk <= Due(j, n))
<1>1. /\ offset[j] \in Nat /\ n \in Nat /\ Chunk \in Nat \ {0} /\ pos[j] \in Nat
      /\ end[j] \in Nat
  BY SizesAssumption DEF IInv, TypeOK
<1> DEFINE l == Length[Source[j]][seen[j]]
<1>2. l \in Nat /\ l <= n
  BY LengthType, JobTypes DEF IInv, TypeOK, Fits
<1>3. /\ pc[j] = "requesting" => offset[j] = pos[j] /\ pos[j] <= l
      /\ pc[j] = "copying" => offset[j] < end[j] /\ end[j] <= l
  BY DEF IInv, Ranges
<1> DEFINE o == offset[j]
           e == end[j]
<1> HIDE DEF l
<1>4. o <= n /\ (pc[j] = "copying" => e <= n)
  BY <1>1, <1>2, <1>3 DEF InFlight
<1>5. /\ pc[j] = "requesting" => Due(j, n) = n - o + Chunk
      /\ pc[j] = "copying" => Due(j, n) = n - o
  BY DEF Due
<1> HIDE DEF o, e
<1>6. Due(j, n) \in Nat /\ (pc[j] = "requesting" => Chunk <= Due(j, n))
  <2>1. o \in Nat
    BY <1>1 DEF o
  <2> QED BY <1>1, <1>4, <1>5, <2>1 DEF InFlight
<1> QED BY <1>1, <1>4, <1>6 DEF o, e

LEMMA DueLeaves ==
    ASSUME IInv, NEW j \in Jobs, NEW n \in 0 .. MaxLength, InFlight(j), Fits(j, n),
           pc'[j] \in {"idle", "error", "done", "failed"}
    PROVE  AsksLess(j, n)
<1>1. Due(j, n)' = 0
  BY DEF Due
<1> QED BY <1>1, DueFacts DEF AsksLess

LEMMA DueStays ==
    ASSUME IInv, NEW j \in Jobs, NEW n \in 0 .. MaxLength, InFlight(j), Fits(j, n),
           pc'[j] = pc[j], offset'[j] = offset[j]
    PROVE  AsksLess(j, n)
<1>1. Due(j, n)' = Due(j, n)
  BY DEF Due
<1> QED BY <1>1, DueFacts DEF AsksLess

LEMMA DueStep ==
    ASSUME IInv, NEW j \in Jobs, NEW n \in 0 .. MaxLength, InFlight(j), Fits(j, n), Download(j)
    PROVE  AsksLess(j, n)
<1> USE DEF call, history
<1> DEFINE o == offset[j]
           p == pos[j]
<1>1. /\ o \in Nat /\ n \in Nat /\ Chunk \in Nat \ {0} /\ o <= n
      /\ pc[j] = "copying" => p \in Nat /\ end[j] \in Nat /\ end[j] <= n
  BY DueFacts
<1>2. CASE PastEnd(j) \/ TransferFails(j)
  <2>1. pc'[j] \in {"done", "error"}
    BY <1>2 DEF PastEnd, TransferFails, Fault, Goto, IInv, TypeOK
  <2> QED BY <2>1, DueLeaves
<1>3. CASE Request(j)
  <2>1. pc[j] = "requesting" /\ pc'[j] = "copying" /\ offset'[j] = o
    BY <1>3 DEF Request, Goto, IInv, TypeOK
  <2>2. Due(j, n) = n - o + Chunk /\ Due(j, n)' = n - o
    BY <2>1 DEF Due
  <2> HIDE DEF o
  <2>3. Due(j, n)' \in 0 .. Due(j, n) /\ Due(j, n)' + Chunk <= Due(j, n)
    BY <1>1, <2>2
  <2> QED BY <2>3 DEF AsksLess
<1>4. CASE Copy(j)
  BY <1>4, DueStays DEF Copy
<1>5. CASE ChunkEnds(j)
  <2>1. /\ pc[j] = "copying" /\ p = end[j] /\ offset'[j] = p
        /\ pc'[j] = IF p - o < Chunk THEN "done" ELSE "requesting"
    BY <1>5 DEF ChunkEnds, ShortChunk, Goto, IInv, TypeOK
  <2>2. CASE pc'[j] = "done"
    BY <2>2, DueLeaves
  <2>3. CASE pc'[j] = "requesting" /\ ~(p - o < Chunk)
    <3>1. Due(j, n) = n - o /\ Due(j, n)' = n - p + Chunk
      BY <2>1, <2>3 DEF Due
    <3>2. p \in Nat /\ p <= n
      BY <1>1, <2>1
    <3> HIDE DEF o, p
    <3>3. Due(j, n)' \in 0 .. Due(j, n)
      BY <1>1, <2>3, <3>1, <3>2
    <3> QED BY <2>1, <3>3 DEF AsksLess
  <2> QED BY <2>1, <2>2, <2>3
<1> QED BY <1>2, <1>3, <1>4, <1>5 DEF Download, Open, OpenFails, InFlight

\* A call of Download makes a request for each full chunk of the longest version of its file
\* and one more, at most, for files and chunks of any length and whatever other jobs, editors
\* and failures do meanwhile: what one token of the limiter lets through.
THEOREM RequestsAreBounded == Spec => RequestsRunDown
<1>1. IInv /\ [Next]_vars =>
          [\A j \in Jobs, n \in 0 .. MaxLength : InFlight(j) /\ Fits(j, n) => AsksLess(j, n)]_vars
  <2> SUFFICES ASSUME IInv, Next, NEW j \in Jobs, NEW n \in 0 .. MaxLength, InFlight(j), Fits(j, n)
               PROVE  AsksLess(j, n)
    OBVIOUS
  <2>1. ASSUME NEW k \in Jobs, Download(k) \/ Retry(k) \/ GiveUp(k) PROVE AsksLess(j, n)
    <3>1. CASE k = j
      BY <2>1, <3>1, DueStep DEF Retry, GiveUp, InFlight
    <3>2. CASE k # j
      BY <2>1, <3>2, OthersLoop, DueStays
    <3> QED BY <3>1, <3>2
  <2>2. CASE Signal \/ \E o \in Objects : Edit(o)
    BY <2>2, DueStays DEF Signal, Edit, call
  <2> QED BY <2>1, <2>2 DEF Next
<1> QED BY <1>1, DownloadInvariant, PTL DEF Spec, RequestsRunDown
=============================================================================
