------------------------ MODULE DrivePathCacheProofs ------------------------
(***************************************************************************)
(* Proofs about DrivePathCache, for any number of workers and tasks, paths *)
(* of any depth, and any number of failed calls and of deletions.          *)
(***************************************************************************)
EXTENDS DrivePathCache, FiniteSetTheorems, SequenceTheorems, TLAPS

----------------------------------------------------------------------------
(* Lemmas about objects and the paths that lead to them.                   *)

\* New objects leave the old ones alone.
LEMMA AppendFacts ==
    ASSUME NEW d \in Seq(Objects), NEW e \in Objects
    PROVE  /\ Append(d, e) \in Seq(Objects)
           /\ Len(d) \in Nat /\ Len(Append(d, e)) = Len(d) + 1
           /\ \A o \in 1 .. Len(d) : o \in 1 .. Len(Append(d, e)) /\ Append(d, e)[o] = d[o]
           /\ Append(d, e)[Len(d) + 1] = e
           /\ 1 .. Len(Append(d, e)) = (1 .. Len(d)) \cup {Len(d) + 1}
<1>1. /\ Append(d, e) \in Seq(Objects) /\ Len(d) \in Nat /\ Len(Append(d, e)) = Len(d) + 1
      /\ \A o \in 1 .. Len(d) : Append(d, e)[o] = d[o]
      /\ Append(d, e)[Len(d) + 1] = e
  OBVIOUS
<1> QED BY <1>1

\* ... so what was at a path stays there.
LEMMA StaysAt ==
    ASSUME NEW d \in Seq(Objects), NEW e \in Objects, NEW o, NEW p,
           NEW l \in Nat \ {0}, Len(p) = l, IsAt(d, o, p)
    PROVE  IsAt(Append(d, e), o, p)
<1> DEFINE D == Append(d, e)
<1>1. PICK up \in [1 .. Len(p) - 1 -> 1 .. Len(d)] :
          /\ \A n \in 1 .. Len(p) - 1 : d[up[n]].name = p[n]
          /\ \A n \in 2 .. Len(p) - 1 : d[up[n]].parent = up[n - 1]
          /\ IF Len(p) = 1 THEN d[o].folder
                           ELSE d[up[1]].folder /\ d[o].parent = up[Len(p) - 1]
  BY DEF IsAt
<1>2. o \in 1 .. Len(d) /\ d[o].name = p[Len(p)]
  BY DEF IsAt
<1>3. \A x \in 1 .. Len(d) : x \in 1 .. Len(D) /\ D[x] = d[x]
  BY AppendFacts
<1> HIDE DEF D
<1>4. up \in [1 .. Len(p) - 1 -> 1 .. Len(D)]
  BY <1>3
<1>5. \A n \in 1 .. Len(p) - 1 : D[up[n]] = d[up[n]]
  BY <1>3
<1>6. \A n \in 1 .. Len(p) - 1 : D[up[n]].name = p[n]
  BY <1>1, <1>5
<1>7. \A n \in 2 .. Len(p) - 1 : D[up[n]].parent = up[n - 1]
  <2>1. \A n \in 2 .. l - 1 : n \in 1 .. l - 1
    OBVIOUS
  <2> QED BY <1>1, <1>5, <2>1
<1>8. IF Len(p) = 1 THEN D[o].folder
                    ELSE D[up[1]].folder /\ D[o].parent = up[Len(p) - 1]
  <2>1. D[o] = d[o]
    BY <1>2, <1>3
  <2>2. CASE Len(p) = 1
    BY <1>1, <2>1, <2>2
  <2>3. CASE Len(p) # 1
    <3>1. 1 \in 1 .. l - 1
      BY <2>3
    <3>2. D[up[1]] = d[up[1]]
      BY <1>5, <3>1
    <3> QED BY <1>1, <2>1, <2>3, <3>2
  <2> QED BY <2>2, <2>3
<1>9. o \in 1 .. Len(D) /\ D[o].name = p[Len(p)]
  BY <1>2, <1>3
<1> QED BY <1>4, <1>6, <1>7, <1>8, <1>9 DEF IsAt, D

\* The first part of a path, and one part more.
LEMMA AtFirst ==
    ASSUME NEW d, NEW o \in 1 .. Len(d), NEW p, Len(p) = 1,
           d[o].folder, d[o].name = p[1]
    PROVE  IsAt(d, o, p)
<1> DEFINE up == [n \in 1 .. 0 |-> o]
<1>1. up \in [1 .. Len(p) - 1 -> 1 .. Len(d)]
  OBVIOUS
<1>2. /\ \A n \in 1 .. Len(p) - 1 : d[up[n]].name = p[n]
      /\ \A n \in 2 .. Len(p) - 1 : d[up[n]].parent = up[n - 1]
  OBVIOUS
<1> QED BY <1>1, <1>2 DEF IsAt

LEMMA AtNext ==
    ASSUME NEW d, NEW x, NEW o \in 1 .. Len(d), NEW p, NEW q,
           NEW l \in Nat \ {0}, Len(p) = l, Len(q) = l + 1,
           \A n \in 1 .. l : q[n] = p[n],
           IsAt(d, x, p), d[o].parent = x, d[o].name = q[Len(q)]
    PROVE  IsAt(d, o, q)
<1>1. PICK up \in [1 .. Len(p) - 1 -> 1 .. Len(d)] :
          /\ \A n \in 1 .. Len(p) - 1 : d[up[n]].name = p[n]
          /\ \A n \in 2 .. Len(p) - 1 : d[up[n]].parent = up[n - 1]
          /\ IF Len(p) = 1 THEN d[x].folder
                           ELSE d[up[1]].folder /\ d[x].parent = up[Len(p) - 1]
  BY DEF IsAt
<1>2. x \in 1 .. Len(d) /\ d[x].name = p[Len(p)]
  BY DEF IsAt
<1> DEFINE dn == [n \in 1 .. l |-> IF n = l THEN x ELSE up[n]]
<1>3. l >= 1 /\ Len(q) - 1 = l /\ Len(q) # 1
  OBVIOUS
<1>4. dn \in [1 .. l -> 1 .. Len(d)]
  BY <1>2, <1>3
<1>5. dn[l] = x /\ \A n \in 1 .. l - 1 : dn[n] = up[n]
  <2>1. l \in 1 .. l /\ \A n \in 1 .. l - 1 : n \in 1 .. l /\ n # l
    OBVIOUS
  <2> QED BY <2>1
<1> HIDE DEF dn
<1>6. \A n \in 1 .. l : d[dn[n]].name = q[n]
  <2> SUFFICES ASSUME NEW n \in 1 .. l PROVE d[dn[n]].name = q[n]
    OBVIOUS
  <2>1. CASE n = l
    BY <1>2, <1>5, <2>1
  <2>2. CASE n # l
    <3>1. n \in 1 .. l - 1
      BY <2>2
    <3> QED BY <1>1, <1>5, <3>1
  <2> QED BY <2>1, <2>2
<1>7. \A n \in 2 .. l : d[dn[n]].parent = dn[n - 1]
  <2> SUFFICES ASSUME NEW n \in 2 .. l PROVE d[dn[n]].parent = dn[n - 1]
    OBVIOUS
  <2>1. n - 1 \in 1 .. l - 1 /\ dn[n - 1] = up[n - 1]
    BY <1>3, <1>5
  <2>2. CASE n = l
    BY <1>1, <1>3, <1>5, <2>1, <2>2
  <2>3. CASE n # l
    <3>1. n \in 1 .. l - 1 /\ n \in 2 .. l - 1
      BY <2>3
    <3> QED BY <1>1, <1>5, <2>1, <3>1
  <2> QED BY <2>2, <2>3
<1>8. d[dn[1]].folder
  <2>1. CASE l = 1
    BY <1>1, <1>5, <2>1
  <2>2. CASE l # 1
    <3>1. 1 \in 1 .. l - 1
      BY <1>3, <2>2
    <3> QED BY <1>1, <1>5, <2>2, <3>1
  <2> QED BY <2>1, <2>2
<1>9. d[o].parent = dn[l] /\ d[o].name = q[Len(q)]
  BY <1>5
<1>10. dn \in [1 .. Len(q) - 1 -> 1 .. Len(d)] /\ d[o].parent = dn[Len(q) - 1]
  BY <1>3, <1>4, <1>9
<1>11. /\ \A n \in 1 .. Len(q) - 1 : d[dn[n]].name = q[n]
       /\ \A n \in 2 .. Len(q) - 1 : d[dn[n]].parent = dn[n - 1]
  BY <1>3, <1>6, <1>7
<1> QED BY <1>3, <1>8, <1>9, <1>10, <1>11 DEF IsAt

\* What GetPathID is asked for, and the parts of it that path_cache may have a row of.
LEMMA TargetFacts ==
    ASSUME NEW t \in Tasks
    PROVE  /\ Target(t) \in Seq(Names) /\ Len(Target(t)) \in Nat
           /\ Len(Target(t)) = 0 <=> Target(t) = <<>>
           /\ Target(t) # <<>> => Target(t) \in Paths
           /\ \A i \in 1 .. Len(Target(t)) : /\ SubSeq(Target(t), 1, i) \in Paths
                                             /\ SubSeq(Target(t), 1, i) \in Seq(Names)
                                             /\ Len(SubSeq(Target(t), 1, i)) = i
                                             /\ \A n \in 1 .. i :
                                                   SubSeq(Target(t), 1, i)[n] = Target(t)[n]
           /\ SubSeq(Target(t), 1, Len(Target(t))) = Target(t)
           /\ FileName(t) \in Names
           /\ \A i \in 1 .. Len(Target(t)) : Target(t)[i] \in Names
<1> DEFINE p == t.path
           T == Target(t)
           m == IF t.op = "upload" THEN Len(p) - 1 ELSE Len(p)
<1>1. p \in Seq(Names) /\ Len(p) \in Nat /\ Len(p) > 0
  BY TasksAssumption
<1>2. m \in 0 .. Len(p)
  BY <1>1
<1>3. T = SubSeq(p, 1, m)
  <2>1. SubSeq(p, 1, Len(p)) = p
    BY <1>1, SubSeqFull
  <2> QED BY <2>1 DEF Target
<1>4. \A n \in 1 .. Len(p) : p[n] \in Names
  BY <1>1, ElementOfSeq
<1>5. \A k \in 1 .. Len(p) : /\ SubSeq(p, 1, k) \in Paths /\ SubSeq(p, 1, k) \in Seq(Names)
                             /\ Len(SubSeq(p, 1, k)) = k
                             /\ \A n \in 1 .. k : SubSeq(p, 1, k)[n] = p[n]
  <2> SUFFICES ASSUME NEW k \in 1 .. Len(p)
               PROVE  /\ SubSeq(p, 1, k) \in Paths /\ SubSeq(p, 1, k) \in Seq(Names)
                      /\ Len(SubSeq(p, 1, k)) = k
                      /\ \A n \in 1 .. k : SubSeq(p, 1, k)[n] = p[n]
    OBVIOUS
  <2>1. SubSeq(p, 1, k) \in Paths
    BY DEF Paths
  <2>2. k \in Int /\ 1 <= k /\ \A i \in 1 .. k : p[i] \in Names
    BY <1>1, <1>4
  <2>3. /\ SubSeq(p, 1, k) \in Seq(Names) /\ Len(SubSeq(p, 1, k)) = k - 1 + 1
        /\ \A i \in 1 .. k - 1 + 1 : SubSeq(p, 1, k)[i] = p[1 + i - 1]
    BY <2>2, SubSeqProperties
  <2> QED BY <2>1, <2>2, <2>3
<1> HIDE DEF m
<1>6. /\ T \in Seq(Names) /\ Len(T) = m /\ \A n \in 1 .. m : T[n] = p[n]
      /\ m # 0 => T \in Paths
  <2>1. CASE m = 0
    <3>1. T = <<>>
      BY <1>3, <2>1, SubSeqEmpty
    <3> QED BY <2>1, <3>1, EmptySeq
  <2>2. CASE m # 0
    <3>1. m \in 1 .. Len(p)
      BY <1>1, <1>2, <2>2
    <3> QED BY <1>3, <1>5, <3>1
  <2> QED BY <2>1, <2>2
<1>7. \A i \in 1 .. m : SubSeq(T, 1, i) = SubSeq(p, 1, i)
  <2> SUFFICES ASSUME NEW i \in 1 .. m PROVE SubSeq(T, 1, i) = SubSeq(p, 1, i)
    OBVIOUS
  <2>1. /\ 1 \in 1 .. Len(p) /\ m \in 1 .. Len(p)
        /\ 1 \in 1 .. m - 1 + 1 /\ i \in 1 .. m - 1 + 1
    BY <1>1, <1>2
  <2>2. SubSeq(SubSeq(p, 1, m), 1, i) = SubSeq(p, 1 + 1 - 1, 1 + i - 1)
    BY <1>1, <2>1, SubSeqOfSubSeq
  <2>3. 1 + 1 - 1 = 1 /\ 1 + i - 1 = i
    BY <2>1
  <2> QED BY <1>3, <2>2, <2>3
<1>8. \A i \in 1 .. m : i \in 1 .. Len(p)
  BY <1>1, <1>2
<1>9. SubSeq(T, 1, Len(T)) = T
  BY <1>6, SubSeqFull
<1>10. FileName(t) \in Names
  BY <1>1, <1>4 DEF FileName
<1>11. m \in Nat /\ (m = 0 <=> T = <<>>)
  <2>1. m \in Nat
    BY <1>1, <1>2
  <2> HIDE DEF T
  <2>2. T # <<>> => Len(T) \in Nat \ {0}
    BY <1>6, EmptySeq
  <2> QED BY <1>6, <2>1, <2>2, EmptySeq
<1> HIDE DEF p, T
<1>12. \A i \in 1 .. Len(T) : /\ SubSeq(T, 1, i) \in Paths /\ SubSeq(T, 1, i) \in Seq(Names)
                              /\ Len(SubSeq(T, 1, i)) = i
                              /\ \A n \in 1 .. i : SubSeq(T, 1, i)[n] = T[n]
  <2> SUFFICES ASSUME NEW i \in 1 .. Len(T)
               PROVE  /\ SubSeq(T, 1, i) \in Paths /\ SubSeq(T, 1, i) \in Seq(Names)
                      /\ Len(SubSeq(T, 1, i)) = i
                      /\ \A n \in 1 .. i : SubSeq(T, 1, i)[n] = T[n]
    OBVIOUS
  <2>1. i \in 1 .. m /\ i \in 1 .. Len(p) /\ SubSeq(T, 1, i) = SubSeq(p, 1, i)
    BY <1>6, <1>7, <1>8
  <2>2. \A n \in 1 .. i : n \in 1 .. m /\ T[n] = p[n]
    BY <1>6, <1>11, <2>1
  <2> QED BY <1>5, <2>1, <2>2
<1>13. \A i \in 1 .. Len(T) : T[i] \in Names
  BY <1>4, <1>6, <1>8
<1> QED BY <1>6, <1>9, <1>10, <1>11, <1>12, <1>13 DEF T

----------------------------------------------------------------------------
(* What any step does to the objects and to the other workers.             *)

Grown == \/ drive' = drive
         \/ \E e \in Objects : e.parent <= Len(drive) /\ drive' = Append(drive, e)

Others(w) == \A v \in Workers \ {w} : job'[v] = job[v] /\ pc'[v] = pc[v] /\ at'[v] = at[v]

LEMMA GrownFacts ==
    ASSUME TypeOK, Grown
    PROVE  /\ drive' \in Seq(Objects) /\ \A o \in Ids' : drive'[o].parent < o
           /\ Ids \subseteq Ids' /\ \A o \in Ids : drive'[o] = drive[o]
<1>1. CASE drive' = drive
  BY <1>1 DEF TypeOK, Ids
<1>2. ASSUME NEW e \in Objects, e.parent <= Len(drive), drive' = Append(drive, e)
      PROVE  /\ drive' \in Seq(Objects) /\ \A o \in Ids' : drive'[o].parent < o
             /\ Ids \subseteq Ids' /\ \A o \in Ids : drive'[o] = drive[o]
  <2>1. /\ drive' \in Seq(Objects) /\ Len(drive) \in Nat
        /\ \A o \in Ids : o \in Ids' /\ drive'[o] = drive[o]
        /\ drive'[Len(drive) + 1] = e /\ Ids' = Ids \cup {Len(drive) + 1}
    BY <1>2, AppendFacts DEF TypeOK, Ids
  <2>2. e.parent < Len(drive) + 1
    BY <1>2, <2>1 DEF Objects
  <2> QED BY <2>1, <2>2 DEF TypeOK
<1> QED BY <1>1, <1>2 DEF Grown

LEMMA StillAt ==
    ASSUME TypeOK, Grown, NEW o, NEW p, NEW l \in Nat \ {0}, Len(p) = l, IsAt(drive, o, p)
    PROVE  IsAt(drive', o, p)
<1>1. CASE drive' = drive
  BY <1>1
<1>2. ASSUME NEW e \in Objects, drive' = Append(drive, e) PROVE IsAt(drive', o, p)
  <2>1. IsAt(Append(drive, e), o, p)
    BY StaysAt DEF TypeOK
  <2> QED BY <1>2, <2>1
<1> QED BY <1>1, <1>2 DEF Grown

\* Where a worker with a task is.
LEMMA AtFacts ==
    ASSUME TypeOK, NEW w \in Workers, pc[w] # "idle"
    PROVE  /\ job[w] \in Tasks
           /\ at[w].i \in Nat /\ at[w].id \in Nat
           /\ at[w].id = Root \/ at[w].id \in Ids
           /\ at[w].id <= Len(drive)
<1>1. job[w] \in Tasks
  BY DEF TypeOK
<1>2. at[w] \in [i : Nat, id : {Root} \cup Ids]
  BY DEF TypeOK
<1>3. Len(drive) \in Nat
  BY DEF TypeOK
<1> QED BY <1>1, <1>2, <1>3 DEF Root, Ids

LEMMA ObjectFacts ==
    ASSUME TypeOK, NEW w \in Workers, pc[w] # "idle", NEW name \in Names, NEW f \in BOOLEAN,
           NewObject(w, name, f)
    PROVE  /\ Grown
           /\ Len(drive') = Len(drive) + 1 /\ Len(drive') \in Ids'
           /\ drive'[Len(drive')] = [name |-> name, parent |-> at[w].id, folder |-> f]
           /\ Ids' = Ids \cup {Len(drive')} /\ Len(drive') \notin Ids
<1> DEFINE e == [name |-> name, parent |-> at[w].id, folder |-> f]
<1>1. e \in Objects /\ e.parent <= Len(drive)
  BY AtFacts DEF Objects
<1>2. drive' = Append(drive, e)
  BY DEF NewObject
<1>3. drive \in Seq(Objects)
  BY DEF TypeOK
<1> HIDE DEF e
<1>4. /\ Len(drive) \in Nat /\ Len(drive') = Len(drive) + 1
      /\ drive'[Len(drive) + 1] = e
      /\ 1 .. Len(drive') = (1 .. Len(drive)) \cup {Len(drive) + 1}
  BY <1>1, <1>2, <1>3, AppendFacts
<1>5. Len(drive') \in 1 .. Len(drive') /\ Len(drive') \notin 1 .. Len(drive)
  BY <1>4
<1> QED BY <1>1, <1>2, <1>4, <1>5 DEF Grown, Ids, e

LEMMA PartFacts ==
    ASSUME TypeOK, NEW w \in Workers, pc[w] \in {"listing", "creating"}, Underway(w)
    PROVE  Part(w) \in Names /\ at[w].i + 1 \in 1 .. Len(Target(job[w]))
<1>1. job[w] \in Tasks /\ at[w].i \in Nat /\ at[w].i < Len(Target(job[w]))
  BY AtFacts DEF Underway
<1>2. Len(Target(job[w])) \in Nat
  BY <1>1, TargetFacts
<1>3. at[w].i + 1 \in 1 .. Len(Target(job[w]))
  BY <1>1, <1>2
<1> QED BY <1>1, <1>3, TargetFacts DEF Part

LEMMA FolderFacts ==
    ASSUME TypeOK, NEW w \in Workers, pc[w] = "creating", Underway(w), NewFolder(w)
    PROVE  /\ Grown
           /\ Len(drive') = Len(drive) + 1 /\ Len(drive') \in Ids'
           /\ drive'[Len(drive')] = [name |-> Part(w), parent |-> at[w].id, folder |-> TRUE]
           /\ Ids' = Ids \cup {Len(drive')} /\ Len(drive') \notin Ids
<1>1. Part(w) \in Names /\ NewObject(w, Part(w), TRUE)
  BY PartFacts DEF NewFolder
<1> QED BY <1>1, ObjectFacts

LEMMA FileFacts ==
    ASSUME TypeOK, NEW w \in Workers, pc[w] = "transferring",
           NewObject(w, FileName(job[w]), FALSE)
    PROVE  /\ Grown
           /\ Len(drive') = Len(drive) + 1 /\ Len(drive') \in Ids'
           /\ drive'[Len(drive')] =
                 [name |-> FileName(job[w]), parent |-> at[w].id, folder |-> FALSE]
           /\ Ids' = Ids \cup {Len(drive')} /\ Len(drive') \notin Ids
<1>1. FileName(job[w]) \in Names
  BY AtFacts, TargetFacts
<1> QED BY <1>1, ObjectFacts

LEMMA DriveGrows ==
    ASSUME TypeOK, NEW w \in Workers, Underway(w), WorkerStep(w) \/ CallLost(w)
    PROVE  Grown
<1> USE DEF remote, calls, history, tasks
<1>1. CASE Take(w) \/ Lookup(w) \/ List(w) \/ Save(w)
  BY <1>1 DEF Take, Lookup, List, Save, Grown
<1>2. CASE Create(w)
  <2>1. drive' = drive \/ (pc[w] = "creating" /\ NewFolder(w))
    BY <1>2 DEF Create
  <2> QED BY <2>1, FolderFacts DEF Grown
<1>3. CASE Transfer(w)
  <2>1. drive' = drive \/ (pc[w] = "transferring" /\ NewObject(w, FileName(job[w]), FALSE))
    BY <1>3 DEF Transfer
  <2> QED BY <2>1, FileFacts DEF Grown
<1>4. CASE CallLost(w)
  <2>1. \/ drive' = drive
        \/ pc[w] = "creating" /\ NewFolder(w)
        \/ pc[w] = "transferring" /\ NewObject(w, FileName(job[w]), FALSE)
    BY <1>4 DEF CallLost
  <2> QED BY <2>1, FolderFacts, FileFacts DEF Grown
<1> QED BY <1>1, <1>2, <1>3, <1>4 DEF WorkerStep

LEMMA OneMoves ==
    ASSUME TypeOK, NEW w \in Workers, WorkerStep(w) \/ CallLost(w)
    PROVE  Others(w)
<1> USE DEF remote, calls, history, tasks, Goto, Leave, GiveBack, Reach, Others, TypeOK
<1>1. CASE Take(w) \/ Lookup(w) \/ Save(w)
  BY <1>1 DEF Take, Lookup, Save
<1>2. CASE List(w) \/ Create(w)
  BY <1>2 DEF List, Create
<1>3. CASE Transfer(w) \/ CallLost(w)
  BY <1>3 DEF Transfer, CallLost
<1> QED BY <1>1, <1>2, <1>3 DEF WorkerStep

----------------------------------------------------------------------------
(* Type correctness.                                                       *)

Calls == /\ job' \in [Workers -> Tasks \cup {Idle}]
         /\ pc' \in [Workers -> {"idle", "lookup", "listing", "creating", "saving",
                                 "transferring"}]
         /\ \A v \in Workers : pc'[v] = "idle" <=> job'[v] = Idle
         /\ at' \in [Workers -> [i : Nat, id : {Root} \cup Ids']]

Queue == todo' \subseteq Tasks /\ retries' \in [Tasks -> 0 .. MaxRetries]

LEMMA AtStays ==
    ASSUME TypeOK, Ids \subseteq Ids'
    PROVE  /\ at \in [Workers -> [i : Nat, id : {Root} \cup Ids']]
           /\ cache \in [Paths -> {Root} \cup Ids'] /\ gone \subseteq Ids'
           /\ landed \subseteq Tasks \X Ids'
<1>1. \A w \in Workers : at[w] \in [i : Nat, id : {Root} \cup Ids']
  BY DEF TypeOK
<1> QED BY <1>1 DEF TypeOK

LEMMA LeaveType ==
    ASSUME TypeOK, NEW w \in Workers, Leave(w), Ids \subseteq Ids'
    PROVE  Calls
<1>1. Start \in [i : Nat, id : {Root} \cup Ids']
  BY DEF Start, Root
<1>2. at' \in [Workers -> [i : Nat, id : {Root} \cup Ids']]
  BY <1>1, AtStays DEF Leave
<1> QED BY <1>2 DEF Calls, Leave, Goto, TypeOK

LEMMA GiveBackType ==
    ASSUME TypeOK, NEW w \in Workers, pc[w] # "idle", GiveBack(w), Ids \subseteq Ids'
    PROVE  Calls /\ Queue
<1> DEFINE t == job[w]
<1>1. Leave(w) /\ t \in Tasks
  BY AtFacts DEF GiveBack
<1>2. \/ retries[t] < MaxRetries /\ retries' = [retries EXCEPT ![t] = @ + 1] /\ todo' = todo
      \/ todo' = todo \ {t} /\ retries' = retries
  BY DEF GiveBack
<1>3. retries[t] < MaxRetries => retries[t] + 1 \in 0 .. MaxRetries
  BY <1>1, BoundsAssumption DEF TypeOK
<1>4. Queue
  BY <1>1, <1>2, <1>3 DEF Queue, TypeOK
<1> QED BY <1>1, <1>4, LeaveType

LEMMA ReachType ==
    ASSUME TypeOK, NEW w \in Workers, pc[w] # "idle", Ids \subseteq Ids',
           NEW id \in Ids', Reach(w, id), NEW to \in {"saving"}, Goto(w, to), job' = job
    PROVE  Calls
<1>1. at[w].i + 1 \in Nat
  BY AtFacts
<1>2. [i |-> at[w].i + 1, id |-> id] \in [i : Nat, id : {Root} \cup Ids']
  BY <1>1
<1>3. at' \in [Workers -> [i : Nat, id : {Root} \cup Ids']]
  BY <1>2, AtStays DEF Reach
<1> QED BY <1>3 DEF Calls, Goto, TypeOK

\* The pieces of TypeOK that a step of a worker may touch.
LEMMA TypePieces ==
    ASSUME TypeOK, Grown, gone' = gone, deletes' = deletes, Calls, Queue,
           cache' \in [Paths -> {Root} \cup Ids'], landed' \subseteq Tasks \X Ids',
           raced' \in BOOLEAN, faults' \in 0 .. MaxFaults
    PROVE  TypeOK'
BY GrownFacts, AtStays DEF TypeOK, Calls, Queue

LEMMA TypeWorker ==
    ASSUME TypeOK, NEW w \in Workers, Underway(w), WorkerStep(w) \/ CallLost(w)
    PROVE  TypeOK'
<1> USE DEF remote, calls, history, tasks
<1>1. Grown
  BY DriveGrows
<1>2. Ids \subseteq Ids'
  BY <1>1, GrownFacts
<1>3. /\ at \in [Workers -> [i : Nat, id : {Root} \cup Ids']]
      /\ cache \in [Paths -> {Root} \cup Ids'] /\ landed \subseteq Tasks \X Ids'
      /\ raced \in BOOLEAN /\ faults \in 0 .. MaxFaults
      /\ todo \subseteq Tasks /\ retries \in [Tasks -> 0 .. MaxRetries]
  BY <1>2, AtStays DEF TypeOK
<1>4. CASE Take(w)
  <2>1. Calls
    BY <1>3, <1>4, IdleAssumption DEF Take, Goto, Calls, TypeOK
  <2> QED BY <1>1, <1>3, <1>4, <2>1, TypePieces DEF Take, Queue
<1>5. CASE Lookup(w)
  <2> DEFINE id == IF Target(job[w]) = <<>> THEN Root ELSE cache[Target(job[w])]
  <2>1. pc[w] = "lookup" /\ job[w] \in Tasks
    BY <1>5, AtFacts DEF Lookup
  <2>2. id \in {Root} \cup Ids'
    BY <1>3, <2>1, TargetFacts
  <2>3. [i |-> 0, id |-> id] \in [i : Nat, id : {Root} \cup Ids']
    BY <2>2
  <2> HIDE DEF id
  <2>4. at' = at \/ at' = [at EXCEPT ![w] = [i |-> 0, id |-> id]]
    BY <1>5 DEF Lookup, id
  <2>5. at' \in [Workers -> [i : Nat, id : {Root} \cup Ids']]
    BY <1>3, <2>3, <2>4
  <2>6. job' = job /\ (Goto(w, "transferring") \/ Goto(w, "listing"))
    BY <1>5 DEF Lookup
  <2>7. Calls
    BY <2>1, <2>5, <2>6 DEF Calls, Goto, TypeOK
  <2> QED BY <1>1, <1>3, <1>5, <2>7, TypePieces DEF Lookup, Queue
<1>6. CASE List(w)
  <2>1. pc[w] = "listing" /\ UNCHANGED <<gone, deletes, cache, landed, raced, faults>>
    BY <1>6 DEF List
  <2>2. CASE \E o \in Found(w) : Reach(w, o) /\ Goto(w, "saving") /\ UNCHANGED <<job, tasks>>
    <3>1. PICK o \in Found(w) : Reach(w, o) /\ Goto(w, "saving") /\ UNCHANGED <<job, tasks>>
      BY <2>2
    <3>2. o \in Ids'
      BY <1>2 DEF Found, Live
    <3>3. Calls
      BY <1>2, <2>1, <3>1, <3>2, ReachType
    <3> QED BY <1>1, <1>3, <2>1, <3>1, <3>3, TypePieces DEF Queue
  <2>3. CASE Goto(w, "creating") /\ UNCHANGED <<job, tasks, at>>
    <3>1. Calls
      BY <1>3, <2>1, <2>3 DEF Calls, Goto, TypeOK
    <3> QED BY <1>1, <1>3, <2>1, <2>3, <3>1, TypePieces DEF Queue
  <2>4. CASE GiveBack(w)
    BY <1>1, <1>2, <1>3, <2>1, <2>4, GiveBackType, TypePieces
  <2> QED BY <1>6, <2>2, <2>3, <2>4 DEF List
<1>7. CASE Create(w)
  <2>1. pc[w] = "creating" /\ UNCHANGED <<gone, deletes, cache, landed, faults>>
    BY <1>7 DEF Create
  <2>2. CASE NewFolder(w) /\ Reach(w, Len(drive')) /\ Goto(w, "saving") /\ UNCHANGED <<job, tasks>>
    <3>1. Len(drive') \in Ids' /\ raced' \in BOOLEAN
      BY <2>1, <2>2, <1>3, FolderFacts DEF NewFolder
    <3>2. Calls
      BY <1>2, <2>1, <2>2, <3>1, ReachType
    <3> QED BY <1>1, <1>3, <2>1, <2>2, <3>1, <3>2, TypePieces DEF Queue
  <2>3. CASE GiveBack(w) /\ raced' = raced
    BY <1>1, <1>2, <1>3, <2>1, <2>3, GiveBackType, TypePieces
  <2> QED BY <1>7, <2>2, <2>3 DEF Create
<1>8. CASE Save(w)
  <2>1. /\ pc[w] = "saving" /\ UNCHANGED <<gone, deletes, job, tasks, at, landed, raced>>
        /\ Goto(w, "transferring") \/ Goto(w, "listing")
    BY <1>8 DEF Save
  <2>2. Calls
    BY <1>3, <2>1 DEF Calls, Goto, TypeOK
  <2>3. at[w].id \in {Root} \cup Ids'
    BY <1>2, <2>1, AtFacts
  <2>4. cache' \in [Paths -> {Root} \cup Ids']
    BY <1>3, <1>8, <2>3 DEF Save
  <2>5. faults' \in 0 .. MaxFaults
    BY <1>3, <1>8, BoundsAssumption DEF Save
  <2> QED BY <1>1, <1>3, <2>1, <2>2, <2>4, <2>5, TypePieces DEF Queue
<1>9. CASE Transfer(w)
  <2>1. pc[w] = "transferring" /\ UNCHANGED <<gone, deletes, cache, raced, faults>>
    BY <1>9 DEF Transfer
  <2>2. job[w] \in Tasks
    BY <2>1, AtFacts
  <2>3. ASSUME NEW id \in Ids', landed' = landed \cup {<<job[w], id>>}, Leave(w),
               todo' = todo \ {job[w]}, retries' = retries
        PROVE  TypeOK'
    <3>1. landed' \subseteq Tasks \X Ids' /\ todo' \subseteq Tasks
      BY <1>3, <2>2, <2>3
    <3> QED BY <1>1, <1>2, <1>3, <2>1, <2>3, <3>1, LeaveType, TypePieces DEF Queue
  <2>4. CASE GiveBack(w) /\ landed' = landed
    BY <1>1, <1>2, <1>3, <2>1, <2>4, GiveBackType, TypePieces
  <2>5. CASE /\ NewObject(w, FileName(job[w]), FALSE)
             /\ landed' = landed \cup {<<job[w], Len(drive')>>}
             /\ todo' = todo \ {job[w]} /\ UNCHANGED retries /\ Leave(w)
    <3>1. Len(drive') \in Ids'
      BY <2>1, <2>5, FileFacts
    <3> QED BY <2>3, <2>5, <3>1
  <2>6. CASE /\ at[w].id \in Live
             /\ landed' = landed \cup {<<job[w], at[w].id>>}
             /\ todo' = todo \ {job[w]} /\ UNCHANGED retries /\ Leave(w)
    <3>1. at[w].id \in Ids'
      BY <1>2, <2>6 DEF Live
    <3> QED BY <2>3, <2>6, <3>1
  <2> QED BY <1>9, <2>4, <2>5, <2>6 DEF Transfer
<1>10. CASE CallLost(w)
  <2>1. pc[w] # "idle" /\ GiveBack(w) /\ UNCHANGED <<gone, deletes, cache, landed>>
    BY <1>10 DEF CallLost
  <2>2. raced' \in BOOLEAN
    BY <1>3, <1>10 DEF CallLost, NewFolder
  <2>3. faults' \in 0 .. MaxFaults
    BY <1>3, <1>10, BoundsAssumption DEF CallLost
  <2> QED BY <1>1, <1>2, <1>3, <2>1, <2>2, <2>3, GiveBackType, TypePieces
<1> QED BY <1>4, <1>5, <1>6, <1>7, <1>8, <1>9, <1>10 DEF WorkerStep

LEMMA TypeInit == Init => TypeOK
<1> SUFFICES ASSUME Init PROVE TypeOK
  OBVIOUS
<1> USE DEF Init
<1>1. drive \in Seq(Objects) /\ Ids = {}
  BY EmptySeq DEF Ids
<1>2. at \in [Workers -> [i : Nat, id : {Root} \cup Ids]]
  BY DEF Start, Root
<1>3. cache \in [Paths -> {Root} \cup Ids]
  OBVIOUS
<1>4. /\ todo \subseteq Tasks /\ retries \in [Tasks -> 0 .. MaxRetries]
      /\ faults \in 0 .. MaxFaults /\ deletes \in 0 .. MaxDeletes
  BY BoundsAssumption, BatchesAssumption
<1>5. /\ job \in [Workers -> Tasks \cup {Idle}]
      /\ pc \in [Workers -> {"idle", "lookup", "listing", "creating", "saving", "transferring"}]
      /\ \A w \in Workers : pc[w] = "idle" <=> job[w] = Idle
  OBVIOUS
<1>6. raced \in BOOLEAN /\ gone \subseteq Ids /\ landed \subseteq Tasks \X Ids
  OBVIOUS
<1> QED BY <1>1, <1>2, <1>3, <1>4, <1>5, <1>6 DEF TypeOK

----------------------------------------------------------------------------
(* Where things are: CacheSound and RightPlace, and Underway, which says   *)
(* how GetPathID comes to know.                                            *)

Placed == CacheSound /\ RightPlace /\ \A w \in Workers : Underway(w)

LEMMA PathFacts == ASSUME NEW p \in Paths PROVE Len(p) \in Nat \ {0}
<1>0. PICK t \in Tasks : \E n \in 1 .. Len(t.path) : p = SubSeq(t.path, 1, n)
  BY DEF Paths
<1>1. PICK n \in 1 .. Len(t.path) : p = SubSeq(t.path, 1, n)
  BY <1>0
<1>2. t.path \in Seq(Names) /\ Len(t.path) \in Nat
  BY TasksAssumption
<1>3. n \in Int /\ n >= 1 /\ \A i \in 1 .. n : t.path[i] \in Names
  BY <1>2, ElementOfSeq
<1>4. Len(SubSeq(t.path, 1, n)) = IF 1 <= n THEN n - 1 + 1 ELSE 0
  BY <1>3, SubSeqProperties
<1> QED BY <1>1, <1>3, <1>4

LEMMA CacheKept == ASSUME TypeOK, Grown, CacheSound, cache' = cache PROVE CacheSound'
BY PathFacts, StillAt DEF CacheSound

LEMMA FileStays ==
    ASSUME TypeOK, Grown, NEW t \in Tasks, NEW o, FileAt(drive, o, t.path)
    PROVE  FileAt(drive', o, t.path)
<1> DEFINE p == t.path
<1>1. Len(p) \in Nat \ {0}
  BY TasksAssumption
<1> HIDE DEF p
<1>2. CASE Len(p) = 1
  <2>1. o \in Ids /\ drive[o].name = p[1] /\ drive[o].parent = Root /\ ~drive[o].folder
    BY <1>2 DEF FileAt, Ids, p
  <2>2. o \in Ids' /\ drive'[o] = drive[o]
    BY <2>1, GrownFacts
  <2> QED BY <1>2, <2>1, <2>2 DEF FileAt, Ids, p
<1>3. CASE Len(p) # 1
  <2>1. IsAt(drive, o, p) /\ ~drive[o].folder
    BY <1>3 DEF FileAt, p
  <2>2. o \in Ids
    BY <2>1 DEF IsAt, Ids
  <2>3. drive'[o] = drive[o]
    BY <2>2, GrownFacts
  <2>4. IsAt(drive', o, p)
    BY <1>1, <2>1, StillAt
  <2> QED BY <1>3, <2>1, <2>3, <2>4 DEF FileAt, p
<1> QED BY <1>2, <1>3

LEMMA RightKept == ASSUME TypeOK, Grown, RightPlace, landed' = landed PROVE RightPlace'
<1> SUFFICES ASSUME NEW l \in landed PROVE FileAt(drive', l[2], l[1].path)
  BY DEF RightPlace
<1>1. l[1] \in Tasks
  BY DEF TypeOK
<1>2. FileAt(drive, l[2], l[1].path)
  BY DEF RightPlace
<1> QED BY <1>1, <1>2, FileStays

\* A worker that does not move is where it was.
LEMMA UnderwayKept ==
    ASSUME TypeOK, Grown, NEW v \in Workers, Underway(v),
           job'[v] = job[v], pc'[v] = pc[v], at'[v] = at[v]
    PROVE  Underway(v)'
<1>1. CASE pc[v] \in {"idle", "lookup"}
  BY <1>1 DEF Underway
<1>2. CASE pc[v] \in {"listing", "creating", "saving", "transferring"}
  <2> DEFINE T == Target(job[v])
  <2>1. job[v] \in Tasks /\ at[v].i \in Nat
    BY <1>2, AtFacts
  <2>2. /\ Len(T) \in Nat /\ (T # <<>> => Len(T) \in Nat \ {0})
        /\ \A i \in 1 .. Len(T) : Len(SubSeq(T, 1, i)) = i
    BY <2>1, TargetFacts
  <2> HIDE DEF T
  <2>3. T' = T
    BY DEF T, Target
  <2>4. CASE pc[v] = "transferring"
    BY <2>2, <2>3, <2>4, StillAt DEF Underway, T
  <2>5. ASSUME at[v].i \in 1 .. Len(T), IsAt(drive, at[v].id, Resolved(v))
        PROVE  IsAt(drive', at'[v].id, Resolved(v)')
    <3>1. Len(Resolved(v)) = at[v].i /\ at[v].i \in Nat \ {0} /\ Resolved(v)' = Resolved(v)
      BY <2>2, <2>3, <2>5 DEF Resolved, T
    <3> QED BY <2>5, <3>1, StillAt
  <2>6. CASE pc[v] = "saving"
    BY <2>3, <2>5, <2>6 DEF Underway, T
  <2>7. CASE pc[v] \in {"listing", "creating"}
    <3>1. at[v].i < Len(T)
      BY <2>7 DEF Underway, T
    <3>2. CASE at[v].i = 0
      BY <2>3, <2>7, <3>1, <3>2 DEF Underway, T
    <3>3. CASE at[v].i # 0
      <4>1. at[v].i \in 1 .. Len(T) /\ IsAt(drive, at[v].id, Resolved(v))
        BY <2>1, <2>2, <2>7, <3>1, <3>3 DEF Underway
      <4> QED BY <2>3, <2>5, <2>7, <3>1, <3>3, <4>1 DEF Underway, T
    <3> QED BY <3>2, <3>3
  <2> QED BY <1>2, <2>4, <2>6, <2>7
<1> QED BY <1>1, <1>2 DEF TypeOK

\* A worker that has left its task has nothing to know.
LEMMA UnderwayLeft == ASSUME TypeOK, NEW w \in Workers, Leave(w) PROVE Underway(w)'
BY DEF Leave, Goto, Underway, TypeOK

\* One part further down the path.
LEMMA PartReached ==
    ASSUME TypeOK, Grown, NEW w \in Workers, pc[w] \in {"listing", "creating"}, Underway(w),
           NEW o \in Ids', drive'[o].name = Part(w),
           IF at[w].id = Root THEN drive'[o].folder ELSE drive'[o].parent = at[w].id
    PROVE  IsAt(drive', o, SubSeq(Target(job[w]), 1, at[w].i + 1))
<1> DEFINE T == Target(job[w])
<1>1. job[w] \in Tasks /\ at[w].i \in Nat /\ at[w].i + 1 \in 1 .. Len(T)
  BY AtFacts, PartFacts
<1>2. \A i \in 1 .. Len(T) : /\ Len(SubSeq(T, 1, i)) = i
                             /\ \A n \in 1 .. i : SubSeq(T, 1, i)[n] = T[n]
  BY <1>1, TargetFacts
<1>3. Len(T) \in Nat
  BY <1>1, TargetFacts
<1>4. drive'[o].name = T[at[w].i + 1]
  BY DEF Part
<1> HIDE DEF T
<1> DEFINE q == SubSeq(T, 1, at[w].i + 1)
<1>5. Len(q) = at[w].i + 1 /\ \A n \in 1 .. at[w].i + 1 : q[n] = T[n]
  BY <1>1, <1>2
<1>6. o \in 1 .. Len(drive')
  BY DEF Ids
<1>7. CASE at[w].i = 0
  <2>1. drive'[o].folder
    BY <1>7 DEF Underway
  <2>2. Len(q) = 1 /\ drive'[o].name = q[1]
    BY <1>4, <1>5, <1>7
  <2> HIDE DEF q
  <2>3. IsAt(drive', o, q)
    BY <1>6, <2>1, <2>2, AtFirst
  <2> QED BY <2>3 DEF q, T
<1>8. CASE at[w].i # 0
  <2> DEFINE p == SubSeq(T, 1, at[w].i)
  <2>1. at[w].i \in 1 .. Len(T) /\ at[w].i \in Nat \ {0}
    BY <1>1, <1>3, <1>8
  <2>2. Len(p) = at[w].i /\ \A n \in 1 .. at[w].i : p[n] = T[n]
    BY <1>2, <2>1
  <2>3. IsAt(drive, at[w].id, p)
    BY <1>8 DEF Underway, Resolved, T
  <2>4. at[w].id # Root
    BY <2>3 DEF IsAt, Root
  <2>5. drive'[o].parent = at[w].id
    BY <2>4
  <2>6. \A n \in 1 .. at[w].i : n \in 1 .. at[w].i + 1
    BY <1>1
  <2>7. /\ Len(q) = at[w].i + 1 /\ \A n \in 1 .. at[w].i : q[n] = p[n]
        /\ drive'[o].name = q[Len(q)]
    BY <1>1, <1>4, <1>5, <2>2, <2>6
  <2> HIDE DEF p, q
  <2>8. IsAt(drive', at[w].id, p)
    BY <2>1, <2>2, <2>3, StillAt
  <2> DEFINE l == at[w].i
             x == at[w].id
  <2>9. /\ l \in Nat \ {0} /\ Len(p) = l /\ Len(q) = l + 1
        /\ \A n \in 1 .. l : q[n] = p[n]
        /\ IsAt(drive', x, p) /\ drive'[o].parent = x /\ drive'[o].name = q[Len(q)]
    BY <2>1, <2>2, <2>5, <2>7, <2>8
  <2> HIDE DEF l, x
  <2>10. IsAt(drive', o, q)
    BY <1>6, <2>9, AtNext
  <2> QED BY <2>10 DEF q, T
<1> QED BY <1>7, <1>8

LEMMA PartSaved ==
    ASSUME TypeOK, Grown, NEW w \in Workers, pc[w] \in {"listing", "creating"}, Underway(w),
           NEW o \in Ids', drive'[o].name = Part(w),
           IF at[w].id = Root THEN drive'[o].folder ELSE drive'[o].parent = at[w].id,
           Reach(w, o), Goto(w, "saving"), job' = job
    PROVE  Underway(w)'
<1>1. pc'[w] = "saving" /\ at'[w] = [i |-> at[w].i + 1, id |-> o]
  BY DEF Reach, Goto, TypeOK
<1>2. IsAt(drive', o, SubSeq(Target(job[w]), 1, at[w].i + 1))
  BY PartReached
<1>3. at[w].i + 1 \in 1 .. Len(Target(job[w]))
  BY PartFacts
<1>4. Target(job[w])' = Target(job[w])
  BY DEF Target
<1>5. Resolved(w)' = SubSeq(Target(job[w]), 1, at[w].i + 1)
  <2>1. at'[w].i = at[w].i + 1
    BY <1>1
  <2>2. Resolved(w)' = SubSeq(Target(job[w])', 1, at'[w].i)
    BY DEF Resolved
  <2> QED BY <1>4, <2>1, <2>2
<1>6. at'[w].i \in 1 .. Len(Target(job[w])) /\ at'[w].id = o
  BY <1>1, <1>3
<1> QED BY <1>1, <1>2, <1>4, <1>5, <1>6 DEF Underway

LEMMA PlacedPieces ==
    ASSUME TypeOK, Placed, Grown, NEW w \in Workers, Others(w),
           CacheSound', RightPlace', Underway(w)'
    PROVE  Placed'
<1>1. \A v \in Workers : Underway(v)'
  BY UnderwayKept DEF Placed, Others
<1> QED BY <1>1 DEF Placed

LEMMA PlacedLookup ==
    ASSUME TypeOK, Placed, NEW w \in Workers, Lookup(w)
    PROVE  Underway(w)'
<1> DEFINE T == Target(job[w])
           id == cache[T]
<1>1. /\ pc[w] = "lookup" /\ drive' = drive /\ job' = job
      /\ job[w] \in Tasks /\ Len(T) \in Nat /\ (T # <<>> => T \in Paths /\ Len(T) >= 1)
  BY AtFacts, TargetFacts DEF Lookup, remote
<1>2. at[w] = Start /\ Target(job[w])' = Target(job[w])
  BY <1>1 DEF Placed, Underway, Target
<1>0. CASE T = <<>>
  <2>1. pc'[w] = "transferring" /\ at'[w].id = Root
    BY <1>0 DEF Lookup, Goto, TypeOK
  <2> QED BY <1>0, <1>2, <2>1 DEF Underway
<1>3. CASE T # <<>> /\ id # Root
  <2>1. IsAt(drive, id, T)
    BY <1>1, <1>3 DEF Placed, CacheSound
  <2>2. pc'[w] = "transferring" /\ at'[w].id = id
    BY <1>3 DEF Lookup, Goto, TypeOK
  <2> QED BY <1>1, <1>2, <1>3, <2>1, <2>2 DEF Underway
<1>4. CASE T # <<>> /\ id = Root
  <2>1. pc'[w] = "listing" /\ at'[w] = Start
    BY <1>2, <1>4 DEF Lookup, Goto, TypeOK
  <2>2. at'[w].i = 0 /\ at'[w].id = Root
    BY <2>1 DEF Start
  <2>3. 0 < Len(T)
    BY <1>1, <1>4
  <2> HIDE DEF T
  <2> QED BY <1>2, <2>1, <2>2, <2>3 DEF Underway, T
<1> QED BY <1>0, <1>3, <1>4

LEMMA PlacedList ==
    ASSUME TypeOK, Placed, NEW w \in Workers, List(w)
    PROVE  Underway(w)'
<1>1. pc[w] = "listing" /\ drive' = drive /\ Underway(w)
  BY DEF List, remote, Placed
<1>2. ASSUME NEW o \in Found(w), Reach(w, o), Goto(w, "saving"), job' = job
      PROVE  Underway(w)'
  <2>1. Grown /\ Ids' = Ids
    BY <1>1 DEF Grown, Ids
  <2>2. o \in Ids' /\ drive'[o].name = Part(w)
    BY <1>1, <2>1 DEF Found, Live
  <2>3. IF at[w].id = Root THEN drive'[o].folder ELSE drive'[o].parent = at[w].id
    BY <1>1 DEF Found
  <2> QED BY <1>1, <1>2, <2>1, <2>2, <2>3, PartSaved
<1>3. CASE Goto(w, "creating") /\ job' = job /\ at' = at
  <2>1. pc'[w] = "creating"
    BY <1>3 DEF Goto, TypeOK
  <2>2. Target(job[w])' = Target(job[w]) /\ Resolved(w)' = Resolved(w)
    BY <1>3 DEF Target, Resolved
  <2> QED BY <1>1, <1>3, <2>1, <2>2 DEF Underway
<1>4. CASE GiveBack(w)
  BY <1>4, UnderwayLeft DEF GiveBack
<1> QED BY <1>2, <1>3, <1>4 DEF List

LEMMA PlacedCreate ==
    ASSUME TypeOK, Placed, NEW w \in Workers, Create(w)
    PROVE  Underway(w)'
<1>1. pc[w] = "creating" /\ Underway(w)
  BY DEF Create, Placed
<1>2. CASE NewFolder(w) /\ Reach(w, Len(drive')) /\ Goto(w, "saving") /\ job' = job
  <2> DEFINE o == Len(drive')
  <2>1. Grown /\ o \in Ids' /\ drive'[o] = [name |-> Part(w), parent |-> at[w].id, folder |-> TRUE]
    BY <1>1, <1>2, FolderFacts
  <2>2. drive'[o].name = Part(w) /\ drive'[o].parent = at[w].id /\ drive'[o].folder
    BY <2>1
  <2> HIDE DEF o
  <2>3. Reach(w, o)
    BY <1>2 DEF o
  <2> QED BY <1>1, <1>2, <2>1, <2>2, <2>3, PartSaved
<1>3. CASE GiveBack(w)
  BY <1>3, UnderwayLeft DEF GiveBack
<1> QED BY <1>2, <1>3 DEF Create, tasks

LEMMA PlacedSave ==
    ASSUME TypeOK, Placed, NEW w \in Workers, Save(w)
    PROVE  CacheSound' /\ Underway(w)'
<1> DEFINE T == Target(job[w])
           R == SubSeq(T, 1, at[w].i)
<1>1. pc[w] = "saving" /\ drive' = drive /\ job' = job /\ at' = at
  BY DEF Save, remote
<1>2. job[w] \in Tasks /\ at[w].i \in 1 .. Len(T) /\ IsAt(drive, at[w].id, R)
  BY <1>1, AtFacts DEF Placed, Underway, Resolved
<1>3. Len(T) \in Nat /\ SubSeq(T, 1, Len(T)) = T /\ T # <<>>
  BY <1>2, TargetFacts
<1>4. Target(job[w])' = T /\ Resolved(w)' = R
  BY <1>1 DEF Target, Resolved
<1>5. CacheSound'
  <2>1. CASE cache' = cache
    BY <1>1, <2>1 DEF Placed, CacheSound
  <2>2. CASE cache' = [cache EXCEPT ![R] = at[w].id]
    <3>1. \A p \in Paths : cache'[p] = IF p = R THEN at[w].id ELSE cache[p]
      BY <2>2 DEF TypeOK
    <3>2. \A p \in Paths : cache[p] # Root => IsAt(drive, cache[p], p)
      BY DEF Placed, CacheSound
    <3> HIDE DEF R
    <3>3. \A p \in Paths : cache'[p] # Root => IsAt(drive', cache'[p], p)
      BY <1>1, <1>2, <3>1, <3>2
    <3> QED BY <3>3 DEF CacheSound
  <2> QED BY <2>1, <2>2 DEF Save
<1>6. CASE at[w].i = Len(T)
  <2>1. pc'[w] = "transferring"
    BY <1>6 DEF Save, Goto, TypeOK
  <2>2. IsAt(drive', at'[w].id, T)
    BY <1>1, <1>2, <1>3, <1>6
  <2> HIDE DEF T
  <2> QED BY <1>3, <1>4, <1>5, <2>1, <2>2 DEF Underway
<1>7. CASE at[w].i # Len(T)
  <2>1. pc'[w] = "listing"
    BY <1>7 DEF Save, Goto, TypeOK
  <2>2. at'[w].i < Len(T) /\ at'[w].i # 0 /\ IsAt(drive', at'[w].id, R)
    BY <1>1, <1>2, <1>3, <1>7
  <2> HIDE DEF T, R
  <2> QED BY <1>4, <1>5, <2>1, <2>2 DEF Underway
<1> QED BY <1>6, <1>7

\* A new file is in the folder the worker has come to.
LEMMA FilePlaced ==
    ASSUME TypeOK, NEW w \in Workers, pc[w] = "transferring", job[w].op = "upload", Underway(w),
           NewObject(w, FileName(job[w]), FALSE)
    PROVE  FileAt(drive', Len(drive'), job[w].path)
<1> DEFINE t == job[w]
           T == Target(t)
           l == Len(T)
           q == t.path
           o == Len(drive')
           x == at[w].id
<1>1. t \in Tasks /\ T = SubSeq(q, 1, Len(q) - 1)
  BY AtFacts DEF Target
<1>2. q \in Seq(Names) /\ Len(q) \in Nat /\ Len(q) > 0
  BY <1>1, TasksAssumption
<1>3. l = Len(q) - 1 /\ \A n \in 1 .. l : q[n] = T[n]
  <2>1. Len(q) - 1 \in Int /\ \A i \in 1 .. Len(q) - 1 : q[i] \in Names
    BY <1>2, ElementOfSeq
  <2>2. /\ Len(SubSeq(q, 1, Len(q) - 1)) = IF 1 <= Len(q) - 1 THEN Len(q) - 1 - 1 + 1 ELSE 0
        /\ \A i \in 1 .. Len(q) - 1 - 1 + 1 : SubSeq(q, 1, Len(q) - 1)[i] = q[1 + i - 1]
    BY <2>1, SubSeqProperties
  <2> QED BY <1>1, <1>2, <2>2
<1>4. l \in Nat /\ Len(q) = l + 1 /\ (l = 0 <=> T = <<>>)
  <2>1. l = 0 <=> T = <<>>
    BY <1>1, TargetFacts
  <2>2. Len(q) = l + 1
    BY <1>2, <1>3
  <2> HIDE DEF l, T, q
  <2> QED BY <1>2, <1>3, <2>1, <2>2
<1>5. /\ Grown /\ o \in Ids'
      /\ drive'[o] = [name |-> FileName(t), parent |-> x, folder |-> FALSE]
  BY FileFacts
<1>6. drive'[o].name = q[Len(q)] /\ drive'[o].parent = x /\ ~drive'[o].folder
  BY <1>5 DEF FileName
<1>7. IF T = <<>> THEN x = Root ELSE IsAt(drive, x, T)
  BY DEF Underway
<1>8. o \in 1 .. Len(drive')
  BY <1>5 DEF Ids
<1> HIDE DEF t, T, l, o, x
<1>9. Len(T) = l
  BY DEF l
<1> HIDE DEF q
<1>10. CASE l = 0
  BY <1>4, <1>6, <1>7, <1>8, <1>10 DEF FileAt, o, q, t
<1>11. CASE l # 0
  <2>1. l \in Nat \ {0} /\ Len(T) = l /\ IsAt(drive, x, T)
    BY <1>4, <1>7, <1>9, <1>11
  <2>2. IsAt(drive', x, T)
    BY <1>5, <2>1, StillAt
  <2>3. /\ l \in Nat \ {0} /\ Len(T) = l /\ Len(q) = l + 1 /\ Len(q) # 1
        /\ \A n \in 1 .. l : q[n] = T[n]
        /\ IsAt(drive', x, T) /\ drive'[o].parent = x /\ drive'[o].name = q[Len(q)]
    BY <1>3, <1>4, <1>6, <2>1, <2>2
  <2>4. IsAt(drive', o, q)
    BY <1>8, <2>3, AtNext
  <2> QED BY <1>6, <2>3, <2>4 DEF FileAt, o, q, t
<1> QED BY <1>10, <1>11

LEMMA PlacedTransfer ==
    ASSUME TypeOK, Placed, NEW w \in Workers, Transfer(w)
    PROVE  RightPlace' /\ Underway(w)'
<1>1. pc[w] = "transferring" /\ job[w] \in Tasks /\ Underway(w)
  BY AtFacts DEF Transfer, Placed
<1>2. Grown
  BY <1>1, DriveGrows DEF WorkerStep
<1>3. Leave(w)
  BY DEF Transfer, GiveBack
<1>4. Underway(w)'
  BY <1>3, UnderwayLeft
<1>5. ASSUME NEW o, FileAt(drive', o, job[w].path), landed' = landed \cup {<<job[w], o>>}
      PROVE  RightPlace'
  <2>1. ASSUME NEW l \in landed PROVE FileAt(drive', l[2], l[1].path)
    <3>1. l[1] \in Tasks /\ FileAt(drive, l[2], l[1].path)
      BY DEF TypeOK, RightPlace, Placed
    <3> QED BY <1>2, <3>1, FileStays
  <2>2. ASSUME NEW l \in {<<job[w], o>>} PROVE FileAt(drive', l[2], l[1].path)
    <3>1. l[1] = job[w] /\ l[2] = o
      BY <2>2
    <3> QED BY <1>5, <3>1
  <2> QED BY <1>5, <2>1, <2>2 DEF RightPlace
<1>6. CASE landed' = landed
  BY <1>2, <1>4, <1>6, RightKept DEF Placed
<1>7. CASE /\ job[w].op = "upload" /\ NewObject(w, FileName(job[w]), FALSE)
           /\ landed' = landed \cup {<<job[w], Len(drive')>>}
  <2>1. FileAt(drive', Len(drive'), job[w].path)
    BY <1>1, <1>7, FilePlaced
  <2> QED BY <1>4, <1>5, <1>7, <2>1
<1>8. CASE /\ job[w].op = "download" /\ at[w].id \in Live /\ ~drive[at[w].id].folder
           /\ landed' = landed \cup {<<job[w], at[w].id>>}
  <2>1. Target(job[w]) = job[w].path /\ Len(job[w].path) \in Nat \ {0}
    BY <1>1, <1>8, TasksAssumption DEF Target
  <2>2. Target(job[w]) # <<>>
    BY <1>1, <2>1, TargetFacts
  <2>3. IsAt(drive, at[w].id, job[w].path)
    BY <1>1, <2>1, <2>2 DEF Underway
  \* What is found at a path of one part is a folder.
  <2>4. Len(job[w].path) # 1
    BY <1>8, <2>3 DEF IsAt
  <2>5. FileAt(drive, at[w].id, job[w].path)
    BY <1>8, <2>3, <2>4 DEF FileAt
  <2>6. FileAt(drive', at[w].id, job[w].path)
    BY <1>1, <1>2, <2>5, FileStays
  <2> QED BY <1>4, <1>5, <1>8, <2>6
<1> QED BY <1>6, <1>7, <1>8 DEF Transfer

LEMMA PlacedWorker ==
    ASSUME TypeOK, Placed, NEW w \in Workers, WorkerStep(w) \/ CallLost(w)
    PROVE  Placed'
<1>1. Grown /\ Others(w) /\ Underway(w)
  BY DriveGrows, OneMoves DEF Placed
<1>2. cache' = cache => CacheSound'
  BY <1>1, CacheKept DEF Placed
<1>3. landed' = landed => RightPlace'
  BY <1>1, RightKept DEF Placed
<1>4. CASE Take(w)
  <2>1. pc[w] = "idle" /\ pc'[w] = "lookup" /\ at' = at
    BY <1>4 DEF Take, Goto, TypeOK
  <2>2. Underway(w)'
    BY <1>1, <2>1 DEF Underway
  <2> QED BY <1>1, <1>2, <1>3, <1>4, <2>2, PlacedPieces DEF Take, history
<1>5. CASE Lookup(w)
  BY <1>1, <1>2, <1>3, <1>5, PlacedLookup, PlacedPieces DEF Lookup, history
<1>6. CASE List(w)
  BY <1>1, <1>2, <1>3, <1>6, PlacedList, PlacedPieces DEF List, history
<1>7. CASE Create(w)
  BY <1>1, <1>2, <1>3, <1>7, PlacedCreate, PlacedPieces DEF Create
<1>8. CASE Save(w)
  BY <1>1, <1>3, <1>8, PlacedSave, PlacedPieces DEF Save
<1>9. CASE Transfer(w)
  BY <1>1, <1>2, <1>9, PlacedTransfer, PlacedPieces DEF Transfer
<1>10. CASE CallLost(w)
  <2>1. cache' = cache /\ landed' = landed /\ Leave(w)
    BY <1>10 DEF CallLost, GiveBack
  <2> QED BY <1>1, <1>2, <1>3, <2>1, UnderwayLeft, PlacedPieces
<1> QED BY <1>4, <1>5, <1>6, <1>7, <1>8, <1>9, <1>10 DEF WorkerStep

\* Deletions take objects away, which no record of where things were needs.
LEMMA PlacedStays ==
    ASSUME TypeOK, Placed, UNCHANGED <<drive, cache, calls, landed>>
    PROVE  Placed'
<1> USE DEF calls
<1>1. CacheSound' /\ RightPlace'
  BY DEF Placed, CacheSound, RightPlace
<1>2. \A v \in Workers : Underway(v)'
  BY UnderwayKept DEF Placed, Grown
<1> QED BY <1>1, <1>2 DEF Placed

LEMMA PlacedInit == Init => Placed
BY DEF Init, Placed, CacheSound, RightPlace, Underway

----------------------------------------------------------------------------
(* Folders: OneFolder, and StillMissing, by which a worker that creates a  *)
(* folder knows that there is none.                                        *)

Unique == \A a, b \in Live :
             /\ drive[a].folder /\ drive[b].folder
             /\ drive[a].name = drive[b].name /\ drive[a].parent = drive[b].parent
             => a = b

Single == raced \/ (Unique /\ \A w \in Workers : StillMissing(w))

LEMMA SingleMeans == Single <=> OneFolder /\ \A w \in Workers : raced \/ StillMissing(w)
<1>1. OneFolder <=> (raced \/ Unique)
  BY Zenon DEF OneFolder, Unique
<1> QED BY <1>1, Zenon DEF Single

\* No folder has come.
SameFolders == \A o \in Live' : drive'[o].folder => o \in Live /\ drive'[o] = drive[o]

LEMMA UniqueKept == ASSUME Unique, SameFolders PROVE Unique'
BY DEF Unique, SameFolders

LEMMA MissingKept ==
    ASSUME SameFolders, NEW v, StillMissing(v),
           job'[v] = job[v], pc'[v] = pc[v], at'[v] = at[v]
    PROVE  StillMissing(v)'
<1>1. Part(v)' = Part(v)
  BY DEF Part, Target
<1> QED BY <1>1 DEF StillMissing, SameFolders

LEMMA SingleKept ==
    ASSUME Single, raced' = raced, SameFolders, NEW w \in Workers, Others(w),
           StillMissing(w)'
    PROVE  Single'
<1>1. CASE raced
  BY <1>1, Zenon DEF Single
<1>2. CASE Unique /\ \A v \in Workers : StillMissing(v)
  <2>1. Unique'
    BY <1>2, UniqueKept
  <2>2. \A v \in Workers : StillMissing(v)'
    BY <1>2, MissingKept DEF Others
  <2> QED BY <2>1, <2>2, Zenon DEF Single
<1> QED BY <1>1, <1>2, Zenon DEF Single

\* Worker w creates the folder it found missing, and no other is about to.
LEMMA FolderSingle ==
    ASSUME TypeOK, Single, NEW w \in Workers, pc[w] = "creating", Underway(w), NewFolder(w),
           gone' = gone, Others(w), pc'[w] # "creating"
    PROVE  Single'
<1> DEFINE Close == \E v \in Workers \ {w} :
                       pc[v] = "creating" /\ at[v].id = at[w].id /\ Part(v) = Part(w)
           n == Len(drive')
<1>1. raced' = (raced \/ Close)
  BY DEF NewFolder
<1>2. CASE raced \/ Close
  BY <1>1, <1>2, Zenon DEF Single
<1>3. CASE ~raced /\ ~Close
  <2>1. Unique /\ \A v \in Workers : StillMissing(v)
    BY <1>3, Zenon DEF Single
  <2>2. /\ Grown /\ Ids' = Ids \cup {n} /\ n \notin Ids
        /\ drive'[n] = [name |-> Part(w), parent |-> at[w].id, folder |-> TRUE]
    BY FolderFacts
  <2>3. drive'[n].name = Part(w) /\ drive'[n].parent = at[w].id
    BY <2>2
  <2>4. \A o \in Live' : o = n \/ (o \in Live /\ drive'[o] = drive[o])
    BY <2>2, GrownFacts DEF Live
  <2>5. \A o \in Live : drive[o].folder => ~(drive[o].name = Part(w) /\ drive[o].parent = at[w].id)
    BY <2>1 DEF StillMissing
  <2> HIDE DEF n
  <2>6. Unique'
    BY <2>1, <2>3, <2>4, <2>5 DEF Unique
  <2>7. ASSUME NEW v \in Workers PROVE StillMissing(v)'
    <3>1. CASE v = w
      BY <3>1 DEF StillMissing
    <3>2. CASE v # w
      <4>1. pc'[v] = pc[v] /\ at'[v] = at[v] /\ Part(v)' = Part(v)
        BY <3>2 DEF Others, Part, Target
      <4>2. pc[v] = "creating" => ~(at[v].id = at[w].id /\ Part(v) = Part(w))
        BY <1>3, <3>2
      <4>3. StillMissing(v)
        BY <2>1
      <4> QED BY <2>3, <2>4, <4>1, <4>2, <4>3 DEF StillMissing
    <3> QED BY <3>1, <3>2
  <2> QED BY <2>6, <2>7, Zenon DEF Single
<1> QED BY <1>2, <1>3

LEMMA SingleWorker ==
    ASSUME TypeOK, Single, NEW w \in Workers, Underway(w), WorkerStep(w) \/ CallLost(w)
    PROVE  Single'
<1> USE DEF remote, calls, history, tasks
<1>1. Grown /\ Others(w) /\ gone' = gone
  <2>1. gone' = gone
    BY DEF WorkerStep, Take, Lookup, List, Create, Save, Transfer, CallLost
  <2> QED BY <2>1, DriveGrows, OneMoves
<1>2. drive' = drive => SameFolders
  BY <1>1 DEF SameFolders, Live, Ids
<1>3. pc'[w] # "creating" => StillMissing(w)'
  BY DEF StillMissing
<1>4. Leave(w) => pc'[w] # "creating"
  BY DEF Leave, Goto, TypeOK
<1>5. ASSUME pc[w] = "transferring", NewObject(w, FileName(job[w]), FALSE) PROVE SameFolders
  <2> DEFINE n == Len(drive')
  <2>1. /\ Ids' = Ids \cup {n}
        /\ drive'[n] = [name |-> FileName(job[w]), parent |-> at[w].id, folder |-> FALSE]
    BY <1>5, FileFacts
  <2>2. ~drive'[n].folder
    BY <2>1
  <2> HIDE DEF n
  <2>3. \A o \in Live' : o = n \/ (o \in Live /\ drive'[o] = drive[o])
    BY <1>1, <2>1, GrownFacts DEF Live
  <2> QED BY <2>2, <2>3 DEF SameFolders
<1>6. CASE Take(w) \/ Lookup(w) \/ Save(w)
  <2>1. drive' = drive /\ raced' = raced /\ pc'[w] # "creating"
    BY <1>6 DEF Take, Lookup, Save, Goto, TypeOK
  <2> QED BY <1>1, <1>2, <1>3, <2>1, SingleKept
<1>7. CASE List(w)
  <2>1. drive' = drive /\ raced' = raced
    BY <1>7 DEF List
  <2>2. CASE pc'[w] # "creating"
    BY <1>1, <1>2, <1>3, <2>1, <2>2, SingleKept
  <2>3. CASE pc'[w] = "creating"
    <3>1. Found(w) = {} /\ job' = job /\ at' = at
      BY <1>4, <1>7, <2>3 DEF List, Goto, GiveBack, TypeOK
    <3>2. \A o \in Live : drive[o].folder =>
             ~(drive[o].name = Part(w) /\ drive[o].parent = at[w].id)
      BY <3>1 DEF Found
    <3>3. Part(w)' = Part(w) /\ Live' = Live
      BY <1>1, <2>1, <3>1 DEF Part, Target, Live, Ids
    <3>4. StillMissing(w)'
      BY <2>1, <3>1, <3>2, <3>3 DEF StillMissing
    <3> QED BY <1>1, <1>2, <2>1, <3>4, SingleKept
  <2> QED BY <2>2, <2>3
<1>8. CASE Create(w)
  <2>1. pc[w] = "creating"
    BY <1>8 DEF Create
  <2>2. CASE NewFolder(w) /\ Goto(w, "saving")
    <3>1. pc'[w] # "creating"
      BY <2>2 DEF Goto, TypeOK
    <3> QED BY <1>1, <2>1, <2>2, <3>1, FolderSingle
  <2>3. CASE GiveBack(w) /\ drive' = drive /\ raced' = raced
    BY <1>1, <1>2, <1>3, <1>4, <2>3, SingleKept DEF GiveBack
  <2> QED BY <1>8, <2>2, <2>3 DEF Create
<1>9. CASE Transfer(w)
  <2>1. pc[w] = "transferring" /\ raced' = raced /\ Leave(w)
    BY <1>9 DEF Transfer, GiveBack
  <2>2. drive' = drive \/ NewObject(w, FileName(job[w]), FALSE)
    BY <1>9 DEF Transfer
  <2> QED BY <1>1, <1>2, <1>3, <1>4, <1>5, <2>1, <2>2, SingleKept
<1>10. CASE CallLost(w)
  <2>1. Leave(w)
    BY <1>10 DEF CallLost, GiveBack
  <2>2. CASE raced' = raced /\ drive' = drive
    BY <1>1, <1>2, <1>3, <1>4, <2>1, <2>2, SingleKept
  <2>3. CASE pc[w] = "creating" /\ NewFolder(w)
    BY <1>1, <1>4, <2>1, <2>3, FolderSingle
  <2>4. CASE raced' = raced /\ pc[w] = "transferring" /\ NewObject(w, FileName(job[w]), FALSE)
    BY <1>1, <1>3, <1>4, <1>5, <2>1, <2>4, SingleKept
  <2> QED BY <1>10, <2>2, <2>3, <2>4 DEF CallLost
<1> QED BY <1>6, <1>7, <1>8, <1>9, <1>10 DEF WorkerStep

LEMMA SingleStays ==
    ASSUME Single, UNCHANGED <<drive, calls, raced>>, gone \subseteq gone'
    PROVE  Single'
<1> USE DEF calls
<1>1. SameFolders
  BY DEF SameFolders, Live, Ids
<1>2. CASE raced
  BY <1>2, Zenon DEF Single
<1>3. CASE Unique /\ \A v \in Workers : StillMissing(v)
  <2>1. Unique' /\ \A v \in Workers : StillMissing(v)'
    BY <1>1, <1>3, UniqueKept, MissingKept
  <2> QED BY <2>1, Zenon DEF Single
<1> QED BY <1>2, <1>3, Zenon DEF Single

LEMMA SingleInit == Init => Single
<1> SUFFICES ASSUME Init PROVE Single
  OBVIOUS
<1>1. Live = {} /\ \A w \in Workers : pc[w] = "idle"
  BY DEF Init, Live, Ids
<1>2. Unique /\ \A w \in Workers : StillMissing(w)
  BY <1>1 DEF Unique, StillMissing
<1> QED BY <1>2, Zenon DEF Single

----------------------------------------------------------------------------
(* How many copies of a file there are.  A worker holds a task of the      *)
(* queue alone, and a task that has landed is not in the queue.            *)

Held == /\ \A v \in Workers : job[v] # Idle => job[v] \in todo
        /\ \A u, v \in Workers : u # v /\ job[u] = job[v] => job[u] = Idle
        /\ \A l \in landed : l[1] \notin todo

Once == \A l, m \in landed : l[1] = m[1] => l = m

Few == /\ Cardinality(Stray) <= faults
       /\ \A o \in Stray : \E t \in Tasks : t.op = "upload" /\ FileAt(drive, o, t.path)

Counted == Held /\ Once /\ Few

LEMMA HeldLeaves ==
    ASSUME TypeOK, Held, Once, NEW w \in Workers, pc[w] # "idle", Leave(w),
           \/ landed' = landed /\ todo' \in {todo, todo \ {job[w]}}
           \/ \E id : landed' = landed \cup {<<job[w], id>>} /\ todo' = todo \ {job[w]}
    PROVE  Held' /\ Once'
<1> DEFINE t == job[w]
<1>1. t \in Tasks /\ t # Idle /\ t \in todo
  BY AtFacts, IdleAssumption DEF Held
<1>2. job'[w] = Idle /\ \A v \in Workers \ {w} : job'[v] = job[v] /\ (job[v] # Idle => job[v] # t)
  BY <1>1 DEF Leave, TypeOK, Held
<1>3. todo' \subseteq todo /\ todo \ {t} \subseteq todo'
  OBVIOUS
<1> HIDE DEF t
<1>4. \A v \in Workers : job'[v] # Idle => job'[v] \in todo'
  BY <1>2, <1>3 DEF Held
<1>5. \A u, v \in Workers : u # v /\ job'[u] = job'[v] => job'[u] = Idle
  BY <1>2 DEF Held
<1>6. CASE landed' = landed
  BY <1>3, <1>4, <1>5, <1>6 DEF Held, Once
<1>7. ASSUME NEW id, landed' = landed \cup {<<t, id>>}, todo' = todo \ {t}
      PROVE  Held' /\ Once'
  <2>1. \A l \in landed : l[1] \notin todo /\ l[1] # t
    BY <1>1 DEF Held
  <2>2. \A l \in landed' : l[1] \notin todo'
    BY <1>7, <2>1
  <2>3. \A l, m \in landed' : l[1] = m[1] => l = m
    BY <1>7, <2>1 DEF Once
  <2> QED BY <1>4, <1>5, <2>2, <2>3 DEF Held, Once
<1> QED BY <1>6, <1>7 DEF t

LEMMA StrayFinite == ASSUME TypeOK PROVE IsFiniteSet(Stray)
<1>1. Len(drive) \in Nat
  BY DEF TypeOK
<1>2. IsFiniteSet(1 .. Len(drive))
  BY <1>1, FS_Interval
<1> QED BY <1>2, FS_Subset DEF Stray, Ids

\* A step that leaves no new file without a credit.
LEMMA FewStays ==
    ASSUME TypeOK, Grown, Few, Credited \subseteq Credited',
           faults' = faults \/ faults' = faults + 1,
           \A o \in Ids' : o \in Ids \/ drive'[o].folder \/ o \in Credited'
    PROVE  Few'
<1>1. Stray' \subseteq Stray
  BY GrownFacts DEF Stray
<1>2. IsFiniteSet(Stray) /\ Cardinality(Stray) \in Nat
  BY StrayFinite, FS_CardinalityType
<1>3. Cardinality(Stray') \in Nat /\ Cardinality(Stray') <= Cardinality(Stray)
  BY <1>1, <1>2, FS_Subset, FS_CardinalityType
<1>4. faults \in Nat
  BY DEF TypeOK
<1>5. Cardinality(Stray') <= faults'
  BY <1>2, <1>3, <1>4 DEF Few
<1>6. ASSUME NEW o \in Stray'
      PROVE  \E t \in Tasks : t.op = "upload" /\ FileAt(drive', o, t.path)
  <2>1. PICK t \in Tasks : t.op = "upload" /\ FileAt(drive, o, t.path)
    BY <1>1 DEF Few
  <2> QED BY <2>1, FileStays
<1> QED BY <1>5, <1>6 DEF Few

\* The answer of an upload is lost.
LEMMA FewLost ==
    ASSUME TypeOK, Few, NEW w \in Workers, pc[w] = "transferring", job[w].op = "upload",
           Underway(w), NewObject(w, FileName(job[w]), FALSE), landed' = landed,
           faults' = faults + 1
    PROVE  Few'
<1> DEFINE n == Len(drive')
<1>1. Grown /\ Ids' = Ids \cup {n} /\ n \notin Ids
  BY FileFacts
<1>2. FileAt(drive', n, job[w].path) /\ job[w] \in Tasks
  BY FilePlaced, AtFacts
<1> HIDE DEF n
<1>3. Stray' \subseteq Stray \cup {n} /\ n \notin Stray
  BY <1>1, GrownFacts DEF Stray, Credited
<1>4. IsFiniteSet(Stray) /\ Cardinality(Stray) \in Nat
  BY StrayFinite, FS_CardinalityType
<1>5. IsFiniteSet(Stray \cup {n}) /\ Cardinality(Stray \cup {n}) = Cardinality(Stray) + 1
  BY <1>3, <1>4, FS_AddElement
<1>6. Cardinality(Stray') \in Nat /\ Cardinality(Stray') <= Cardinality(Stray \cup {n})
  BY <1>3, <1>5, FS_Subset, FS_CardinalityType
<1>7. faults \in Nat
  BY DEF TypeOK
<1>8. Cardinality(Stray') <= faults'
  BY <1>4, <1>5, <1>6, <1>7 DEF Few
<1>9. ASSUME NEW o \in Stray'
      PROVE  \E t \in Tasks : t.op = "upload" /\ FileAt(drive', o, t.path)
  <2>1. CASE o \in Stray
    <3>1. PICK t \in Tasks : t.op = "upload" /\ FileAt(drive, o, t.path)
      BY <2>1 DEF Few
    <3> QED BY <1>1, <3>1, FileStays
  <2> QED BY <1>2, <1>3, <2>1
<1> QED BY <1>8, <1>9 DEF Few

LEMMA CountedWorker ==
    ASSUME TypeOK, Counted, NEW w \in Workers, Underway(w), WorkerStep(w) \/ CallLost(w)
    PROVE  Counted'
<1> USE DEF remote, calls, history, tasks
<1>1. Held /\ Once /\ Few /\ Grown
  BY DriveGrows DEF Counted
<1>2. CASE drive' = drive /\ landed' = landed /\ (faults' = faults \/ faults' = faults + 1)
  <2>1. Few'
    BY <1>1, <1>2, FewStays DEF Ids, Credited
  <2>2. CASE Take(w)
    <3>1. PICK t \in todo : (\A v \in Workers : job[v] # t) /\ job' = [job EXCEPT ![w] = t]
      BY <2>2 DEF Take
    <3>2. todo' = todo
      BY <2>2 DEF Take
    <3>3. Held' /\ Once'
      BY <1>1, <1>2, <3>1, <3>2 DEF Held, Once, TypeOK
    <3> QED BY <2>1, <3>3 DEF Counted
  <2>3. CASE job' = job /\ todo' = todo
    BY <1>1, <1>2, <2>1, <2>3 DEF Counted, Held, Once
  <2>4. CASE pc[w] # "idle" /\ GiveBack(w)
    <3>1. Leave(w) /\ todo' \in {todo, todo \ {job[w]}}
      BY <2>4 DEF GiveBack
    <3>2. Held' /\ Once'
      BY <1>1, <1>2, <2>4, <3>1, HeldLeaves
    <3> QED BY <2>1, <3>2 DEF Counted
  <2>5. CASE Transfer(w)
    <3>1. pc[w] # "idle" /\ Leave(w) /\ todo' \in {todo, todo \ {job[w]}}
      BY <2>5 DEF Transfer, GiveBack
    <3>2. Held' /\ Once'
      BY <1>1, <1>2, <3>1, HeldLeaves
    <3> QED BY <2>1, <3>2 DEF Counted
  <2> QED BY <2>2, <2>3, <2>4, <2>5 DEF WorkerStep, Lookup, List, Create, Save, CallLost
<1>3. CASE pc[w] = "creating" /\ NewFolder(w) /\ landed' = landed
           /\ (faults' = faults \/ faults' = faults + 1)
  <2> DEFINE n == Len(drive')
  <2>1. /\ Ids' = Ids \cup {n}
        /\ drive'[n] = [name |-> Part(w), parent |-> at[w].id, folder |-> TRUE]
    BY <1>3, FolderFacts
  <2>2. drive'[n].folder
    BY <2>1
  <2> HIDE DEF n
  <2>3. Few'
    BY <1>1, <1>3, <2>1, <2>2, FewStays DEF Credited
  <2>4. CASE job' = job /\ todo' = todo
    BY <1>1, <1>3, <2>3, <2>4 DEF Counted, Held, Once
  <2>5. CASE GiveBack(w)
    <3>1. Leave(w) /\ todo' \in {todo, todo \ {job[w]}}
      BY <2>5 DEF GiveBack
    <3>2. Held' /\ Once'
      BY <1>1, <1>3, <3>1, HeldLeaves
    <3> QED BY <2>3, <3>2 DEF Counted
  <2> QED BY <1>3, <2>4, <2>5 DEF WorkerStep, Take, Lookup, List, Create, Save, Transfer, CallLost
<1>4. ASSUME Transfer(w), Leave(w), todo' = todo \ {job[w]}, NEW id,
             landed' = landed \cup {<<job[w], id>>},
             \/ drive' = drive
             \/ /\ job[w].op = "upload" /\ NewObject(w, FileName(job[w]), FALSE)
                /\ id = Len(drive')
      PROVE  Counted'
  <2>1. pc[w] = "transferring" /\ faults' = faults
    BY <1>4 DEF Transfer
  <2>2. Held' /\ Once'
    BY <1>1, <1>4, <2>1, HeldLeaves
  <2>3. Credited \subseteq Credited'
    BY <1>4 DEF Credited
  <2>4. CASE drive' = drive
    BY <1>1, <2>1, <2>2, <2>3, <2>4, FewStays DEF Ids, Counted
  <2>5. CASE job[w].op = "upload" /\ NewObject(w, FileName(job[w]), FALSE) /\ id = Len(drive')
    <3>1. Ids' = Ids \cup {id}
      BY <2>1, <2>5, FileFacts
    <3>2. id \in Credited'
      <4> DEFINE l == <<job[w], id>>
      <4>1. l \in landed' /\ l[1].op = "upload" /\ l[2] = id
        BY <1>4, <2>5
      <4> QED BY <4>1 DEF Credited
    <3> QED BY <1>1, <2>1, <2>2, <2>3, <3>1, <3>2, FewStays DEF Counted
  <2> QED BY <1>4, <2>4, <2>5
<1>5. CASE /\ CallLost(w) /\ pc[w] = "transferring" /\ job[w].op = "upload"
           /\ NewObject(w, FileName(job[w]), FALSE)
  <2>1. landed' = landed /\ faults' = faults + 1 /\ GiveBack(w)
    BY <1>5 DEF CallLost
  <2>2. Few'
    BY <1>1, <1>5, <2>1, FewLost
  <2>3. Leave(w) /\ todo' \in {todo, todo \ {job[w]}}
    BY <2>1 DEF GiveBack
  <2>4. Held' /\ Once'
    BY <1>1, <1>5, <2>1, <2>3, HeldLeaves
  <2> QED BY <2>2, <2>4 DEF Counted
<1>6. CASE Take(w) \/ Lookup(w) \/ List(w) \/ Save(w)
  BY <1>2, <1>6 DEF Take, Lookup, List, Save
<1>7. CASE Create(w)
  BY <1>2, <1>3, <1>7 DEF Create
<1>8. CASE Transfer(w)
  <2>1. CASE GiveBack(w) /\ UNCHANGED <<drive, landed>>
    BY <1>2, <1>8, <2>1 DEF Transfer
  <2>2. CASE /\ job[w].op = "upload" /\ NewObject(w, FileName(job[w]), FALSE)
             /\ landed' = landed \cup {<<job[w], Len(drive')>>}
             /\ todo' = todo \ {job[w]} /\ Leave(w)
    BY <1>4, <1>8, <2>2
  <2>3. CASE /\ drive' = drive /\ landed' = landed \cup {<<job[w], at[w].id>>}
             /\ todo' = todo \ {job[w]} /\ Leave(w)
    BY <1>4, <1>8, <2>3
  <2> QED BY <1>8, <2>1, <2>2, <2>3 DEF Transfer
<1>9. CASE CallLost(w)
  BY <1>2, <1>3, <1>5, <1>9 DEF CallLost
<1> QED BY <1>6, <1>7, <1>8, <1>9 DEF WorkerStep

LEMMA CountedStays ==
    ASSUME Counted, UNCHANGED <<drive, todo, job, landed, faults>>
    PROVE  Counted'
BY DEF Counted, Held, Once, Few, Stray, Credited, Ids

LEMMA CountedInit == Init => Counted
<1> SUFFICES ASSUME Init PROVE Counted
  OBVIOUS
<1>1. Ids = {} /\ Stray = {}
  BY DEF Init, Ids, Stray
<1>2. Held /\ Once
  BY DEF Init, Held, Once
<1>3. Few
  BY <1>1, FS_EmptySet DEF Few, Init
<1> QED BY <1>2, <1>3 DEF Counted

----------------------------------------------------------------------------
(* The theorems.                                                           *)

LEMMA InvMeans == IInv <=> TypeOK /\ Placed /\ Single
BY SingleMeans, Zenon DEF IInv, Placed

LEMMA InvInit == Init => IInv
BY TypeInit, PlacedInit, SingleInit, InvMeans, Zenon

LEMMA InvNext == IInv /\ [Next]_vars => IInv'
<1>0. IInv' <=> TypeOK' /\ Placed' /\ Single'
  BY InvMeans, PTL
<1> SUFFICES ASSUME IInv, [Next]_vars PROVE TypeOK' /\ Placed' /\ Single'
  BY <1>0
<1> USE DEF remote, calls, history, tasks
<1>1. TypeOK /\ Placed /\ Single
  BY InvMeans
<1>2. ASSUME NEW w \in Workers, WorkerStep(w) \/ CallLost(w)
      PROVE  TypeOK' /\ Placed' /\ Single'
  BY <1>1, <1>2, TypeWorker, PlacedWorker, SingleWorker DEF Placed
<1>3. CASE Delete
  <2>1. /\ UNCHANGED <<drive, cache, job, pc, at, todo, retries, landed, raced, faults>>
        /\ deletes < MaxDeletes /\ deletes' = deletes + 1
        /\ \E o \in Live : gone' = gone \cup {x \in Ids : o \in Line[x]}
    BY <1>3 DEF Delete
  <2>2. gone \subseteq gone' /\ gone' \subseteq Ids
    BY <1>1, <2>1 DEF TypeOK
  <2>3. TypeOK'
    BY <1>1, <2>1, <2>2, BoundsAssumption DEF TypeOK, Ids
  <2> QED BY <1>1, <2>1, <2>2, <2>3, PlacedStays, SingleStays
<1>4. CASE UNCHANGED vars
  <2>1. UNCHANGED <<drive, gone, cache, job, pc, at, todo, retries, landed, raced, faults, deletes>>
    BY <1>4 DEF vars
  <2>2. TypeOK'
    BY <1>1, <2>1 DEF TypeOK, Ids
  <2> QED BY <1>1, <2>1, <2>2, PlacedStays, SingleStays
<1> QED BY <1>2, <1>3, <1>4 DEF Next

\* GetPathID and the tasks that wait for it never leave the inductive invariant: what every
\* worker holds of a path agrees with Drive, and so do the rows of path_cache.
THEOREM DriveInvariant == Spec => []IInv
BY InvInit, InvNext, PTL DEF Spec

\* Type correctness of the Drive adapter, and every parent was there before its child.
THEOREM DriveTypeCorrect == Spec => []TypeOK
<1>1. IInv => TypeOK
  BY DEF IInv
<1> QED BY <1>1, DriveInvariant, PTL

\* A row of path_cache never names an object that was not at the row's path, however many
\* workers write it (GetPathID, INSERT OR REPLACE INTO path_cache).
THEOREM CacheRowsAreSound == Spec => []CacheSound
<1>1. IInv => CacheSound
  BY DEF IInv
<1> QED BY <1>1, DriveInvariant, PTL

\* Uploads create and downloads fetch the file at the task's path (Upload, Download).
THEOREM FilesLandInPlace == Spec => []RightPlace
<1>1. IInv => RightPlace
  BY DEF IInv
<1> QED BY <1>1, DriveInvariant, PTL

\* Only two workers about to create one folder at the same time split a directory in two.
THEOREM FoldersAreUnique == Spec => []OneFolder
<1>1. IInv => OneFolder
  BY DEF IInv
<1> QED BY <1>1, DriveInvariant, PTL

LEMMA CountedNext == IInv /\ Counted /\ [Next]_vars => Counted'
<1> SUFFICES ASSUME IInv, Counted, [Next]_vars PROVE Counted'
  OBVIOUS
<1> USE DEF remote, calls, history, tasks
<1>1. TypeOK /\ \A w \in Workers : Underway(w)
  BY InvMeans DEF Placed
<1>2. ASSUME NEW w \in Workers, WorkerStep(w) \/ CallLost(w) PROVE Counted'
  BY <1>1, <1>2, CountedWorker
<1>3. CASE Delete \/ UNCHANGED vars
  BY <1>3, CountedStays DEF Delete, vars
<1> QED BY <1>2, <1>3 DEF Next

\* A task lands once, and the files that no upload was credited with are those of calls whose
\* answers were lost, at most one for each: the retries of handleFailure never multiply a file
\* by themselves (Upload, files.create).
THEOREM FilesAreAccounted == Spec => []OneCopy
<1>1. Counted => OneCopy
  BY DEF Counted, Once, Few, OneCopy
<1>2. Spec => []Counted
  BY CountedInit, CountedNext, DriveInvariant, PTL DEF Spec
<1> QED BY <1>1, <1>2, PTL

----------------------------------------------------------------------------
(* What one token of the rate limiter lets through.                        *)

\* Where a worker with a task is, in numbers.
LEMMA LeftFacts ==
    ASSUME TypeOK, NEW w \in Workers, pc[w] # "idle", Underway(w)
    PROVE  /\ Len(Target(job[w])) \in Nat /\ at[w].i \in Nat
           /\ pc[w] = "lookup" => at[w].i = 0
           /\ pc[w] \in {"listing", "creating"} => at[w].i < Len(Target(job[w]))
           /\ pc[w] = "saving" => at[w].i <= Len(Target(job[w]))
<1>1. job[w] \in Tasks /\ at[w].i \in Nat
  BY AtFacts
<1>2. Len(Target(job[w])) \in Nat
  BY <1>1, TargetFacts
<1> QED BY <1>1, <1>2 DEF Underway, Start

LEMMA SomeLeft ==
    ASSUME TypeOK, NEW w \in Workers, pc[w] # "idle", Underway(w)
    PROVE  CallsLeft(w) \in Nat /\ (pc[w] \in {"listing", "creating"} => CallsLeft(w) > 0)
<1> DEFINE l == Len(Target(job[w]))
           i == at[w].i
<1>1. l \in Nat /\ i \in Nat /\ (pc[w] = "lookup" => i = 0)
      /\ (pc[w] \in {"listing", "creating"} => i < l) /\ (pc[w] = "saving" => i <= l)
  BY LeftFacts
<1>2. CallsLeft(w) = CASE pc[w] \in {"lookup", "listing", "saving"} -> 2 * (l - i)
                       [] pc[w] = "creating"                         -> 2 * (l - i) - 1
                       [] pc[w] \in {"idle", "transferring"}         -> 0
  BY DEF CallsLeft
<1>3. pc[w] \in {"idle", "lookup", "listing", "creating", "saving", "transferring"}
  BY DEF TypeOK
<1> HIDE DEF l, i
<1> QED BY <1>1, <1>2, <1>3

LEMMA LeaveRunsDown ==
    ASSUME TypeOK, NEW w \in Workers, pc[w] # "idle", Underway(w), Leave(w)
    PROVE  RunsDown(w)
<1>1. pc'[w] = "idle"
  BY DEF Leave, Goto, TypeOK
<1>2. CallsLeft(w)' = 0
  BY <1>1 DEF CallsLeft
<1> QED BY <1>2, SomeLeft DEF RunsDown

\* Another folder is reached, or the file.
LEMMA ReachRunsDown ==
    ASSUME TypeOK, NEW w \in Workers, pc[w] \in {"listing", "creating"}, Underway(w),
           NEW o, Reach(w, o), Goto(w, "saving"), job' = job
    PROVE  RunsDown(w)
<1> DEFINE l == Len(Target(job[w]))
           i == at[w].i
<1>1. l \in Nat /\ i \in Nat /\ i < l
  BY LeftFacts
<1>2. pc'[w] = "saving" /\ at'[w].i = i + 1 /\ Target(job[w])' = Target(job[w])
  BY DEF Reach, Goto, Target, TypeOK
<1>3. CallsLeft(w)' = 2 * (l - (i + 1))
  BY <1>2 DEF CallsLeft
<1>4. CallsLeft(w) = 2 * (l - i) \/ CallsLeft(w) = 2 * (l - i) - 1
  BY DEF CallsLeft
<1> HIDE DEF l, i
<1>5. CallsLeft(w)' \in Nat /\ CallsLeft(w)' < CallsLeft(w) /\ CallsLeft(w) \in Nat
  BY <1>1, <1>3, <1>4
<1> QED BY <1>5 DEF RunsDown

LEMMA WorkerCallsRunDown ==
    ASSUME TypeOK, NEW w \in Workers, pc[w] # "idle", Underway(w), WorkerStep(w) \/ CallLost(w)
    PROVE  RunsDown(w)
<1> USE DEF tasks, calls
<1> DEFINE l == Len(Target(job[w]))
           i == at[w].i
<1>1. CallsLeft(w) \in Nat
  BY SomeLeft
<1>2. CASE Leave(w)
  BY <1>2, LeaveRunsDown
<1>3. CASE Lookup(w)
  <2>1. pc[w] = "lookup" /\ job' = job /\ Target(job[w])' = Target(job[w])
    BY <1>3 DEF Lookup, Target
  <2>2. l \in Nat /\ i = 0
    BY <2>1, LeftFacts
  <2>3. CallsLeft(w) = 2 * (l - i)
    BY <2>1 DEF CallsLeft
  <2>4. CASE pc'[w] = "transferring"
    <3>1. CallsLeft(w)' = 0
      BY <2>4 DEF CallsLeft
    <3> HIDE DEF l, i
    <3> QED BY <1>1, <2>1, <2>2, <2>3, <3>1 DEF RunsDown
  <2>5. CASE pc'[w] = "listing" /\ at' = at
    <3>1. CallsLeft(w)' = 2 * (l - i)
      BY <2>1, <2>5 DEF CallsLeft
    <3> HIDE DEF l, i
    <3> QED BY <1>1, <2>1, <2>3, <3>1 DEF RunsDown
  <2> QED BY <1>3, <2>4, <2>5 DEF Lookup, Goto, TypeOK
<1>4. CASE List(w)
  <2>1. pc[w] = "listing"
    BY <1>4 DEF List
  <2>2. ASSUME NEW o, Reach(w, o), Goto(w, "saving"), job' = job PROVE RunsDown(w)
    BY <2>1, <2>2, ReachRunsDown
  <2>3. CASE Goto(w, "creating") /\ UNCHANGED <<job, at>>
    <3>1. pc'[w] = "creating" /\ Target(job[w])' = Target(job[w])
      BY <2>3 DEF Goto, Target, TypeOK
    <3>2. l \in Nat /\ i \in Nat /\ i < l
      BY <2>1, LeftFacts
    <3>3. CallsLeft(w)' = 2 * (l - i) - 1 /\ CallsLeft(w) = 2 * (l - i)
      BY <2>1, <2>3, <3>1 DEF CallsLeft
    <3> HIDE DEF l, i
    <3>4. CallsLeft(w)' \in Nat /\ CallsLeft(w)' < CallsLeft(w)
      BY <3>2, <3>3
    <3> QED BY <1>1, <3>4 DEF RunsDown
  <2> QED BY <1>2, <1>4, <2>2, <2>3 DEF List, GiveBack
<1>5. CASE Create(w)
  <2>1. pc[w] = "creating"
    BY <1>5 DEF Create
  <2>2. ASSUME NEW o, Reach(w, o), Goto(w, "saving"), job' = job PROVE RunsDown(w)
    BY <2>1, <2>2, ReachRunsDown
  <2> QED BY <1>2, <1>5, <2>2 DEF Create, GiveBack
<1>6. CASE Save(w)
  <2>1. pc[w] = "saving" /\ job' = job /\ at' = at /\ Target(job[w])' = Target(job[w])
    BY <1>6 DEF Save, Target
  <2>2. l \in Nat /\ i \in Nat /\ i <= l
    BY <2>1, LeftFacts
  <2>3. CallsLeft(w) = 2 * (l - i)
    BY <2>1 DEF CallsLeft
  <2>4. CallsLeft(w)' = 0 \/ CallsLeft(w)' = 2 * (l - i)
    <3>1. pc'[w] \in {"transferring", "listing"}
      BY <1>6 DEF Save, Goto, TypeOK
    <3> QED BY <2>1, <3>1 DEF CallsLeft
  <2> HIDE DEF l, i
  <2> QED BY <1>1, <2>1, <2>2, <2>3, <2>4 DEF RunsDown
<1>7. CASE Transfer(w) \/ CallLost(w)
  BY <1>2, <1>7 DEF Transfer, CallLost, GiveBack
<1> QED BY <1>3, <1>4, <1>5, <1>6, <1>7 DEF WorkerStep, Take

LEMMA StillRunsDown ==
    ASSUME TypeOK, NEW v \in Workers, pc[v] # "idle", Underway(v),
           job'[v] = job[v], pc'[v] = pc[v], at'[v] = at[v]
    PROVE  RunsDown(v)
<1>1. CallsLeft(v)' = CallsLeft(v)
  BY DEF CallsLeft, Target
<1> QED BY <1>1, SomeLeft DEF RunsDown

\* GetPathID makes at most two API calls for each folder of the path on the one token pool.go:65
\* takes, whatever is in the cache, on Drive, or fails.
THEOREM PathCallsAreBounded == Spec => CallsRunDown
<1>1. IInv /\ [Next]_vars => [\A w \in Workers : pc[w] # "idle" => RunsDown(w)]_vars
  <2> SUFFICES ASSUME IInv, Next, NEW v \in Workers, pc[v] # "idle" PROVE RunsDown(v)
    OBVIOUS
  <2>1. TypeOK /\ \A u \in Workers : Underway(u)
    BY InvMeans DEF Placed
  <2>2. ASSUME NEW w \in Workers, WorkerStep(w) \/ CallLost(w) PROVE RunsDown(v)
    <3>1. CASE v = w
      BY <2>1, <2>2, <3>1, WorkerCallsRunDown
    <3>2. CASE v # w
      BY <2>1, <2>2, <3>2, OneMoves, StillRunsDown DEF Others
    <3> QED BY <3>1, <3>2
  <2>3. CASE Delete
    BY <2>1, <2>3, StillRunsDown DEF Delete, calls
  <2> QED BY <2>2, <2>3 DEF Next
<1> QED BY <1>1, DriveInvariant, PTL DEF Spec, CallsRunDown
=============================================================================
