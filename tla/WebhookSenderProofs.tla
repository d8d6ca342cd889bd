------------------------ MODULE WebhookSenderProofs ------------------------
(***************************************************************************)
(* Proofs about WebhookSender, for any number of tasks, rows in a batch    *)
(* and database errors: what the sender tells receivers, and what it       *)
(* writes about it, is true.                                               *)
(***************************************************************************)
EXTENDS WebhookSender, SequenceTheorems, TLAPS

----------------------------------------------------------------------------
(* Lemmas about batches, the backoff table and the queue.                  *)

LEMMA TailFacts ==
    ASSUME NEW s \in Seq(Snapshots), s # <<>>
    PROVE  /\ Head(s) = s[1] /\ s[1] \in Snapshots
           /\ Len(s) \in Nat /\ 1 \in 1 .. Len(s)
           /\ Tail(s) \in Seq(Snapshots)
           /\ Len(Tail(s)) = Len(s) - 1
           /\ (Len(s) = 1) <=> (Tail(s) = <<>>)
           /\ \A i \in 1 .. Len(Tail(s)) : Tail(s)[i] = s[i + 1] /\ i + 1 \in 1 .. Len(s)
<1>1. Len(s) \in Nat /\ Len(s) >= 1
  BY EmptySeq
<1>2. Head(s) = s[1] /\ s[1] \in Snapshots
  BY <1>1
<1>3. /\ Tail(s) \in Seq(Snapshots) /\ Len(Tail(s)) = Len(s) - 1
      /\ \A i \in 1 .. Len(Tail(s)) : Tail(s)[i] = s[i + 1]
  BY HeadTailProperties
<1>4. (Len(s) = 1) <=> (Tail(s) = <<>>)
  <2>1. Len(<<>>) = 0 /\ \A q \in Seq(Snapshots) : Len(q) = 0 => q = <<>>
    BY EmptySeq
  <2>2. (Len(Tail(s)) = 0) <=> (Tail(s) = <<>>)
    BY <1>3, <2>1
  <2> QED BY <1>1, <1>3, <2>2
<1> QED BY <1>1, <1>2, <1>3, <1>4

LEMMA BackoffFacts == \A n \in 0 .. MaxTries : Backoff(n) \in Nat
<1>1. 2 ^ 0 \in Nat /\ 2 ^ 1 \in Nat /\ 2 ^ 2 \in Nat /\ 2 ^ 3 \in Nat /\ 2 ^ 4 \in Nat
  OBVIOUS
<1>2. /\ Backoff(0) = 0 /\ Backoff(1) = 2 ^ (1 - 1) /\ Backoff(2) = 2 ^ (2 - 1)
      /\ Backoff(3) = 2 ^ (3 - 1) /\ Backoff(4) = 2 ^ (4 - 1) /\ Backoff(5) = 2 ^ (5 - 1)
  BY DEF Backoff
<1>3. 1 - 1 = 0 /\ 2 - 1 = 1 /\ 3 - 1 = 2 /\ 4 - 1 = 3 /\ 5 - 1 = 4
  OBVIOUS
<1>4. /\ Backoff(0) \in Nat /\ Backoff(1) \in Nat /\ Backoff(2) \in Nat
      /\ Backoff(3) \in Nat /\ Backoff(4) \in Nat /\ Backoff(5) \in Nat
  BY <1>1, <1>2, <1>3
<1>5. \A n \in 0 .. MaxTries : n = 0 \/ n = 1 \/ n = 2 \/ n = 3 \/ n = 4 \/ n = 5
  BY DEF MaxTries
<1> QED BY <1>4, <1>5

\* The rest of the daemon leaves a settled task's outcome alone: TaskQueue's promise.
LEMMA QueueFacts ==
    ASSUME status \in [Tasks -> Queue!Statuses], Queue!Next
    PROVE  /\ status' \in [Tasks -> Queue!Statuses]
           /\ \A t \in Tasks : status[t] \in {"done", "failed"} => status'[t] = status[t]
BY DEF Queue!Next, Queue!Accept, Queue!Start, Queue!Transfer, Queue!Fault, Queue!Settle,
       Queue!Release, Queue!Running, Queue!Statuses

\* The row at the head of the batch.
LEMMA HeadFacts ==
    ASSUME IInv, pc # "idle"
    PROVE  /\ batch # <<>> /\ batch \in Seq(Snapshots) /\ 1 \in 1 .. Len(batch)
           /\ Head(batch) = batch[1]
           /\ Head(batch).id \in Tasks
           /\ Head(batch).tries = cbTries[Head(batch).id]
           /\ Head(batch).outcome = status[Head(batch).id]
           /\ status[Head(batch).id] \in {"done", "failed"}
           /\ cbStatus[Head(batch).id] = "pending"
<1>1. batch # <<>> /\ batch \in Seq(Snapshots)
  BY DEF IInv, TypeOK
<1>2. 1 \in 1 .. Len(batch) /\ Head(batch) = batch[1]
  BY <1>1, TailFacts
<1>3. batch[1] = Snapshot(batch[1].id) /\ batch[1].id \in Due
  BY <1>2 DEF IInv, CopiesCurrent
<1> QED BY <1>1, <1>2, <1>3 DEF Snapshot, Due, Settled

----------------------------------------------------------------------------
(* The steps, by what they touch.                                          *)

LEMMA InitIInv == Init => IInv
<1> SUFFICES ASSUME Init PROVE IInv
  OBVIOUS
<1>1. batch = <<>> /\ Len(batch) = 0 /\ batch \in Seq(Snapshots) /\ acked = {}
  BY EmptySeq DEF Init
<1>2. status \in [Tasks -> Queue!Statuses]
  BY DEF Init, Queue!Init, Queue!Statuses
<1>3. age \in [Tasks -> Nat] /\ \A t \in Tasks : age[t] <= Backoff(cbTries[t])
  BY BackoffFacts DEF Init, MaxTries
<1>4. TypeOK
  BY <1>1, <1>2, <1>3, LimitAssumption DEF Init, TypeOK, MaxTries
<1>5. CopiesCurrent /\ Batched /\ ToldTheTruth /\ Acknowledged
  BY <1>1 DEF Init, CopiesCurrent, Batched, ToldTheTruth, Acknowledged
<1>6. CallbackHonest /\ Attempted
  BY DEF Init, CallbackHonest, Attempted, MaxTries
<1> QED BY <1>4, <1>5, <1>6 DEF IInv

LEMMA IInvQueue == IInv /\ QueueStep => IInv'
<1> SUFFICES ASSUME IInv, QueueStep PROVE IInv'
  OBVIOUS
<1>1. UNCHANGED <<cbStatus, cbTries, age, proc, pc, batch, told, refusals, acked, lost>>
  BY DEF QueueStep, columns, sender, history
<1>2. /\ status' \in [Tasks -> Queue!Statuses]
      /\ \A t \in Tasks : status[t] \in {"done", "failed"} => status'[t] = status[t]
  BY QueueFacts DEF QueueStep, IInv, TypeOK
<1>3. TypeOK'
  BY <1>1, <1>2 DEF IInv, TypeOK
<1>4. CopiesCurrent'
  <2> SUFFICES ASSUME NEW i \in 1 .. Len(batch)
               PROVE  (batch[i] = Snapshot(batch[i].id) /\ batch[i].id \in Due)'
    BY <1>1 DEF CopiesCurrent
  <2>1. batch[i] = Snapshot(batch[i].id) /\ batch[i].id \in Due
    BY DEF IInv, CopiesCurrent
  <2>2. status'[batch[i].id] = status[batch[i].id]
    BY <1>2, <2>1 DEF Due, Settled
  <2> QED BY <1>1, <2>1, <2>2 DEF Snapshot, Due, Settled
<1>5. ToldTheTruth'
  BY <1>1, <1>2 DEF IInv, ToldTheTruth, TypeOK
<1> QED BY <1>1, <1>3, <1>4, <1>5 DEF IInv, Batched, CallbackHonest, Attempted, Acknowledged

LEMMA IInvTick == IInv /\ Tick => IInv'
<1> SUFFICES ASSUME IInv, Tick PROVE IInv'
  OBVIOUS
<1> USE DEF queue, sender, history
<1>1. age' \in [Tasks -> Nat] /\ \A t \in Tasks : age'[t] <= Backoff(cbTries[t])
  <2>1. ASSUME NEW t \in Tasks
        PROVE  Backoff(cbTries[t]) \in Nat /\ age[t] \in Nat /\ age[t] <= Backoff(cbTries[t])
    BY BackoffFacts DEF IInv, TypeOK
  <2> QED BY <2>1 DEF Tick
<1>2. TypeOK'
  BY <1>1 DEF Tick, IInv, TypeOK
<1> QED BY <1>2 DEF Tick, IInv, CopiesCurrent, Snapshot, Due, Settled, Batched, ToldTheTruth,
        CallbackHonest, Attempted, Acknowledged

LEMMA IInvProcess == IInv /\ (Signal \/ Die \/ Boot) => IInv'
<1> SUFFICES ASSUME IInv, Signal \/ Die \/ Boot PROVE IInv'
  OBVIOUS
<1> USE DEF queue, columns, sender, history
<1>1. CASE Signal \/ Boot
  BY <1>1 DEF Signal, Boot, IInv, TypeOK, CopiesCurrent, Snapshot, Due, Settled, Batched,
          ToldTheTruth, CallbackHonest, Attempted, Acknowledged
<1>2. CASE Die
  <2>1. batch' = <<>> /\ Len(batch') = 0 /\ batch' \in Seq(Snapshots) /\ acked' = {}
    BY <1>2, EmptySeq DEF Die
  <2>2. TypeOK'
    BY <1>2, <2>1, LimitAssumption DEF Die, IInv, TypeOK
  <2>3. CopiesCurrent' /\ Batched' /\ Acknowledged'
    BY <2>1 DEF CopiesCurrent, Batched, Acknowledged
  <2> QED BY <1>2, <2>2, <2>3 DEF Die, IInv, ToldTheTruth, CallbackHonest, Attempted
<1> QED BY <1>1, <1>2

\* The query: copies of rows that are due, each once.
LEMMA IInvPoll == IInv /\ Poll => IInv'
<1> SUFFICES ASSUME IInv, Poll PROVE IInv'
  OBVIOUS
<1> USE DEF queue, columns, history
<1>1. PICK n \in 1 .. Limit :
         batch' \in {b \in [1 .. n -> {Snapshot(t) : t \in Due}] :
                       \A i, j \in 1 .. n : i < j => b[i].id # b[j].id}
  BY DEF Poll
<1>2. /\ batch' \in [1 .. n -> {Snapshot(t) : t \in Due}]
      /\ \A i, j \in 1 .. n : i < j => batch'[i].id # batch'[j].id
  BY <1>1
<1>3. \A t \in Due : Snapshot(t) \in Snapshots
  BY DEF Snapshot, Snapshots, Due, Settled, IInv, TypeOK
<1>4. n \in Nat /\ n >= 1 /\ n <= Limit
  BY LimitAssumption
<1>5. batch' \in [1 .. n -> Snapshots]
  BY <1>2, <1>3
<1>6. batch' \in Seq(Snapshots) /\ Len(batch') = n
  BY <1>4, <1>5, SeqDef
<1>7. batch' # <<>>
  BY <1>4, <1>6, EmptySeq
<1>8. TypeOK'
  BY <1>4, <1>6, <1>7 DEF Poll, IInv, TypeOK
<1>9. CopiesCurrent'
  <2> SUFFICES ASSUME NEW i \in 1 .. n
               PROVE  (batch[i] = Snapshot(batch[i].id) /\ batch[i].id \in Due)'
    BY <1>6 DEF CopiesCurrent
  <2>1. PICK t \in Due : batch'[i] = Snapshot(t)
    BY <1>2
  <2>2. batch'[i].id = t
    BY <2>1 DEF Snapshot
  <2> QED BY <2>1, <2>2 DEF Poll, Snapshot, Due, Settled
<1>10. Batched'
  <2> SUFFICES ASSUME NEW i \in 1 .. n, NEW j \in 1 .. n, batch'[i].id = batch'[j].id, i # j
               PROVE  FALSE
    BY <1>6 DEF Batched
  <2>1. i < j \/ j < i
    OBVIOUS
  <2> QED BY <1>2, <2>1
<1>11. Acknowledged' /\ Attempted'
  BY DEF Poll, IInv, Acknowledged, Attempted
<1> QED BY <1>8, <1>9, <1>10, <1>11 DEF Poll, IInv, ToldTheTruth, CallbackHonest

\* A request goes out, or its answer comes back: the batch and the table stay as they are.
LEMMA IInvPost == IInv /\ (StartPost \/ PostAccepted \/ PostRefused) => IInv'
<1> SUFFICES ASSUME IInv, StartPost \/ PostAccepted \/ PostRefused PROVE IInv'
  OBVIOUS
<1> USE DEF queue, columns, history
<1> DEFINE t == Head(batch).id
<1>1. pc \in {"checking", "posting"}
  BY DEF StartPost, PostAccepted, PostRefused
<1>2. /\ batch # <<>> /\ t \in Tasks
      /\ Head(batch).outcome = status[t] /\ status[t] \in {"done", "failed"}
      /\ cbStatus[t] = "pending"
  BY <1>1, HeadFacts
<1>3. UNCHANGED <<status, cbStatus, cbTries, age, proc, batch, lost>>
  BY DEF StartPost, PostAccepted, PostRefused
<1>4. CopiesCurrent' /\ Batched'
  BY <1>3 DEF IInv, CopiesCurrent, Batched, Snapshot, Due, Settled
<1>5. t \notin acked
  BY <1>1, <1>2 DEF IInv, Acknowledged
<1>6. CASE StartPost
  BY <1>2, <1>3, <1>4, <1>6 DEF StartPost, IInv, TypeOK, ToldTheTruth, CallbackHonest, Attempted,
                                Acknowledged
<1>7. CASE PostAccepted
  <2>1. /\ told' = [told EXCEPT ![t] = status[t]] /\ acked' = acked \cup {t}
        /\ pc' = "succeeded" /\ UNCHANGED refusals
    BY <1>2, <1>7 DEF PostAccepted
  <2>2. TypeOK'
    BY <1>2, <1>3, <2>1 DEF IInv, TypeOK
  <2>3. ToldTheTruth' /\ CallbackHonest'
    BY <1>2, <1>3, <2>1 DEF IInv, TypeOK, ToldTheTruth, CallbackHonest
  <2>4. Attempted'
    BY <1>2, <1>3, <2>1 DEF IInv, TypeOK, Attempted
  <2>5. Acknowledged'
    BY <1>1, <1>3, <2>1 DEF IInv, Acknowledged
  <2> QED BY <1>4, <2>2, <2>3, <2>4, <2>5 DEF IInv
<1>8. CASE PostRefused
  <2>1. /\ told' \in {told, [told EXCEPT ![t] = status[t]]}
        /\ refusals' = [refusals EXCEPT ![t] = Queue!AtMost(@ + 1, MaxTries)]
        /\ pc' = "rejected" /\ UNCHANGED acked
    BY <1>2, <1>8 DEF PostRefused
  <2>2. /\ refusals[t] \in 0 .. MaxTries /\ cbTries[t] \in 0 .. MaxTries
        /\ cbTries[t] <= refusals[t] /\ cbTries[t] < MaxTries
    BY <1>2 DEF IInv, TypeOK, CallbackHonest, Attempted
  <2>3. /\ refusals'[t] \in 0 .. MaxTries
        /\ refusals'[t] > cbTries[t] /\ refusals'[t] >= refusals[t]
    BY <1>2, <2>1, <2>2 DEF Queue!AtMost, IInv, TypeOK, MaxTries
  <2>4. \A u \in Tasks : u # t => refusals'[u] = refusals[u] /\ told'[u] = told[u]
    BY <2>1 DEF IInv, TypeOK
  <2>5. told'[t] \in {told[t], status[t]}
    BY <1>2, <2>1 DEF IInv, TypeOK
  <2>6. told' \in [Tasks -> {"none", "done", "failed"}] /\ refusals' \in [Tasks -> 0 .. MaxTries]
    BY <1>2, <2>1, <2>3 DEF IInv, TypeOK
  <2>7. TypeOK'
    BY <1>2, <1>3, <2>1, <2>6 DEF IInv, TypeOK
  <2>8. ToldTheTruth'
    BY <1>3, <2>4, <2>5 DEF IInv, ToldTheTruth
  <2>9. CallbackHonest'
    <3> SUFFICES ASSUME NEW u \in Tasks
                 PROVE  (/\ cbStatus[u] = "sent" => told[u] # "none"
                         /\ cbStatus[u] = "failed" => refusals[u] = MaxTries
                         /\ cbTries[u] <= refusals[u])'
      BY DEF CallbackHonest
    <3>1. CASE u = t
      BY <1>2, <1>3, <2>2, <2>3, <3>1
    <3>2. CASE u # t
      BY <1>3, <2>4, <3>2 DEF IInv, CallbackHonest
    <3> QED BY <3>1, <3>2
  <2>10. Attempted' /\ Acknowledged'
    BY <1>1, <1>3, <2>1, <2>3 DEF IInv, Attempted, Acknowledged
  <2> QED BY <1>4, <2>7, <2>8, <2>9, <2>10 DEF IInv
<1> QED BY <1>6, <1>7, <1>8

\* The sender is through with the head of the batch, having changed no other row.
LEMMA IInvNextRow ==
    ASSUME IInv, pc # "idle", NextInBatch, UNCHANGED <<status, proc, told, refusals>>,
           NEW t, t = Head(batch).id,
           cbStatus' \in [Tasks -> {"none", "pending", "sent", "failed"}],
           cbTries' \in [Tasks -> 0 .. MaxTries],
           age' \in [Tasks -> Nat], \A u \in Tasks : age'[u] <= Backoff(cbTries'[u]),
           \A u \in Tasks : u # t => cbStatus'[u] = cbStatus[u] /\ cbTries'[u] = cbTries[u],
           cbStatus'[t] = "pending" => cbTries'[t] < MaxTries,
           cbStatus'[t] = "sent" => told[t] # "none",
           cbStatus'[t] = "failed" => refusals[t] = MaxTries,
           cbTries'[t] <= refusals[t],
           lost' \subseteq Tasks, acked' \subseteq acked,
           t \in acked' => cbStatus'[t] = "sent"
    PROVE  IInv'
<1>1. batch # <<>> /\ batch \in Seq(Snapshots) /\ 1 \in 1 .. Len(batch) /\ Head(batch) = batch[1]
  BY HeadFacts
<1>2. /\ Tail(batch) \in Seq(Snapshots) /\ Len(Tail(batch)) = Len(batch) - 1
      /\ (Len(batch) = 1) <=> (Tail(batch) = <<>>)
      /\ Len(batch) \in Nat
      /\ \A i \in 1 .. Len(Tail(batch)) : Tail(batch)[i] = batch[i + 1] /\ i + 1 \in 1 .. Len(batch)
  BY <1>1, TailFacts
<1>3. batch' = Tail(batch) /\ (pc' = "idle" <=> batch' = <<>>) /\ pc' \in {"idle", "checking"}
  BY <1>2 DEF NextInBatch
<1>4. TypeOK'
  BY <1>2, <1>3, LimitAssumption DEF IInv, TypeOK
<1>5. Batched'
  BY <1>2, <1>3 DEF IInv, Batched
<1>6. CopiesCurrent'
  <2> SUFFICES ASSUME NEW i \in 1 .. Len(Tail(batch))
               PROVE  (batch[i] = Snapshot(batch[i].id) /\ batch[i].id \in Due)'
    BY <1>3 DEF CopiesCurrent
  <2>1. /\ batch'[i] = batch[i + 1] /\ i + 1 \in 1 .. Len(batch) /\ i + 1 # 1
    BY <1>2, <1>3
  <2>2. batch[i + 1] = Snapshot(batch[i + 1].id) /\ batch[i + 1].id \in Due
    BY <2>1 DEF IInv, CopiesCurrent
  <2>3. batch[i + 1].id # t
    BY <1>1, <2>1 DEF IInv, Batched
  <2>4. batch[i + 1].id \in Tasks
    BY <2>2 DEF Due, Settled
  <2> QED BY <2>1, <2>2, <2>3, <2>4 DEF Snapshot, Due, Settled
<1>7. ToldTheTruth'
  BY DEF IInv, ToldTheTruth
<1>8. CallbackHonest'
  BY DEF IInv, CallbackHonest
<1>9. Attempted'
  BY <1>3 DEF IInv, Attempted
<1>10. Acknowledged'
  BY <1>3 DEF IInv, TypeOK, Acknowledged
<1> QED BY <1>4, <1>5, <1>6, <1>7, <1>8, <1>9, <1>10 DEF IInv

LEMMA IInvPassOver == IInv /\ PassOver => IInv'
<1> SUFFICES ASSUME IInv, PassOver PROVE IInv'
  OBVIOUS
<1> DEFINE t == Head(batch).id
<1>1. pc = "checking" /\ NextInBatch
      /\ UNCHANGED <<status, cbStatus, cbTries, age, proc, told, refusals, acked, lost>>
  BY DEF PassOver, queue, columns, history
<1>2. t \in Tasks /\ cbStatus[t] = "pending"
  BY <1>1, HeadFacts
<1>3. t \notin acked /\ cbTries[t] < MaxTries /\ cbTries[t] <= refusals[t]
  BY <1>1, <1>2 DEF IInv, Acknowledged, Attempted, CallbackHonest
<1>4. /\ cbStatus \in [Tasks -> {"none", "pending", "sent", "failed"}]
      /\ cbTries \in [Tasks -> 0 .. MaxTries]
      /\ age \in [Tasks -> Nat] /\ \A u \in Tasks : age[u] <= Backoff(cbTries[u])
      /\ lost \subseteq Tasks
  BY DEF IInv, TypeOK
<1> HIDE DEF t
<1> QED BY <1>1, <1>2, <1>3, <1>4, IInvNextRow DEF t

\* The UPDATE, whether it took effect or not.  What it writes has to be earned.
LEMMA IInvUpdate ==
    ASSUME IInv, pc \in {"succeeded", "rejected"}, NextInBatch,
           UNCHANGED <<status, proc, told, refusals>>,
           NEW t, t = Head(batch).id,
           NEW s \in {"pending", "sent", "failed"}, NEW n \in 0 .. MaxTries, Update(t, s, n),
           s = "pending" => n < MaxTries,
           s = "sent" => told[t] # "none",
           s = "failed" => refusals[t] = MaxTries,
           n <= refusals[t],
           t \in acked => s = "sent"
    PROVE  IInv'
<1>1. t \in Tasks /\ cbStatus[t] = "pending"
  BY HeadFacts
<1>2. /\ cbStatus \in [Tasks -> {"none", "pending", "sent", "failed"}]
      /\ cbTries \in [Tasks -> 0 .. MaxTries] /\ lost \subseteq Tasks
      /\ age \in [Tasks -> Nat] /\ \A u \in Tasks : age[u] <= Backoff(cbTries[u])
      /\ cbTries[t] < MaxTries /\ cbTries[t] <= refusals[t]
  BY <1>1 DEF IInv, TypeOK, Attempted, CallbackHonest
<1>3. CASE /\ cbStatus' = [cbStatus EXCEPT ![t] = s] /\ cbTries' = [cbTries EXCEPT ![t] = n]
           /\ age' = [age EXCEPT ![t] = 0] /\ lost' = lost \ {t} /\ UNCHANGED acked
  <2>1. age' \in [Tasks -> Nat] /\ \A u \in Tasks : age'[u] <= Backoff(cbTries'[u])
    <3>1. age'[t] = 0 /\ Backoff(cbTries'[t]) \in Nat
      BY <1>1, <1>2, <1>3, BackoffFacts DEF IInv, TypeOK
    <3>2. \A u \in Tasks : u # t => age'[u] = age[u] /\ cbTries'[u] = cbTries[u]
      BY <1>2, <1>3
    <3>3. age' \in [Tasks -> Nat]
      BY <1>2, <1>3
    <3>4. ASSUME NEW u \in Tasks PROVE age'[u] <= Backoff(cbTries'[u])
      <4>1. CASE u = t
        BY <3>1, <4>1
      <4>2. CASE u # t
        BY <1>2, <3>2, <4>2
      <4> QED BY <4>1, <4>2
    <3> QED BY <3>3, <3>4
  <2>2. /\ cbStatus' \in [Tasks -> {"none", "pending", "sent", "failed"}]
        /\ cbTries' \in [Tasks -> 0 .. MaxTries]
        /\ cbStatus'[t] = s /\ cbTries'[t] = n
        /\ \A u \in Tasks : u # t => cbStatus'[u] = cbStatus[u] /\ cbTries'[u] = cbTries[u]
    BY <1>1, <1>2, <1>3
  <2> QED BY <1>2, <1>3, <2>1, <2>2, IInvNextRow
<1>4. CASE lost' \in {lost, lost \cup {t}} /\ acked' = acked \ {t} /\ UNCHANGED columns
  BY <1>1, <1>2, <1>4, IInvNextRow DEF columns
<1> QED BY <1>3, <1>4 DEF Update

LEMMA IInvHandle == IInv /\ (HandleSuccess \/ HandleFailure) => IInv'
<1> SUFFICES ASSUME IInv, HandleSuccess \/ HandleFailure PROVE IInv'
  OBVIOUS
<1> USE DEF queue
<1> DEFINE t == Head(batch).id
<1>1. pc \in {"succeeded", "rejected"} /\ NextInBatch /\ UNCHANGED <<status, proc, told, refusals>>
  BY DEF HandleSuccess, HandleFailure
<1>2. t \in Tasks /\ Head(batch).tries = cbTries[t] /\ cbStatus[t] = "pending"
  BY <1>1, HeadFacts
<1>3. /\ cbTries[t] \in 0 .. MaxTries /\ refusals[t] \in 0 .. MaxTries
      /\ cbTries[t] < MaxTries /\ cbTries[t] <= refusals[t]
      /\ pc = "succeeded" => told[t] # "none"
      /\ pc = "rejected" => refusals[t] > cbTries[t] /\ t \notin acked
  BY <1>2 DEF IInv, TypeOK, Attempted, CallbackHonest, Acknowledged
<1>4. CASE HandleSuccess
  <2>1. Update(t, "sent", cbTries[t]) /\ pc = "succeeded"
    BY <1>4 DEF HandleSuccess
  <2> HIDE DEF t
  <2> QED BY <1>1, <1>2, <1>3, <2>1, IInvUpdate DEF t
<1>5. CASE HandleFailure
  <2> DEFINE n == cbTries[t] + 1
             s == IF GivesUp(n) THEN "failed" ELSE "pending"
  <2>1. Update(t, s, n) /\ pc = "rejected"
    BY <1>2, <1>5 DEF HandleFailure
  <2>2. n \in 0 .. MaxTries /\ n <= refusals[t]
    BY <1>3, <2>1 DEF MaxTries
  <2>3. /\ s \in {"pending", "failed"}
        /\ s = "pending" => n < MaxTries
        /\ s = "failed" => refusals[t] = MaxTries
    BY <1>3, <2>2 DEF GivesUp, MaxTries
  <2> HIDE DEF t, n, s
  <2> QED BY <1>1, <1>3, <2>1, <2>2, <2>3, IInvUpdate DEF t
<1> QED BY <1>4, <1>5

LEMMA IInvStep == IInv /\ [Next]_vars => IInv'
<1> SUFFICES ASSUME IInv, [Next]_vars PROVE IInv'
  OBVIOUS
<1>1. CASE UNCHANGED vars
  BY <1>1 DEF vars, queue, columns, sender, history, IInv, TypeOK, CopiesCurrent, Snapshot, Due,
          Settled, Batched, ToldTheTruth, CallbackHonest, Attempted, Acknowledged
<1> QED BY <1>1, IInvQueue, IInvTick, IInvProcess, IInvPoll, IInvPost, IInvPassOver, IInvHandle
        DEF Next, SenderStep

\* The inductive invariant of webhook.go's loop, over crashes, lost answers and lost
\* UPDATEs: its copies of rows are current, what it announced is final, and the callback
\* columns tell what happened.
THEOREM SenderInvariant == Spec => []IInv
BY InitIInv, IInvStep, PTL DEF Spec

----------------------------------------------------------------------------
(* The properties, each a part of the invariant or a consequence of it.    *)

\* The columns, the batch and the clock of the sender have their types; the retry counter
\* stays within handleFailure's five.
THEOREM SenderTypeCorrect == Spec => []TypeOK
<1>1. IInv => TypeOK
  BY DEF IInv
<1> QED BY <1>1, SenderInvariant, PTL

\* What a receiver was told stays the outcome of the task, whatever the scheduler, the
\* workers and a restart do: the sender rests on TaskQueue's outcomes being final.
THEOREM AnnouncedOutcomesAreFinal == Spec => []ToldTheTruth
<1>1. IInv => ToldTheTruth
  BY DEF IInv
<1> QED BY <1>1, SenderInvariant, PTL

\* handleFailure may add one to the counter of a copy read many requests ago: the copy is
\* still the row.
THEOREM SenderCopiesAreCurrent == Spec => []CopiesCurrent
<1>1. IInv => CopiesCurrent
  BY DEF IInv
<1> QED BY <1>1, SenderInvariant, PTL

\* 'sent', 'failed' and the counter tell what happened, over lost answers and UPDATEs.
THEOREM CallbackColumnsAreHonest == Spec => []CallbackHonest
<1>1. IInv => CallbackHonest
  BY DEF IInv
<1> QED BY <1>1, SenderInvariant, PTL

\* Within one process a second post after a 2xx answer needs a lost UPDATE in between.
THEOREM ResentOnlyAfterLoss == Spec => []NoResend
<1>1. IInv => NoResend
  <2> SUFFICES ASSUME IInv, pc = "posting" PROVE Head(batch).id \notin acked
    BY DEF NoResend
  <2>1. cbStatus[Head(batch).id] = "pending"
    BY HeadFacts
  <2> QED BY <2>1 DEF IInv, Acknowledged
<1> QED BY <1>1, SenderInvariant, PTL

\* What a row says is over is over: the steps that write the columns or post are about the
\* head of the batch, whose row is still pending.
LEMMA FinalStep ==
    IInv /\ [Next]_vars =>
        \A t \in Tasks : cbStatus[t] # "pending" =>
           /\ cbStatus'[t] = cbStatus[t] /\ cbTries'[t] = cbTries[t]
           /\ told'[t] = told[t] /\ refusals'[t] = refusals[t]
<1> SUFFICES ASSUME IInv, [Next]_vars, NEW t \in Tasks, cbStatus[t] # "pending"
             PROVE  /\ cbStatus'[t] = cbStatus[t] /\ cbTries'[t] = cbTries[t]
                    /\ told'[t] = told[t] /\ refusals'[t] = refusals[t]
  OBVIOUS
<1> USE DEF queue, columns, sender, history
<1>0. CASE UNCHANGED <<cbStatus, cbTries, told, refusals>>
  BY <1>0
<1>1. CASE QueueStep \/ Tick \/ Signal \/ Die \/ Boot \/ UNCHANGED vars
  BY <1>0, <1>1 DEF QueueStep, Tick, Signal, Die, Boot, vars
<1>2. CASE Poll \/ PassOver \/ StartPost
  BY <1>0, <1>2 DEF Poll, PassOver, StartPost
<1>3. CASE PostAccepted \/ PostRefused
  <2>1. Head(batch).id # t
    BY <1>3, HeadFacts DEF PostAccepted, PostRefused
  <2>2. UNCHANGED <<cbStatus, cbTries>>
    BY <1>3 DEF PostAccepted, PostRefused
  <2>3. told'[t] = told[t] /\ refusals'[t] = refusals[t]
    BY <1>3, <2>1 DEF PostAccepted, PostRefused, IInv, TypeOK
  <2> QED BY <2>2, <2>3
<1>4. CASE HandleSuccess \/ HandleFailure
  <2>1. Head(batch).id # t /\ UNCHANGED <<told, refusals>>
    BY <1>4, HeadFacts DEF HandleSuccess, HandleFailure
  <2>2. \E s, n : Update(Head(batch).id, s, n)
    BY <1>4 DEF HandleSuccess, HandleFailure
  <2>3. cbStatus'[t] = cbStatus[t] /\ cbTries'[t] = cbTries[t]
    BY <2>1, <2>2 DEF Update, IInv, TypeOK
  <2> QED BY <2>1, <2>3
<1> QED BY <1>1, <1>2, <1>3, <1>4 DEF Next, SenderStep

\* Once 'sent' or 'failed', a callback's columns never change and its receiver is told
\* nothing more: a copy read long ago cannot bring it back.
THEOREM SettledCallbacksAreFinal == Spec => CallbackFinal
BY FinalStep, SenderInvariant, PTL DEF Spec, CallbackFinal

----------------------------------------------------------------------------
(* The sender changes nothing the queue promises, so that what it tells    *)
(* the receiver is backed by an attempt.                                   *)

LEMMA KeepsQueueStep == [Next]_vars => [Queue!Next]_(Queue!vars)
<1> SUFFICES ASSUME [Next]_vars PROVE [Queue!Next]_(Queue!vars)
  OBVIOUS
<1> USE DEF queue, Queue!vars
<1>1. CASE QueueStep
  BY <1>1 DEF QueueStep
<1>2. CASE Tick \/ Signal \/ Die \/ Boot \/ UNCHANGED vars
  BY <1>2 DEF Tick, Signal, Die, Boot, vars
<1>3. CASE SenderStep
  BY <1>3 DEF SenderStep, Poll, PassOver, StartPost, PostAccepted, PostRefused, HandleSuccess,
              HandleFailure
<1> QED BY <1>1, <1>2, <1>3 DEF Next

LEMMA EarnedStep ==
    Queue!TypeOK /\ Queue!OutcomesEarned /\ [Queue!Next]_(Queue!vars)
        => (Queue!TypeOK /\ Queue!OutcomesEarned)'
<1> SUFFICES ASSUME Queue!TypeOK, Queue!OutcomesEarned, [Queue!Next]_(Queue!vars)
             PROVE  (Queue!TypeOK /\ Queue!OutcomesEarned)'
  OBVIOUS
<1> USE LimitAssumption DEF Queue!TypeOK, Queue!OutcomesEarned, Queue!Earned, Queue!Statuses
<1>1. ASSUME NEW t \in Tasks,
             Queue!Accept(t) \/ Queue!Start(t) \/ Queue!Transfer(t) \/ Queue!Settle(t)
      PROVE  (Queue!TypeOK /\ Queue!OutcomesEarned)'
  BY <1>1 DEF Queue!Accept, Queue!Start, Queue!Transfer, Queue!Settle
<1>2. ASSUME NEW t \in Tasks, Queue!Fault(t) PROVE (Queue!TypeOK /\ Queue!OutcomesEarned)'
  BY <1>2 DEF Queue!Fault, Queue!AtMost
<1>3. ASSUME NEW S \in SUBSET Tasks, Queue!Release(S)
      PROVE  (Queue!TypeOK /\ Queue!OutcomesEarned)'
  BY <1>3 DEF Queue!Release, Queue!Running
<1>4. CASE UNCHANGED Queue!vars
  BY <1>4 DEF Queue!vars
<1> QED BY <1>1, <1>2, <1>3, <1>4 DEF Queue!Next

\* A receiver told "done" has the file, one told "failed" has had every retry: the chain
\* from the worker's verdict over the row and the sender's copy to the POST.
THEOREM AnnouncedOutcomesAreEarned == Spec => []ToldEarned
<1>1. Init => Queue!TypeOK /\ Queue!OutcomesEarned
  BY LimitAssumption
  DEF Init, Queue!Init, Queue!TypeOK, Queue!OutcomesEarned, Queue!Earned, Queue!Statuses
<1>2. Spec => [](Queue!TypeOK /\ Queue!OutcomesEarned)
  BY <1>1, EarnedStep, KeepsQueueStep, PTL DEF Spec
<1>3. ToldTheTruth /\ Queue!OutcomesEarned => ToldEarned
  BY DEF ToldTheTruth, Queue!OutcomesEarned, Queue!Earned, ToldEarned
<1> QED BY <1>2, <1>3, AnnouncedOutcomesAreFinal, PTL
=============================================================================
