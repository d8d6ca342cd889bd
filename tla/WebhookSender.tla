--------------------------- MODULE WebhookSender ---------------------------
(***************************************************************************)
(* The webhook sender of a daemon (worker/webhook.go): one goroutine that  *)
(* polls the task table every two seconds for settled tasks whose callback *)
(* is pending, posts the outcome to the callback URL, and records in the   *)
(* row whether that worked or how often it has failed.                     *)
(*                                                                         *)
(* The rest of the daemon is here only by its promise, TaskQueue, which    *)
(* HippoDaemon implements.  Time passes in units of ten seconds.           *)
(***************************************************************************)
EXTENDS Integers, Sequences, FiniteSets

CONSTANTS
    Tasks, MaxRetries,  \* see TaskQueue
    WithCallback,       \* the tasks created with a callback_url
    Malformed,          \* those whose callback_url url.Parse refuses
    Limit,              \* LIMIT 10 of the query
    MaxDbFaults         \* bound: at most this many rows have a lost UPDATE at any time

ASSUME CallbackAssumption == Malformed \subseteq WithCallback /\ WithCallback \subseteq Tasks
ASSUME LimitAssumption == Limit \in Nat \ {0} /\ MaxDbFaults \in Nat /\ MaxRetries \in Nat
ASSUME FiniteAssumption == IsFiniteSet(Tasks)

VARIABLES
    status, transferred, fails,  \* the queue: see TaskQueue
    \* the columns the sender writes
    cbStatus,  \* callback_status: "none", "pending", "sent" or "failed"
    cbTries,   \* callback_retry_count
    age,       \* time since updated_at, counted up to the backoff it is compared with
    \* the sender
    proc,      \* "up", "stopping" (ctx cancelled) or "down"
    pc,        \* "idle", "checking", "posting", "succeeded" or "rejected"
    batch,     \* what is left of the `tasks` slice of processPendingWebhooks
    \* history
    told,      \* the outcome the receiver was last told, "none" before
    refusals,  \* attempts the sender saw fail, counted up to MaxTries
    acked,     \* tasks whose callback this process saw accepted, and not forgot again
    lost       \* tasks whose latest callback UPDATE met a database error

queue   == <<status, transferred, fails>>
columns == <<cbStatus, cbTries, age>>
sender  == <<pc, batch>>
history == <<told, refusals, acked, lost>>
vars    == <<queue, columns, proc, sender, history>>

Queue == INSTANCE TaskQueue

MaxTries == 5    \* handleFailure: newRetryCount >= 5
Backoff(n) == IF n = 0 THEN 0 ELSE 2 ^ (n - 1)

CtxLive == proc = "up"
Settled == {t \in Tasks : status[t] \in {"done", "failed"}}

\* Mutant: the query leaves the status column out.
DueAtAnyTime == {t \in Tasks : status[t] # "absent" /\ cbStatus[t] = "pending"}

Due == {t \in Settled : cbStatus[t] = "pending"}

\* *queue.Task as the sender reads it.
Snapshots == [id : Tasks, outcome : Queue!Statuses, tries : 0 .. MaxTries]
Snapshot(t) == [id |-> t, outcome |-> status[t], tries |-> cbTries[t]]

----------------------------------------------------------------------------
\* The scheduler, the workers and the API go on meanwhile.
QueueStep == Queue!Next /\ UNCHANGED <<columns, proc, sender, history>>

\* Ten seconds; the process need not be there for it.
Tick == /\ age' = [t \in Tasks |-> IF cbStatus[t] = "pending" /\ age[t] < Backoff(cbTries[t])
                                   THEN age[t] + 1 ELSE age[t]]
        /\ age' # age
        /\ UNCHANGED <<queue, cbStatus, cbTries, proc, sender, history>>

DbMayFail == Cardinality(lost) < MaxDbFaults

\* The SELECT has no ORDER BY: any Limit of the rows that are due, in any order.  A read
\* the database cuts short leaves fewer; rows.Err is not asked.
Poll ==
    /\ CtxLive /\ pc = "idle"
    /\ \E n \in 1 .. Limit :
          /\ n = Limit \/ n = Cardinality(Due) \/ DbMayFail
          /\ batch' \in {b \in [1 .. n -> {Snapshot(t) : t \in Due}] :
                            \A i, j \in 1 .. n : i < j => b[i].id # b[j].id}
    /\ pc' = "checking"
    /\ UNCHANGED <<queue, columns, proc, history>>

NextInBatch == /\ batch' = Tail(batch)
               /\ pc' = IF Len(batch) = 1 THEN "idle" ELSE "checking"

Backing(s) == s.tries > 0 /\ age[s.id] < Backoff(s.tries)

\* On to the next row with nothing recorded: the backoff is still active, or
\* http.NewRequest refuses the URL, or the cancelled context fails first the request and
\* then the UPDATE.
PassOver == /\ pc = "checking"
            /\ Backing(Head(batch)) \/ Head(batch).id \in Malformed \/ ~CtxLive
            /\ NextInBatch
            /\ UNCHANGED <<queue, columns, proc, history>>

StartPost == /\ pc = "checking" /\ CtxLive
             /\ ~Backing(Head(batch)) /\ Head(batch).id \notin Malformed
             /\ pc' = "posting"
             /\ UNCHANGED <<queue, columns, proc, batch, history>>

\* Any 2xx answer.
PostAccepted == LET s == Head(batch) IN
    /\ pc = "posting"
    /\ pc' = "succeeded"
    /\ told' = [told EXCEPT ![s.id] = s.outcome]
    /\ acked' = acked \cup {s.id}
    /\ UNCHANGED <<queue, columns, proc, batch, refusals, lost>>

\* Another answer, no connection, the ten seconds' timeout or a cancelled context: the
\* receiver may have taken the message all the same.
PostRefused == LET s == Head(batch) IN
    /\ pc = "posting"
    /\ pc' = "rejected"
    /\ told' \in {told, [told EXCEPT ![s.id] = s.outcome]}
    /\ refusals' = [refusals EXCEPT ![s.id] = Queue!AtMost(@ + 1, MaxTries)]
    /\ UNCHANGED <<queue, columns, proc, batch, acked, lost>>

\* The UPDATE of handleSuccess and handleFailure: with the daemon's context, once.  An
\* error is logged, and with it the outcome of the request forgotten.
Update(t, s, n) ==
    \/ /\ CtxLive
       /\ cbStatus' = [cbStatus EXCEPT ![t] = s]
       /\ cbTries' = [cbTries EXCEPT ![t] = n]
       /\ age' = [age EXCEPT ![t] = 0]
       /\ lost' = lost \ {t}
       /\ UNCHANGED acked
    \/ /\ \/ ~CtxLive /\ UNCHANGED lost
          \/ DbMayFail /\ lost' = lost \cup {t}
       /\ acked' = acked \ {t}
       /\ UNCHANGED columns

\* Mutant: a success is counted like a try.
SuccessNotRecorded == LET t == Head(batch).id IN
    /\ pc = "succeeded"
    /\ Update(t, "pending", cbTries[t])
    /\ NextInBatch
    /\ UNCHANGED <<queue, proc, told, refusals>>

HandleSuccess == LET t == Head(batch).id IN
    /\ pc = "succeeded"
    /\ Update(t, "sent", cbTries[t])
    /\ NextInBatch
    /\ UNCHANGED <<queue, proc, told, refusals>>

\* Mutants: one try too few, and no last one.
GivesUpEarly(n) == n >= MaxTries - 1
NeverGivesUp(n) == n < 0

GivesUp(n) == n >= MaxTries

\* Mutant: the counter is written back as it was read.
FailureNotCounted == LET s == Head(batch) IN
    /\ pc = "rejected"
    /\ Update(s.id, IF GivesUp(s.tries) THEN "failed" ELSE "pending", s.tries)
    /\ NextInBatch
    /\ UNCHANGED <<queue, proc, told, refusals>>

\* callback_retry_count is the copy's, plus one.
HandleFailure == LET s == Head(batch)
                     n == s.tries + 1 IN
    /\ pc = "rejected"
    /\ Update(s.id, IF GivesUp(n) THEN "failed" ELSE "pending", n)
    /\ NextInBatch
    /\ UNCHANGED <<queue, proc, told, refusals>>

SenderStep == \/ Poll \/ PassOver \/ StartPost \/ PostAccepted \/ PostRefused
              \/ HandleSuccess \/ HandleFailure

\* The sender's own process: shut down, killed, started again.
Signal == /\ proc = "up"
          /\ proc' = "stopping"
          /\ UNCHANGED <<queue, columns, sender, history>>

Die == /\ proc # "down"
       /\ proc' = "down"
       /\ pc' = "idle" /\ batch' = <<>>
       /\ acked' = {}
       /\ UNCHANGED <<queue, columns, told, refusals, lost>>

Boot == /\ proc = "down"
        /\ proc' = "up"
        /\ UNCHANGED <<queue, columns, sender, history>>

Init == /\ Queue!Init
        /\ cbStatus = [t \in Tasks |-> IF t \in WithCallback THEN "pending" ELSE "none"]
        /\ cbTries = [t \in Tasks |-> 0] /\ age = [t \in Tasks |-> 0]
        /\ proc = "down" /\ pc = "idle" /\ batch = <<>>
        /\ told = [t \in Tasks |-> "none"] /\ refusals = [t \in Tasks |-> 0]
        /\ acked = {} /\ lost = {}

Next == QueueStep \/ Tick \/ SenderStep \/ Signal \/ Die \/ Boot

Spec == Init /\ [][Next]_vars

\* The ticker ticks, each request ends within the client's timeout, and time passes.
FairSpec == Spec /\ WF_vars(SenderStep) /\ WF_vars(Tick)

----------------------------------------------------------------------------
(* Properties.                                                             *)

TypeOK ==
    /\ status \in [Tasks -> Queue!Statuses]
    /\ cbStatus \in [Tasks -> {"none", "pending", "sent", "failed"}]
    /\ cbTries \in [Tasks -> 0 .. MaxTries] /\ refusals \in [Tasks -> 0 .. MaxTries]
    /\ age \in [Tasks -> Nat] /\ \A t \in Tasks : age[t] <= Backoff(cbTries[t])
    /\ proc \in {"up", "stopping", "down"}
    /\ pc \in {"idle", "checking", "posting", "succeeded", "rejected"}
    /\ batch \in Seq(Snapshots) /\ Len(batch) <= Limit /\ (pc = "idle" <=> batch = <<>>)
    /\ told \in [Tasks -> {"none", "done", "failed"}]
    /\ acked \subseteq Tasks /\ lost \subseteq Tasks

\* 'sent' is written only after the receiver was told, 'failed' only after MaxTries
\* attempts really failed, and the counter never runs ahead of the attempts.
CallbackHonest ==
    \A t \in Tasks :
        /\ cbStatus[t] = "sent" => told[t] # "none"
        /\ cbStatus[t] = "failed" => refusals[t] = MaxTries
        /\ cbTries[t] <= refusals[t]

\* What a receiver was told stays true: the row keeps the outcome that was announced,
\* although the workers' UPDATEs do not look at the row's status.
ToldTheTruth == \A t \in Tasks : told[t] # "none" => told[t] = status[t]

\* The copies in the sender's batch are the rows: no other step writes the callback
\* columns, and none the outcome, between the SELECT and the UPDATE that adds one to the
\* copy's retry count.
CopiesCurrent == \A i \in 1 .. Len(batch) :
                    /\ batch[i] = Snapshot(batch[i].id)
                    /\ batch[i].id \in Due

\* One process posts a callback again after a 2xx answer only if it could not write the
\* row: the receiver sees duplicates only over a restart or a database error.
NoResend == pc = "posting" => Head(batch).id \notin acked

\* What the proofs carry besides: a callback is in the batch once; what HandleSuccess and
\* HandleFailure are about to write has happened; what this process saw accepted is
\* recorded, or just about to be.
Batched == \A i, j \in 1 .. Len(batch) : batch[i].id = batch[j].id => i = j
Attempted ==
    /\ \A t \in Tasks : cbStatus[t] = "pending" => cbTries[t] < MaxTries
    /\ pc = "succeeded" => told[Head(batch).id] # "none"
    /\ pc = "rejected" => refusals[Head(batch).id] > cbTries[Head(batch).id]
Acknowledged ==
    \A t \in acked : cbStatus[t] = "sent" \/ (pc = "succeeded" /\ Head(batch).id = t)

\* The inductive invariant.
IInv == /\ TypeOK /\ CopiesCurrent /\ Batched /\ ToldTheTruth
        /\ CallbackHonest /\ Attempted /\ Acknowledged

\* From the API's promise to the receiver: who is told "done" has the file where it was to
\* go, who is told "failed" has had every retry.
ToldEarned == \A t \in Tasks : /\ told[t] = "done" => t \in transferred
                              /\ told[t] = "failed" => fails[t] > MaxRetries

\* A callback that is 'sent' or 'failed' is over: its columns stay, and the receiver hears
\* no more of it, over restarts and whatever copies the sender still has.
CallbackFinal ==
    [][\A t \in Tasks : cbStatus[t] # "pending" =>
          /\ cbStatus'[t] = cbStatus[t] /\ cbTries'[t] = cbTries[t]
          /\ told'[t] = told[t] /\ refusals'[t] = refusals[t]]_vars

\* A sender that stays up settles every callback it can post, over lost answers and lost
\* UPDATEs, as long as fewer than Limit callbacks are malformed and the database does not
\* cut reads short for ever.
StaysUp    == <>[](proc = "up")
WholeReads == <>[][Poll => Len(batch') \in {Limit, Cardinality(Due)}]_vars
CallbackSettles ==
    StaysUp /\ WholeReads => \A t \in WithCallback \ Malformed :
                               t \in Due ~> cbStatus[t] \in {"sent", "failed"}

----------------------------------------------------------------------------
(* What the comments say and the code does not do.                         *)

\* "Try 0: instantly" (webhook.go:97): a callback that is due is tried at all.
TriedAtAll ==
    StaysUp => \A t \in WithCallback \ Malformed :
                  t \in Due ~> \/ pc = "posting" /\ Head(batch).id = t
                               \/ t \notin Due
============================================================================
