---------------------------- MODULE ReminderProofs ----------------------------
(***************************************************************************)
(* That nobody is reminded twice, for any recipients, jobs and requests:   *)
(* however often the page sends, the worker and restarts interleave.  What *)
(* a person was sent is not enough to go on: the invariant also counts the *)
(* jobs that wait and the one the worker is about to send, each of which   *)
(* will be an e-mail, and says that a new job is made only for a person    *)
(* none of whose jobs came to one.                                         *)
(***************************************************************************)
EXTENDS BroadcastPage, FiniteSetTheorems, SequenceTheorems, TLAPS

Job == [to : People, status : JobStatus]
Waiting(p) == {j \in DOMAIN jobs : jobs[j].to = p /\ jobs[j].status = "PENDING"}
InHand(p) ==
    IF worker.at \in {"claimed", "refused"} /\ jobs[worker.job].to = p THEN 1 ELSE 0

\* The worker holds a job that has no outcome yet, and goes through jobs that
\* wait, the one it holds not among them.
QueueTyped ==
    /\ eligible \subseteq People
    /\ jobs \in Seq(Job)
    /\ mails \in [People -> Nat] /\ excuse \in [People -> Nat]
    /\ worker \in [batch : SUBSET Nat, job : Nat, at : {"idle", "claimed", "sent", "refused"}]
    /\ worker.at # "idle" =>
          /\ worker.job \in DOMAIN jobs /\ worker.job \notin worker.batch
          /\ jobs[worker.job].status \in {"PENDING", "PROCESSING"}
    /\ \A j \in worker.batch : j \in DOMAIN jobs /\ jobs[j].status = "PENDING"

\* Every e-mail that was sent or will be is the first, or explained.
Counted == \A p \in People : mails[p] + Cardinality(Waiting(p)) + InHand(p) <= 1 + excuse[p]

\* Who may get a new job was sent nothing that is not explained.
Unsent == \A p \in People : ~Queued(p) => mails[p] <= excuse[p]

PageRequest ==
    [op : {"jobs", "banner", "preview", "load", "save", "blast"}, who : SUBSET People,
     gen : Nat, rows : SUBSET People, there : BOOLEAN, todo : SUBSET People,
     phase : {"new", "queueing"}, answer : {"none", "ok", "failed"}]

PageTyped ==
    /\ draft \in [there : BOOLEAN, who : SUBSET People]
    /\ c \in [gen : Nat, loading : BOOLEAN, got : SUBSET People, sel : SUBSET People,
              saving : BOOLEAN, blasting : BOOLEAN, confirm : BOOLEAN]
    /\ net \in [Slots -> PageRequest \cup {Idle}]

QueueInv == QueueTyped /\ Counted /\ Unsent
IInv == QueueInv /\ PageTyped

-----------------------------------------------------------------------------
(* The queue.                                                              *)

LEMMA UpdateType ==
    ASSUME QueueTyped, NEW j \in DOMAIN jobs, NEW st \in JobStatus
    PROVE  /\ UpdateJobStatus(j, st) \in Seq(Job)
           /\ DOMAIN UpdateJobStatus(j, st) = DOMAIN jobs
           /\ \A i \in DOMAIN jobs : /\ UpdateJobStatus(j, st)[i].to = jobs[i].to
                                     /\ UpdateJobStatus(j, st)[i].status =
                                           IF i = j THEN st ELSE jobs[i].status
<1>1. jobs \in Seq(Job) /\ jobs[j] \in Job /\ DOMAIN jobs = 1..Len(jobs) /\ jobs \in [1..Len(jobs) -> Job]
  BY DEF QueueTyped
<1>2. [jobs[j] EXCEPT !.status = st] \in Job
  BY <1>1 DEF Job
<1>3. UpdateJobStatus(j, st) \in [1..Len(jobs) -> Job]
  BY <1>1, <1>2 DEF UpdateJobStatus
<1>4. \A i \in DOMAIN jobs : jobs[i] \in Job
  BY <1>1
<1>5. Len(jobs) \in Nat
  BY <1>1
<1>6. UpdateJobStatus(j, st) \in Seq(Job)
  BY <1>3, <1>5, SeqDef
<1> QED
  BY <1>1, <1>3, <1>4, <1>6 DEF UpdateJobStatus, Job

LEMMA JobType ==
    ASSUME QueueTyped, NEW j \in DOMAIN jobs
    PROVE  jobs[j].to \in People /\ jobs[j].status \in JobStatus
<1>1. jobs \in Seq(Job) /\ DOMAIN jobs = 1..Len(jobs)
  BY DEF QueueTyped
<1>2. jobs[j] \in Job
  BY <1>1
<1> QED
  BY <1>2 DEF Job

LEMMA WaitingFinite ==
    ASSUME QueueTyped, NEW p
    PROVE  IsFiniteSet(Waiting(p)) /\ Cardinality(Waiting(p)) \in Nat
<1>1. DOMAIN jobs = 1..Len(jobs) /\ Len(jobs) \in Nat
  BY DEF QueueTyped
<1>2. Waiting(p) \in SUBSET DOMAIN jobs
  BY DEF Waiting
<1> QED
  <2>1. IsFiniteSet(1..Len(jobs))
    BY <1>1, FS_Interval
  <2>2. IsFiniteSet(Waiting(p))
    BY <1>1, <1>2, <2>1, FS_Subset
  <2> QED
    BY <2>2, FS_CardinalityType

\* What the number of waiting jobs becomes when one job's status changes.
LEMMA WaitingUpdated ==
    ASSUME QueueTyped, NEW j \in DOMAIN jobs, NEW st \in JobStatus,
           jobs' = UpdateJobStatus(j, st), NEW p \in People
    PROVE  Waiting(p)' = IF jobs[j].to = p /\ st = "PENDING" THEN Waiting(p) \cup {j}
                         ELSE Waiting(p) \ {j}
BY UpdateType DEF Waiting

LEMMA FewerWaiting ==
    ASSUME QueueTyped, NEW j, NEW p
    PROVE  /\ Cardinality(Waiting(p) \ {j}) \in Nat
           /\ Cardinality(Waiting(p) \cup {j}) \in Nat
           /\ Cardinality(Waiting(p) \ {j}) = IF j \in Waiting(p) THEN Cardinality(Waiting(p)) - 1
                                              ELSE Cardinality(Waiting(p))
           /\ Cardinality(Waiting(p) \cup {j}) <= Cardinality(Waiting(p)) + 1
<1>1. IsFiniteSet(Waiting(p)) /\ Cardinality(Waiting(p)) \in Nat
  BY WaitingFinite
<1>2. IsFiniteSet(Waiting(p) \ {j}) /\ IsFiniteSet(Waiting(p) \cup {j})
  BY <1>1, FS_AddElement, FS_RemoveElement
<1>3. Cardinality(Waiting(p) \ {j}) \in Nat /\ Cardinality(Waiting(p) \cup {j}) \in Nat
  BY <1>2, FS_CardinalityType
<1>4. Cardinality(Waiting(p) \ {j}) = IF j \in Waiting(p) THEN Cardinality(Waiting(p)) - 1
                                      ELSE Cardinality(Waiting(p))
  BY <1>1, FS_RemoveElement
<1>5. Cardinality(Waiting(p) \cup {j}) = IF j \in Waiting(p) THEN Cardinality(Waiting(p))
                                         ELSE Cardinality(Waiting(p)) + 1
  BY <1>1, FS_AddElement
<1> QED
  BY <1>1, <1>3, <1>4, <1>5

LEMMA ClaimStep ==
    ASSUME QueueInv, Claim
    PROVE  QueueInv'
<1>1. PICK j \in worker.batch :
         /\ \/ jobs' = UpdateJobStatus(j, "PROCESSING") /\ UNCHANGED <<upsets, excuse>>
            \/ UNCHANGED jobs /\ excuse' = [excuse EXCEPT ![jobs[j].to] = @ + 1]
         /\ worker' = [batch |-> worker.batch \ {j}, job |-> j, at |-> "claimed"]
         /\ worker.at = "idle" /\ eligible' = eligible /\ mails' = mails
  BY DEF Claim
<1>2. j \in DOMAIN jobs /\ jobs[j].status = "PENDING" /\ j \in Nat
  BY <1>1 DEF QueueInv, QueueTyped
<1>3. jobs[j].to \in People
  BY <1>2, JobType DEF QueueInv
<1>4. \A p \in People : /\ mails[p] \in Nat /\ excuse[p] \in Nat
                        /\ Cardinality(Waiting(p)) \in Nat /\ InHand(p) = 0
  BY <1>1, WaitingFinite DEF QueueInv, QueueTyped, InHand
<1>5. CASE jobs' = UpdateJobStatus(j, "PROCESSING") /\ UNCHANGED <<upsets, excuse>>
  <2>1. /\ jobs' \in Seq(Job) /\ DOMAIN jobs' = DOMAIN jobs
        /\ \A i \in DOMAIN jobs : /\ jobs'[i].to = jobs[i].to
                                  /\ jobs'[i].status = IF i = j THEN "PROCESSING" ELSE jobs[i].status
    BY <1>2, <1>5, UpdateType DEF QueueInv, JobStatus
  <2>2. QueueTyped'
    BY <1>1, <1>2, <1>5, <2>1 DEF QueueInv, QueueTyped
  <2>3. ASSUME NEW p \in People
        PROVE  mails'[p] + Cardinality(Waiting(p)') + InHand(p)' <= 1 + excuse'[p]
    <3>1. Waiting(p)' = Waiting(p) \ {j}
      BY <1>2, <1>5, WaitingUpdated DEF QueueInv, JobStatus
    <3>2. Cardinality(Waiting(p)') = IF j \in Waiting(p) THEN Cardinality(Waiting(p)) - 1
                                     ELSE Cardinality(Waiting(p))
      BY <3>1, FewerWaiting DEF QueueInv
    <3>3. j \in Waiting(p) <=> jobs[j].to = p
      BY <1>2 DEF Waiting
    <3>4. InHand(p)' = IF jobs[j].to = p THEN 1 ELSE 0
      BY <1>1, <1>2, <2>1 DEF InHand
    <3>5. mails[p] + Cardinality(Waiting(p)) + InHand(p) <= 1 + excuse[p]
      BY DEF QueueInv, Counted
    <3> QED
      BY <1>1, <1>4, <1>5, <3>2, <3>3, <3>4, <3>5
  <2>4. \A p \in People : Queued(p)' <=> Queued(p)
    BY <1>2, <2>1 DEF Queued
  <2> QED
    BY <1>1, <1>5, <2>2, <2>3, <2>4 DEF QueueInv, Counted, Unsent
<1>6. CASE UNCHANGED jobs /\ excuse' = [excuse EXCEPT ![jobs[j].to] = @ + 1]
  <2>1. /\ excuse' \in [People -> Nat]
        /\ \A p \in People : excuse'[p] = IF p = jobs[j].to THEN excuse[p] + 1 ELSE excuse[p]
    BY <1>3, <1>6 DEF QueueInv, QueueTyped
  <2>2. QueueTyped'
    BY <1>1, <1>2, <1>6, <2>1 DEF QueueInv, QueueTyped
  <2>3. ASSUME NEW p \in People
        PROVE  mails'[p] + Cardinality(Waiting(p)') + InHand(p)' <= 1 + excuse'[p]
    <3>1. Waiting(p)' = Waiting(p)
      BY <1>6 DEF Waiting
    <3>2. InHand(p)' = IF jobs[j].to = p THEN 1 ELSE 0
      BY <1>1, <1>6 DEF InHand
    <3>3. mails[p] + Cardinality(Waiting(p)) + InHand(p) <= 1 + excuse[p]
      BY DEF QueueInv, Counted
    <3> QED
      BY <1>1, <1>4, <2>1, <3>1, <3>2, <3>3
  <2>4. Unsent'
    BY <1>1, <1>4, <1>6, <2>1 DEF QueueInv, Unsent, Queued
  <2> QED
    BY <2>2, <2>3, <2>4 DEF QueueInv, Counted
<1> QED
  BY <1>1, <1>5, <1>6

LEMMA SendStep ==
    ASSUME QueueInv, SendMail
    PROVE  QueueInv'
<1> DEFINE q == jobs[worker.job].to
<1>1. /\ worker.at = "claimed" /\ jobs' = jobs /\ eligible' = eligible
      /\ worker.job \in DOMAIN jobs /\ q \in People
      /\ jobs[worker.job].status \in {"PENDING", "PROCESSING"}
  BY JobType DEF SendMail, QueueInv, QueueTyped
<1>2. /\ mails \in [People -> Nat] /\ excuse \in [People -> Nat]
      /\ worker \in [batch : SUBSET Nat, job : Nat, at : {"idle", "claimed", "sent", "refused"}]
  BY DEF QueueInv, QueueTyped
<1>3. \/ /\ worker' = [worker EXCEPT !.at = "sent"]
         /\ mails' = [mails EXCEPT ![q] = @ + 1] /\ excuse' = excuse
      \/ /\ worker' = [worker EXCEPT !.at = "refused"]
         /\ mails' = mails /\ excuse' = excuse
      \/ /\ worker' = [worker EXCEPT !.at = "refused"]
         /\ mails' = [mails EXCEPT ![q] = @ + 1] /\ excuse' = [excuse EXCEPT ![q] = @ + 1]
  BY DEF SendMail
<1>4. QueueTyped'
  <2>1. mails' \in [People -> Nat] /\ excuse' \in [People -> Nat]
    <3>1. [mails EXCEPT ![q] = @ + 1] \in [People -> Nat] /\ [excuse EXCEPT ![q] = @ + 1] \in [People -> Nat]
      BY <1>1, <1>2
    <3> QED
      BY <1>2, <1>3, <3>1
  <2>2. /\ worker' \in [batch : SUBSET Nat, job : Nat, at : {"idle", "claimed", "sent", "refused"}]
        /\ worker'.batch = worker.batch /\ worker'.job = worker.job
    BY <1>2, <1>3
  <2> QED
    BY <1>1, <2>1, <2>2 DEF QueueInv, QueueTyped
<1>5. \A p \in People : /\ mails[p] \in Nat /\ excuse[p] \in Nat
                        /\ Waiting(p)' = Waiting(p) /\ Cardinality(Waiting(p)) \in Nat
  <2>1. \A p \in People : Cardinality(Waiting(p)) \in Nat
    BY WaitingFinite DEF QueueInv
  <2>2. \A p \in People : Waiting(p)' = Waiting(p)
    BY <1>1 DEF Waiting
  <2> QED
    BY <1>2, <2>1, <2>2
<1>6. Queued(q)
  BY <1>1 DEF Queued
<1>7. ASSUME NEW p \in People
      PROVE  /\ mails'[p] + Cardinality(Waiting(p)') + InHand(p)' <= 1 + excuse'[p]
             /\ ~Queued(p)' => mails'[p] <= excuse'[p]
  <2>1. mails[p] + Cardinality(Waiting(p)) + InHand(p) <= 1 + excuse[p]
    BY DEF QueueInv, Counted
  <2>2. InHand(p) = IF p = q THEN 1 ELSE 0
    BY <1>1 DEF InHand
  <2>3. InHand(p)' = IF p = q /\ worker'.at = "refused" THEN 1 ELSE 0
    BY <1>1, <1>2, <1>3 DEF InHand
  <2>4. /\ mails'[p] = mails[p] \/ (p = q /\ mails'[p] = mails[p] + 1)
        /\ excuse'[p] = excuse[p] \/ (p = q /\ excuse'[p] = excuse[p] + 1)
    BY <1>1, <1>2, <1>3
  <2>5. mails'[p] + Cardinality(Waiting(p)') + InHand(p)' <= 1 + excuse'[p]
    <3>1. CASE p # q
      BY <1>5, <2>1, <2>2, <2>3, <2>4, <3>1
    <3>2. CASE p = q
      BY <1>2, <1>3, <1>5, <2>1, <2>2, <2>3, <3>2
    <3> QED
      BY <3>1, <3>2
  <2>6. Queued(p)' <=> Queued(p)
    BY <1>1 DEF Queued
  <2>7. ~Queued(p) => mails[p] <= excuse[p]
    BY DEF QueueInv, Unsent
  <2> QED
    BY <1>6, <2>4, <2>5, <2>6, <2>7
<1> QED
  BY <1>4, <1>7 DEF QueueInv, Counted, Unsent

LEMMA MarkStep ==
    ASSUME QueueInv, MarkJob
    PROVE  QueueInv'
<1> DEFINE j == worker.job
<1>1. /\ worker.at \in {"sent", "refused"} /\ j \in DOMAIN jobs /\ jobs[j].to \in People
      /\ jobs[j].status \in {"PENDING", "PROCESSING"} /\ j \notin worker.batch
      /\ eligible' = eligible /\ mails' = mails
      /\ worker' = [worker EXCEPT !.job = 0, !.at = "idle"]
  BY JobType DEF MarkJob, QueueInv, QueueTyped
<1>2. /\ mails \in [People -> Nat] /\ excuse \in [People -> Nat]
      /\ worker \in [batch : SUBSET Nat, job : Nat, at : {"idle", "claimed", "sent", "refused"}]
  BY DEF QueueInv, QueueTyped
<1>3. \A p \in People : /\ mails[p] \in Nat /\ excuse[p] \in Nat
                        /\ Cardinality(Waiting(p)) \in Nat /\ InHand(p)' = 0
                        /\ InHand(p) = IF worker.at = "refused" /\ jobs[j].to = p THEN 1 ELSE 0
                        /\ mails[p] + Cardinality(Waiting(p)) + InHand(p) <= 1 + excuse[p]
  BY <1>1, <1>2, WaitingFinite DEF QueueInv, Counted, InHand
<1>4. CASE jobs' = UpdateJobStatus(j, Outcome(worker.at)) /\ UNCHANGED <<upsets, excuse, stuck>>
  <2> DEFINE st == Outcome(worker.at)
  <2>1. st \in {"SENT", "FAILED"} /\ (st = "FAILED" <=> worker.at = "refused")
    BY <1>1 DEF Outcome
  <2> HIDE DEF st
  <2>2. /\ jobs' \in Seq(Job) /\ DOMAIN jobs' = DOMAIN jobs
        /\ \A i \in DOMAIN jobs : /\ jobs'[i].to = jobs[i].to
                                  /\ jobs'[i].status = IF i = j THEN st ELSE jobs[i].status
    BY <1>1, <1>4, <2>1, UpdateType DEF QueueInv, JobStatus, st
  <2>3. QueueTyped'
    BY <1>1, <1>2, <1>4, <2>2 DEF QueueInv, QueueTyped
  <2>4. ASSUME NEW p \in People
        PROVE  /\ mails'[p] + Cardinality(Waiting(p)') + InHand(p)' <= 1 + excuse'[p]
               /\ ~Queued(p)' => mails'[p] <= excuse'[p]
    <3>1. Waiting(p)' = Waiting(p) \ {j}
      BY <1>1, <1>4, <2>1, WaitingUpdated DEF QueueInv, JobStatus, st
    <3>2. Cardinality(Waiting(p)') \in Nat /\ Cardinality(Waiting(p)') <= Cardinality(Waiting(p))
      <4>1. Cardinality(Waiting(p) \ {j}) = IF j \in Waiting(p) THEN Cardinality(Waiting(p)) - 1
                                             ELSE Cardinality(Waiting(p))
        BY FewerWaiting DEF QueueInv
      <4>2. Cardinality(Waiting(p) \ {j}) \in Nat /\ Cardinality(Waiting(p)) \in Nat
        BY <1>3, FewerWaiting DEF QueueInv
      <4> QED
        BY <3>1, <4>1, <4>2
    <3>3. jobs[j].to # p => (Queued(p)' <=> Queued(p))
      BY <1>1, <2>2 DEF Queued
    <3>4. st = "SENT" /\ jobs[j].to = p => Queued(p)'
      BY <1>1, <2>2 DEF Queued
    <3>5. ~Queued(p) => mails[p] <= excuse[p]
      BY DEF QueueInv, Unsent
    <3>6. mails'[p] = mails[p] /\ excuse'[p] = excuse[p]
      BY <1>1, <1>4
    <3>7. st = "FAILED" /\ jobs[j].to = p => mails[p] <= excuse[p]
      BY <1>3, <2>1
    <3> QED
      BY <1>3, <2>1, <3>2, <3>3, <3>4, <3>5, <3>6, <3>7
  <2> QED
    BY <2>3, <2>4 DEF QueueInv, Counted, Unsent
<1>5. CASE excuse' = [excuse EXCEPT ![jobs[worker.job].to] = @ + 1] /\ UNCHANGED jobs
  <2>1. /\ excuse' \in [People -> Nat]
        /\ \A p \in People : excuse'[p] \in Nat /\ excuse'[p] >= excuse[p]
    BY <1>1, <1>2, <1>5
  <2>2. QueueTyped'
    BY <1>1, <1>2, <1>5, <2>1 DEF QueueInv, QueueTyped
  <2>3. \A p \in People : Waiting(p)' = Waiting(p) /\ (Queued(p)' <=> Queued(p))
    BY <1>5 DEF Waiting, Queued
  <2>4. \A p \in People : mails'[p] + Cardinality(Waiting(p)') + InHand(p)' <= 1 + excuse'[p]
    BY <1>1, <1>3, <2>1, <2>3
  <2>5. \A p \in People : ~Queued(p)' => mails'[p] <= excuse'[p]
    BY <1>1, <1>3, <2>1, <2>3 DEF QueueInv, Unsent
  <2> QED
    BY <2>2, <2>4, <2>5 DEF QueueInv, Counted, Unsent
<1> QED
  BY <1>4, <1>5 DEF MarkJob

LEMMA RetryStep ==
    ASSUME QueueInv, NEW j, RetryJob(j)
    PROVE  QueueInv'
<1> DEFINE q == jobs[j].to
<1>1. /\ j \in DOMAIN jobs /\ q \in People
      /\ jobs' = UpdateJobStatus(j, "PENDING") /\ excuse' = [excuse EXCEPT ![q] = @ + 1]
      /\ eligible' = eligible /\ mails' = mails /\ worker' = worker
  BY JobType DEF RetryJob, QueueInv, QueueTyped
<1>2. mails \in [People -> Nat] /\ excuse \in [People -> Nat]
  BY DEF QueueInv, QueueTyped
<1>3. /\ jobs' \in Seq(Job) /\ DOMAIN jobs' = DOMAIN jobs
      /\ \A i \in DOMAIN jobs : /\ jobs'[i].to = jobs[i].to
                                /\ jobs'[i].status = IF i = j THEN "PENDING" ELSE jobs[i].status
  BY <1>1, UpdateType DEF QueueInv, JobStatus
<1>4. /\ excuse' \in [People -> Nat]
      /\ \A p \in People : excuse'[p] = IF p = q THEN excuse[p] + 1 ELSE excuse[p]
  BY <1>1, <1>2
<1>5. QueueTyped'
  BY <1>1, <1>2, <1>3, <1>4 DEF QueueInv, QueueTyped
<1>6. ASSUME NEW p \in People
      PROVE  /\ mails'[p] + Cardinality(Waiting(p)') + InHand(p)' <= 1 + excuse'[p]
             /\ ~Queued(p)' => mails'[p] <= excuse'[p]
  <2>1. /\ mails[p] + Cardinality(Waiting(p)) + InHand(p) <= 1 + excuse[p]
        /\ ~Queued(p) => mails[p] <= excuse[p]
    BY DEF QueueInv, Counted, Unsent
  <2>2. InHand(p)' = InHand(p) /\ InHand(p) \in {0, 1}
    BY <1>1, <1>3 DEF InHand, QueueInv, QueueTyped
  <2>3. Cardinality(Waiting(p)) \in Nat /\ mails[p] \in Nat /\ excuse[p] \in Nat /\ mails'[p] = mails[p]
    BY <1>1, <1>2, WaitingFinite DEF QueueInv
  <2>4. CASE p = q
    <3>1. Waiting(p)' = Waiting(p) \cup {j}
      BY <1>1, <2>4, WaitingUpdated DEF QueueInv, JobStatus
    <3>2. /\ Cardinality(Waiting(p) \cup {j}) \in Nat
          /\ Cardinality(Waiting(p) \cup {j}) <= Cardinality(Waiting(p)) + 1
      BY FewerWaiting DEF QueueInv
    <3>3. Queued(p)'
      BY <1>1, <1>3, <2>4 DEF Queued
    <3> QED
      BY <1>4, <2>1, <2>2, <2>3, <2>4, <3>1, <3>2, <3>3
  <2>5. CASE p # q
    <3>1. Waiting(p)' = Waiting(p) /\ (Queued(p)' <=> Queued(p))
      BY <1>3, <2>5 DEF Waiting, Queued
    <3> QED
      BY <1>4, <2>1, <2>2, <2>3, <2>5, <3>1
  <2> QED
    BY <2>4, <2>5
<1> QED
  BY <1>5, <1>6 DEF QueueInv, Counted, Unsent

LEMMA WorkerIdleSteps ==
    ASSUME QueueInv, ProcessPendingJobs \/ Restart
    PROVE  QueueInv'
<1>1. /\ jobs' = jobs /\ mails' = mails /\ excuse' = excuse /\ eligible' = eligible
      /\ worker'.at = "idle" /\ worker'.batch \in {{}, GetPendingJobs}
      /\ worker' \in [batch : SUBSET Nat, job : Nat, at : {"idle", "claimed", "sent", "refused"}]
  <2>1. GetPendingJobs \subseteq DOMAIN jobs /\ DOMAIN jobs \subseteq Nat
    BY DEF GetPendingJobs, QueueInv, QueueTyped
  <2> QED
    BY <2>1 DEF ProcessPendingJobs, Restart, IdleWorker, QueueInv, QueueTyped
<1>2. QueueTyped'
  BY <1>1 DEF QueueInv, QueueTyped, GetPendingJobs
<1>3. \A p \in People : /\ Waiting(p)' = Waiting(p) /\ (Queued(p)' <=> Queued(p))
                        /\ InHand(p)' = 0 /\ InHand(p) \in {0, 1}
                        /\ mails[p] \in Nat /\ excuse[p] \in Nat
  BY <1>1 DEF Waiting, Queued, InHand, QueueInv, QueueTyped
<1>4. \A p \in People : Cardinality(Waiting(p)) \in Nat
  BY WaitingFinite DEF QueueInv
<1>5. Counted'
  BY <1>1, <1>3, <1>4 DEF QueueInv, Counted
<1>6. Unsent'
  BY <1>1, <1>3 DEF QueueInv, Unsent
<1> QED
  BY <1>2, <1>5, <1>6 DEF QueueInv

\* What leaves the queue alone but for who is eligible.
LEMMA QueueStays ==
    ASSUME QueueInv, UNCHANGED <<jobs, mails, worker, excuse>>, eligible' \subseteq People
    PROVE  QueueInv'
BY DEF QueueInv, QueueTyped, Counted, Unsent, Waiting, InHand, Queued

\* A blast: one recipient is looked up and, if none of his jobs is under way or
\* done, gets one.
LEMMA QueueJobStep ==
    ASSUME QueueInv, NEW q \in People, QueueUniqueCampaignJob(q),
           UNCHANGED <<eligible, mails, worker, excuse>>
    PROVE  QueueInv'
<1>1. CASE Queued(q)
  BY <1>1, QueueStays DEF QueueUniqueCampaignJob, QueueInv, QueueTyped
<1>2. CASE ~Queued(q)
  <2> DEFINE new == [to |-> q, status |-> "PENDING"]
  <2>1. jobs' = Append(jobs, new) /\ new \in Job
    BY <1>2 DEF QueueUniqueCampaignJob, Job, JobStatus
  <2>2. /\ jobs' \in Seq(Job) /\ DOMAIN jobs = 1..Len(jobs) /\ DOMAIN jobs' = 1..(Len(jobs) + 1)
        /\ Len(jobs) \in Nat /\ jobs'[Len(jobs) + 1] = new
        /\ \A i \in DOMAIN jobs : jobs'[i] = jobs[i]
    BY <2>1 DEF QueueInv, QueueTyped
  <2> HIDE DEF new
  <2>3. QueueTyped'
    BY <2>2 DEF QueueInv, QueueTyped
  <2>4. ASSUME NEW p \in People
        PROVE  /\ mails'[p] + Cardinality(Waiting(p)') + InHand(p)' <= 1 + excuse'[p]
               /\ ~Queued(p)' => mails'[p] <= excuse'[p]
    <3>1. /\ mails[p] + Cardinality(Waiting(p)) + InHand(p) <= 1 + excuse[p]
          /\ ~Queued(p) => mails[p] <= excuse[p]
      BY DEF QueueInv, Counted, Unsent
    <3>2. InHand(p)' = InHand(p) /\ InHand(p) \in {0, 1}
      BY <2>2 DEF InHand, QueueInv, QueueTyped
    <3>3. mails'[p] = mails[p] /\ excuse'[p] = excuse[p] /\ mails[p] \in Nat /\ excuse[p] \in Nat
      BY DEF QueueInv, QueueTyped
    <3>4. CASE p = q
      <4>1. Waiting(p)' = {Len(jobs) + 1}
        BY <1>2, <2>2, <3>4 DEF Waiting, Queued, new
      <4>2. Cardinality(Waiting(p)') = 1
        BY <4>1, FS_Singleton
      <4>3. InHand(p) = 0
        BY <1>2, <3>4 DEF InHand, Queued, QueueInv, QueueTyped
      <4> QED
        BY <1>2, <3>1, <3>2, <3>3, <3>4, <4>2, <4>3
    <3>5. CASE p # q
      <4>1. Waiting(p)' = Waiting(p)
        BY <2>2, <3>5 DEF Waiting, new
      <4>2. Queued(p)' <=> Queued(p)
        BY <2>2, <3>5 DEF Queued, new
      <4> QED
        BY <3>1, <3>2, <3>3, <4>1, <4>2
    <3> QED
      BY <3>4, <3>5
  <2> QED
    BY <2>3, <2>4 DEF QueueInv, Counted, Unsent
<1> QED
  BY <1>1, <1>2

LEMMA QueueSteps ==
    ASSUME QueueInv, QueueNext
    PROVE  QueueInv'
<1>1. ASSUME NEW p \in People, RegisterChanges(p)
      PROVE  QueueInv'
  BY <1>1, QueueStays DEF RegisterChanges, QueueInv, QueueTyped
<1> QED
  BY <1>1, ClaimStep, SendStep, MarkStep, RetryStep, WorkerIdleSteps DEF QueueNext, WorkerNext

-----------------------------------------------------------------------------
(* The page: a request names nobody who is not a recipient.                *)

LEMMA SentType ==
    ASSUME NEW n \in [Slots -> PageRequest \cup {Idle}], NEW r \in PageRequest
    PROVE  Sent(n, r) \in [Slots -> PageRequest \cup {Idle}]
BY DEF Sent

LEMMA AskType ==
    ASSUME NEW op \in {"jobs", "banner", "preview", "load", "save", "blast"},
           NEW who \in SUBSET People, NEW gen \in Nat
    PROVE  Ask(op, who, gen) \in PageRequest
BY DEF Ask, PageRequest

LEMMA AsksType ==
    /\ AskJobs \in PageRequest /\ AskJobs.op = "jobs" /\ AskJobs.gen = 0
    /\ AskBanner \in PageRequest /\ AskBanner.op = "banner" /\ AskBanner.gen = 0
BY DEF AskJobs, AskBanner, Ask, PageRequest

LEMMA DoneType ==
    ASSUME NEW n \in [Slots -> PageRequest \cup {Idle}], NEW s \in Slots
    PROVE  Done(n, s) \in [Slots -> PageRequest \cup {Idle}]
BY DEF Done

LEMMA PressSteps ==
    ASSUME PageTyped,
           \/ OpenComposer \/ CloseComposer \/ SelectAll \/ DeselectAll
           \/ HandleSaveDraft \/ OpenConfirm \/ CancelConfirm \/ HandleBlast
           \/ \E p \in People : ToggleOne(p)
    PROVE  PageTyped'
<1>1. /\ c \in [gen : Nat, loading : BOOLEAN, got : SUBSET People, sel : SUBSET People,
                saving : BOOLEAN, blasting : BOOLEAN, confirm : BOOLEAN]
      /\ net \in [Slots -> PageRequest \cup {Idle}]
  BY DEF PageTyped
<1>2. CASE OpenComposer
  <2>1. Preview(c.gen + 1) \in PageRequest
    BY <1>1, AskType DEF Preview
  <2> QED
    BY <1>1, <1>2, <2>1, SentType DEF OpenComposer, PageTyped, FreshComposer
<1>3. CASE CloseComposer
  BY <1>1, <1>3, AsksType, SentType DEF CloseComposer, Closed, PageTyped, FreshComposer
<1>4. ASSUME NEW sel \in SUBSET People, Picked(sel)
      PROVE  PageTyped'
  BY <1>4 DEF PageTyped, Picked
<1>5. CASE SelectAll \/ DeselectAll
  BY <1>1, <1>4, <1>5 DEF SelectAll, DeselectAll
<1>6. ASSUME NEW p \in People, ToggleOne(p)
      PROVE  PageTyped'
  BY <1>1, <1>4, <1>6 DEF ToggleOne
<1>7. CASE HandleSaveDraft
  BY <1>1, <1>7, AskType, SentType DEF HandleSaveDraft, PageTyped
<1>8. CASE OpenConfirm \/ CancelConfirm
  BY <1>8 DEF OpenConfirm, CancelConfirm, PageTyped
<1>9. CASE HandleBlast
  <2>1. Ask("blast", c.sel, c.gen) \in PageRequest
    BY <1>1, AskType
  <2>2. net' \in [Slots -> PageRequest \cup {Idle}]
    BY <1>1, <1>9, <2>1, SentType DEF HandleBlast
  <2>3. \/ c' = [c EXCEPT !.confirm = FALSE]
        \/ c' = [c EXCEPT !.confirm = FALSE, !.blasting = TRUE]
    BY <1>9 DEF HandleBlast
  <2> QED
    BY <1>1, <1>9, <2>2, <2>3 DEF HandleBlast, PageTyped
<1> QED
  BY <1>2, <1>3, <1>5, <1>6, <1>7, <1>8, <1>9

LEMMA AnswerSteps ==
    ASSUME PageTyped, NEW s \in Slots, Deliver(s)
    PROVE  PageTyped'
<1>1. /\ c \in [gen : Nat, loading : BOOLEAN, got : SUBSET People, sel : SUBSET People,
                saving : BOOLEAN, blasting : BOOLEAN, confirm : BOOLEAN]
      /\ net \in [Slots -> PageRequest \cup {Idle}]
      /\ Done(net, s) \in [Slots -> PageRequest \cup {Idle}]
  BY DoneType DEF PageTyped
<1>2. net[s].op # "none" => net[s] \in PageRequest
  BY <1>1 DEF Idle
<1>3. /\ \A g \in Nat : Ask("preview", {}, g) \in PageRequest
      /\ AskJobs \in PageRequest /\ AskBanner \in PageRequest
  BY AskType, AsksType
<1>4. ASSUME NEW q, Rendered(Done(net, s), q), UNCHANGED draft
      PROVE  PageTyped'
  <2>1. c.gen \in Nat
    BY <1>1
  <2>2. Ask("preview", {}, c.gen) \in PageRequest
    BY <1>3, <2>1
  <2>3. net' = Done(net, s) \/ net' = Sent(Done(net, s), Ask("preview", {}, c.gen))
    BY <1>4 DEF Rendered, Preview
  <2>4. net' \in [Slots -> PageRequest \cup {Idle}]
    BY <1>1, <2>2, <2>3, SentType
  <2>5. c' = c \/ c' = [c EXCEPT !.loading = TRUE]
    BY <1>4 DEF Rendered
  <2> QED
    BY <1>1, <1>4, <2>4, <2>5 DEF PageTyped
<1>5. CASE JobsAnswered(s) \/ BannerAnswered(s)
  BY <1>1, <1>4, <1>5 DEF JobsAnswered, BannerAnswered, PageTyped, pageVars
<1>6. ASSUME Closed(Done(net, s)), UNCHANGED draft
      PROVE  PageTyped'
  BY <1>1, <1>3, <1>6, SentType DEF Closed, PageTyped, FreshComposer
<1>7. CASE PreviewAnswered(s)
  <2>1. net[s].op # "none" /\ net[s].rows \in SUBSET People /\ net[s].gen \in Nat
    BY <1>2, <1>7 DEF PreviewAnswered, Answered, PageRequest
  <2>2. Ask("load", net[s].rows, net[s].gen) \in PageRequest
    BY <2>1, AskType
  <2> QED
    BY <1>1, <1>6, <1>7, <2>1, <2>2 DEF PreviewAnswered, PageTyped
<1>8. CASE LoadAnswered(s)
  <2>1. net[s].rows \in SUBSET People /\ net[s].who \in SUBSET People
    BY <1>2, <1>8 DEF LoadAnswered, Answered, PageRequest
  <2> QED
    BY <1>1, <1>6, <1>8, <2>1 DEF LoadAnswered, PageTyped
<1>9. CASE DraftSaved(s)
  BY <1>1, <1>9 DEF DraftSaved, PageTyped
<1>10. CASE BlastAnswered(s)
  <2>1. \A r \in PageRequest : Sent(Done(net, s), r) \in [Slots -> PageRequest \cup {Idle}]
    BY <1>1, SentType
  <2>2. Sent(Sent(Sent(Done(net, s), AskJobs), AskBanner), AskBanner)
           \in [Slots -> PageRequest \cup {Idle}]
    BY <1>3, <2>1, SentType
  <2>3. net' \in [Slots -> PageRequest \cup {Idle}]
    BY <1>1, <1>10, <2>2 DEF BlastAnswered
  <2>4. c' = c \/ c' = [c EXCEPT !.blasting = FALSE] \/ c' = FreshComposer(c.gen)
    BY <1>10 DEF BlastAnswered, AfterRefusal
  <2>5. FreshComposer(c.gen) \in
           [gen : Nat, loading : BOOLEAN, got : SUBSET People, sel : SUBSET People,
            saving : BOOLEAN, blasting : BOOLEAN, confirm : BOOLEAN]
    BY <1>1 DEF FreshComposer
  <2>6. c' \in [gen : Nat, loading : BOOLEAN, got : SUBSET People, sel : SUBSET People,
                saving : BOOLEAN, blasting : BOOLEAN, confirm : BOOLEAN]
    BY <1>1, <2>4, <2>5
  <2> QED
    BY <1>1, <1>10, <2>3, <2>6 DEF BlastAnswered, PageTyped
<1> QED
  BY <1>5, <1>7, <1>8, <1>9, <1>10 DEF Deliver

LEMMA ServedIsOut ==
    ASSUME NEW s \in Slots, Serve(s) \/ Lose(s)
    PROVE  net[s].op # "none"
<1>1. CASE ServeRead(s) \/ ServeSave(s)
  BY <1>1, Zenon DEF ServeRead, ServeSave, Unserved
<1>2. CASE BlastBegins(s) \/ BlastQueues(s) \/ BlastEnds(s)
  BY <1>2, Zenon DEF BlastBegins, BlastQueues, BlastEnds, Unserved
<1>3. CASE Lose(s)
  BY <1>3 DEF Lose
<1> QED
  BY <1>1, <1>2, <1>3 DEF Serve

LEMMA ServerSteps ==
    ASSUME IInv, NEW s \in Slots, Serve(s) \/ Lose(s)
    PROVE  IInv'
<1>1. /\ net \in [Slots -> PageRequest \cup {Idle}] /\ eligible \subseteq People
      /\ draft \in [there : BOOLEAN, who : SUBSET People] /\ QueueInv
  BY DEF IInv, PageTyped, QueueInv, QueueTyped
<1>2. net[s].op # "none" /\ net[s] \in PageRequest
  BY <1>1, ServedIsOut DEF Idle
<1>3. ASSUME NEW r \in PageRequest, net' = [net EXCEPT ![s] = r], UNCHANGED c,
             draft' \in [there : BOOLEAN, who : SUBSET People]
      PROVE  PageTyped'
  BY <1>1, <1>3 DEF IInv, PageTyped
<1>4. CASE ServeRead(s)
  <2>1. PICK found \in BOOLEAN, rows \in SUBSET People :
           /\ net' = [net EXCEPT ![s].answer = "ok", ![s].there = found, ![s].rows = rows]
           /\ UNCHANGED <<queueVars, draft, c>>
    <3> DEFINE rows(found) == IF net[s].op = "preview" THEN eligible
                              ELSE IF net[s].op = "load" /\ found THEN draft.who ELSE {}
    <3>1. PICK found \in IF net[s].op \in {"banner", "load"} THEN {draft.there, FALSE} ELSE {FALSE} :
             net' = [net EXCEPT ![s].answer = "ok", ![s].there = found, ![s].rows = rows(found)]
      BY <1>4, Zenon DEF ServeRead
    <3>2. found \in BOOLEAN /\ rows(found) \in SUBSET People
      BY <1>1
    <3>3. UNCHANGED <<queueVars, draft, c>>
      BY <1>4, Zenon DEF ServeRead
    <3> HIDE DEF rows
    <3> QED
      BY <3>1, <3>2, <3>3
  <2>2. [net[s] EXCEPT !.answer = "ok", !.there = found, !.rows = rows] \in PageRequest
    BY <1>2 DEF PageRequest
  <2>3. net' = [net EXCEPT ![s] = [net[s] EXCEPT !.answer = "ok", !.there = found, !.rows = rows]]
    BY <1>1, <1>2, <2>1 DEF PageRequest
  <2>4. PageTyped'
    BY <1>1, <1>3, <2>1, <2>2, <2>3
  <2> QED
    BY <1>1, <2>1, <2>4, QueueStays DEF IInv, queueVars
<1>5. CASE ServeSave(s)
  <2>1. [net[s] EXCEPT !.who = {}, !.answer = "ok"] \in PageRequest /\ net[s].who \in SUBSET People
    BY <1>2 DEF PageRequest
  <2>2. net' = [net EXCEPT ![s] = [net[s] EXCEPT !.who = {}, !.answer = "ok"]] /\ UNCHANGED c
    BY <1>1, <1>2, <1>5 DEF ServeSave, PageRequest
  <2>3. PageTyped'
    BY <1>3, <1>5, <2>1, <2>2 DEF ServeSave
  <2> QED
    BY <1>1, <1>5, <2>3, QueueStays DEF ServeSave, IInv, queueVars
<1>6. CASE BlastBegins(s)
  <2> DEFINE todo == net[s].who \cap eligible
             r == IF todo = {} THEN [net[s] EXCEPT !.who = {}, !.answer = "ok"]
                  ELSE [net[s] EXCEPT !.who = {}, !.todo = todo, !.phase = "queueing"]
  <2>1. r \in PageRequest
    BY <1>1, <1>2 DEF PageRequest
  <2>2. net' = [net EXCEPT ![s] = r] /\ UNCHANGED <<c, draft>>
    BY <1>1, <1>2, <1>6 DEF BlastBegins, PageRequest
  <2> HIDE DEF r
  <2>3. PageTyped'
    BY <1>1, <1>3, <2>1, <2>2
  <2> QED
    BY <1>1, <1>6, <2>3, QueueStays DEF BlastBegins, IInv, queueVars
<1>7. CASE BlastQueues(s)
  <2> DEFINE q == CHOOSE p \in net[s].todo : TRUE
  <2>1. q \in net[s].todo /\ net[s].todo \in SUBSET People
    BY <1>2, <1>7 DEF BlastQueues, PageRequest
  <2> HIDE DEF q
  <2>2. [net[s] EXCEPT !.todo = @ \ {q}] \in PageRequest
    BY <1>2, <2>1 DEF PageRequest
  <2>3. PageTyped'
    <3>1. net' = [net EXCEPT ![s] = [net[s] EXCEPT !.todo = @ \ {q}]] /\ UNCHANGED <<c, draft>>
      BY <1>1, <1>2, <1>7 DEF BlastQueues, q, PageRequest
    <3> QED
      BY <1>1, <1>3, <2>2, <3>1
  <2>4. QueueInv'
    <3>1. /\ QueueUniqueCampaignJob(q) \/ UNCHANGED jobs
          /\ UNCHANGED <<eligible, mails, worker, excuse>>
      BY <1>7 DEF BlastQueues, q
    <3> QED
      BY <1>1, <2>1, <3>1, QueueJobStep, QueueStays
  <2> QED
    BY <2>3, <2>4 DEF IInv
<1>8. CASE BlastEnds(s)
  <2>1. [net[s] EXCEPT !.phase = "new", !.answer = "ok"] \in PageRequest
    BY <1>2 DEF PageRequest
  <2>2. net' = [net EXCEPT ![s] = [net[s] EXCEPT !.phase = "new", !.answer = "ok"]] /\ UNCHANGED c
    BY <1>1, <1>2, <1>8 DEF BlastEnds, PageRequest
  <2>3. PageTyped'
    BY <1>1, <1>3, <1>8, <2>1, <2>2 DEF BlastEnds, NoDraft
  <2> QED
    BY <1>1, <1>8, <2>3, QueueStays DEF BlastEnds, IInv, queueVars
<1>9. CASE Lose(s)
  <2> DEFINE r == [Ask(net[s].op, {}, net[s].gen) EXCEPT !.answer = "failed"]
  <2>1. r \in PageRequest
    BY <1>2 DEF Ask, PageRequest
  <2>2. PageTyped'
    <3>1. net' = [net EXCEPT ![s] = r] /\ UNCHANGED <<c, draft>>
      BY <1>9 DEF Lose
    <3> HIDE DEF r
    <3> QED
      BY <1>1, <1>3, <2>1, <3>1
  <2> QED
    BY <1>1, <1>9, <2>2, QueueStays DEF Lose, IInv
<1> QED
  BY <1>4, <1>5, <1>6, <1>7, <1>8, <1>9 DEF Serve

-----------------------------------------------------------------------------
(* The invariant, and what follows.                                        *)

LEMMA InitIInv ==
    ASSUME Init
    PROVE  IInv
<1>1. /\ jobs = <<>> /\ eligible = People /\ worker = IdleWorker
      /\ mails = [p \in People |-> 0] /\ excuse = [p \in People |-> 0]
  BY DEF Init, QueueInit
<1>2. \A p \in People : Waiting(p) = {} /\ InHand(p) = 0 /\ mails[p] = 0 /\ excuse[p] = 0
  BY <1>1 DEF Waiting, InHand, IdleWorker
<1>3. QueueTyped
  BY <1>1 DEF QueueTyped, IdleWorker
<1>4. Counted /\ Unsent
  BY <1>2, FS_EmptySet DEF Counted, Unsent
<1>5. Quiet(Slots) \in [Slots -> PageRequest \cup {Idle}]
  BY DEF Quiet
<1>6. AskJobs \in PageRequest /\ AskBanner \in PageRequest
  BY AsksType
<1>7. net \in [Slots -> PageRequest \cup {Idle}]
  BY <1>5, <1>6, SentType DEF Init
<1>8. PageTyped
  BY <1>7 DEF Init, PageTyped, NoDraft, FreshComposer
<1> QED
  BY <1>3, <1>4, <1>8 DEF IInv, QueueInv

LEMMA NextIInv ==
    ASSUME IInv, [Next]_vars
    PROVE  IInv'
<1>1. CASE \/ OpenComposer \/ CloseComposer \/ SelectAll \/ DeselectAll
           \/ HandleSaveDraft \/ OpenConfirm \/ CancelConfirm \/ HandleBlast
           \/ \E p \in People : ToggleOne(p)
  <2>1. UNCHANGED queueVars
    BY <1>1 DEF OpenComposer, CloseComposer, SelectAll, DeselectAll, ToggleOne, Picked,
                HandleSaveDraft, OpenConfirm, CancelConfirm, HandleBlast
  <2>2. QueueInv'
    BY <2>1, QueueStays DEF queueVars, IInv, QueueInv, QueueTyped
  <2> QED
    BY <1>1, <2>2, PressSteps DEF IInv
<1>2. ASSUME NEW s \in Slots, Deliver(s)
      PROVE  IInv'
  <2>1. UNCHANGED queueVars
    BY <1>2 DEF Deliver, JobsAnswered, BannerAnswered, PreviewAnswered, LoadAnswered, DraftSaved, BlastAnswered
  <2>2. QueueInv'
    BY <2>1, QueueStays DEF queueVars, IInv, QueueInv, QueueTyped
  <2> QED
    BY <1>2, <2>2, AnswerSteps DEF IInv
<1>3. CASE QueueNext /\ UNCHANGED pageVars
  BY <1>3, QueueSteps DEF IInv, PageTyped, pageVars
<1>4. CASE UNCHANGED vars
  BY <1>4, QueueStays DEF vars, queueVars, pageVars, IInv, QueueInv, QueueTyped, PageTyped
<1> QED
  BY <1>1, <1>2, <1>3, <1>4, ServerSteps DEF Next

\* The invariant holds of every run of the page, the queue and its worker.
THEOREM Invariant == Spec => []IInv
<1>1. Init => IInv
  BY InitIInv
<1>2. IInv /\ [Next]_vars => IInv'
  BY NextIInv
<1> QED
  BY <1>1, <1>2, PTL DEF Spec

\* QueueUniqueCampaignJob and processJob send one reminder to each, and at most one
\* more for every time that RetryJob reset a job, that a mark could not be
\* stored, or that a message was taken while the worker saw an error.
THEOREM RemindedCorrect == Spec => []RemindedOnce
<1>1. ASSUME IInv
      PROVE  RemindedOnce
  <2>1. ASSUME NEW p \in People
        PROVE  mails[p] <= 1 + excuse[p]
    <3>1. mails[p] + Cardinality(Waiting(p)) + InHand(p) <= 1 + excuse[p]
      BY <1>1 DEF IInv, QueueInv, Counted
    <3>2. Cardinality(Waiting(p)) \in Nat /\ InHand(p) \in {0, 1}
      BY <1>1, WaitingFinite DEF IInv, QueueInv, InHand
    <3>3. mails[p] \in Nat /\ excuse[p] \in Nat
      BY <1>1 DEF IInv, QueueInv, QueueTyped
    <3> QED
      BY <3>1, <3>2, <3>3
  <2> QED
    BY <2>1 DEF RemindedOnce
<1> QED
  BY <1>1, Invariant, PTL

-----------------------------------------------------------------------------
(* The types.  What the composer waits for is a request of its own, which  *)
(* it knows by its number; composers are numbered by what was pressed.     *)

Out(n, ops, g) == \E s \in Slots : n[s].op \in ops /\ n[s].gen = g
Under(n, g) == \A s \in Slots : n[s].op # "none" => n[s].gen <= g

\* Rows are made while there is room, and the worker with no job is at rest.
Held == Len(jobs) <= MaxJobs /\ (worker.at = "idle" => worker.job = 0)

Numbered == presses \in 0..MaxPresses /\ c.gen <= presses /\ Under(net, c.gen)

Awaits ==
    b.show => /\ c.loading => Out(net, {"preview", "load"}, c.gen)
              /\ c.blasting => Out(net, {"blast"}, c.gen)
              /\ c.saving => Out(net, {"save"}, c.gen)

PInv == b \in [show : BOOLEAN, waiting : BOOLEAN, banner : BOOLEAN] /\ Numbered /\ Awaits

\* A send fills one slot that was free.
LEMMA SendFills ==
    ASSUME NEW n \in [Slots -> PageRequest \cup {Idle}], NEW r, CanSend(n, 1)
    PROVE  \E z \in Slots : /\ n[z].op = "none" /\ Sent(n, r)[z] = r
                            /\ \A t \in Slots \ {z} : Sent(n, r)[t] = n[t]
<1>1. FreeSlots(n) # {}
  BY FS_EmptySet DEF CanSend
<1>2. PICK z \in FreeSlots(n) : Sent(n, r) = [n EXCEPT ![z] = r]
  BY <1>1 DEF Sent
<1> QED
  BY <1>2 DEF FreeSlots

LEMMA SentOut ==
    ASSUME NEW n \in [Slots -> PageRequest \cup {Idle}], NEW r, CanSend(n, 1),
           NEW ops, "none" \notin ops, NEW g
    PROVE  Out(n, ops, g) \/ (r.op \in ops /\ r.gen = g) => Out(Sent(n, r), ops, g)
<1>1. PICK z \in Slots : /\ n[z].op = "none" /\ Sent(n, r)[z] = r
                         /\ \A t \in Slots \ {z} : Sent(n, r)[t] = n[t]
  BY SendFills
<1>2. CASE Out(n, ops, g)
  <2>1. PICK t \in Slots : n[t].op \in ops /\ n[t].gen = g
    BY <1>2 DEF Out
  <2>2. t # z
    BY <1>1, <2>1
  <2> QED
    BY <1>1, <2>1, <2>2 DEF Out
<1>3. CASE r.op \in ops /\ r.gen = g
  BY <1>1, <1>3 DEF Out
<1> QED
  BY <1>2, <1>3

\* An answered request is missed by nobody who does not wait for it.
LEMMA DoneOut ==
    ASSUME NEW n \in [Slots -> PageRequest \cup {Idle}], NEW s \in Slots,
           NEW ops, NEW g, Out(n, ops, g), n[s].op \notin ops \/ n[s].gen # g
    PROVE  Out(Done(n, s), ops, g)
<1>1. PICK t \in Slots : n[t].op \in ops /\ n[t].gen = g
  BY DEF Out
<1>2. Done(n, s)[t] = n[t]
  BY <1>1 DEF Done
<1> QED
  BY <1>1, <1>2 DEF Out

LEMMA SentUnder ==
    ASSUME NEW n \in [Slots -> PageRequest \cup {Idle}], NEW r, NEW g \in Nat,
           Under(n, g), r.gen <= g
    PROVE  Under(Sent(n, r), g)
<1>1. \A t \in Slots : Sent(n, r)[t] = n[t] \/ Sent(n, r)[t] = r
  BY DEF Sent
<1> QED
  BY <1>1 DEF Under

LEMMA DoneUnder ==
    ASSUME NEW n \in [Slots -> PageRequest \cup {Idle}], NEW s \in Slots, NEW g, Under(n, g)
    PROVE  Under(Done(n, s), g)
<1>1. \A t \in Slots : Done(n, s)[t] = n[t] \/ Done(n, s)[t].op = "none"
  BY DEF Done, Idle
<1> QED
  BY <1>1 DEF Under

LEMMA AskGen ==
    ASSUME NEW op, NEW who, NEW g
    PROVE  Ask(op, who, g).op = op /\ Ask(op, who, g).gen = g
BY DEF Ask

LEMMA PressTypes ==
    ASSUME PageTyped, PInv,
           \/ OpenComposer \/ CloseComposer \/ SelectAll \/ DeselectAll
           \/ HandleSaveDraft \/ OpenConfirm \/ CancelConfirm \/ HandleBlast
           \/ \E p \in People : ToggleOne(p)
    PROVE  PInv'
<1>1. /\ c \in [gen : Nat, loading : BOOLEAN, got : SUBSET People, sel : SUBSET People,
                saving : BOOLEAN, blasting : BOOLEAN, confirm : BOOLEAN]
      /\ net \in [Slots -> PageRequest \cup {Idle}]
  BY DEF PageTyped
<1>2. /\ b \in [show : BOOLEAN, waiting : BOOLEAN, banner : BOOLEAN]
      /\ presses \in 0..MaxPresses /\ c.gen <= presses /\ Under(net, c.gen)
      /\ c.gen \in Nat /\ MaxPresses \in Nat
  BY <1>1, BroadcastPageAssumption DEF PInv, Numbered
<1>3. Press => presses' \in 0..MaxPresses /\ presses' = presses + 1
  BY <1>2 DEF Press
<1>4. CASE OpenComposer
  <2>1. /\ b' = [b EXCEPT !.show = TRUE] /\ Press /\ CanSend(net, 1)
        /\ net' = Sent(net, Ask("preview", {}, c.gen + 1)) /\ c' = FreshComposer(c.gen + 1)
    BY <1>4 DEF OpenComposer, Preview
  <2>2. c'.gen = c.gen + 1 /\ c'.loading /\ ~c'.blasting /\ ~c'.saving
    BY <2>1 DEF FreshComposer
  <2>3. Out(net', {"preview", "load"}, c.gen + 1)
    <3>1. Out(Sent(net, Ask("preview", {}, c.gen + 1)), {"preview", "load"}, c.gen + 1)
      BY <1>1, <2>1, SentOut, AskGen
    <3> QED
      BY <2>1, <3>1
  <2>4. Under(net', c.gen + 1)
    <3>1. Under(net, c.gen + 1)
      <4>1. \A s \in Slots : net[s].op # "none" => net[s].gen \in Nat
        BY <1>1 DEF PageRequest, Idle
      <4> QED
        BY <1>2, <4>1 DEF Under
    <3>2. Under(Sent(net, Ask("preview", {}, c.gen + 1)), c.gen + 1)
      BY <1>1, <1>2, <3>1, SentUnder, AskGen
    <3> QED
      BY <2>1, <3>2
  <2>5. b' \in [show : BOOLEAN, waiting : BOOLEAN, banner : BOOLEAN]
    BY <1>2, <2>1
  <2>6. Numbered'
    <3>1. c.gen + 1 <= presses + 1
      BY <1>2
    <3> QED
      BY <1>3, <2>1, <2>2, <2>4, <3>1 DEF Numbered
  <2>7. Awaits'
    BY <2>2, <2>3 DEF Awaits
  <2> QED
    BY <2>5, <2>6, <2>7 DEF PInv
<1>5. CASE CloseComposer
  <2>1. /\ b' = [b EXCEPT !.show = FALSE] /\ presses' = presses /\ c'.gen = c.gen
        /\ net' = Sent(net, AskBanner)
    BY <1>5 DEF CloseComposer, Closed, FreshComposer
  <2>2. Under(net', c.gen)
    <3>1. Under(Sent(net, AskBanner), c.gen)
      BY <1>1, <1>2, SentUnder, AsksType
    <3> QED
      BY <2>1, <3>1
  <2>3. b' \in [show : BOOLEAN, waiting : BOOLEAN, banner : BOOLEAN] /\ ~b'.show
    BY <1>2, <2>1
  <2>4. Numbered'
    BY <1>2, <2>1, <2>2 DEF Numbered
  <2> QED
    BY <2>3, <2>4 DEF PInv, Awaits
<1>6. ASSUME b' = b, net' = net, Press \/ presses' = presses,
             c'.gen = c.gen, c'.loading = c.loading, c'.saving = c.saving,
             c'.blasting = c.blasting
      PROVE  PInv'
  BY <1>2, <1>3, <1>6 DEF PInv, Numbered, Awaits
<1>7. ASSUME NEW sel, Picked(sel)
      PROVE  PInv'
  BY <1>1, <1>6, <1>7 DEF Picked
<1>8. CASE SelectAll \/ DeselectAll \/ \E p \in People : ToggleOne(p)
  BY <1>7, <1>8 DEF SelectAll, DeselectAll, ToggleOne
<1>9. CASE OpenConfirm \/ CancelConfirm
  BY <1>1, <1>6, <1>9 DEF OpenConfirm, CancelConfirm
<1>10. ASSUME NEW op \in {"save", "blast"}, CanSend(net, 1), b' = b,
              net' = Sent(net, Ask(op, c.sel, c.gen)), c'.gen = c.gen, c'.loading = c.loading,
              c'.saving = c.saving \/ op = "save", c'.blasting = c.blasting \/ op = "blast",
              Press \/ presses' = presses
       PROVE  PInv'
  <2>1. Under(net', c.gen)
    BY <1>1, <1>2, <1>10, SentUnder, AskGen
  <2>2. \A ops, g : "none" \notin ops /\ Out(net, ops, g) => Out(net', ops, g)
    BY <1>1, <1>10, SentOut
  <2>3. Out(net', {op}, c.gen)
    <3>1. Out(Sent(net, Ask(op, c.sel, c.gen)), {op}, c.gen)
      BY <1>1, <1>10, SentOut, AskGen
    <3> QED
      BY <1>10, <3>1
  <2>4. /\ Out(net, {"preview", "load"}, c.gen) => Out(net', {"preview", "load"}, c.gen)
        /\ Out(net, {"save"}, c.gen) => Out(net', {"save"}, c.gen)
        /\ Out(net, {"blast"}, c.gen) => Out(net', {"blast"}, c.gen)
    BY <2>2
  <2>5. presses' \in 0..MaxPresses /\ c.gen <= presses'
    BY <1>2, <1>3, <1>10
  <2>6. Awaits'
    BY <1>10, <2>3, <2>4 DEF PInv, Awaits
  <2> QED
    BY <1>2, <1>10, <2>1, <2>5, <2>6 DEF PInv, Numbered
<1>11. CASE HandleSaveDraft
  <2>1. /\ CanSend(net, 1) /\ b' = b /\ net' = Sent(net, Ask("save", c.sel, c.gen)) /\ Press
        /\ c' = [c EXCEPT !.saving = TRUE]
    BY <1>11 DEF HandleSaveDraft
  <2>2. c'.gen = c.gen /\ c'.loading = c.loading /\ c'.blasting = c.blasting
    BY <1>1, <2>1
  <2> QED
    BY <1>10, <2>1, <2>2
<1>12. CASE HandleBlast
  <2>1. CASE c.sel = {}
    <3>1. b' = b /\ net' = net /\ presses' = presses /\ c' = [c EXCEPT !.confirm = FALSE]
      BY <1>12, <2>1 DEF HandleBlast
    <3>2. /\ c'.gen = c.gen /\ c'.loading = c.loading /\ c'.blasting = c.blasting
          /\ c'.saving = c.saving
      BY <1>1, <3>1
    <3> QED
      BY <3>1, <3>2 DEF PInv, Numbered, Awaits
  <2>2. CASE c.sel # {}
    <3>1. /\ CanSend(net, 1) /\ b' = b /\ net' = Sent(net, Ask("blast", c.sel, c.gen))
          /\ presses' = presses /\ c' = [c EXCEPT !.confirm = FALSE, !.blasting = TRUE]
      BY <1>12, <2>2 DEF HandleBlast
    <3>2. c'.gen = c.gen /\ c'.loading = c.loading /\ c'.saving = c.saving
      BY <1>1, <3>1
    <3> QED
      BY <1>10, <3>1, <3>2
  <2> QED
    BY <2>1, <2>2
<1> QED
  BY <1>4, <1>5, <1>8, <1>9, <1>11, <1>12

\* Where the page is rendered anew the composer loads anew, with a request of its
\* own; what it waited for before is still out.
LEMMA RenderedTypes ==
    ASSUME PageTyped, PInv, NEW s \in Slots, net[s].op \in {"jobs", "banner"},
           NEW q \in [show : BOOLEAN, waiting : BOOLEAN, banner : BOOLEAN], q.show = b.show,
           Rendered(Done(net, s), q), presses' = presses
    PROVE  PInv'
<1>1. /\ c \in [gen : Nat, loading : BOOLEAN, got : SUBSET People, sel : SUBSET People,
                saving : BOOLEAN, blasting : BOOLEAN, confirm : BOOLEAN]
      /\ net \in [Slots -> PageRequest \cup {Idle}]
      /\ Done(net, s) \in [Slots -> PageRequest \cup {Idle}]
  BY DoneType DEF PageTyped
<1>2. presses \in 0..MaxPresses /\ c.gen <= presses /\ Under(net, c.gen) /\ c.gen \in Nat
  BY <1>1 DEF PInv, Numbered
<1>3. b' = q /\ Under(Done(net, s), c.gen)
  BY <1>1, <1>2, DoneUnder DEF Rendered
<1>4. CASE ~b.show
  <2>1. c' = c /\ net' = Done(net, s)
    BY <1>4 DEF Rendered
  <2> QED
    BY <1>2, <1>3, <1>4, <2>1 DEF PInv, Numbered, Awaits
<1>5. CASE b.show
  <2>1. /\ c' = [c EXCEPT !.loading = TRUE] /\ CanSend(Done(net, s), 1)
        /\ net' = Sent(Done(net, s), Ask("preview", {}, c.gen))
    BY <1>5 DEF Rendered, Preview
  <2>2. c'.gen = c.gen /\ c'.saving = c.saving /\ c'.blasting = c.blasting
    BY <1>1, <2>1
  <2>3. \A ops : ("none" \notin ops /\ "jobs" \notin ops /\ "banner" \notin ops
                    /\ Out(net, ops, c.gen)) => Out(net', ops, c.gen)
    <3> SUFFICES ASSUME NEW ops, "none" \notin ops, "jobs" \notin ops, "banner" \notin ops,
                        Out(net, ops, c.gen)
                 PROVE  Out(net', ops, c.gen)
      OBVIOUS
    <3>1. Out(Done(net, s), ops, c.gen)
      BY <1>1, DoneOut
    <3>2. Out(Sent(Done(net, s), Ask("preview", {}, c.gen)), ops, c.gen)
      BY <1>1, <2>1, <3>1, SentOut
    <3> QED
      BY <2>1, <3>2
  <2>4. Out(net', {"preview", "load"}, c.gen)
    <3>1. Out(Sent(Done(net, s), Ask("preview", {}, c.gen)), {"preview", "load"}, c.gen)
      BY <1>1, <2>1, SentOut, AskGen
    <3> QED
      BY <2>1, <3>1
  <2>5. Under(net', c.gen)
    <3>1. Under(Sent(Done(net, s), Ask("preview", {}, c.gen)), c.gen)
      BY <1>1, <1>2, <1>3, SentUnder, AskGen
    <3> QED
      BY <2>1, <3>1
  <2>6. Awaits'
    <3>1. /\ Out(net, {"blast"}, c.gen) => Out(net', {"blast"}, c.gen)
          /\ Out(net, {"save"}, c.gen) => Out(net', {"save"}, c.gen)
      BY <2>3
    <3> QED
      BY <1>5, <2>2, <2>4, <3>1 DEF PInv, Awaits
  <2> QED
    BY <1>2, <1>3, <2>2, <2>5, <2>6 DEF PInv, Numbered
<1> QED
  BY <1>4, <1>5

\* A composer that is closed waits for nothing.
LEMMA ClosedTypes ==
    ASSUME PageTyped, PInv, NEW s \in Slots, Closed(Done(net, s)), presses' = presses
    PROVE  PInv'
<1>1. /\ c.gen \in Nat /\ Done(net, s) \in [Slots -> PageRequest \cup {Idle}]
  BY DoneType DEF PageTyped
<1>2. /\ b' = [b EXCEPT !.show = FALSE] /\ c'.gen = c.gen
      /\ net' = Sent(Done(net, s), AskBanner)
  BY DEF Closed, FreshComposer
<1>3. Under(Done(net, s), c.gen)
  BY DoneUnder DEF PageTyped, PInv, Numbered
<1>4. Under(Sent(Done(net, s), AskBanner), c.gen)
  BY <1>1, <1>3, SentUnder, AsksType
<1>5. b' \in [show : BOOLEAN, waiting : BOOLEAN, banner : BOOLEAN] /\ ~b'.show
  BY <1>2 DEF PInv
<1> QED
  BY <1>2, <1>4, <1>5 DEF PInv, Numbered, Awaits

\* A request of the composer is answered, and it waits for that no more.
LEMMA MineTypes ==
    ASSUME PageTyped, PInv, NEW s \in Slots, b' = b, presses' = presses, net' = Done(net, s),
           c'.gen = c.gen,
           c'.loading => c.loading /\ (net[s].op \in {"preview", "load"} => ~Mine(s)),
           c'.blasting => c.blasting /\ (net[s].op = "blast" => ~Mine(s)),
           c'.saving => c.saving /\ (net[s].op = "save" => ~Mine(s))
    PROVE  PInv'
<1>1. net \in [Slots -> PageRequest \cup {Idle}]
  BY DEF PageTyped
<1>2. Under(net', c.gen)
  BY <1>1, DoneUnder DEF PInv, Numbered
<1>3. \A ops : Out(net, ops, c.gen) /\ (net[s].op \notin ops \/ net[s].gen # c.gen)
                  => Out(net', ops, c.gen)
  BY <1>1, DoneOut
<1>4. Awaits'
  <2> SUFFICES ASSUME b.show
               PROVE  /\ c'.loading => Out(net', {"preview", "load"}, c.gen)
                      /\ c'.blasting => Out(net', {"blast"}, c.gen)
                      /\ c'.saving => Out(net', {"save"}, c.gen)
    BY DEF Awaits
  <2>1. c'.loading => Out(net', {"preview", "load"}, c.gen)
    BY <1>3 DEF PInv, Awaits, Mine
  <2>2. c'.blasting => Out(net', {"blast"}, c.gen)
    BY <1>3 DEF PInv, Awaits, Mine
  <2>3. c'.saving => Out(net', {"save"}, c.gen)
    BY <1>3 DEF PInv, Awaits, Mine
  <2> QED
    BY <2>1, <2>2, <2>3
<1> QED
  BY <1>2, <1>4 DEF PInv, Numbered

\* A request goes on under its own number.
LEMMA SameTypes ==
    ASSUME PInv, b' = b, presses' = presses,
           c'.gen = c.gen, c'.loading = c.loading, c'.saving = c.saving, c'.blasting = c.blasting,
           \A t \in Slots : /\ net'[t].gen = net[t].gen \/ net'[t].op = "none"
                            /\ net'[t].op = net[t].op
                               \/ (net[t].op = "preview" /\ net'[t].op = "load")
    PROVE  PInv'
<1>1. \A t \in Slots : net[t].op = "none" => net'[t].op = "none"
  OBVIOUS
<1>2. Under(net', c.gen)
  BY <1>1 DEF PInv, Numbered, Under
<1>3. /\ Out(net, {"preview", "load"}, c.gen) => Out(net', {"preview", "load"}, c.gen)
      /\ Out(net, {"blast"}, c.gen) => Out(net', {"blast"}, c.gen)
      /\ Out(net, {"save"}, c.gen) => Out(net', {"save"}, c.gen)
  BY DEF Out
<1>4. Awaits'
  BY <1>3 DEF PInv, Awaits
<1> QED
  BY <1>2, <1>4 DEF PInv, Numbered

LEMMA AnswerTypes ==
    ASSUME PageTyped, PInv, NEW s \in Slots, Deliver(s)
    PROVE  PInv'
<1>1. /\ c \in [gen : Nat, loading : BOOLEAN, got : SUBSET People, sel : SUBSET People,
                saving : BOOLEAN, blasting : BOOLEAN, confirm : BOOLEAN]
      /\ net \in [Slots -> PageRequest \cup {Idle}]
      /\ b \in [show : BOOLEAN, waiting : BOOLEAN, banner : BOOLEAN]
  BY DEF PageTyped, PInv
<1>2. ASSUME NEW op \in {"jobs", "banner"}, net[s].op = op, b' = b, c' = c,
             net' = Done(net, s), presses' = presses
      PROVE  PInv'
  BY <1>2, MineTypes
<1>3. CASE JobsAnswered(s)
  <2>1. net[s].op = "jobs" /\ presses' = presses
    BY <1>3 DEF JobsAnswered, Answered
  <2>2. \/ Rendered(Done(net, s), [b EXCEPT !.waiting = FALSE])
        \/ net' = Done(net, s) /\ b' = b /\ c' = c
    BY <1>3 DEF JobsAnswered
  <2> QED
    BY <1>1, <1>2, <2>1, <2>2, RenderedTypes
<1>4. CASE BannerAnswered(s)
  <2>1. net[s].op = "banner" /\ presses' = presses
    BY <1>4 DEF BannerAnswered, Answered
  <2>2. \/ \E there \in BOOLEAN : Rendered(Done(net, s), [b EXCEPT !.banner = there])
        \/ net' = Done(net, s) /\ b' = b /\ c' = c
    <3>1. net[s].there \in BOOLEAN
      <4>1. net[s] \in PageRequest
        BY <1>1, <2>1 DEF Idle
      <4> QED
        BY <4>1 DEF PageRequest
    <3> QED
      BY <1>4, <3>1 DEF BannerAnswered
  <2> QED
    BY <1>1, <1>2, <2>1, <2>2, RenderedTypes
<1>5. CASE PreviewAnswered(s)
  <2>1. net[s].op = "preview" /\ presses' = presses
    BY <1>5 DEF PreviewAnswered, Answered
  <2>2. CASE Closed(Done(net, s))
    BY <2>1, <2>2, ClosedTypes
  <2>3. CASE ~Closed(Done(net, s))
    <3>1. /\ c' = IF Mine(s) THEN [c EXCEPT !.got = net[s].rows] ELSE c
          /\ net' = [net EXCEPT ![s] = Ask("load", net[s].rows, net[s].gen)] /\ b' = b
      BY <1>5, <2>3 DEF PreviewAnswered
    <3>2. /\ c'.gen = c.gen /\ c'.loading = c.loading /\ c'.saving = c.saving
          /\ c'.blasting = c.blasting
      BY <1>1, <3>1
    <3>3. /\ net'[s].op = "load" /\ net'[s].gen = net[s].gen
          /\ \A t \in Slots \ {s} : net'[t] = net[t]
      BY <1>1, <3>1, AskGen
    <3> QED
      BY <2>1, <3>1, <3>2, <3>3, SameTypes
  <2> QED
    BY <2>2, <2>3
<1>6. CASE LoadAnswered(s)
  <2>1. net[s].op = "load" /\ presses' = presses
    BY <1>6 DEF LoadAnswered, Answered
  <2>2. CASE Closed(Done(net, s))
    BY <2>1, <2>2, ClosedTypes
  <2>3. CASE ~Closed(Done(net, s))
    <3>1. /\ c' = IF Mine(s)
                  THEN [c EXCEPT !.loading = FALSE,
                                 !.sel = IF net[s].there THEN net[s].rows ELSE net[s].who]
                  ELSE c
          /\ net' = Done(net, s) /\ b' = b
      BY <1>6, <2>3 DEF LoadAnswered
    <3>2. /\ c'.gen = c.gen /\ c'.saving = c.saving /\ c'.blasting = c.blasting
          /\ c'.loading => c.loading /\ ~Mine(s)
      BY <1>1, <3>1
    <3> QED
      BY <2>1, <3>1, <3>2, MineTypes
  <2> QED
    BY <2>2, <2>3
<1>7. CASE DraftSaved(s)
  <2>1. /\ net[s].op = "save" /\ presses' = presses /\ net' = Done(net, s) /\ b' = b
        /\ c' = IF Mine(s) THEN [c EXCEPT !.saving = FALSE] ELSE c
    BY <1>7 DEF DraftSaved, Answered
  <2>2. /\ c'.gen = c.gen /\ c'.loading = c.loading /\ c'.blasting = c.blasting
        /\ c'.saving => c.saving /\ ~Mine(s)
    BY <1>1, <2>1
  <2> QED
    BY <2>1, <2>2, MineTypes
<1>8. CASE BlastAnswered(s)
  <2>1. net[s].op = "blast" /\ presses' = presses
    BY <1>8 DEF BlastAnswered, Answered
  <2>2. CASE net[s].answer = "failed"
    <3>1. /\ c' = IF Mine(s) THEN [c EXCEPT !.blasting = FALSE] ELSE c
          /\ net' = Done(net, s) /\ b' = b
      BY <1>8, <2>2 DEF BlastAnswered, AfterRefusal
    <3>2. /\ c'.gen = c.gen /\ c'.loading = c.loading /\ c'.saving = c.saving
          /\ c'.blasting => c.blasting /\ ~Mine(s)
      BY <1>1, <3>1
    <3> QED
      BY <2>1, <3>1, <3>2, MineTypes
  <2>3. CASE net[s].answer # "failed"
    <3> DEFINE n == Sent(Done(net, s), AskJobs)
               m == Sent(n, AskBanner)
    <3>1. /\ b' = [b EXCEPT !.show = FALSE, !.waiting = TRUE] /\ c'.gen = c.gen
          /\ net' = Sent(m, AskBanner)
      BY <1>8, <2>3 DEF BlastAnswered, FreshComposer
    <3>2. Under(Done(net, s), c.gen) /\ c.gen \in Nat
      BY <1>1, DoneUnder DEF PInv, Numbered
    <3>3. Done(net, s) \in [Slots -> PageRequest \cup {Idle}]
      BY <1>1, DoneType
    <3>4. Under(n, c.gen) /\ n \in [Slots -> PageRequest \cup {Idle}]
      BY <3>2, <3>3, SentUnder, SentType, AsksType
    <3> HIDE DEF n
    <3>5. Under(m, c.gen) /\ m \in [Slots -> PageRequest \cup {Idle}]
      BY <3>2, <3>4, SentUnder, SentType, AsksType
    <3> HIDE DEF m
    <3>6. Under(Sent(m, AskBanner), c.gen)
      BY <3>2, <3>5, SentUnder, AsksType
    <3>7. b' \in [show : BOOLEAN, waiting : BOOLEAN, banner : BOOLEAN] /\ ~b'.show
      BY <1>1, <3>1
    <3> QED
      BY <2>1, <3>1, <3>6, <3>7 DEF PInv, Numbered, Awaits
  <2> QED
    BY <2>2, <2>3
<1> QED
  BY <1>3, <1>4, <1>5, <1>6, <1>7, <1>8 DEF Deliver

LEMMA ServerTypes ==
    ASSUME PageTyped, PInv, NEW s \in Slots, Serve(s) \/ Lose(s)
    PROVE  PInv'
<1>1. net \in [Slots -> PageRequest \cup {Idle}]
  BY DEF PageTyped
<1>2. net[s].op # "none" /\ net[s] \in PageRequest
  BY <1>1, ServedIsOut DEF Idle
<1>3. b' = b /\ c' = c /\ presses' = presses
  BY DEF Serve, ServeRead, ServeSave, BlastBegins, BlastQueues, BlastEnds, Lose
<1>4. /\ net'[s].op = net[s].op /\ net'[s].gen = net[s].gen
      /\ \A t \in Slots \ {s} : net'[t] = net[t]
  <2>1. CASE ServeRead(s)
    <3>1. PICK found, w : net' = [net EXCEPT ![s].answer = "ok", ![s].there = found, ![s].rows = w]
      BY <2>1, Zenon DEF ServeRead
    <3> QED
      BY <1>1, <1>2, <3>1 DEF PageRequest
  <2>2. CASE ServeSave(s) \/ BlastEnds(s) \/ Lose(s)
    BY <1>1, <1>2, <2>2 DEF ServeSave, BlastEnds, Lose, Ask, PageRequest
  <2>3. CASE BlastBegins(s)
    BY <1>1, <1>2, <2>3 DEF BlastBegins, PageRequest
  <2>4. CASE BlastQueues(s)
    BY <1>1, <1>2, <2>4 DEF BlastQueues, PageRequest
  <2> QED
    BY <2>1, <2>2, <2>3, <2>4 DEF Serve
<1> QED
  BY <1>3, <1>4, SameTypes

LEMMA HeldQueue ==
    ASSUME QueueTyped, Held, QueueNext
    PROVE  Held'
<1>1. ASSUME NEW j \in DOMAIN jobs, NEW st \in JobStatus
      PROVE  Len(UpdateJobStatus(j, st)) = Len(jobs)
  <2>1. jobs \in Seq(Job)
    BY DEF QueueTyped
  <2> QED
    BY <2>1 DEF UpdateJobStatus
<1>2. \A j \in worker.batch : j \in DOMAIN jobs
  BY DEF QueueTyped
<1>3. worker \in [batch : SUBSET Nat, job : Nat, at : {"idle", "claimed", "sent", "refused"}]
  BY DEF QueueTyped
<1>4. CASE ProcessPendingJobs
  BY <1>3, <1>4 DEF ProcessPendingJobs, Held, IdleWorker
<1>5. CASE Claim
  <2>1. jobs' = jobs \/ \E j \in DOMAIN jobs : jobs' = UpdateJobStatus(j, "PROCESSING")
    BY <1>2, <1>5 DEF Claim
  <2>2. Len(jobs') = Len(jobs)
    BY <1>1, <2>1 DEF JobStatus
  <2>3. worker'.at = "claimed"
    BY <1>5 DEF Claim
  <2> QED
    BY <2>2, <2>3 DEF Held
<1>6. CASE SendMail
  <2>1. jobs' = jobs /\ worker'.at # "idle"
    BY <1>3, <1>6 DEF SendMail
  <2> QED
    BY <2>1 DEF Held
<1>7. CASE MarkJob
  <2>1. worker.job \in DOMAIN jobs
    BY <1>7 DEF MarkJob, QueueTyped
  <2>2. jobs' = jobs \/ \E st \in JobStatus : jobs' = UpdateJobStatus(worker.job, st)
    BY <1>7 DEF MarkJob, Outcome, JobStatus
  <2>3. Len(jobs') = Len(jobs)
    BY <1>1, <2>1, <2>2
  <2>4. worker'.job = 0
    BY <1>3, <1>7 DEF MarkJob
  <2> QED
    BY <2>3, <2>4 DEF Held
<1>8. CASE Restart
  BY <1>8 DEF Restart, Held, IdleWorker
<1>9. ASSUME NEW j, RetryJob(j)
      PROVE  Held'
  <2>1. jobs' = UpdateJobStatus(j, "PENDING") /\ j \in DOMAIN jobs /\ worker' = worker
    BY <1>9 DEF RetryJob
  <2>2. Len(jobs') = Len(jobs)
    BY <1>1, <2>1 DEF JobStatus
  <2> QED
    BY <2>1, <2>2 DEF Held
<1>10. ASSUME NEW p, RegisterChanges(p)
       PROVE  Held'
  BY <1>10 DEF RegisterChanges, Held
<1> QED
  BY <1>4, <1>5, <1>6, <1>7, <1>8, <1>9, <1>10 DEF QueueNext, WorkerNext

LEMMA HeldServed ==
    ASSUME QueueTyped, Held, NEW s \in Slots, Serve(s) \/ Lose(s)
    PROVE  Held'
<1>1. jobs \in Seq(Job) /\ MaxJobs \in Nat
  BY ReminderQueueAssumption DEF QueueTyped
<1>2. CASE BlastQueues(s)
  <2>1. worker' = worker
    BY <1>2 DEF BlastQueues
  <2>2. \/ jobs' = jobs
        \/ Len(jobs) < MaxJobs /\ \E x : jobs' = Append(jobs, x)
    BY <1>2 DEF BlastQueues, QueueUniqueCampaignJob
  <2>3. \A x : Len(Append(jobs, x)) = Len(jobs) + 1
    BY <1>1
  <2>4. Len(jobs) \in Nat
    BY <1>1
  <2>5. Len(jobs') <= MaxJobs
    BY <1>1, <2>2, <2>3, <2>4 DEF Held
  <2> QED
    BY <2>1, <2>5 DEF Held
<1>3. CASE ServeRead(s) \/ ServeSave(s) \/ BlastBegins(s) \/ BlastEnds(s) \/ Lose(s)
  <2>1. jobs' = jobs /\ worker' = worker
    BY <1>3 DEF ServeRead, ServeSave, BlastBegins, BlastEnds, Lose, queueVars
  <2> QED
    BY <2>1 DEF Held
<1> QED
  BY <1>2, <1>3 DEF Serve

LEMMA InitTypes ==
    ASSUME Init
    PROVE  Held /\ PInv
<1>1. /\ jobs = <<>> /\ worker = IdleWorker /\ presses = 0 /\ c = FreshComposer(0)
      /\ b = [show |-> FALSE, waiting |-> TRUE, banner |-> FALSE]
  BY DEF Init, QueueInit
<1>2. Held
  BY <1>1, ReminderQueueAssumption DEF Held, IdleWorker
<1>3. Under(net, 0)
  <2> DEFINE n == Sent(Quiet(Slots), AskJobs)
  <2>1. Quiet(Slots) \in [Slots -> PageRequest \cup {Idle}] /\ Under(Quiet(Slots), 0)
    BY DEF Quiet, Idle, Under
  <2>2. n \in [Slots -> PageRequest \cup {Idle}]
    BY <2>1, AsksType, SentType
  <2>3. Under(n, 0)
    BY <2>1, SentUnder, AsksType
  <2> HIDE DEF n
  <2>4. Under(Sent(n, AskBanner), 0)
    BY <2>2, <2>3, SentUnder, AsksType
  <2> QED
    BY <2>4 DEF Init, n
<1>4. c.gen = 0 /\ presses \in 0..MaxPresses /\ c.gen <= presses
  BY <1>1, BroadcastPageAssumption DEF FreshComposer
<1> QED
  BY <1>1, <1>2, <1>3, <1>4 DEF PInv, Numbered, Awaits

LEMMA NextTypes ==
    ASSUME IInv, Held, PInv, [Next]_vars
    PROVE  Held' /\ PInv'
<1>1. PageTyped /\ QueueTyped
  BY DEF IInv, QueueInv
<1>2. CASE \/ OpenComposer \/ CloseComposer \/ SelectAll \/ DeselectAll
           \/ HandleSaveDraft \/ OpenConfirm \/ CancelConfirm \/ HandleBlast
           \/ \E p \in People : ToggleOne(p)
  <2>1. UNCHANGED queueVars
    BY <1>2 DEF OpenComposer, CloseComposer, SelectAll, DeselectAll, ToggleOne, Picked,
                HandleSaveDraft, OpenConfirm, CancelConfirm, HandleBlast
  <2>2. Held'
    BY <2>1 DEF queueVars, Held
  <2> QED
    BY <1>1, <1>2, <2>2, PressTypes
<1>3. ASSUME NEW s \in Slots, Deliver(s)
      PROVE  Held' /\ PInv'
  <2>1. UNCHANGED queueVars
    BY <1>3 DEF Deliver, JobsAnswered, BannerAnswered, PreviewAnswered, LoadAnswered, DraftSaved,
                BlastAnswered
  <2>2. Held'
    BY <2>1 DEF queueVars, Held
  <2> QED
    BY <1>1, <1>3, <2>2, AnswerTypes
<1>4. ASSUME NEW s \in Slots, Serve(s) \/ Lose(s)
      PROVE  Held' /\ PInv'
  BY <1>1, <1>4, HeldServed, ServerTypes
<1>5. CASE QueueNext /\ UNCHANGED pageVars
  <2>1. Held'
    BY <1>1, <1>5, HeldQueue
  <2>2. PInv'
    BY <1>5 DEF pageVars, PInv, Numbered, Awaits, Out, Under
  <2> QED
    BY <2>1, <2>2
<1>6. CASE UNCHANGED vars
  BY <1>6 DEF vars, queueVars, pageVars, Held, PInv, Numbered, Awaits, Out, Under
<1> QED
  BY <1>2, <1>3, <1>4, <1>5, <1>6 DEF Next

\* A composer that shows that it loads, saves or sends has a request of its own
\* out; the worker holds a job exactly when it is at work on it.
THEOREM TypeCorrect == Spec => []TypeOK
<1>1. ASSUME IInv, Held, PInv
      PROVE  TypeOK
  <2>1. QueueTyped /\ PageTyped
    BY <1>1 DEF IInv, QueueInv
  <2>2. \A j \in DOMAIN jobs : jobs[j] \in [to : People, status : JobStatus]
    <3>1. jobs \in Seq(Job)
      BY <2>1 DEF QueueTyped
    <3>2. \A j \in DOMAIN jobs : jobs[j] \in Job
      BY <3>1
    <3> QED
      BY <3>2 DEF Job
  <2>3. /\ eligible \subseteq People /\ mails \in [People -> Nat] /\ worker.batch \subseteq DOMAIN jobs
        /\ worker.at \in {"idle", "claimed", "sent", "refused"}
    BY <2>1 DEF QueueTyped
  <2>4. worker.job \in {0} \cup DOMAIN jobs /\ (worker.job = 0 <=> worker.at = "idle")
    <3>1. 0 \notin DOMAIN jobs
      <4>1. jobs \in Seq(Job)
        BY <2>1 DEF QueueTyped
      <4> QED
        BY <4>1
    <3>2. worker.at = "idle" => worker.job = 0
      BY <1>1 DEF Held
    <3>3. worker.at # "idle" => worker.job \in DOMAIN jobs
      BY <2>1 DEF QueueTyped
    <3> QED
      BY <3>1, <3>2, <3>3
  <2>5. net \in [Slots -> Request \cup {Idle}]
    <3>1. net \in [Slots -> PageRequest \cup {Idle}] /\ c.gen \in Nat
      BY <2>1 DEF PageTyped
    <3>2. c.gen <= MaxPresses /\ MaxPresses \in Nat
      BY <1>1, <3>1, BroadcastPageAssumption DEF PInv, Numbered
    <3>3. ASSUME NEW s \in Slots
          PROVE  net[s] \in Request \cup {Idle}
      <4>1. CASE net[s] = Idle
        BY <4>1
      <4>2. CASE net[s] # Idle
        <5>1. net[s] \in PageRequest
          BY <3>1, <4>2
        <5>2. net[s].op # "none" /\ net[s].gen \in Nat
          BY <5>1 DEF PageRequest
        <5>3. net[s].gen \in 0..MaxPresses
          BY <1>1, <3>1, <3>2, <5>2 DEF PInv, Numbered, Under
        <5> QED
          BY <5>1, <5>3 DEF PageRequest, Request
      <4> QED
        BY <4>1, <4>2
    <3> QED
      BY <3>1, <3>3
  <2>6. ASSUME NEW ops, Out(net, ops, c.gen)
        PROVE  {s \in Pending(net, ops) : net[s].gen = c.gen} # {}
    BY <2>5, <2>6 DEF Out, Pending
  <2>7. b.show => /\ c.loading => {s \in Pending(net, {"preview", "load"}) : net[s].gen = c.gen} # {}
                  /\ c.blasting => {s \in Pending(net, {"blast"}) : net[s].gen = c.gen} # {}
                  /\ c.saving => {s \in Pending(net, {"save"}) : net[s].gen = c.gen} # {}
    BY <1>1, <2>6 DEF PInv, Awaits
  <2>8. /\ draft \in [there : BOOLEAN, who : SUBSET People]
        /\ c.sel \subseteq People /\ c.got \subseteq People
    BY <2>1 DEF PageTyped
  <2> QED
    BY <1>1, <2>2, <2>3, <2>4, <2>5, <2>7, <2>8 DEF TypeOK, Held
<1>2. Init => Held /\ PInv
  BY InitTypes
<1>3. IInv /\ (Held /\ PInv) /\ [Next]_vars => (Held /\ PInv)'
  BY NextTypes
<1>4. IInv /\ (Held /\ PInv) => TypeOK
  BY <1>1
<1> QED
  BY <1>2, <1>3, <1>4, Invariant, PTL DEF Spec

-----------------------------------------------------------------------------
(* What the worker leaves behind.                                          *)

\* A job is left marked as being sent only while the worker has it in hand, or
\* if the process ended or the table refused the mark.
NoJobForgotten ==
    \A j \in DOMAIN jobs :
        jobs[j].status = "PROCESSING" => j \in stuck \/ (worker.job = j /\ worker.at # "idle")

\* Steps that mark no job, and take none from the worker.
LEMMA ForgottenAside ==
    ASSUME NoJobForgotten, jobs' = jobs, stuck \subseteq stuck',
           \/ worker' = worker
           \/ worker'.job = worker.job /\ worker'.at # "idle"
           \/ worker.at = "idle"
           \/ worker.job \in stuck'
    PROVE  NoJobForgotten'
BY DEF NoJobForgotten

LEMMA ForgottenQueue ==
    ASSUME QueueTyped, Held, NoJobForgotten, QueueNext
    PROVE  NoJobForgotten'
<1>1. worker \in [batch : SUBSET Nat, job : Nat, at : {"idle", "claimed", "sent", "refused"}]
  BY DEF QueueTyped
<1>2. ASSUME NEW j \in DOMAIN jobs, NEW st \in JobStatus, jobs' = UpdateJobStatus(j, st),
             stuck' = stuck, st = "PROCESSING" => worker'.job = j /\ worker'.at # "idle",
             \A i \in DOMAIN jobs \ {j} : worker.job = i /\ worker.at # "idle"
                                             => worker'.job = i /\ worker'.at # "idle"
      PROVE  NoJobForgotten'
  <2>1. /\ DOMAIN jobs' = DOMAIN jobs
        /\ \A i \in DOMAIN jobs : jobs'[i].status = IF i = j THEN st ELSE jobs[i].status
    BY <1>2, UpdateType
  <2> QED
    BY <1>2, <2>1 DEF NoJobForgotten
<1>3. CASE ProcessPendingJobs
  <2>1. jobs' = jobs /\ stuck' = stuck /\ worker.at = "idle"
    BY <1>3 DEF ProcessPendingJobs, IdleWorker
  <2> QED
    BY <2>1, ForgottenAside
<1>4. CASE Claim
  <2>1. PICK j \in worker.batch :
           /\ jobs' = UpdateJobStatus(j, "PROCESSING") \/ jobs' = jobs
           /\ worker' = [batch |-> worker.batch \ {j}, job |-> j, at |-> "claimed"]
           /\ worker.at = "idle" /\ stuck' = stuck
    BY <1>4 DEF Claim
  <2>2. j \in DOMAIN jobs
    BY DEF QueueTyped
  <2>3. CASE jobs' = UpdateJobStatus(j, "PROCESSING")
    BY <1>2, <2>1, <2>2, <2>3 DEF JobStatus
  <2>4. CASE jobs' = jobs
    BY <2>1, <2>4, ForgottenAside
  <2> QED
    BY <2>1, <2>3, <2>4
<1>5. CASE SendMail
  <2>1. jobs' = jobs /\ stuck' = stuck /\ worker'.job = worker.job /\ worker'.at # "idle"
    BY <1>1, <1>5 DEF SendMail
  <2> QED
    BY <2>1, ForgottenAside
<1>6. CASE MarkJob
  <2>1. worker.job \in DOMAIN jobs
    BY <1>6 DEF MarkJob, QueueTyped
  <2>2. CASE stuck' = stuck \cup {worker.job} /\ jobs' = jobs
    BY <2>2, ForgottenAside
  <2>3. CASE jobs' = UpdateJobStatus(worker.job, Outcome(worker.at)) /\ stuck' = stuck
    <3>1. Outcome(worker.at) \in JobStatus /\ Outcome(worker.at) # "PROCESSING"
      BY DEF Outcome, JobStatus
    <3> QED
      BY <1>2, <2>1, <2>3, <3>1
  <2> QED
    BY <1>6, <2>2, <2>3 DEF MarkJob
<1>7. CASE Restart
  <2>1. jobs' = jobs /\ stuck \subseteq stuck' /\ (worker.job = 0 \/ worker.job \in stuck')
    BY <1>7 DEF Restart
  <2>2. worker.job = 0 => worker.at = "idle"
    <3>1. 0 \notin DOMAIN jobs
      <4>1. jobs \in Seq(Job)
        BY DEF QueueTyped
      <4> QED
        BY <4>1
    <3> QED
      BY <3>1 DEF QueueTyped
  <2> QED
    BY <2>1, <2>2, ForgottenAside
<1>8. ASSUME NEW j, RetryJob(j)
      PROVE  NoJobForgotten'
  <2>1. jobs' = UpdateJobStatus(j, "PENDING") /\ j \in DOMAIN jobs /\ worker' = worker /\ stuck' = stuck
    BY <1>8 DEF RetryJob
  <2> QED
    BY <1>2, <2>1 DEF JobStatus
<1>9. ASSUME NEW p, RegisterChanges(p)
      PROVE  NoJobForgotten'
  <2>1. jobs' = jobs /\ worker' = worker /\ stuck' = stuck
    BY <1>9 DEF RegisterChanges
  <2> QED
    BY <2>1, ForgottenAside
<1> QED
  BY <1>3, <1>4, <1>5, <1>6, <1>7, <1>8, <1>9 DEF QueueNext, WorkerNext

LEMMA ForgottenServed ==
    ASSUME QueueTyped, NoJobForgotten, NEW s \in Slots, Serve(s) \/ Lose(s)
    PROVE  NoJobForgotten'
<1>1. worker' = worker /\ stuck' = stuck
  BY DEF Serve, ServeRead, ServeSave, BlastBegins, BlastQueues, BlastEnds, Lose, queueVars
<1>2. jobs \in Seq(Job)
  BY DEF QueueTyped
<1>3. jobs' = jobs \/ \E q : jobs' = Append(jobs, [to |-> q, status |-> "PENDING"])
  BY DEF Serve, ServeRead, ServeSave, BlastBegins, BlastQueues, BlastEnds, Lose, queueVars,
         QueueUniqueCampaignJob
<1>4. CASE jobs' = jobs
  BY <1>1, <1>4, ForgottenAside
<1>5. ASSUME NEW q, jobs' = Append(jobs, [to |-> q, status |-> "PENDING"])
      PROVE  NoJobForgotten'
  <2>1. \A j \in DOMAIN jobs' : \/ j \in DOMAIN jobs /\ jobs'[j] = jobs[j]
                                \/ jobs'[j].status = "PENDING"
    BY <1>2, <1>5
  <2> QED
    BY <1>1, <2>1 DEF NoJobForgotten
<1> QED
  BY <1>3, <1>4, <1>5

\* Whoever was picked is sent the reminder or refused it, or the job still waits,
\* or it is known why it does not: what a restart leaves PROCESSING is in stuck.
\* It is the part of QueuedIsDone that needs no fairness.
THEOREM NothingForgotten == Spec => []NoJobForgotten
<1>1. Init => NoJobForgotten
  BY DEF Init, QueueInit, NoJobForgotten
<1>2. ASSUME IInv, Held, NoJobForgotten, [Next]_vars
      PROVE  NoJobForgotten'
  <2>1. QueueTyped
    BY <1>2 DEF IInv, QueueInv
  <2>2. ASSUME UNCHANGED queueVars
        PROVE  NoJobForgotten'
    BY <1>2, <2>2, ForgottenAside DEF queueVars
  <2>3. CASE \/ OpenComposer \/ CloseComposer \/ SelectAll \/ DeselectAll
             \/ HandleSaveDraft \/ OpenConfirm \/ CancelConfirm \/ HandleBlast
             \/ \E p \in People : ToggleOne(p)
    BY <2>2, <2>3 DEF OpenComposer, CloseComposer, SelectAll, DeselectAll, ToggleOne, Picked,
                      HandleSaveDraft, OpenConfirm, CancelConfirm, HandleBlast
  <2>4. ASSUME NEW s \in Slots, Deliver(s)
        PROVE  NoJobForgotten'
    BY <2>2, <2>4 DEF Deliver, JobsAnswered, BannerAnswered, PreviewAnswered, LoadAnswered,
                      DraftSaved, BlastAnswered
  <2>5. ASSUME NEW s \in Slots, Serve(s) \/ Lose(s)
        PROVE  NoJobForgotten'
    BY <1>2, <2>1, <2>5, ForgottenServed
  <2>6. CASE QueueNext /\ UNCHANGED pageVars
    BY <1>2, <2>1, <2>6, ForgottenQueue
  <2>7. CASE UNCHANGED vars
    BY <2>2, <2>7 DEF vars
  <2> QED
    BY <1>2, <2>3, <2>4, <2>5, <2>6, <2>7 DEF Next
<1>3. Init => Held /\ PInv
  BY InitTypes
<1>4. IInv /\ (Held /\ PInv) /\ [Next]_vars => (Held /\ PInv)'
  BY NextTypes
<1>5. IInv /\ (Held /\ PInv) /\ NoJobForgotten /\ [Next]_vars => NoJobForgotten'
  BY <1>2
<1> QED
  BY <1>1, <1>3, <1>4, <1>5, Invariant, PTL DEF Spec
===============================================================================
