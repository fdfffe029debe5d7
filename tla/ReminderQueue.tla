---------------------------- MODULE ReminderQueue -----------------------------
(***************************************************************************)
(* The queue of reminder e-mails: modules/notification of the API.  A      *)
(* blast makes one job per recipient who has none, each in a transaction   *)
(* under an advisory lock; a worker fetches the pending jobs, and for each *)
(* marks it, sends it and marks it again.  An administrator may have a job *)
(* tried again.  The process, and with it the worker, may be started anew. *)
(***************************************************************************)
EXTENDS Naturals, Sequences, FiniteSets

CONSTANTS People,     \* participants with an e-mail address
          MaxJobs,    \* bound: rows of notification_jobs
          MaxUpsets   \* bound: crashes, retries, failures and changes of the register

ASSUME ReminderQueueAssumption ==
    MaxJobs \in Nat /\ MaxUpsets \in Nat /\ IsFiniteSet(People)

VARIABLES eligible,  \* participants who are approved or verified
          jobs,      \* notification_jobs, oldest first
          mails,     \* how often each person was sent the reminder
          worker,    \* the goroutine that sends
          upsets,
          excuse,    \* observation: how often a further e-mail to each is explained
          stuck      \* observation: jobs left unmarked, by the process that ended or the table

queueVars == <<eligible, jobs, mails, worker, upsets, excuse, stuck>>

JobStatus == {"PENDING", "PROCESSING", "SENT", "FAILED"}

IdleWorker == [batch |-> {}, job |-> 0, at |-> "idle"]

QueueInit ==
    /\ eligible = People
    /\ jobs = <<>> /\ mails = [p \in People |-> 0]
    /\ worker = IdleWorker
    /\ upsets = 0 /\ excuse = [p \in People |-> 0] /\ stuck = {}

Upset == upsets < MaxUpsets /\ upsets' = upsets + 1

UpdateJobStatus(j, st) == [jobs EXCEPT ![j].status = st]

-----------------------------------------------------------------------------
(* QueueUniqueCampaignJob: the look-up and the insert are one step, for the *)
(* lock is held over both.                                                  *)

\* Slip: a job that is being sent does not count.
QueuedOnlySent(p) == \E j \in DOMAIN jobs : jobs[j].to = p /\ jobs[j].status = "SENT"
Queued(p) == \E j \in DOMAIN jobs : jobs[j].to = p /\ jobs[j].status # "FAILED"

QueueUniqueCampaignJob(p) ==
    jobs' = IF Queued(p) THEN jobs ELSE Append(jobs, [to |-> p, status |-> "PENDING"])

-----------------------------------------------------------------------------
(* The worker.                                                             *)

\* Every five seconds, when it is not at work: the ten oldest, which are all.
GetPendingJobs == {j \in DOMAIN jobs : jobs[j].status = "PENDING"}

ProcessPendingJobs ==
    /\ worker = IdleWorker /\ GetPendingJobs # {}
    /\ worker' = [worker EXCEPT !.batch = GetPendingJobs]
    /\ UNCHANGED <<eligible, jobs, mails, upsets, excuse, stuck>>

\* The job is taken as it was fetched, whatever its status is by now; that it
\* cannot be marked is not looked at, here or when it is done.
Claim ==
    /\ worker.at = "idle"
    /\ \E j \in worker.batch :
       /\ \A i \in worker.batch : j <= i
       /\ \/ jobs' = UpdateJobStatus(j, "PROCESSING") /\ UNCHANGED <<upsets, excuse>>
          \/ /\ Upset /\ UNCHANGED jobs
             /\ excuse' = [excuse EXCEPT ![jobs[j].to] = @ + 1]
       /\ worker' = [batch |-> worker.batch \ {j}, job |-> j, at |-> "claimed"]
    /\ UNCHANGED <<eligible, mails, stuck>>

\* The mail server takes the message, refuses it, or takes it and the worker
\* sees an error; a template that cannot be read or filled in counts as refused.
SendMail ==
    /\ worker.at = "claimed"
    /\ LET p == jobs[worker.job].to IN
       \/ /\ worker' = [worker EXCEPT !.at = "sent"]
          /\ mails' = [mails EXCEPT ![p] = @ + 1]
          /\ UNCHANGED <<upsets, excuse>>
       \/ /\ Upset /\ worker' = [worker EXCEPT !.at = "refused"]
          /\ UNCHANGED <<mails, excuse>>
       \/ /\ Upset /\ worker' = [worker EXCEPT !.at = "refused"]
          /\ mails' = [mails EXCEPT ![p] = @ + 1]
          /\ excuse' = [excuse EXCEPT ![p] = @ + 1]
    /\ UNCHANGED <<eligible, jobs, stuck>>

\* Slip: an error is only logged.
OutcomeLogged(at) == IF at = "sent" THEN "SENT" ELSE "PROCESSING"
Outcome(at) == IF at = "sent" THEN "SENT" ELSE "FAILED"

MarkJob ==
    /\ worker.at \in {"sent", "refused"}
    /\ \/ /\ jobs' = UpdateJobStatus(worker.job, Outcome(worker.at))
          /\ UNCHANGED <<upsets, excuse, stuck>>
       \/ /\ Upset /\ stuck' = stuck \cup {worker.job}
          /\ excuse' = [excuse EXCEPT ![jobs[worker.job].to] = @ + 1]
          /\ UNCHANGED jobs
    /\ worker' = [worker EXCEPT !.job = 0, !.at = "idle"]
    /\ UNCHANGED <<eligible, mails>>

\* The process ends and starts again; nothing looks for jobs left PROCESSING.
Restart ==
    /\ worker # IdleWorker /\ Upset
    /\ worker' = IdleWorker
    /\ stuck' = IF worker.job = 0 THEN stuck ELSE stuck \cup {worker.job}
    /\ UNCHANGED <<eligible, jobs, mails, excuse>>

\* An administrator has a job tried again, in whatever status it is.
RetryJob(j) ==
    /\ Upset /\ j \in DOMAIN jobs
    /\ jobs' = UpdateJobStatus(j, "PENDING")
    /\ excuse' = [excuse EXCEPT ![jobs[j].to] = @ + 1]
    /\ UNCHANGED <<eligible, mails, worker, stuck>>

\* A participant is approved, or no longer.
RegisterChanges(p) ==
    /\ Upset
    /\ eligible' = IF p \in eligible THEN eligible \ {p} ELSE eligible \cup {p}
    /\ UNCHANGED <<jobs, mails, worker, excuse, stuck>>

WorkerNext == ProcessPendingJobs \/ Claim \/ SendMail \/ MarkJob

QueueNext ==
    \/ WorkerNext \/ Restart
    \/ \E j \in 1..MaxJobs : RetryJob(j)
    \/ \E p \in People : RegisterChanges(p)
=============================================================================
