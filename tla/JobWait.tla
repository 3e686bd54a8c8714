------------------------------ MODULE JobWait ------------------------------
(***************************************************************************)
(* Waiting for a job of a resource: ReconcileSandbox (service/sandbox.go)  *)
(* enqueues a job for its session and WaitForJobCompletion                 *)
(* (events/wait_job.go) waits until one of the resource's jobs is over,    *)
(* either by the job_completed event the dispatcher publishes              *)
(* (dispatcher.go) or by looking at the newest job row.                    *)
(*                                                                         *)
(* The queue is what JobQueue shows of it for one resource: jobs run one   *)
(* at a time, a failed attempt is retried while attempts remain, and a job *)
(* whose worker died is put back to pending.                               *)
(***************************************************************************)
EXTENDS EventDelivery

CONSTANTS MaxAttempts,          \* max_attempts of a job
          MaxJobs, MaxClaims    \* bounds: jobs of the resource, claims of one

ASSUME JobWaitBounds == /\ MaxJobs \in Nat /\ MaxClaims \in Nat
                        /\ MaxAttempts \in 1 .. MaxClaims

Jobs == 1 .. MaxJobs
None == 0
Settled == {"completed", "failed"}

\* What a job_completed event of the resource says.  A waiter passes over any
\* other event.
Said == [job: Jobs, status: Settled]
ASSUME JobWaitContents == Contents = Said

VARIABLES
    jobs,           \* the rows of the resource's jobs, oldest first
    executing,      \* the job a dispatcher executes
    announcing,     \* completions a dispatcher has still to publish
    succeeded,      \* jobs whose executor returned without error
    at,             \* where a waiter is
    mine,           \* the newest job when the waiter had enqueued
    behind,         \* then, was an older job's completion not delivered yet?
    answer,         \* what WaitForJobCompletion returned
    source          \* the job of the event it returned for; None: the row

jobVars == <<jobs, executing, announcing, succeeded>>
waitVars == <<at, mine, behind, answer, source>>
vars == <<deliveryVars, jobVars, waitVars>>

TypeOK ==
    /\ DeliveryTypeOK
    /\ jobs \in Seq([status: {"pending", "running"} \union Settled,
                     attempts: 0 .. MaxClaims])
    /\ Len(jobs) <= MaxJobs
    /\ executing \in DOMAIN jobs \union {None}
    /\ announcing \subseteq Said
    /\ succeeded \subseteq DOMAIN jobs
    /\ at \in [Subs -> {"away", "asking", "missing", "waiting", "leaving"}]
    /\ mine \in [Subs -> DOMAIN jobs \union {None}]
    /\ behind \in [Subs -> BOOLEAN]
    /\ answer \in [Subs -> Settled \union {"none", "timeout"}]
    /\ source \in [Subs -> DOMAIN jobs \union {None}]

Init ==
    /\ DeliveryInit
    /\ jobs = <<>> /\ executing = None /\ announcing = {} /\ succeeded = {}
    /\ at = [w \in Subs |-> "away"] /\ mine = [w \in Subs |-> None]
    /\ behind = [w \in Subs |-> FALSE]
    /\ answer = [w \in Subs |-> "none"] /\ source = [w \in Subs |-> None]

Newest == Len(jobs)
NewestSettled == jobs /= <<>> /\ jobs[Newest].status \in Settled
Active == \E j \in DOMAIN jobs : jobs[j].status \in {"pending", "running"}
Pending == [status |-> "pending", attempts |-> 0]

-----------------------------------------------------------------------------
\* The queue.  A payload that allows duplicates is enqueued by anyone at any
\* time.
EnqueueOther ==
    /\ Len(jobs) < MaxJobs /\ jobs' = Append(jobs, Pending)
    /\ UNCHANGED <<deliveryVars, executing, announcing, succeeded, waitVars>>

\* A claim counts an attempt and does not look at how many there were: a job put
\* back by the cleanup may exceed max_attempts.
Claim(j) ==
    /\ executing = None /\ jobs[j].status = "pending"
    /\ jobs[j].attempts < MaxClaims
    /\ \A k \in DOMAIN jobs : jobs[k].status /= "running"
    /\ jobs' = [jobs EXCEPT ![j] = [status |-> "running",
                                    attempts |-> @.attempts + 1]]
    /\ executing' = j
    /\ UNCHANGED <<deliveryVars, announcing, succeeded, waitVars>>

\* The executor returned nil.  CompleteJob may fail; the event is published
\* all the same.
Succeed ==
    /\ executing /= None
    /\ jobs' \in {jobs, [jobs EXCEPT ![executing].status = "completed"]}
    /\ succeeded' = succeeded \union {executing}
    /\ announcing' = announcing \union
                        {[job |-> executing, status |-> "completed"]}
    /\ executing' = None
    /\ UNCHANGED <<deliveryVars, waitVars>>

\* Mutant: an attempt that will be retried counts as done.
FailAsDone ==
    /\ executing /= None
    /\ jobs' = [jobs EXCEPT ![executing].status =
                    IF jobs[executing].attempts < MaxAttempts
                    THEN "pending" ELSE "failed"]
    /\ announcing' = announcing \union
                        {[job |-> executing, status |-> "completed"]}
    /\ executing' = None
    /\ UNCHANGED <<deliveryVars, succeeded, waitVars>>

\* The executor returned an error.  FailJob may fail, and it puts the job back
\* to pending while attempts remain; "failed" is published in every case.
FailAttempt ==
    /\ executing /= None
    /\ jobs' \in {jobs,
                  [jobs EXCEPT ![executing].status =
                      IF jobs[executing].attempts < MaxAttempts
                      THEN "pending" ELSE "failed"]}
    /\ announcing' = announcing \union {[job |-> executing, status |-> "failed"]}
    /\ executing' = None
    /\ UNCHANGED <<deliveryVars, succeeded, waitVars>>

\* publishJobCompletionEvent: the insert begins, or the publisher gives up.
Announce(e) ==
    /\ e \in announcing /\ announcing' = announcing \ {e}
    /\ Begin(e) \/ UNCHANGED deliveryVars
    /\ UNCHANGED <<jobs, executing, succeeded, waitVars>>

\* The dispatcher's process dies during the job.
Die ==
    /\ executing /= None /\ executing' = None
    /\ UNCHANGED <<deliveryVars, jobs, announcing, succeeded, waitVars>>

\* CleanupStaleJobs: a running job with no worker left.
Cleanup(j) ==
    /\ jobs[j].status = "running" /\ executing /= j
    /\ jobs' = [jobs EXCEPT ![j].status = "pending"]
    /\ UNCHANGED <<deliveryVars, executing, announcing, succeeded, waitVars>>

QueueStep ==
    \/ EnqueueOther \/ Succeed \/ FailAttempt \/ Die
    \/ \E j \in DOMAIN jobs : Claim(j) \/ Cleanup(j)
    \/ \E e \in announcing : Announce(e)

-----------------------------------------------------------------------------
\* May a completion of job j still be delivered to one who subscribes now?
Undelivered(j) ==
    \/ jobs[j].status \notin Settled
    \/ \E e \in announcing : e.job = j
    \/ \E i \in DOMAIN log : /\ log[i].what.job = j
                            /\ \/ Open(i)
                               \/ Visible(i) /\ log[i].seq > lastSeq
                               \/ i \in batch

\* The waiter.  Enqueue makes a job unless one is pending or running; that it
\* fails is only logged.
Ask(w) ==
    /\ at[w] = "away"
    /\ \/ Active /\ UNCHANGED jobs
       \/ ~Active /\ Len(jobs) < MaxJobs /\ jobs' \in {jobs, Append(jobs, Pending)}
    /\ at' = [at EXCEPT ![w] = "asking"]
    /\ mine' = [mine EXCEPT ![w] = Len(jobs')]
    /\ behind' = [behind EXCEPT ![w] =
                      \E j \in DOMAIN jobs : j < Len(jobs') /\ Undelivered(j)]
    /\ answer' = [answer EXCEPT ![w] = "none"]
    /\ source' = [source EXCEPT ![w] = None]
    /\ UNCHANGED <<deliveryVars, executing, announcing, succeeded>>

Answer(w, status, job) ==
    /\ answer' = [answer EXCEPT ![w] = status]
    /\ source' = [source EXCEPT ![w] = job]
    /\ UNCHANGED <<mine, behind>>

\* GetJobByResourceID, before subscribing: the newest job is over already.
FoundSettled(w) ==
    /\ at[w] = "asking" /\ NewestSettled
    /\ Answer(w, jobs[Newest].status, None)
    /\ at' = [at EXCEPT ![w] = "away"]
    /\ UNCHANGED <<deliveryVars, jobVars>>

FoundActive(w) ==
    /\ at[w] = "asking" /\ ~NewestSettled
    /\ at' = [at EXCEPT ![w] = "missing"]
    /\ UNCHANGED <<deliveryVars, jobVars, mine, behind, answer, source>>

StartWaiting(w) ==
    /\ at[w] = "missing" /\ Subscribe(w)
    /\ at' = [at EXCEPT ![w] = "waiting"]
    /\ UNCHANGED <<jobVars, mine, behind, answer, source>>

\* An event: any completion of a job of the resource is taken for an answer.
Hear(w) ==
    /\ at[w] = "waiting" /\ Take(w)
    /\ LET e == log[Head(chan[w])].what IN Answer(w, e.status, e.job)
    /\ at' = [at EXCEPT ![w] = "leaving"]
    /\ UNCHANGED jobVars

\* The ticker: the newest row.
Look(w) ==
    /\ at[w] = "waiting" /\ NewestSettled
    /\ Answer(w, jobs[Newest].status, None)
    /\ at' = [at EXCEPT ![w] = "leaving"]
    /\ UNCHANGED <<deliveryVars, jobVars>>

\* The context's deadline, or a read that fails.
GiveUp(w) ==
    /\ at[w] = "waiting"
    /\ Answer(w, "timeout", None)
    /\ at' = [at EXCEPT ![w] = "leaving"]
    /\ UNCHANGED <<deliveryVars, jobVars>>

Leave(w) ==
    /\ at[w] = "leaving" /\ Unsubscribe(w)
    /\ at' = [at EXCEPT ![w] = "away"]
    /\ UNCHANGED <<jobVars, mine, behind, answer, source>>

WaiterStep(w) == \/ Ask(w) \/ FoundSettled(w) \/ FoundActive(w)
                 \/ StartWaiting(w) \/ Hear(w) \/ Look(w) \/ GiveUp(w) \/ Leave(w)

Publish == PublishStep /\ UNCHANGED <<jobVars, waitVars>>
Deliver == PollerStep /\ UNCHANGED <<jobVars, waitVars>>

Next == Publish \/ Deliver \/ QueueStep \/ \E w \in Subs : WaiterStep(w)

Spec == Init /\ [][Next]_vars

-----------------------------------------------------------------------------
\* A waiter is told "completed" only if an executor did succeed, although the
\* row may say otherwise when the event is published (dispatcher.go:392).
CompletedHappened ==
    \A w \in Subs : answer[w] = "completed" =>
        IF source[w] /= None THEN source[w] \in succeeded
        ELSE \E j \in succeeded : j >= mine[w]

\* A waiter is misled by an older job's completion only if that was still to
\* be delivered when it asked: the poller delivers nothing a second time.
MisledWhenBehind ==
    \A w \in Subs : (source[w] /= None /\ source[w] < mine[w]) => behind[w]

(* Why both hold.  A row that says completed, and an announcement or event  *)
(* that does, name a job that succeeded; and what is executed is running.   *)
Founded(e) ==
    e.job \in DOMAIN jobs /\ (e.status = "completed" => e.job \in succeeded)

JobsFounded ==
    /\ executing /= None => jobs[executing].status = "running"
    /\ \A j \in DOMAIN jobs : jobs[j].status = "completed" => j \in succeeded
    /\ \A e \in announcing : Founded(e)
    /\ \A i \in DOMAIN log : Founded(log[i].what)

\* An older job that was done and delivered when the waiter asked stays so,
\* since a settled job never runs again: its event is not in the waiter's
\* channel.
NotMisled(w) ==
    (at[w] \in {"asking", "missing", "waiting"} /\ ~behind[w]) =>
        \A j \in DOMAIN jobs : j < mine[w] =>
            /\ ~Undelivered(j)
            /\ at[w] = "waiting" => \A i \in InChannel(w) : log[i].what.job /= j

WaitInv ==
    /\ TypeOK /\ Numbered /\ OneWriter /\ NoneLateOnSQLite /\ DeliveredOnce
    /\ JobsFounded /\ CompletedHappened /\ MisledWhenBehind
    /\ \A w \in Subs : NotMisled(w)

(* The queue of this module is the contract of ResourceJobs for one         *)
(* resource, and so what JobQueue shows of it: rows of the table, and the   *)
(* one job that is executed.                                                *)
RowStatus(rows) ==
    [j \in Jobs |-> IF j \in DOMAIN rows THEN rows[j].status ELSE "absent"]
RowAttempts(rows) ==
    [j \in Jobs |-> IF j \in DOMAIN rows THEN rows[j].attempts ELSE 0]

Queue == INSTANCE ResourceJobs WITH
            ResourceOf <- [j \in Jobs |-> None],
            MaxAttempts <- [j \in Jobs |-> MaxAttempts],
            status <- RowStatus(jobs), attempts <- RowAttempts(jobs),
            executing <- {executing} \ {None}

KeepsQueueContract == Queue!Spec

=============================================================================
