--------------------------- MODULE PromptHandoff ---------------------------
(***************************************************************************)
(* The durable handoff of a user's prompt from the server to the agent in  *)
(* the session's sandbox (server/internal/service/chat_submission.go and   *)
(* the prompt_submissions table).                                          *)
(*                                                                         *)
(* SubmitPrompt stores the prompt, enqueues a dispatch job and, unless the *)
(* session is still being set up, dispatches the prompt itself.  Both call *)
(* DispatchPromptSubmission, which claims the row (pending ->              *)
(* dispatching), posts the prompt to the agent and writes the outcome.     *)
(* Each of these calls is a lane of a server process: one per request that *)
(* is served concurrently, and one for the dispatch job.  At startup a     *)
(* process puts dispatching rows back to pending and enqueues their jobs,  *)
(* while it already serves requests and runs jobs.                         *)
(*                                                                         *)
(* The agent is abstract here: it takes a post (starts or queues the       *)
(* prompt), refuses it, or reports that another completion is in progress. *)
(* Of the job queue, only what a dispatch job can observe is kept: at most *)
(* one active job per prompt, executed once at a time, retried up to       *)
(* MaxTries times, put back if its worker is gone.  A post that is handled *)
(* is handled before its caller gives up on it.                            *)
(***************************************************************************)
EXTENDS Naturals

CONSTANTS
    Servers,
    Prompts,      \* prompt submissions of one session
    Requests,     \* lanes of SubmitPrompt calls for one prompt on one server
    Job,          \* the lane of the dispatch job
    MaxTries,     \* max_attempts of a dispatch job
    MaxFaults     \* bound on the faults of a behaviour

Lanes == Requests \cup {Job}

ASSUME HandoffAssumption ==
    /\ Job \notin Requests
    /\ MaxTries \in Nat \ {0}
    /\ MaxFaults \in Nat

VARIABLES
    status,      \* prompt -> status of its row, "absent" or "deleted"
    payload,     \* prompt -> the row still holds the encrypted messages
    job,         \* prompt -> its active dispatch job
    tries,       \* prompt -> attempts of that job, MaxTries when more
    session,     \* what SubmitPrompt and the dispatch see of the session
    proc,        \* server -> life of the process and of its reconciliation
    todo,        \* server -> prompt -> what reconciliation still has to do
    call,        \* server -> lane -> prompt -> where the call is
    copy,        \* server -> lane -> prompt -> the call has read the messages
    taken,       \* history: prompt -> times the agent started or queued it
    conflicted,  \* history: prompts a post of which met another completion
    overruled,   \* history: prompts that were put back to pending, or failed
                 \* for a closed session, while a call was dispatching them
                 \* or after they were accepted
    reopened,    \* history: prompts put back to pending by a resubmission or
                 \* by reconciliation while they had an active job
    faults       \* history: faults so far

rowVars == <<status, payload>>
jobVars == <<job, tries>>
callVars == <<call, copy>>
agentVars == <<taken, conflicted>>
historyVars == <<overruled, reopened>>
vars == <<rowVars, jobVars, session, proc, todo, callVars, agentVars,
          historyVars, faults>>

Status == {"absent", "pending", "dispatching", "accepted", "failed", "deleted"}
Unsettled == {"pending", "dispatching"}

\* "starting": serving, but its reconciliation has not listed the rows yet.
Proc == {"down", "starting", "up"}

\* A call that has claimed the row, up to the write of its outcome.
Dispatching ==
    {"claimed", "posting", "started", "conflict", "refused", "unreached"}
\* The job lane's executor has returned, its result is not written yet.
Returned == {"ok", "error"}
Step == {"idle", "releasing", "enqueueing", "routing",
         "reading", "checking", "claiming"} \cup Dispatching \cup Returned

TypeOK ==
    /\ status \in [Prompts -> Status]
    /\ payload \in [Prompts -> BOOLEAN]
    /\ job \in [Prompts -> {"none", "pending", "running"}]
    /\ tries \in [Prompts -> 0 .. MaxTries]
    /\ session \in {"initializing", "ready", "removing", "removed"}
    /\ proc \in [Servers -> Proc]
    /\ todo \in [Servers -> [Prompts -> {"none", "release", "enqueue"}]]
    /\ call \in [Servers -> [Lanes -> [Prompts -> Step]]]
    /\ copy \in [Servers -> [Lanes -> [Prompts -> BOOLEAN]]]
    /\ taken \in [Prompts -> Nat]
    /\ conflicted \in SUBSET Prompts
    /\ overruled \in SUBSET Prompts
    /\ reopened \in SUBSET Prompts
    /\ faults \in 0 .. MaxFaults

NoCalls == [k \in Lanes |-> [p \in Prompts |-> "idle"]]
NoCopies == [k \in Lanes |-> [p \in Prompts |-> FALSE]]
NothingToDo == [p \in Prompts |-> "none"]

Init ==
    /\ status = [p \in Prompts |-> "absent"]
    /\ payload = [p \in Prompts |-> FALSE]
    /\ job = [p \in Prompts |-> "none"]
    /\ tries = [p \in Prompts |-> 0]
    /\ session = "initializing"
    /\ proc = [s \in Servers |-> "down"]
    /\ todo = [s \in Servers |-> NothingToDo]
    /\ call = [s \in Servers |-> NoCalls]
    /\ copy = [s \in Servers |-> NoCopies]
    /\ taken = [p \in Prompts |-> 0]
    /\ conflicted = {}
    /\ overruled = {}
    /\ reopened = {}
    /\ faults = 0

Fault == faults < MaxFaults /\ faults' = faults + 1

-----------------------------------------------------------------------------
(* Writes to the row and steps of a call.                                  *)

Dispatchers(p) ==
    {c \in Servers \X Lanes : call[c[1]][c[2]][p] \in Dispatching}

\* UPDATE ... WHERE id = p: nothing happens if the row was deleted.
WriteStatus(p, st) ==
    status' = IF status[p] = "deleted" THEN status
              ELSE [status EXCEPT ![p] = st]

ReleaseToPending(p) == WriteStatus(p, "pending") /\ UNCHANGED payload

\* Mutant: the row gets the status that a session would get.
MarkFailedAsError(p) == WriteStatus(p, "error") /\ UNCHANGED payload

MarkFailed(p) == WriteStatus(p, "failed") /\ UNCHANGED payload
MarkAccepted(p) ==
    /\ WriteStatus(p, "accepted")
    /\ payload' = [payload EXCEPT ![p] = FALSE]

\* Three callers write the row without being its dispatcher and whatever its
\* status has become: a resubmission and a reconciliation that put it back,
\* and a call that finds the session closed.  History: what they wrote over.
Overrule(p) ==
    overruled' =
        IF status[p] = "accepted" \/ (status[p] # "deleted" /\ Dispatchers(p) # {})
        THEN overruled \cup {p} ELSE overruled

PutBack(p) ==
    /\ ReleaseToPending(p) /\ Overrule(p)
    /\ reopened' = IF job[p] = "none" THEN reopened ELSE reopened \cup {p}

At(s, k, p, step) == proc[s] # "down" /\ call[s][k][p] = step
Goto(s, k, p, step) ==
    call' = [call EXCEPT ![s][k][p] = step] /\ UNCHANGED copy

\* DispatchPromptSubmission returns: a request has its answer, the job's
\* executor hands its result to the dispatcher.
Return(s, k, p, result) ==
    /\ call' = [call EXCEPT ![s][k][p] = IF k = Job THEN result ELSE "idle"]
    /\ copy' = [copy EXCEPT ![s][k][p] = FALSE]

(* enqueuePromptDispatch: a no-op while the prompt has an active job.      *)
EnqueueDispatch(p) ==
    IF job[p] = "none"
    THEN /\ job' = [job EXCEPT ![p] = "pending"]
         /\ tries' = [tries EXCEPT ![p] = 0]
    ELSE UNCHANGED jobVars

\* An Enqueue that fails for another reason is logged and nothing else.
TryEnqueueDispatch(p) ==
    \/ EnqueueDispatch(p) /\ UNCHANGED faults
    \/ Fault /\ UNCHANGED jobVars

-----------------------------------------------------------------------------
(* SubmitPrompt.                                                           *)

(* getOrCreatePromptSubmission.  The unique index on (session, thread,     *)
(* message id) makes a concurrent create find the other's row.  A row that *)
(* has lost its payload without being accepted answers with an error.      *)
SubmitPrompt(s, r, p) ==
    /\ At(s, r, p, "idle")
    /\ session # "removed"
    /\ \/ /\ status[p] = "absent"
          /\ status' = [status EXCEPT ![p] = "pending"]
          /\ payload' = [payload EXCEPT ![p] = TRUE]
          /\ Goto(s, r, p, "enqueueing")
       \/ /\ status[p] \in Unsettled /\ payload[p]
          /\ Goto(s, r, p, "enqueueing")
          /\ UNCHANGED rowVars
       \/ /\ status[p] = "failed" /\ payload[p]
          /\ Goto(s, r, p, "releasing")
          /\ UNCHANGED rowVars
    /\ UNCHANGED <<jobVars, session, proc, todo, agentVars, historyVars,
                   faults>>

ReleaseFailed(s, r, p) ==
    /\ At(s, r, p, "releasing")
    /\ PutBack(p)
    /\ Goto(s, r, p, IF status[p] = "deleted" THEN "idle" ELSE "enqueueing")
    /\ UNCHANGED <<jobVars, session, proc, todo, agentVars, faults>>

\* Mutant: no job is enqueued for a prompt that is about to be dispatched.
EnqueueUnlessReady(s, r, p) ==
    /\ At(s, r, p, "enqueueing")
    /\ IF session = "ready" THEN UNCHANGED <<jobVars, faults>>
       ELSE TryEnqueueDispatch(p)
    /\ Goto(s, r, p, "routing")
    /\ UNCHANGED <<rowVars, session, proc, todo, agentVars, historyVars>>

SubmitEnqueue(s, r, p) ==
    /\ At(s, r, p, "enqueueing")
    /\ TryEnqueueDispatch(p)
    /\ Goto(s, r, p, "routing")
    /\ UNCHANGED <<rowVars, session, proc, todo, agentVars, historyVars>>

(* shouldQueuePromptUntilSessionReady leaves the prompt to its job.        *)
RouteSubmission(s, r, p) ==
    /\ At(s, r, p, "routing")
    /\ Goto(s, r, p, IF session = "initializing" THEN "idle" ELSE "reading")
    /\ UNCHANGED <<rowVars, jobVars, session, proc, todo, agentVars,
                   historyVars, faults>>

-----------------------------------------------------------------------------
(* DispatchPromptSubmission.                                               *)

ReadSubmission(s, k, p) ==
    /\ At(s, k, p, "reading")
    /\ \/ /\ status[p] = "pending"
          /\ call' = [call EXCEPT ![s][k][p] = "checking"]
          /\ copy' = [copy EXCEPT ![s][k][p] = payload[p]]
       \/ /\ status[p] # "pending"
          /\ Return(s, k, p, "ok")
    /\ UNCHANGED <<rowVars, jobVars, session, proc, todo, agentVars, historyVars,
                   faults>>

(* finishPromptDispatchForClosedSession: whatever the row is by now.       *)
CheckSession(s, k, p) ==
    /\ At(s, k, p, "checking")
    /\ IF session \in {"removing", "removed"}
       THEN MarkFailed(p) /\ Overrule(p) /\ Return(s, k, p, "ok")
       ELSE Goto(s, k, p, "claiming") /\ UNCHANGED <<rowVars, overruled>>
    /\ UNCHANGED <<jobVars, session, proc, todo, agentVars, reopened, faults>>

\* Mutant: the update does not test the status it read.
ClaimAnyStatus(s, k, p) ==
    /\ At(s, k, p, "claiming")
    /\ WriteStatus(p, "dispatching")
    /\ Goto(s, k, p, "claimed")
    /\ UNCHANGED <<payload, jobVars, session, proc, todo, agentVars,
                   historyVars, faults>>

ClaimForDispatch(s, k, p) ==
    /\ At(s, k, p, "claiming")
    /\ IF status[p] = "pending"
       THEN WriteStatus(p, "dispatching") /\ Goto(s, k, p, "claimed")
       ELSE UNCHANGED status /\ Return(s, k, p, "ok")
    /\ UNCHANGED <<payload, jobVars, session, proc, todo, agentVars,
                   historyVars, faults>>

(* prepareChatRequest, which waits for a sandbox that is ready and fails   *)
(* if it cannot get one, and then decryptPromptPayload.                    *)
PrepareRequest(s, k, p) ==
    /\ At(s, k, p, "claimed")
    /\ \/ /\ Fault \/ (session = "removed" /\ UNCHANGED faults)
          /\ ReleaseToPending(p)
          /\ Return(s, k, p, "error")
       \/ /\ ~copy[s][k][p]
          /\ MarkFailed(p)
          /\ Return(s, k, p, "error")
          /\ UNCHANGED faults
       \/ /\ copy[s][k][p] /\ session # "removed"
          /\ Goto(s, k, p, "posting")
          /\ UNCHANGED <<rowVars, faults>>
    /\ UNCHANGED <<jobVars, session, proc, todo, agentVars, historyVars>>

(* StartChat.  The agent starts or queues the prompt; refuses it (a        *)
(* question is pending, a bad request); or, if another completion got in   *)
(* first, answers completion_in_progress.                                  *)
StartChat(s, k, p) ==
    /\ At(s, k, p, "posting")
    /\ \/ /\ taken' = [taken EXCEPT ![p] = @ + 1]
          /\ Goto(s, k, p, "started")
          /\ UNCHANGED conflicted
       \/ /\ conflicted' = conflicted \cup {p}
          /\ Goto(s, k, p, "conflict")
          /\ UNCHANGED taken
       \/ /\ Goto(s, k, p, "refused")
          /\ UNCHANGED agentVars
    /\ UNCHANGED <<rowVars, jobVars, session, proc, todo, historyVars,
                   faults>>

(* The post fails, before the agent handled it or after (its answer is     *)
(* lost): retryWithBackoff posts again, or gives up.                       *)
PostFails(s, k, p) ==
    /\ At(s, k, p, "posting")
    /\ Fault
    /\ \/ taken' = [taken EXCEPT ![p] = @ + 1]
       \/ UNCHANGED taken
    /\ \/ UNCHANGED callVars
       \/ Goto(s, k, p, "unreached")
    /\ UNCHANGED <<rowVars, jobVars, session, proc, todo, conflicted,
                   historyVars>>

\* Mutant: every refusal is taken for an answer to an earlier post.
AcceptRefused(s, k, p) ==
    /\ \E step \in {"started", "conflict", "refused"} : At(s, k, p, step)
    /\ MarkAccepted(p)
    /\ Return(s, k, p, "ok")
    /\ UNCHANGED <<jobVars, session, proc, todo, agentVars, historyVars,
                   faults>>

(* The outcome is written.  completion_in_progress counts as acceptance    *)
(* (handlePromptDispatchError).                                            *)
AcceptStarted(s, k, p) ==
    /\ \E step \in {"started", "conflict"} : At(s, k, p, step)
    /\ MarkAccepted(p)
    /\ Return(s, k, p, "ok")
    /\ UNCHANGED <<jobVars, session, proc, todo, agentVars, historyVars,
                   faults>>

HandleDispatchError(s, k, p) ==
    /\ \/ At(s, k, p, "refused") /\ MarkFailed(p)
       \/ At(s, k, p, "unreached") /\ ReleaseToPending(p)
    /\ Return(s, k, p, "error")
    /\ UNCHANGED <<jobVars, session, proc, todo, agentVars, historyVars,
                   faults>>

(* The outcome cannot be written: the database fails, or the job's context *)
(* has expired (which also ends a post or a wait for the sandbox).  The    *)
(* row stays dispatching.                                                  *)
OutcomeLost(s, k, p) ==
    /\ proc[s] # "down" /\ call[s][k][p] \in Dispatching
    /\ Fault
    /\ Return(s, k, p, "error")
    /\ UNCHANGED <<rowVars, jobVars, session, proc, todo, agentVars,
                   historyVars>>

-----------------------------------------------------------------------------
(* The dispatch job.                                                       *)

StartJob(s, p) ==
    /\ At(s, Job, p, "idle")
    /\ job[p] = "pending"
    /\ job' = [job EXCEPT ![p] = "running"]
    /\ tries' = [tries EXCEPT ![p] = IF @ < MaxTries THEN @ + 1 ELSE @]
    /\ Goto(s, Job, p, "reading")
    /\ UNCHANGED <<rowVars, session, proc, todo, agentVars, historyVars,
                   faults>>

(* The dispatcher writes the job's result: CompleteJob, or FailJob, which  *)
(* retries the job if it has attempts left.                                *)
JobReturns(s, p) ==
    /\ \E result \in Returned : At(s, Job, p, result)
    /\ job' = [job EXCEPT ![p] =
                  IF call[s][Job][p] = "error" /\ tries[p] < MaxTries
                  THEN "pending" ELSE "none"]
    /\ Goto(s, Job, p, "idle")
    /\ UNCHANGED <<rowVars, tries, session, proc, todo, agentVars,
                   historyVars, faults>>

\* Mutant: a job without attempts left is not put back.
ResetWithinAttempts(p) ==
    /\ job[p] = "running" /\ tries[p] < MaxTries
    /\ \A s \in Servers : call[s][Job][p] = "idle"
    /\ \E s \in Servers : proc[s] # "down"
    /\ job' = [job EXCEPT ![p] = "pending"]
    /\ UNCHANGED <<rowVars, tries, session, proc, todo, callVars, agentVars,
                   historyVars, faults>>

(* CleanupStaleJobs, for a job whose worker is gone.                       *)
ResetJob(p) ==
    /\ job[p] = "running"
    /\ \A s \in Servers : call[s][Job][p] = "idle"
    /\ \E s \in Servers : proc[s] # "down"
    /\ job' = [job EXCEPT ![p] = "pending"]
    /\ UNCHANGED <<rowVars, tries, session, proc, todo, callVars, agentVars,
                   historyVars, faults>>

-----------------------------------------------------------------------------
(* The life of a server process, and ReconcilePromptSubmissions.           *)

Start(s) ==
    /\ proc[s] = "down"
    /\ proc' = [proc EXCEPT ![s] = "starting"]
    /\ UNCHANGED <<rowVars, jobVars, session, todo, callVars, agentVars,
                   historyVars, faults>>

Reconcile(s) ==
    /\ proc[s] = "starting"
    /\ proc' = [proc EXCEPT ![s] = "up"]
    /\ todo' = [todo EXCEPT ![s] = [p \in Prompts |->
                   CASE status[p] = "dispatching" -> "release"
                     [] status[p] = "pending" -> "enqueue"
                     [] OTHER -> "none"]]
    /\ UNCHANGED <<rowVars, jobVars, session, callVars, agentVars, historyVars,
                   faults>>

ReconcileRelease(s, p) ==
    /\ proc[s] = "up" /\ todo[s][p] = "release"
    /\ PutBack(p)
    /\ todo' = [todo EXCEPT ![s][p] = "enqueue"]
    /\ UNCHANGED <<jobVars, session, proc, callVars, agentVars, faults>>

ReconcileEnqueue(s, p) ==
    /\ proc[s] = "up" /\ todo[s][p] = "enqueue"
    /\ TryEnqueueDispatch(p)
    /\ todo' = [todo EXCEPT ![s][p] = "none"]
    /\ UNCHANGED <<rowVars, session, proc, callVars, agentVars, historyVars>>

(* The list, or the release of one row, fails: the rest is left alone.     *)
ReconcileFails(s) ==
    /\ proc[s] = "starting" \/ \E p \in Prompts : todo[s][p] = "release"
    /\ Fault
    /\ proc' = [proc EXCEPT ![s] = "up"]
    /\ todo' = [todo EXCEPT ![s] = NothingToDo]
    /\ UNCHANGED <<rowVars, jobVars, session, callVars, agentVars, historyVars>>

Crash(s) ==
    /\ proc[s] # "down"
    /\ Fault
    /\ proc' = [proc EXCEPT ![s] = "down"]
    /\ todo' = [todo EXCEPT ![s] = NothingToDo]
    /\ call' = [call EXCEPT ![s] = NoCalls]
    /\ copy' = [copy EXCEPT ![s] = NoCopies]
    /\ UNCHANGED <<rowVars, jobVars, session, agentVars, historyVars>>

-----------------------------------------------------------------------------
(* The session, as far as it matters here: set up, set up again, deleted.  *)

SessionChanges ==
    /\ session' \in CASE session = "initializing" -> {"ready", "removing"}
                      [] session = "ready" -> {"initializing", "removing"}
                      [] OTHER -> {}
    /\ UNCHANGED <<rowVars, jobVars, proc, todo, callVars, agentVars,
                   historyVars, faults>>

\* Store.DeleteSession deletes the session's submissions with it.
DeleteSession ==
    /\ session = "removing"
    /\ session' = "removed"
    /\ status' = [p \in Prompts |->
                     IF status[p] = "absent" THEN "absent" ELSE "deleted"]
    /\ payload' = [p \in Prompts |-> FALSE]
    /\ UNCHANGED <<jobVars, proc, todo, callVars, agentVars, historyVars, faults>>

-----------------------------------------------------------------------------

SubmitStep(s, r, p) ==
    \/ ReleaseFailed(s, r, p)
    \/ SubmitEnqueue(s, r, p)
    \/ RouteSubmission(s, r, p)

DispatchStep(s, k, p) ==
    \/ ReadSubmission(s, k, p)
    \/ CheckSession(s, k, p)
    \/ ClaimForDispatch(s, k, p)
    \/ PrepareRequest(s, k, p)
    \/ StartChat(s, k, p)
    \/ AcceptStarted(s, k, p)
    \/ HandleDispatchError(s, k, p)

JobStep(s, p) == StartJob(s, p) \/ JobReturns(s, p)

ReconcileStep(s) ==
    \/ Reconcile(s)
    \/ \E p \in Prompts : ReconcileRelease(s, p) \/ ReconcileEnqueue(s, p)

Next ==
    \/ \E s \in Servers, p \in Prompts :
          \/ \E r \in Requests : SubmitPrompt(s, r, p) \/ SubmitStep(s, r, p)
          \/ \E k \in Lanes : DispatchStep(s, k, p) \/ PostFails(s, k, p)
                                  \/ OutcomeLost(s, k, p)
          \/ JobStep(s, p)
    \/ \E s \in Servers : Start(s) \/ ReconcileStep(s)
                             \/ ReconcileFails(s) \/ Crash(s)
    \/ \E p \in Prompts : ResetJob(p)
    \/ SessionChanges
    \/ DeleteSession

(* A call that runs goes on, jobs are executed, a process that ended is    *)
(* started again and reconciles.  Nobody has to submit a prompt, and       *)
(* nothing has to fail.                                                    *)
Fairness ==
    /\ \A s \in Servers :
          /\ WF_vars(Start(s))
          /\ WF_vars(ReconcileStep(s))
          /\ \A p \in Prompts :
                /\ WF_vars(JobStep(s, p))
                /\ \A r \in Requests : WF_vars(SubmitStep(s, r, p))
                /\ \A k \in Lanes : WF_vars(DispatchStep(s, k, p))
    /\ \A p \in Prompts : WF_vars(ResetJob(p))

Spec == Init /\ [][Next]_vars

FairSpec == Spec /\ Fairness

-----------------------------------------------------------------------------
(* Properties.                                                             *)

(* A submission is reported as accepted only if the agent took the prompt, *)
(* or a post of it met another completion (MarkPromptSubmissionAccepted).  *)
AcceptedWasTaken ==
    \A p \in Prompts :
        status[p] = "accepted" => taken[p] > 0 \/ p \in conflicted

(* A prompt is dispatched by one call at a time, and its row says so until *)
(* the call writes its outcome, whatever fails and however many requests   *)
(* and jobs claim it: the claim alone keeps them apart                     *)
(* (ClaimPromptSubmissionForDispatch).  What it cannot prevent is that the *)
(* row is put back, or failed for a closed session, under a dispatcher.    *)
SoleDispatcher ==
    \A p \in Prompts : p \notin overruled =>
        \A c, d \in Dispatchers(p) :
            c = d /\ status[p] \in {"dispatching", "deleted"}

(* Without a fault the agent takes a prompt at most once, whoever submits  *)
(* it however often, and whether its requests and its job claim it before, *)
(* during or after a dispatch, unless its row was put back under one.      *)
TakenOnce ==
    \A p \in Prompts : faults = 0 /\ p \notin overruled => taken[p] <= 1

(* A prompt is stranded when its row is unsettled and no call, job or       *)
(* reconciliation that is under way will change that: a pending row that    *)
(* nobody is going to read, or a dispatching row without a dispatcher,      *)
(* which later calls and jobs take for somebody else's (l. 127).            *)
Stranded(p) ==
    /\ \A s \in Servers : proc[s] = "up" /\ todo[s][p] # "release"
    /\ \/ /\ status[p] = "pending"
          /\ job[p] = "none"
          /\ \A s \in Servers :
                todo[s][p] = "none" /\ \A k \in Lanes : call[s][k][p] = "idle"
       \/ /\ status[p] = "dispatching"
          /\ \A s \in Servers, k \in Lanes :
                call[s][k][p] \notin Dispatching \cup {"releasing", "checking"}

(* That takes a fault, or that the prompt was put back to pending while its *)
(* job was on the way out, so that enqueueing it again did nothing:         *)
(* otherwise requests, the job and reconciliation never overlap in a way    *)
(* that strands a prompt.                                                   *)
StrandedNeedsFault ==
    faults = 0 => \A p \in Prompts \ reopened : ~Stranded(p)

(* Why StrandedNeedsFault holds.  Until a fault, whatever dispatches a      *)
(* prompt writes the row when it is done, and a pending row is expected by  *)
(* a job, a reconciliation or a request that is about to enqueue a job -    *)
(* unless it was put back while a job that had looked at it was ending.     *)
Expected(p) ==
    \/ job[p] # "none"
    \/ \E s \in Servers : proc[s] # "up" \/ todo[s][p] # "none"
    \/ \E s \in Servers, r \in Requests : call[s][r][p] = "enqueueing"

\* What does not exist yet is in nobody's hands, nor is what is gone written.
Existing(p) ==
    /\ status[p] = "absent" =>
          /\ job[p] = "none"
          /\ \A s \in Servers : todo[s][p] = "none"
          /\ \A s \in Servers, k \in Lanes : call[s][k][p] = "idle"
    /\ session = "removed" => status[p] \in {"absent", "deleted"}

JobRunsOnce(p) ==
    \A s, t \in Servers : call[s][Job][p] # "idle" =>
        job[p] = "running" /\ (call[t][Job][p] # "idle" => s = t)

InHand(p) ==
    /\ \A s \in Servers, k \in Lanes : call[s][k][p] # "unreached"
    /\ status[p] = "dispatching" =>
          \E s \in Servers, k \in Lanes : call[s][k][p] \in Dispatching
    /\ p \notin reopened /\ status[p] = "pending" =>
          /\ Expected(p)
          /\ \A s \in Servers : call[s][Job][p] \notin Returned

HandInv ==
    faults = 0 => \A p \in Prompts : Existing(p) /\ JobRunsOnce(p) /\ InHand(p)

(* And to be stranded is the only way not to arrive: whatever fails on the  *)
(* way and however often it is submitted, an unsettled prompt is accepted,  *)
(* failed or deleted in the end, or stranded.                               *)
SettlesOrStranded ==
    \A p \in Prompts :
        status[p] \in Unsettled ~> status[p] \notin Unsettled \/ Stranded(p)

-----------------------------------------------------------------------------
(* What that amounts to for who submits prompts, and for who is told what   *)
(* became of them (PromptLedger).                                           *)

\* Where a prompt with that status stands.
Standing(st) ==
    CASE st \in Unsettled -> "open" [] st = "deleted" -> "gone" [] OTHER -> st

\* Whatever fails may concern any prompt.
Disturbed == IF faults > 0 THEN Prompts ELSE overruled

Ledger == INSTANCE PromptLedger WITH
              state <- [p \in Prompts |-> Standing(status[p])],
              met <- conflicted,
              disturbed <- Disturbed

(* The table of submissions answers for what the agent was given: accepted  *)
(* prompts were taken, failed ones were not, and nothing is taken twice or  *)
(* taken back, unless something failed or the row was put back, or failed   *)
(* for a closed session, under its dispatcher or after its acceptance.      *)
KeepsLedger == Ledger!Spec

(* In terms of the rows: a prompt that failed without a fault was not       *)
(* taken, so that it can be submitted again.                                *)
FailedWasNotTaken ==
    \A p \in Prompts :
        faults = 0 /\ p \notin overruled /\ status[p] = "failed" => taken[p] = 0

\* Who has read the row and is going to write it whatever it says by then.
StaleReader(p) ==
    \/ \E s \in Servers : todo[s][p] = "release"
    \/ \E s \in Servers, r \in Requests : call[s][r][p] = "releasing"
    \/ /\ session \in {"removing", "removed"}
       /\ \E s \in Servers, k \in Lanes : call[s][k][p] = "checking"

(* And an acceptance is final, whatever fails: the agent is not given the   *)
(* prompt once more by a claim, a post or a retry that was under way, and   *)
(* the row stays accepted until the session is deleted - but for the three  *)
(* writers that go by an earlier look at the row, which the step must be    *)
(* one of.                                                                  *)
KeepsAcceptance ==
    \A p \in Prompts :
        status[p] = "accepted" /\ p \notin overruled =>
            /\ taken'[p] = taken[p]
            /\ status'[p] \in {"accepted", "deleted"} \/ StaleReader(p)
AcceptanceIsFinal == [][KeepsAcceptance]_vars
=============================================================================
