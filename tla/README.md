# TLA+ models of Discobot

Discobot runs AI coding agents in sandboxes. A Go server keeps projects,
sessions and prompts in SQLite or Postgres, does its slow work in background
jobs, and talks to an agent process inside each session's sandbox. This
directory holds TLA+ models of that system, the TLC runs that check them on
small instances, and proofs, checked by TLAPS, of the properties that matter
most.

The server's core is modelled: who may execute background jobs
(`LeaderElection`), how jobs are executed (`JobQueue`, which implements the abstract
`ResourceJobs`), how a user's prompt reaches
the agent (`PromptHandoff`, which implements the abstract `PromptLedger`), how events reach clients and waiters
(`EventDelivery`, `EventStream`, `JobWait`), and the life of a session
(`SessionLifecycle`). So is the agent's: how prompts wait and are started
(`PromptQueue`, which implements the abstract `PromptPromises`), and how a turn is executed and survives crashes
(`TurnExecution`, which implements the abstract `TurnContract`).

- [Inventory](#inventory)
- [Modules](#modules): [LeaderElection](#leaderelection),
  [JobQueue and ResourceJobs](#jobqueue-and-resourcejobs), [PromptHandoff and PromptLedger](#prompthandoff-and-promptledger),
  [TurnExecution and TurnContract](#turnexecution-and-turncontract),
  [PromptQueue and PromptPromises](#promptqueue-and-promptpromises),
  [EventDelivery, EventStream and JobWait](#eventdelivery-eventstream-and-jobwait),
  [SessionLifecycle](#sessionlifecycle)
- [Runs](#runs), [Findings](#findings), [Known disagreements](#known-disagreements),
  [Proofs](#proofs)
- [What is not modelled](#what-is-not-modelled), [Plan](#plan)

Paths are relative to `src/`; `store.go` is `server/internal/store/store.go`,
`dispatcher.go` is `server/internal/dispatcher/dispatcher.go`, `session.go` and
`sandbox.go` are in `server/internal/service/`, `turn.go` in `agent-go/thread/`.
`PROJECT.json` maps every definition to the lines it models, lists the hazards
at the lines where they bite with the properties that would catch them, and
names for every property a mutation of the code that violates it.

## Inventory

| Component | State | Operations | Interacts with | What is hard |
|---|---|---|---|---|
| **Leader election** (`dispatcher.go:230-280`, `store.go:1185-1256`) | the one row of `dispatcher_leaders`; `isLeader` of each server | acquire or heartbeat, release, expire | job queue (who claims) | the transaction reads, decides, and writes the row by key: two servers interleave; crashes; clocks |
| **Job queue and dispatcher** (`jobs/queue.go`, `dispatcher.go`, `store.go:1010-1180`) | the `jobs` table; per process the claim loop, the executors and `runningJobs` | enqueue, claim, complete, fail and retry, stale cleanup, start, drain, stop | every executor; events | claims that interleave, late results, presumed-dead workers, drain and crash, limits |
| **Prompt handoff** (`service/chat_submission.go`, `dispatcher/prompt_dispatch.go`, `store.go:385-432`) | the `prompt_submissions` table | submit, dispatch, reconcile at startup | job queue, sandbox, agent, session | two calls (request and job) per prompt, lost answers, crash between claim and outcome |
| **Server events and job waiting** (`events/`, `handler/events.go`) | event rows, `lastSeq`, subscriber channels | publish, poll, subscribe, stream, WaitForJobCompletion | everything that shows progress | sequence gaps, full channels, an earlier job's event |
| **Session lifecycle and commit** (`service/session.go`, `dispatcher/session_*.go`) | a session's status and commit status | create, init, delete, commit, reconcile | jobs, sandbox, events | whole-row saves that overwrite each other, check-then-act, partial deletion |
| **Sandbox service and idle monitor** (`service/sandbox.go`, `service/sandbox_idle_monitor.go`, `sandbox/`) | sandboxes of a provider, runtime state | ensure, reconcile, stop, remove | providers, session, agent | stop races new work; two callers create |
| Sandbox HTTP client cache (`sandbox/http_client_cache.go`) | clients by session, reference counts | acquire, release, remove | every call of an agent | replaced or removed while it is being built or used |
| Thread status syncer (`service/session_thread_status_syncer.go`) | status per session in memory and in its row | snapshot, stream, refresh | agent, events | older snapshots overtake newer ones |
| **Agent prompt queue** (`agent-go/promptqueue/`) | persisted queue per thread, timers | start or queue, start next, put back | conversations, hooks | check-then-start, a crash between take and start |
| **Agent conversations and turns** (`agent-go/agent/conversation.go`, `agent-go/thread/`) | active completion per thread with its events, turn files | start, cancel, stream, resume, delete | prompt queue, tools | concurrent streams, cancellation, interrupted turns |
| Agent hooks (`agent-go/internal/hooks/`) | hook status, pending runs | evaluate, run, reprompt | prompt queue | reprompts that meet a running completion |
| Agent processes, services, watchers, tools | processes, ports, files | start, stop, watch | operating system | mostly external |
| Providers, MCP, messages; credentials and OAuth; git; terminal and SSH; HTTP handlers; startup; proxy; control socket; VM launchers; UI; catalogue and scripts | see `PROJECT.json` | | | translation, I/O, presentation |

What makes each of them correct:

- *Leader election*: two servers do not both lead unless a heartbeat has
  expired; once faults stop, exactly one leads.
- *Job queue*: the jobs of one resource are executed one at a time; a process
  stays within its limit for each type; a settled job never changes; every job
  settles, whatever crashes.
- *Prompt handoff*: what is reported as accepted was taken by the agent; one
  call dispatches a prompt at a time; the agent takes a prompt once; every
  prompt is settled.
- *Events*: a stream sends no event twice and misses none between its history
  and its live part, unless its channel was full or the event was committed behind
  the poller; a waiter is not told that something completed that did not.
- *Session*: no job starts the sandbox of a deleted session; a commit that is
  shown as under way is under way; a sandbox outlives its session only as long as
  the deferred deletion says; a removed session stays removed (the code does not
  keep this, see Findings).
- *Prompt queue*: a prompt is in one place from the time it is promised to the
  time a turn takes it; somebody always has the duty to start an idle queue.
- *Turns*: a step is left only when every call has its result; a call is executed
  and recorded once unless something failed; the model is sent a complete history; a
  turn ends or rests at a question; what a crash interrupts is closed.

## Modules

| Module | Extends | Holds |
|---|---|---|
| `LeaderElection` | | the leader row and the servers' flags |
| `ResourceJobs` | | what the queue promises of the jobs of its resources: an abstract specification |
| `JobQueue` | `LeaderElection`, instantiates `ResourceJobs` | the job table and the dispatcher of every server; composes with `LeaderElection` by taking its variables and actions into its own |
| `PromptLedger` | | what the server's answers about a prompt are worth: an abstract specification |
| `PromptHandoff` | instantiates `PromptLedger` | prompt submissions, with the job queue and the agent abstract |
| `TurnContract` | | what the step loop promises of a turn: the abstract specification |
| `TurnExecution` | instantiates `TurnContract` | one turn of one thread, its disk and its memory |
| `PromptPromises` | | what the agent promises of the prompts of a thread: an abstract specification |
| `PromptQueue` | instantiates `PromptPromises` | the queue of one thread, its timers, and the completions it starts; of a turn only none, open or question, as `TurnExecution` shows it |
| `EventDelivery` | | event rows, the poller and its subscribers: steps without a `Next` |
| `EventStream` | `EventDelivery` | clients that connect and ask for history |
| `JobWait` | `EventDelivery`, instantiates `ResourceJobs` | the jobs of a resource and a caller that waits for one |
| `SessionLifecycle` | | one session, its jobs, its sandbox, restart and reconciliation |
| `MC...` | the above | instances for TLC |
| `JobQueueProofs`, `PromptHandoffProofs`, `TurnExecutionProofs`, `PromptQueueProofs`, `SessionLifecycleProofs` | the above, `TLAPS` | theorems; `JobQueueProofs` also holds those about `LeaderElection` |
| `EventDeliveryProofs` | `EventDelivery`, `TLAPS` | lemmas about rows, poller and channels |
| `EventStreamProofs`, `JobWaitProofs` | the module and `EventDeliveryProofs` | theorems |

Some definitions are marked *Mutant*: they are not part of any specification, but
a plausible slip in the code next to the definition they would replace.

### LeaderElection

With Postgres several servers share a database, and only the leader claims jobs.

| Model | Code |
|---|---|
| `holder`, `fresh` | `server_id` and age of `heartbeat_at` of the row; `Gone` is a holder whose process has ended (a restarted one draws a new id) |
| `isLeader[s]` | `Service.isLeader` |
| `electing[s]` | the write an open `TryAcquireLeadership` transaction has decided on |
| `ReadToAcquire`, `ReadNotLeader`, `TryAcquireWrite` | the two halves of `TryAcquireLeadership` (`store.go:1193-1249`). At READ COMMITTED the row can change between them. A save writes all columns by primary key, whoever holds the row by then; a create loses to an existing row |
| `TryAcquireError` | the call fails and the flag is cleared (`dispatcher.go:251-280`) |
| `Expire` | the heartbeat timeout passes: in the end for a row of an ended process, by a fault for a live holder |
| `GracefulExit`, `CrashExit` | `ReleaseLeadership` in `DrainAndStop`; a crash leaves the row |

### JobQueue and ResourceJobs

| Model | Code |
|---|---|
| `status`, `attempts`, `due`, `stale` | columns of a `jobs` row; `due` is `scheduled_at <= now`, `stale` is `started_at` older than the stale timeout |
| `checked` | calls of `Enqueue` between `HasActiveJobForResource` and `CreateJob` (`queue.go:70-80`) |
| `mode[s]` | life of a process: down, up, draining (`BeginDrain`), stopping (context cancelled) |
| `loop[s]`, `avail[s]`, `selected[s]`, `readAttempts[s]` | the claim loop `processAvailableJobs` and what its open transaction has read |
| `exec[s][j]`, `runningJobs[s][t]` | goroutines in `executeJob`; `Service.runningJobs` |
| `BeginClaim` ... `CommitClaim`, `AbortClaim` | `processAvailableJobs` and `ClaimJobOfTypes`: leadership is tested once per wake-up, draining and free types before every claim, candidates and busy resources are read, the whole row is saved |
| `CompleteJob`, `FailJob`, `LoseResult` | the end of `executeJob`; the writes name the row by id only |
| `CleanupStaleJobs`, `Start` | the leader's ticker, and SQLite's reset of all running rows at start; both call `ResetJobs` |
| `BeginDrain`, `CancelContext`, `Exit`, `Crash` | `BeginDrain`, `DrainAndStop` and its deadline |

`SingleNode` stands for SQLite: one process, leader at once, and one writer, so
that nothing is written between the read and the write of a claim. Without it
the election actions run and claims interleave with everything else.
`TimelyJobs` says that an executor honours the deadline of its context, which the
code keeps shorter than the stale timeout (`effectiveStaleJobTimeout`). All runs
and the serialisation theorems assume it: without it a job that is still
executing is reset and claimed again, and no serialisation can be had. So an executor
that outlives its deadline, and its late result, which would rewrite a row that was
claimed again (`store.go:1115`), are assumed away and not checked; what is checked is
that nothing else resets a row under its executor.

Candidates of equal priority are tried in any order: the order by schedule and
creation time is one of them.

`ResourceJobs` is the queue as its users see it: rows, attempts and the set of jobs
that are executed (`InHand` in `JobQueue`). `JobQueue` implements it on SQLite
(`ImplementsContract`), and on Postgres, with any number of servers, until a leader's
heartbeat expires (`ContractUntilExpiry`: up to then every step is one of the
contract's); both are checked and proved. `JobWait` instantiates it for one resource, and there the
correspondence is proved in both directions: its jobs take only steps of the contract, and
within its bounds every step of the contract is one that they can take. The jobs of
`PromptHandoff` and `SessionLifecycle` keep no identity (a prompt has one active job, a
session has pending jobs by kind), so that they correspond to the contract only by reading.

### PromptHandoff and PromptLedger

`SubmitPrompt` stores the prompt, enqueues a dispatch job, and, unless the
session is still being set up, dispatches the prompt itself. The request and the
job both run `DispatchPromptSubmission`. A *lane* is one such call: the requests
that one server handles at the same time, and the lane of the job.

| Model | Code |
|---|---|
| `status`, `payload` | columns of a `prompt_submissions` row |
| `call[s][lane][p]`, `copy` | where the call is between two database or network operations; whether it has read the messages |
| `job`, `tries` | the active dispatch job of a prompt and its attempts |
| `proc`, `todo` | life of the process, and the list that `ReconcilePromptSubmissions` works through in the background (`server/cmd/server/main.go:377`) while requests and jobs already run |
| `SubmitPrompt`, `ReleaseFailed`, `SubmitEnqueue`, `RouteSubmission` | `SubmitPrompt` (`chat_submission.go:20-116`) |
| `ReadSubmission`, `CheckSession`, `ClaimForDispatch`, `PrepareRequest`, `StartChat`, `AcceptStarted`, `HandleDispatchError` | `DispatchPromptSubmission` in its order: read the row, fail it if the session is closed, claim it if still pending, get a sandbox and decrypt, post, write the outcome |
| `PostFails` | a post fails, before or after the agent has handled it; `retryWithBackoff` tries again or gives up |
| `OutcomeLost` | the outcome cannot be written, or the job's context ends first |
| `Reconcile`, `ReconcileRelease`, `ReconcileEnqueue`, `ReconcileFails` | the startup pass: list, release, enqueue, for each row |
| `SessionChanges`, `DeleteSession` | the session as far as a dispatch looks at it; `Store.DeleteSession` deletes its submissions |

Every write is the code's `UPDATE ... WHERE id`, which names no status, apart
from the claim, which does. Three history variables record what the properties
speak about: `overruled` (the row was put back to pending, or failed for a closed
session, while a call was dispatching it or after it had been accepted), `reopened`
(put back to pending while its job was still active, so that enqueueing it did
nothing), `faults`. Only the three callers that write the row without being its
dispatcher overrule it: a resubmission (`ReleaseFailed`), a reconciliation
(`ReconcileRelease`) and a call that finds the session closed (`CheckSession`). A claim
never does, so a second claim is excused by nothing: that `ClaimForDispatch` tests the
status is what keeps a request and the job apart, and without the test
(`ClaimAnyStatus`) `SoleDispatcher`, `TakenOnce` and `KeepsLedger` fail, and
`AcceptanceIsFinal`, which is proved and not in a run, with them. An enqueue that fails
for another reason than an active job is logged and nothing else (`TryEnqueueDispatch`).

Of the job queue only what the dispatch job can observe is kept: one active job
per prompt, executed once at a time, retried a few times, put back when its
worker is gone. Of these, serial execution is what `JobQueue` proves; the
uniqueness of the active job is weaker in the code (see the finding on `Enqueue`)
and an assumption here. Of the agent only its answers are kept.

`PromptLedger` says what all this comes to for whoever submits a prompt and is told what
became of it. A pending or dispatching row is an *open* prompt, a deleted one is *gone*;
the agent's side is how often it took the prompt (`taken`) and whether a post of it met
another completion. Requests, jobs, reconciliation, lost answers, crashes and restarts
are not in it. It does not hide what the code gives up: a prompt is *disturbed* when its row
was `overruled`, and all prompts are after a fault (`Disturbed`);
a disturbed prompt may be taken again and its answer taken back. That an accepted prompt was taken
or met another completion needs no such exception.

### TurnExecution and TurnContract

A turn alternates between a completion of the model and the tool calls it asks
for. Each transition is written to disk before it is acted on, and a turn found on
disk is resumed from there; disk and memory are separate variables, and a crash
between any two writes loses the memory only.

| Model | Code |
|---|---|
| `turn`, `answered` | `turn.json` with the question file, and the answer file |
| `stream`, `result`, `recorded`, `async` | the chunk file of the current step; each step's result file, event messages and asynchronous continuations |
| `pc`, `mem`, `work`, `context` | where `RunTurn` is between two writes, its `turnState`, the locals of a phase, the context |
| leaves of messages (`leaf`) | a message names its parent, so a leaf stands for the history above it: a set of pairs of step and call |
| `StartTurn`, `ResumeTurn`, `CloseInterruptedTurn` | the ways in from `agentimpl/default.go`, each with its recovery of a half-written step |
| `PrepareStep` ... `DecideStep` | `runStreamingPhase`: request, chunks, completion, its message, the next phase |
| `LoadTools` ... `AdvanceStep` | the tools phase: continue an asynchronous call, mark as interrupted, execute; a result, a continuation or a question |
| `LoadAsync` ... `FinalizeAsync` | the asynchronous phase: recover continuations, await them, a question from one of them |
| `SubmitAnswer`, `AnswerResult`, `AnswerAsync`, `AnswerQuestion`, `CancelWaitingTurn` | answering a question, or cancelling it |
| `Cancel`, `Fail`, `Crash` | the turn's context ends, a write or a request fails, the process ends |
| `StartupRecovery` | `ResumeInterruptedTurns` |

`TurnContract` says what all this is for, without disk, memory, crashes or
asynchronous work. The refinement mapping (`Contract`) reads the disk only:
`known` is the existence of the step's result, `settled` the recorded results,
`question` the pending approval. So a crash, a resume and every step between two
writes stutters, and what the contract promises holds across crashes.

### PromptQueue and PromptPromises

Nobody owns the duty to start an idle queue: the end of a completion, a timer, a
change of the queue and a failed start pass it on.

| Model | Code |
|---|---|
| `queue`, `later`, `timed` | `promptqueue.json` in order; prompts whose `RunAfter` lies in the future; those that have one |
| `timer`, `timersReady`, `resuming`, `wakeups` | the thread's timer, `EnableTimers`, `resumeTimers`, and `StartNext` goroutines that have not begun |
| `call[p]` | who has the prompt in hand (client, hook, queue) and where he is |
| `active`, `readers` | the thread's completion in the conversations; who resumes a turn without a prompt |
| `StartOrQueue`, `Enqueue`, `StartNext`, `FinishStart`, `Restore` | `promptqueue/manager.go`: start or queue, pop and start, put back with or without a new attempt |
| `ReadQuestion`, `ReadInterrupted`, `StartCompletion`, `Prepare...`, `TakePrompt`, `EndTurn` | `startPromptRequest`, `startCompletion`, the stream of a prompt, `OnTurnComplete` |
| `Reschedule` | `rescheduleLocked`, which every change of the queue ends with |
| `Answer`, `CancelQuestion`, `FindAtStartup`, `ResumeThread` | how a waiting or an interrupted turn goes on |
| `Delete`, `UpdatePrompt`, `Crash` | edits of the queue; the disk survives, the timers do not |

Sections under the manager's mutex and under that of the conversations are one
step each, so everything between two sections interleaves. `parked` records that
the duty was dropped: at a question, and with a start that failed.

`PromptPromises` is the same thread for whoever sends it prompts: a prompt is offered,
then refused or promised, and a promised one is in the end taken by a turn, deleted or
dropped. The mapping (`StandsAt`) reads `fate`; a pending prompt is *offered* while the call of a
client or a hook has it and *promised* otherwise, wherever the queue, a timer, a goroutine
or the completion keeps it; `overlapped` are the prompts that met a question. So popping,
putting back, delays, wake-ups and lost timers all stutter. The turn is in it too: it begins
with a prompt, asks only when it is open, and goes on only with an answer. The same is proved
of the turns of `TurnExecution` (`NeverSetBack` of `TurnContract`: no turn begins with a
question, and nothing goes on while it asks), which is what makes none, open and question the
right abstraction of a turn here.

### EventDelivery, EventStream and JobWait

An event is a row of `project_events`. Each process polls for rows with a larger
`seq` than it has seen and offers them to its subscribers, dropping what does not
fit a channel.

| Model | Code |
|---|---|
| `log` | the rows in the order of `created_at`, with `seq` and how far the transaction is; `driver` is SQLite (one writer, so the orders agree) or Postgres |
| `lastSeq`, `batch`, `sending`, `notified` | `pollAndBroadcast`: rows are read first, then handed out under `subscribersMu`; `notifyCh` |
| `registered`, `chan`, `missed` | subscribers and channels; `missed` is what a full channel dropped |
| `late` | rows that became visible behind `lastSeq` |
| `Connect`, `SendHistory`, `SkipHistory`, `SendLive`, `Disconnect` (`EventStream`) | `Handler.Events` and the project stream socket: subscribe, then read history, then go on with the channel without what was sent |
| `Ask`, `FoundSettled`, `FoundActive`, `StartWaiting`, `Hear`, `Look`, `GiveUp`, `Leave` (`JobWait`) | `ReconcileSandbox` enqueues and calls `WaitForJobCompletion`: look at the newest job, subscribe, take an event or the ticker's look |
| `Claim`, `Succeed`, `FailAttempt`, `Announce`, `Die`, `Cleanup` (`JobWait`) | what the queue shows of the jobs of one resource, in the order `executeJob` writes and publishes |

### SessionLifecycle

One session and everything that writes its row. There are two ways to write it:
the status column alone, in a row that is not deleted (`SetStatus`), or the whole
row as it was read earlier (`SaveRow`). gorm's `Save` first updates a row that is
not deleted and, when it finds none, inserts the row with `ON CONFLICT UPDATE
ALL`, which includes `deleted_at`. This is the one thing here that is taken from
outside `src/`: gorm is a dependency.

| Model | Code |
|---|---|
| `row`, `deleted` | `sandbox_status`, `commit_status`, `deleted_at` of the session's row |
| `sandbox` | what the provider has: absent, created, running, stopped, failed |
| `queue`, `work`, `committer`, `reaper` | pending jobs by kind, and where the running one is: init and delete share the resource *session*, commits have the workspace's, the deferred removal its own |
| `at[c]`, `seen[c]` | where a request is, and the row it has read; also a round of the idle monitor |
| `watcher` | the status that `handleSandboxEvent` has decided on and not written yet |
| `Begin`, `DeleteSession`, `QueueDelete`, `CommitSession`, `QueueCommit`, `UpdateSession`, `ClearTerminalCommitState`, `StopSandbox`, `MarkStopped`, `ReconcileSandbox`, `QueueInit` | the requests of `session.go` and `sandbox.go` in two or three steps: read, write, enqueue |
| `Initialize`, `InitWorkspace` ... `InitConfigured` | `Initialize` and `initializeSync` in their order, one step for each operation on the provider or the row; `Put` and `PutStatus` are the read and the write of `updateStatusWithEvent`; `StartSandbox` is `StartSessionSandbox`, which may write `initializing` and then fail |
| `DeleteStop`, `DeleteErase`, `DeleteRetain`, `FailDelete` | `performDeletion`: stop or remove, the transaction of `Store.DeleteSession`, the enqueueing of the deferred removal |
| `ReapCheck`, `ReapRemove` | `PerformDeferredSandboxDeletion` |
| `PerformCommit`, `BackfillTargetRef`, `CommitStep`, `CommitSaveFails` | `PerformCommit`: the row read at the start is kept in hand and saved with each new commit status; `CommitSteps` is the table of its saves and exits |
| `Restart`, `ReconcileImages` ... `Recommit` | the process ends; the goroutine of `server/cmd/server/main.go:345-373` reconciles images, states and commits while everything else runs |

`wrong` records what has gone wrong on the way (a stop that failed, a job that
could not be enqueued, a commit status that was saved over), so that the
properties can say what a bad state needs.

Abstractions: `preparing` merges cloning, pulling and creating, so that a `stopped` or
`removed` event may act on all three where the code acts only on `creating_sandbox`
(`sandbox.go:265-281`): more behaviours than the code has; sandbox events
are handled while the state they tell still holds (an event may also come again);
one session only, so the commit of another session does not delay this one's;
serial execution of a resource's jobs is what `JobQueue` proves.

## Runs

| Run | Instance | Distinct states | Question |
|---|---|---|---|
| `leader_election` | 3 servers, 3 faults | 2 525 | does split brain take an expiry, does leadership converge |
| `job_queue_sqlite` | 1 server, 4 jobs, 1 fault, window 2 | 110 133 | are executions serial and within limits, is the contract implemented, does every job settle |
| `job_queue_postgres` | 2 servers, 2 jobs, 2 faults | 1 638 648 | are executions serial, and is the contract kept, until a heartbeat expires |
| `prompt_handoff` | 1 server, 2 requests and the job, 1 fault | 1 713 038 | is the ledger kept, is dispatch exclusive and delivery single, does it take a fault to strand a prompt |
| `prompt_handoff_live` | 1 server, 1 request and the job, 2 faults | 316 484 | does a prompt settle, or is it stranded in a way we can name |
| `turn_execution` | 2 steps of up to 3 calls, limit 1, 2 faults | 531 000 | are steps settled, calls executed once, histories complete, is the contract implemented, does a turn rest and recovery close it |
| `prompt_queue` | 2 prompts (client, hook), 2 wake-ups, 1 question, 1 edit, 1 fault | 513 000 | is a prompt in one place, are the promises kept, is the duty passed on, does the queue move |
| `event_stream` | 1 client, 3 events, batches of 2, a channel of 1, 2 connections, 1 restart, both databases | 277 000 | is nothing sent twice or missed, does every event arrive |
| `job_wait` | 1 waiter, 2 jobs with 2 attempts, 2 events | 11 450 000 | is "completed" true, and when is another job's completion taken for one's own |
| `session_lifecycle` | 2 clients, 2 incidents | 2 351 551 | is a deleted session quiet, what does a stuck commit need, is a retained sandbox removed |
| `history_after_crash`, `deleted_session_returns` | the instances above | | two things the code does not do: see Findings |

**Bounds, and why they are enough.**

- `MaxDisruptions`, `MaxFaults` and `MaxIncidents` bound crashes, failed calls and,
  in the session, also requests. Each hazard in `PROJECT.json` that they concern needs one or two of
  them; the election has three so that a leader can be lost, its successor too, and a
  restart be in between. Steps in the order of normal operation (retries,
  resubmissions, restarts after a fault) are not bounded.
- The four jobs of `MCJobQueue`: `a` (init, two attempts) and `b`, `d` (deletes,
  one attempt, higher priority, allowed to duplicate) of one session, and `c`, a
  delayed init of another. They are the least that makes a busy resource, a type
  at its limit (1 for init, 2 for delete) and a *full window* possible: while one
  of `a`, `b`, `d` runs the other two fill the two places a claim looks at, and
  `c` waits behind them although it could run. The code's window is 10.
- Two servers suffice for a split brain, two jobs of one resource for a violation
  of serial execution; the theorems say that no larger instance differs.
- Two requests and the job of one prompt give three calls on one row. Prompts of
  one session only share the session's state, so one prompt is enough.
  One process at a time can already do to a row what two can, since reconciliation
  runs beside that process's own calls; the theorems are for any number.
- Three calls in one step let a question, an asynchronous call and an executed
  one meet; a second step makes a history to be lost; two failures let a resume fail.
- Two prompts make an order, a second caller and a queue that is not empty while a
  prompt is in hand. With three prompts there are more than 25 million states; the safety
  properties are theorems for any number.
- Three events in batches of two with a channel of one make a full batch, a full
  channel and an event that overtakes another.
- In `job_wait` the second event may overtake the first, and two attempts let a failed
  attempt be announced before the job completes. `MaxClaims` bounds the claims of a
  job, which may exceed `max_attempts` by what the stale cleanup puts back.
- Requests of `prompt_handoff` are interchangeable, and it uses that symmetry; it checks
  invariants and the steps of the ledger, which name no request, and no liveness, so this
  is sound.

**Fairness** is weak throughout and only over steps that the process takes by itself.
`JobQueue`: the claim loop and the tickers keep firing,
an executor returns (its context has a deadline), scheduled times and stale
timeouts pass, a process that ended is started again. Nothing forces an enqueue,
a shutdown or a fault. `EveryJobSettles` also needs `[]<>Quiet`: transactions of
the election do not overlap for ever (they take milliseconds, heartbeats are
seconds apart); otherwise two former leaders could keep saving the row over each
other. `PromptHandoff`: calls go on, jobs are executed, an ended process
starts again and reconciles. `TurnExecution`: the loop goes on and a process that starts looks for
interrupted turns. `PromptQueue`: each goroutine and timer that was started goes
on and time passes; a turn does not run for ever. `EventStream`: the poller has a
ticker and hands out what it has read, a handler reads its channel. `SessionLifecycle`: the
dispatcher executes the session's jobs and the deferred removal. Nothing is
assumed of users, clients, sandboxes or the network.

**Deadlock** is checked for the election and the job queue. The other runs say
`CHECK_DEADLOCK FALSE`: when every prompt is settled, a turn waits for its user,
the bound on events is reached, or the session is gone, nothing is left to do.

## Findings

Each is a run of its own in which TLC finds a behaviour of the code that
contradicts what the repository says; `PROJECT.json` quotes the lines.

| Run | The code | It says |
|---|---|---|
| `history_after_crash` | a result becomes the leaf of the history in memory only; after a crash in the tools phase the resumed turn appends to the older leaf, and the model is sent a history without results that count as settled | all three results are expected, the completed one without error (`agent-go/thread/turn_test.go:2041`, `2047`) |
| `deleted_session_returns` | a commit job, or a request, that read the session before it was deleted saves the whole row, which clears `deleted_at`; the deferred removal then keeps the sandbox | `removed` is final (`docs/design/session-states.md:45-50`, `66`) |

## Known disagreements

Seen while modelling, and part of the models as they are, but without a run of
their own. Jobs and prompts on the server:

- A server whose heartbeat expired goes on claiming until its next tick, so two
  leaders may execute jobs of one resource at once (`jobs/types.go:36` calls them
  serialised). `SerialUntilExpiry` says that nothing else can cause it.
- Draining is tested before a claim and not after it: a claim in flight starts its
  job after `BeginDrain` (`dispatcher.go:105`).
- The check of `Enqueue` and its insert are not one transaction, and no index
  enforces "one pending or running job" (`model/job.go:39`).
- A job interrupted in its last attempt is executed once more than `max_attempts`
  says (`ResetJobs` looks at no attempts).
- A dispatch job that meets a dispatching request completes; when that request then
  gets no sandbox, the prompt stays pending (`docs/ARCHITECTURE.md:66` says it is not
  lost). `SettlesOrStranded` names the ways in which this happens.
- `completion_in_progress` is recorded as accepted and the messages are erased,
  though the agent has not taken the prompt.
- Startup reconciliation releases rows that the same process has begun to dispatch
  meanwhile; the agent then gets the prompt twice.

Events:

- A waiter compares only the resource of a `job_completed` event: an earlier job's
  event, delivered late, answers for its own job (`events/wait_job.go:72` says "This is
  our job!"). `MisledWhenBehind` says when this can happen.
- A poller without subscribers does not move `lastSeq`, so its first subscriber gets
  what has piled up, not only "new events from the time of connection"
  (`handler/events.go:18-20`).
- A job is announced as completed although `CompleteJob` failed and it will be executed
  again (`dispatcher.go:397-402`). What `CompletedHappened` promises a waiter is an
  executor that succeeded, not a row that says so.
- A client that missed an event and reconnects after a later one never gets it.
- In the project stream socket a subscription whose setup fails early is cancelled
  and not unsubscribed, and the deferred removal of an old stream can delete the
  entry of its successor (`realtime/project_stream_socket.go:584-597`).

Agent:

- At the step limit the tools are withdrawn, and in the same step the refresh of the
  tools offers them again (`turn.go:620`).
- A resume takes a call without a result for interrupted if another call of the step has
  one (`turn.go:764-772`). After an answer nothing was interrupted, but a further call
  of the step that was not executed yet is recorded as "interrupted by transient system
  failure", and so is one that ran and whose question was not kept. `MarkedNeedsResume`
  allows both: it says that only a turn that was picked up has such marks.
- A call that asks for approval while another asynchronous call asks as well is
  executed again, because only one question is kept (`turn.go:916`).
- Only the first failed start of a prompt is delayed; a prompt that has a time to run
  after keeps it and is started again at once (`promptqueue/manager.go:223`).
- A prompt put back for a question that is then cancelled waits in an idle thread
  until something else changes the queue (`promptqueue/manager.go:219`).
- `manager.go:179-180` says that a prompt which cannot be started is put back; one whose
  stream refuses it because a turn asked meanwhile is dropped (`Drop` of
  `PromptPromises`; theorem `DroppedOverAQuestion`).

Sessions:

- "Never let them move a session out of the removing/removed path"
  (`session.go:1156`): `updateStatusWithEvent` tests and then writes,
  `configureSandboxAgent` writes `initializing` without a test, and so do
  `StopSession`, the idle monitor and the watcher.
- A whole-row save overwrites a commit status that was written since the read, so
  two commits can be queued and one can look pending for ever. Two requests that read
  the status before either writes it queue two commits as well (`session.go:519`); the
  jobs run one after the other. No property forbids it.
- `docs/design/session-states.md:325-335` says that the commit job of a session that is
  `completed` is a no-op, and that one whose `appliedCommit` is set only verifies it;
  `PerformCommit` sets the status to pending, clears `AppliedCommit` and starts anew
  (`session.go:1242-1246`). No property speaks of the applied commit.
- `ReconcileCommitStates` enqueues without the requested directory, base and hash: the
  retry of a prepared pull becomes a prompt to the agent. It also skips a session
  while another session of the workspace has an active job.
- `PerformCommit` returns before its deferred `setCommitFailed` when the workspace cannot be
  read (`session.go:1221`): the commit stays pending.
- The deferred removal is enqueued after the transaction that deletes the session
  (`session.go:661`): an error or a crash in between retains the sandbox for ever.

## Proofs

`tlapm` checks all of them (about 14,800 obligations). The only assumptions are
those on the constants (`ElectionAssumption`, `JobQueueAssumption`,
`HandoffAssumption`, `BoundsAssumption`, `HooksAssumption`, `NoPromptAssumption`,
`EventBounds`, `StreamBounds`, `JobWaitBounds`, `JobWaitContents`,
`SessionBounds`), which the runs evaluate, and `TimelyJobs` where it is
written in the theorem.

| Theorem | Says, for all constants |
|---|---|
| `ElectionTypes`, `JobQueueTypes`, `HandoffTypes`, `TurnTypes`, `QueueTypes`, `StreamTypesHold`, `WaitTypes`, `SessionTypes` | type correctness |
| `SplitBrain`, `DispatchersLeadAlone` | two leaders at once need an expired heartbeat, of the election alone and composed with the queue |
| `OneServerClaims` | until then at most one server is in its claim loop, also when the leadership passes on |
| `SerialInvariant` | `SerialInv` is an invariant, if jobs are timely |
| `SerialExecutionUntilExpiry` | executions are serial per resource until a heartbeat expires |
| `SerialExecutionOnSQLite` | on SQLite they always are, if jobs are timely |
| `ExecutionsKeepTheirRows` | and then whatever is executing is a running row |
| `QueueRefinesContract` | on SQLite, if jobs are timely, `JobQueue` implements `ResourceJobs` |
| `QueueKeepsContractUntilExpiry` | with any number of servers, every step is one of `ResourceJobs` until a heartbeat expires, if jobs are timely |
| `ContractPromises` | the contract's steps keep rows and executions of a resource apart, fail a job only with its attempts used, and leave a settled job alone |
| `PromisesKeptUntilExpiry`, `SettledKeptUntilExpiry` | so does the queue with any number of servers, until a heartbeat expires |
| `SettledJobsStaySettled` | on SQLite a settled job never changes, if jobs are timely |
| `SlotInvariant`, `LimitsKept` | a server never executes more jobs of a type than its limit, on any database and however long they take |
| `AcceptedPromptsWereTaken` | an accepted prompt was taken, or a post of it met another completion |
| `OneDispatcherUnlessOverruled` | however many claim it and whatever fails, one call at a time dispatches a prompt and its row says so, unless the row was put back or failed under a dispatcher |
| `PromptTakenOnce` | without a fault the agent takes a prompt at most once, unless it was overruled so |
| `HandInvariant`, `StrandingNeedsFault` | a prompt is stranded only after a fault, or if it was put back to pending while its job was ending |
| `HandoffKeepsLedger` | `PromptHandoff` implements `PromptLedger` |
| `LedgerPromises` | the ledger's steps keep its answers true: accepted is taken or met, undisturbed failed is not taken, and an undisturbed acceptance stands |
| `FailedPromptsWereNotTaken` | without a fault a failed prompt that was not overruled was not taken: it can be submitted again |
| `AcceptanceStands` | whatever fails, an accepted one is not taken once more, and stays accepted until its session goes, unless the step is a write by one of the three stale readers of the row (`StaleReader`) |
| `StepsAreSettled` | a step is left only with its completion and a result of each call on disk |
| `CallsHappenOnce` | a call has a second result only after a failure, and is executed again only by a resumed turn |
| `InterruptionsNeedResume` | a call is reported as interrupted only in a resumed turn |
| `HistoriesAreWhole` | until something fails, the history sent to the provider holds every reply and every result |
| `TurnRefinesContract` | `TurnExecution` implements `TurnContract` |
| `TurnPromises` | the contract's steps forget nothing of a turn, execute no settled call again, leave no step with calls open, and wait while a question is open |
| `TurnsAreNeverSetBack` | so does every turn of the loop, over crashes, resumes and failed writes |
| `PromptInOnePlace` | a prompt is once in the queue, in one caller's hands or with the completion |
| `WakeupIsPassedOn` | the duty to start an idle queue is given up only where `parked` says |
| `DroppedOverAQuestion` | without a fault a prompt is dropped only over a question |
| `QueueKeepsPromises` | `PromptQueue` implements `PromptPromises` |
| `PromisesLast` | its steps take back no answer, drop nothing without a reason, and take one prompt for each turn |
| `QueuedIsNeverRefused` | what was once in the queue is never refused, however often it is put back |
| `TurnsBeginWithPrompts` | until something fails a turn begins only with a pending prompt, which it takes |
| `NoEventTwice` | a connection sends no event twice |
| `StreamsMissNothing` | nothing falls between history and live, or after the subscription, but what a full channel or a late commit loses |
| `SQLiteKeepsOrder` | with SQLite no event becomes visible behind the poller |
| `WaitInvariant` | `WaitInv` is an invariant |
| `CompletionsHappened` | a waiter hears "completed" only of a job that succeeded, or reads it when its own or a newer job did |
| `OldAnswersWereLate` | it takes an older job's completion for its own only if that one was not over and delivered when it asked |
| `QueueOfWaitersKeepsContract` | the jobs of `JobWait` take only steps of `ResourceJobs` |
| `ContractStepsAreTheQueues` | and within the bounds they can take each of its steps |
| `SessionInvariant` | `SessionInv` is an invariant |
| `DeletedSessionsAreQuiet` | no job, request or restart starts the sandbox of a deleted session |
| `StuckCommitsHaveACause` | a commit without a job is shown in progress only after a write was lost or overwritten |

**Split brain.** That two flags are not set at once is not inductive: a server in
the middle of its transaction may be about to set its own. `HolderInv`: until
something expires, whoever leads or is about to save the row is the one the row
names, and an existing row is fresh. A create cannot win against an existing row;
a save is decided only by the holder. `HolderInv` survives the composition with the queue, and
with it a server in its claim loop is the holder: hence `OneServerClaims`.

**Serial execution.** A claim decides on what it read, so its invariant has to
speak of what happens between the read and the write. `SerialInv` has four parts
that need each other: at most one server is anywhere in its claim loop
(`LoneClaimer`, on Postgres from `HolderInv`; on SQLite there is only one);
hence what an open claim read still holds (`ClaimStillValid`); hence running
rows never share a resource (`RowsSerial`); and whatever is executing is a running
row that is not stale, on one server and once (`ExecutedOnce`), so that neither
the cleanup nor a late result touches it. `CheckedIsAbsent` (a row to be
created does not exist yet) and `IdleWhenDown` close the induction.
`SettledIsFinal` follows: a late result can only be written for a row that is
running. So does the refinement: with `ReadStillValid` (the attempts a claim read are
the row's when it commits) each step of the queue is one of `ResourceJobs`' or leaves its
variables alone; `ExecutedOnce` is why a result belongs to the execution that
ends, and why what is put back is executed by nobody. All of these hold on Postgres too as long as
nothing has expired, and no step before the first expiry breaks the contract: the
same lemmas prove `ContractUntilExpiry`, and what the contract promises carries over from it.

**Limits.** `runningJobs` is a counter that a claim raises, an end lowers and a restart
resets, while the limit speaks of the jobs in `exec`. `SlotInv` ties them: the counter is
the number of executions (counted with their multiplicity, so a job that the server
executes twice takes two slots), and a type is in `avail` only while a slot is free;
since one goroutine claims, nothing takes the slot between the look and the start.

**Stranding.** `HandInv` follows a prompt through every hand: until a fault, a row that says
`dispatching` has a call that dispatches it, and a pending row is expected by a job, by a
reconciliation that has still to come to it or by a request about to enqueue a job. The
exception is in the code: a row put back to pending while its job is on the way out finds
the job's row still there, so the enqueue does nothing (`reopened`).

**Accepted.** That a call that has been told "started" or "conflict" finds the
agent's side recorded, and that no step makes the agent forget.

**One dispatcher, one taking.** `DispatchInv` has two parts for each prompt. `SoleAt`: unless it
was overruled, whoever dispatches is alone and the row says `dispatching` (or was
deleted): the claim tests for `pending`, so it excludes a second one as long as
nobody puts the row back; claims do not overrule, so this test is what the proof of
`ClaimForDispatch` rests on. `TakenAt`: without a fault the agent has the prompt
only if its dispatcher knows it or has written `accepted`, and a row is never left
`dispatching` without a dispatcher, hence the next claim finds it untaken.

**Ledger.** `SoleAt` and `TakenAt` say of each prompt what the ledger's steps ask for: whoever
writes an outcome dispatches, so unless the prompt is disturbed he is alone, the row is open,
and the agent has not taken the prompt if he writes `failed`, and has taken it or met another
completion if he writes `accepted`. A step that raises
`faults` or overrules a dispatch disturbs the prompt and is excused by it. The
promises are then those of the ledger. `AcceptanceStands` needs less than that: by `SoleAt`
an accepted prompt that was not overruled has no dispatcher, so no claim succeeds and no
post or outcome is under way, faults or not, and only a stale reader can write the row.

**Turns.** `StepsSettled` speaks of steps that were left, so the invariant `TurnInv` has
to say what is known at every place of the loop: what memory and disk have in
common while the loop is between two writes (`Agrees`), which phase belongs to
which place (`InPhase`), where a completion is on disk already (`Completed`), which
results name their calls (`NamesCalls`), what the locals of a phase say of the disk
(`Working`), and that nothing exists beyond the current step (`Fresh`).

**Calls.** `CallInv`: until something fails, whatever a call still waits for (a handle,
the executor, an answer) has no result yet; and until the turn is resumed, the loop goes
through a step once, so what was executed has its result or is awaited, and at the end
of the wait nothing is missing. A cancelled turn records results over work in progress,
which is why the first part speaks only of the places that still look at that work.

**Histories.** `ChainInv`: the leaf that a step starts from is the one that the step before
left, in memory or, while the turn waits for an answer, on disk; every recorded result
and every reply of an earlier step is on its chain. A failed write is where the leaf and
the records part, hence the exception.

**Refinement.** From `TurnInv`, one lemma for each action: those that only move data between
disk and memory, crash or resume leave the mapped variables alone; the others are
one step of the contract: a reply, an execution, a result, a question, an answer, the
next step or the end. The contract's own promises are inductive by themselves, one case
for each of its steps, and the loop inherits them (`TurnsAreNeverSetBack`).

**Prompt queue.** `OnePlace` needs to know who may have a prompt in hand at which place,
in agreement with the completion (`HandsAgree`); `NoLostWakeup` needs both, since a
wake-up that finds the prompt gone may vanish only if whoever has it passes the duty on.
`DropInv`, on top of that, says that without a fault whoever is past the look at the
question when a turn asks is in `overlapped`. The refinement needs one more invariant,
`TurnAgrees`: a completion in its turn has an open one, one that continues finds a turn
to go on with, and only a process that was restarted finds a turn without a prompt. With
`OnePlace`, a prompt that is queued or with a completion cannot at the same time be
in the hands of a caller who could still be told no. Each action is then one step of
`PromptPromises` or moves what it does not see.

**Events.** `StreamInv`: sequence numbers are distinct and follow the log on SQLite
(`Numbered`, `OneWriter`, `NoneLateOnSQLite`); the poller's batch and a channel hold
what is due and each once (`DeliveredOnce`); and for each stream, what was sent and is
not to be skipped will not come again, and what is behind the poller was sent, is on
its way or was lost (`StreamOK`). The point is the overlap: an event may be in the
history, in the channel and in the batch at the same time.

**Job waiting.** `WaitInv` first follows the word "completed": a row, an announcement or an
event that says it names a job that succeeded (`JobsFounded`), although `FailJob` may
have put the row back. Then an older job: if it was over and its events were behind the
poller when the waiter asked, that stays so (`NotMisled`), because a settled job is not
claimed again and the poller never goes back; hence none of its events gets into the
waiter's channel, and an answer from it needs `behind`. `Onward` is what every step has
in common for this.

The jobs are compared with `ResourceJobs` action by action: a row's status,
attempts and the execution are mapped as they are, announcements and events are not seen. In
the other direction a step of the contract gives the action that takes it, within the
bounds on jobs and claims; a result is taken together with its announcement.

**Sessions.** `SessionInv` says where the job of a session can be (`JobPlaces`), that a
delete job past its first step has stopped the sandbox (`StoppedFirst`), and that an
init job whose session is deleted has not begun (`InitIsFirst`): jobs of a session run
one at a time, so none is half-way when the rows are deleted. `StuckHasCause` goes
through every save: one that overwrites another commit status, or brings a deleted row
back, is itself the cause.

**Model-checked only.** Liveness (`LeadershipConverges`, `EveryJobSettles`,
`SettlesOrStranded`, `TurnRests`, `RecoveryCloses`, `QueueMoves`, `EventsArrive`,
`RetainedIsReaped`), which is out of reach of the prover.

## What is not modelled

- Time is reduced to flags (`fresh`, `due`, `stale`), with nondeterministic expiry; a backoff is just
  "not due yet".
- Priorities matter, the order among equals does not (any order is explored).
- In `JobQueue` what a job does is a black box that ends with success or failure; the
  jobs of a session are opened up in `SessionLifecycle`, the dispatch job in `PromptHandoff`.
- Job rows are never deleted or cancelled anywhere in the code, and payload contents do
  not matter.
- In `PromptHandoff`, a post that is handled at all is handled before its caller
  gives up on it; a question that the user has to answer first is one of the
  refusals; titles, forked threads and model choice do not influence the handoff.
- In `TurnExecution`: compaction, the one retry of a partial response, usage
  accounting, hooks between steps, and the conversation's streams to its clients.
- In `PromptQueue`: deletion of threads, built-in slash commands.
- In `EventDelivery`: deletion of old events, events with the same `created_at`, other
  projects' events (subscribers filter them).
- In `SessionLifecycle`: approvals of commit pulls (`FinalizeRequestCommitPullApproval`), the commit log,
  names, activity and credentials; the health cache and the readiness of images; providers.
- `PROJECT.json` gives the reason for every part of the system that has no module.

## Plan

`PromptLedger`, `PromptPromises`, the contract on Postgres and the jobs of `JobWait` over
`ResourceJobs` are done. Left, in this order:

1. **HTTPClientCache** and **ThreadStatus**: two small modules with interleavings
   of a lock that is given up half-way.
2. **Conversation**: streams over a completion's events, deletion of threads, hooks.
3. `PromptHandoff` composed with `PromptQueue`: `taken` of the ledger is a promise of
   `PromptPromises`, so that the two together follow a prompt from submission to turn.
4. `SessionLifecycle` over the steps of `ResourceJobs`.

Runs are kept few, one to each question: smaller runs that only showed a known
disagreement have given way to the modules above, and liveness is checked in the same run as
safety where the state space allows.
