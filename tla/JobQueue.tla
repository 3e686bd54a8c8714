------------------------------ MODULE JobQueue ------------------------------
(***************************************************************************)
(* The background job queue: jobs.Queue (enqueue), the jobs table          *)
(* (store.go) and the dispatcher of every server process (dispatcher.go).  *)
(*                                                                         *)
(* A job row goes pending -> running -> completed | failed, back to        *)
(* pending when a failed attempt is retried or when its worker is presumed *)
(* dead.  Every process runs one claim loop, which is the only place it    *)
(* claims jobs, and one goroutine per job it executes.                     *)
(*                                                                         *)
(* With SQLite there is a single process: it is leader from the start, and *)
(* a write transaction holds the only write connection until it commits.   *)
(* With Postgres leadership is LeaderElection's, and the claim transaction *)
(* (READ COMMITTED, no row lock) may interleave with any other write.      *)
(*                                                                         *)
(* Time is abstract: scheduled_at <= now is "due", started_at older than   *)
(* the stale-job timeout is "stale".  Candidates of equal priority are     *)
(* tried in any order, which covers the order by scheduled_at, created_at. *)
(***************************************************************************)
EXTENDS LeaderElection, Integers, FiniteSets

CONSTANTS
    Jobs, NoJob,        \* the rows that may be created; NoJob is none of them
    Types, Resources,
    TypeOf,             \* job -> type
    ResourceOf,         \* job -> (resource_type, resource_id)
    Priority,           \* job -> priority
    MaxAttempts,        \* job -> max_attempts
    DuplicateJobs,      \* jobs whose payload is a DuplicateAllower
    DelayedJobs,        \* jobs whose payload asks for a later scheduled_at
    Limit,              \* type -> GetConcurrencyLimit
    Window,             \* candidates one claim looks at (10 in the code)
    SingleNode,         \* the database is SQLite
    TimelyJobs          \* no job is still executing when it becomes stale

ASSUME JobQueueAssumption ==
    /\ NoJob \notin Jobs
    /\ TypeOf \in [Jobs -> Types]
    /\ ResourceOf \in [Jobs -> Resources]
    /\ Priority \in [Jobs -> Nat]
    /\ MaxAttempts \in [Jobs -> Nat \ {0}]
    /\ DuplicateJobs \subseteq Jobs
    /\ DelayedJobs \subseteq Jobs
    /\ Limit \in [Types -> Nat \ {0}]
    /\ Window \in Nat \ {0}
    /\ SingleNode \in BOOLEAN
    /\ TimelyJobs \in BOOLEAN
    /\ SingleNode => \A s, t \in Servers : s = t

VARIABLES
    checked,       \* jobs whose Enqueue is past its duplicate check
    status,        \* job -> status column, or "absent"
    attempts,      \* job -> attempts column
    due,           \* job -> scheduled_at <= now
    stale,         \* job -> started_at is older than the stale timeout
    mode,          \* server -> life cycle of the process and its dispatcher
    loop,          \* server -> where its claim loop is
    avail,         \* server -> the types the current claim may take
    selected,      \* server -> the candidate its open claim settled on
    readAttempts,  \* server -> attempts of that candidate when it was read
    exec,          \* server -> job -> executor goroutines of that job
    runningJobs    \* server -> type -> Service.runningJobs

storeVars == <<status, attempts, due, stale>>
claimVars == <<loop, avail, selected, readAttempts>>
execVars == <<exec, runningJobs>>
jobVars == <<checked, storeVars, mode, claimVars, execVars>>
vars == <<jobVars, allElectionVars>>

Status == {"absent", "pending", "running", "completed", "failed"}
Active == {"pending", "running"}
Settled == {"completed", "failed"}

\* "stopping": the dispatcher's context is cancelled.
Mode == {"down", "up", "draining", "stopping"}
\* "idle": waiting for the ticker or a notification; "next": at the top of
\* the loop after a claim; "claiming": past the drain and capacity checks.
Loop == {"idle", "next", "claiming"}

TypeOK ==
    /\ ElectionTypeOK
    /\ checked \in SUBSET Jobs
    /\ status \in [Jobs -> Status]
    /\ attempts \in [Jobs -> Nat]
    /\ due \in [Jobs -> BOOLEAN]
    /\ stale \in [Jobs -> BOOLEAN]
    /\ mode \in [Servers -> Mode]
    /\ loop \in [Servers -> Loop]
    /\ avail \in [Servers -> SUBSET Types]
    /\ selected \in [Servers -> Jobs \cup {NoJob}]
    /\ readAttempts \in [Servers -> Nat]
    /\ exec \in [Servers -> [Jobs -> Nat]]
    /\ runningJobs \in [Servers -> [Types -> Int]]

Init ==
    /\ ElectionInit
    /\ checked = {}
    /\ status = [j \in Jobs |-> "absent"]
    /\ attempts = [j \in Jobs |-> 0]
    /\ due = [j \in Jobs |-> FALSE]
    /\ stale = [j \in Jobs |-> FALSE]
    /\ mode = [s \in Servers |-> "down"]
    /\ loop = [s \in Servers |-> "idle"]
    /\ avail = [s \in Servers |-> {}]
    /\ selected = [s \in Servers |-> NoJob]
    /\ readAttempts = [s \in Servers |-> 0]
    /\ exec = [s \in Servers |-> [j \in Jobs |-> 0]]
    /\ runningJobs = [s \in Servers |-> [t \in Types |-> 0]]

Live(s) == mode[s] \in {"up", "draining"}

\* SQLite: nobody else writes while a claim transaction is open.
WriteLockFree == SingleNode => \A s \in Servers : selected[s] = NoJob

SameResource(j, k) == ResourceOf[j] = ResourceOf[k]

-----------------------------------------------------------------------------
(* jobs.Queue.Enqueue: HasActiveJobForResource, then CreateJob.  The two   *)
(* are not one transaction, and payloads that allow duplicates skip the    *)
(* first.  A call that finds an active job changes nothing.                *)

EnqueueCheck(j) ==
    /\ status[j] = "absent" /\ j \notin checked
    /\ j \notin DuplicateJobs =>
          ~\E k \in Jobs : SameResource(j, k) /\ status[k] \in Active
    /\ checked' = checked \cup {j}
    /\ UNCHANGED <<storeVars, mode, claimVars, execVars, allElectionVars>>

EnqueueCreate(j) ==
    /\ j \in checked /\ WriteLockFree
    /\ checked' = checked \ {j}
    /\ status' = [status EXCEPT ![j] = "pending"]
    /\ due' = [due EXCEPT ![j] = j \notin DelayedJobs]
    /\ UNCHANGED <<attempts, stale, mode, claimVars, execVars, allElectionVars>>

\* Time reaches scheduled_at.
BecomeDue(j) ==
    /\ status[j] = "pending" /\ ~due[j]
    /\ due' = [due EXCEPT ![j] = TRUE]
    /\ UNCHANGED <<checked, status, attempts, stale, mode, claimVars, execVars,
                   allElectionVars>>

-----------------------------------------------------------------------------
(* The claim loop: processAvailableJobs and ClaimJobOfTypes.               *)

\* Mutant: the comparison is off by one.
AvailableTypesOffByOne(s) == {t \in Types : runningJobs[s][t] <= Limit[t]}

AvailableTypes(s) == {t \in Types : runningJobs[s][t] < Limit[t]}

\* Mutant: the loop of a server that is not leader claims too.
BeginClaimUnled(s) ==
    /\ mode[s] = "up" /\ loop[s] # "claiming"
    /\ AvailableTypes(s) # {}
    /\ loop' = [loop EXCEPT ![s] = "claiming"]
    /\ avail' = [avail EXCEPT ![s] = AvailableTypes(s)]
    /\ UNCHANGED <<checked, storeVars, mode, selected, readAttempts, execVars,
                   allElectionVars>>

(* Leadership is tested once per wake-up, draining before every claim.     *)
BeginClaim(s) ==
    /\ Live(s)
    /\ loop[s] = "next" \/ (loop[s] = "idle" /\ isLeader[s])
    /\ mode[s] = "up"
    /\ AvailableTypes(s) # {}
    /\ loop' = [loop EXCEPT ![s] = "claiming"]
    /\ avail' = [avail EXCEPT ![s] = AvailableTypes(s)]
    /\ UNCHANGED <<checked, storeVars, mode, selected, readAttempts, execVars,
                   allElectionVars>>

EndLoop(s) ==
    /\ loop[s] = "next"
    /\ mode[s] # "up" \/ AvailableTypes(s) = {}
    /\ loop' = [loop EXCEPT ![s] = "idle"]
    /\ UNCHANGED <<checked, storeVars, mode, avail, selected, readAttempts,
                   execVars, allElectionVars>>

Candidates(s) ==
    {j \in Jobs : status[j] = "pending" /\ due[j] /\ TypeOf[j] \in avail[s]}

\* Mutant: only a job of the same type makes the resource busy.
ResourceBusySameType(j) ==
    \E k \in Jobs \ {j} :
        SameResource(j, k) /\ TypeOf[j] = TypeOf[k] /\ status[k] = "running"

ResourceBusy(j) ==
    \E k \in Jobs \ {j} : SameResource(j, k) /\ status[k] = "running"

\* Candidates the query certainly returns before j.
Before(s, j) == {k \in Candidates(s) : Priority[k] > Priority[j]}

(* The claim transaction reads the candidates and takes the first one      *)
(* whose resource has no other running job.                                *)
SelectJob(s) ==
    /\ Live(s)
    /\ loop[s] = "claiming" /\ selected[s] = NoJob
    /\ \E j \in Candidates(s) :
          /\ ~ResourceBusy(j)
          /\ \A k \in Before(s, j) : ResourceBusy(k)
          /\ Cardinality(Before(s, j)) < Window
          /\ selected' = [selected EXCEPT ![s] = j]
          /\ readAttempts' = [readAttempts EXCEPT ![s] = attempts[j]]
    /\ UNCHANGED <<checked, storeVars, mode, loop, avail, execVars,
                   allElectionVars>>

(* The claim finds nothing: no candidate, or the first Window of them are  *)
(* all on busy resources.                                                  *)
SelectNothing(s) ==
    /\ Live(s)
    /\ loop[s] = "claiming" /\ selected[s] = NoJob
    /\ LET busy == {j \in Candidates(s) : ResourceBusy(j)}
       IN  \A j \in Candidates(s) \ busy :
              Cardinality({k \in busy : Priority[k] >= Priority[j]}) >= Window
    /\ loop' = [loop EXCEPT ![s] = "idle"]
    /\ avail' = [avail EXCEPT ![s] = {}]
    /\ UNCHANGED <<checked, storeVars, mode, selected, readAttempts, execVars,
                   allElectionVars>>

(* The transaction saves the whole row as it was read, with the claim's    *)
(* columns changed, and the loop starts the job's goroutine.               *)
CommitClaim(s) ==
    /\ Live(s)
    /\ selected[s] # NoJob
    /\ LET j == selected[s] IN
          /\ status' = [status EXCEPT ![j] = "running"]
          /\ attempts' = [attempts EXCEPT ![j] = readAttempts[s] + 1]
          /\ due' = [due EXCEPT ![j] = TRUE]
          /\ stale' = [stale EXCEPT ![j] = FALSE]
          /\ exec' = [exec EXCEPT ![s][j] = @ + 1]
          /\ runningJobs' = [runningJobs EXCEPT ![s][TypeOf[j]] = @ + 1]
    /\ loop' = [loop EXCEPT ![s] = "next"]
    /\ avail' = [avail EXCEPT ![s] = {}]
    /\ selected' = [selected EXCEPT ![s] = NoJob]
    /\ readAttempts' = [readAttempts EXCEPT ![s] = 0]
    /\ UNCHANGED <<checked, mode, allElectionVars>>

(* The claim returns an error: the context is cancelled or the database    *)
(* fails.  Its transaction is rolled back and the loop waits again.        *)
AbortClaim(s) ==
    /\ loop[s] = "claiming"
    /\ IF mode[s] = "stopping" THEN UNCHANGED disruptions ELSE Disrupt
    /\ loop' = [loop EXCEPT ![s] = "idle"]
    /\ avail' = [avail EXCEPT ![s] = {}]
    /\ selected' = [selected EXCEPT ![s] = NoJob]
    /\ readAttempts' = [readAttempts EXCEPT ![s] = 0]
    /\ UNCHANGED <<checked, storeVars, mode, execVars, electionVars>>

-----------------------------------------------------------------------------
(* executeJob: the executor returns, its result is written, the goroutine  *)
(* ends.  The writes name the job by id only: neither its status nor its   *)
(* worker is looked at.                                                    *)

\* Mutant: the running count is not decremented.
GoroutineKeepsSlot(s, j) ==
    /\ exec[s][j] > 0
    /\ exec' = [exec EXCEPT ![s][j] = @ - 1]
    /\ UNCHANGED runningJobs

GoroutineEnds(s, j) ==
    /\ exec[s][j] > 0
    /\ exec' = [exec EXCEPT ![s][j] = @ - 1]
    /\ runningJobs' = [runningJobs EXCEPT ![s][TypeOf[j]] = @ - 1]

\* Mutant: the status written is none that the other queries know.
CompleteJobUnknownStatus(s, j) ==
    /\ Live(s) /\ WriteLockFree
    /\ GoroutineEnds(s, j)
    /\ status' = [status EXCEPT ![j] = "done"]
    /\ stale' = [stale EXCEPT ![j] = FALSE]
    /\ UNCHANGED <<checked, attempts, due, mode, claimVars, allElectionVars>>

CompleteJob(s, j) ==
    /\ Live(s) /\ WriteLockFree
    /\ GoroutineEnds(s, j)
    /\ status' = [status EXCEPT ![j] = "completed"]
    /\ stale' = [stale EXCEPT ![j] = FALSE]
    /\ UNCHANGED <<checked, attempts, due, mode, claimVars, allElectionVars>>

\* Mutant: the last attempt is retried too.
FailJobOnceMore(s, j) ==
    /\ Live(s) /\ WriteLockFree
    /\ GoroutineEnds(s, j)
    /\ stale' = [stale EXCEPT ![j] = FALSE]
    /\ \/ /\ attempts[j] <= MaxAttempts[j]
          /\ status' = [status EXCEPT ![j] = "pending"]
          /\ due' = [due EXCEPT ![j] = FALSE]
       \/ /\ attempts[j] > MaxAttempts[j]
          /\ status' = [status EXCEPT ![j] = "failed"]
          /\ UNCHANGED due
    /\ UNCHANGED <<checked, attempts, mode, claimVars, allElectionVars>>

(* A failed attempt is retried after a backoff, until max_attempts.        *)
FailJob(s, j) ==
    /\ Live(s) /\ WriteLockFree
    /\ GoroutineEnds(s, j)
    /\ stale' = [stale EXCEPT ![j] = FALSE]
    /\ \/ /\ attempts[j] < MaxAttempts[j]
          /\ status' = [status EXCEPT ![j] = "pending"]
          /\ due' = [due EXCEPT ![j] = FALSE]
       \/ /\ attempts[j] >= MaxAttempts[j]
          /\ status' = [status EXCEPT ![j] = "failed"]
          /\ UNCHANGED due
    /\ UNCHANGED <<checked, attempts, mode, claimVars, allElectionVars>>

(* The result cannot be written (the context is cancelled, or the database *)
(* fails): it is logged, and the row stays as it is.                       *)
LoseResult(s, j) ==
    /\ IF mode[s] = "stopping" THEN UNCHANGED disruptions ELSE Disrupt
    /\ GoroutineEnds(s, j)
    /\ UNCHANGED <<checked, storeVars, mode, claimVars, electionVars>>

-----------------------------------------------------------------------------
(* CleanupStaleJobs, on the leader's ticker and when SQLite's only process *)
(* starts.  The attempts of the interrupted job are not looked at.         *)

ResetJobs(reset) ==
    /\ status' = [j \in Jobs |-> IF j \in reset THEN "pending" ELSE status[j]]
    /\ stale' = [j \in Jobs |-> IF j \in reset THEN FALSE ELSE stale[j]]
    /\ UNCHANGED <<attempts, due>>

RunningRows == {j \in Jobs : status[j] = "running"}

\* Mutant: the periodic cleanup uses the timeout 0 of the start.
CleanupAllRunning(s) ==
    /\ Live(s) /\ isLeader[s] /\ WriteLockFree
    /\ ResetJobs(RunningRows)
    /\ UNCHANGED <<checked, mode, claimVars, execVars, allElectionVars>>

\* Mutant: only jobs with attempts left are reset, the others stay running.
CleanupWithinAttempts(s) ==
    /\ Live(s) /\ isLeader[s] /\ WriteLockFree
    /\ ResetJobs({j \in RunningRows : stale[j] /\ attempts[j] < MaxAttempts[j]})
    /\ UNCHANGED <<checked, mode, claimVars, execVars, allElectionVars>>

CleanupStaleJobs(s) ==
    /\ Live(s) /\ isLeader[s] /\ WriteLockFree
    /\ ResetJobs({j \in RunningRows : stale[j]})
    /\ UNCHANGED <<checked, mode, claimVars, execVars, allElectionVars>>

(* The stale timeout is longer than the timeout of a job's context, so an  *)
(* executor that honours its context has returned by then.  One that does  *)
(* not, or a host whose clock jumps (a laptop that slept), is a fault.     *)
BecomeStale(j) ==
    /\ status[j] = "running" /\ ~stale[j]
    /\ IF \E s \in Servers : exec[s][j] > 0
       THEN ~TimelyJobs /\ Disrupt
       ELSE UNCHANGED disruptions
    /\ stale' = [stale EXCEPT ![j] = TRUE]
    /\ UNCHANGED <<checked, status, attempts, due, mode, claimVars, execVars,
                   electionVars>>

-----------------------------------------------------------------------------
(* The life of a server process.                                           *)

(* Start.  SQLite: leader at once, and every running row is left over from *)
(* the previous process; if the reset fails that is only logged.           *)
Start(s) ==
    /\ mode[s] = "down"
    /\ mode' = [mode EXCEPT ![s] = "up"]
    /\ \/ /\ SingleNode
          /\ isLeader' = [isLeader EXCEPT ![s] = TRUE]
          /\ \/ ResetJobs(RunningRows) /\ UNCHANGED disruptions
             \/ Disrupt /\ UNCHANGED storeVars
       \/ /\ ~SingleNode
          /\ UNCHANGED <<isLeader, storeVars, disruptions>>
    /\ UNCHANGED <<checked, claimVars, execVars, holder, fresh, electing, expired>>

BeginDrain(s) ==
    /\ mode[s] = "up"
    /\ Disrupt
    /\ mode' = [mode EXCEPT ![s] = "draining"]
    /\ UNCHANGED <<checked, storeVars, claimVars, execVars, electionVars>>

Executing(s) == \E j \in Jobs : exec[s][j] > 0

(* DrainAndStop cancels the context once the jobs in flight have ended, or *)
(* when its deadline passes.                                               *)
CancelContext(s) ==
    /\ mode[s] = "draining"
    /\ IF Executing(s) THEN Disrupt ELSE UNCHANGED disruptions
    /\ mode' = [mode EXCEPT ![s] = "stopping"]
    /\ UNCHANGED <<checked, storeVars, claimVars, execVars, electionVars>>

ForgetProcess(s) ==
    /\ mode' = [mode EXCEPT ![s] = "down"]
    /\ loop' = [loop EXCEPT ![s] = "idle"]
    /\ avail' = [avail EXCEPT ![s] = {}]
    /\ selected' = [selected EXCEPT ![s] = NoJob]
    /\ readAttempts' = [readAttempts EXCEPT ![s] = 0]
    /\ exec' = [exec EXCEPT ![s] = [j \in Jobs |-> 0]]
    /\ runningJobs' = [runningJobs EXCEPT ![s] = [t \in Types |-> 0]]
    /\ UNCHANGED <<checked, storeVars>>

(* The loops and goroutines have ended, or the deadline has passed: the    *)
(* leader releases its row and the process ends.                           *)
Exit(s) ==
    /\ mode[s] = "stopping"
    /\ IF Executing(s) \/ loop[s] # "idle" THEN Disrupt ELSE UNCHANGED disruptions
    /\ GracefulExit(s)
    /\ ForgetProcess(s)

Crash(s) ==
    /\ mode[s] # "down"
    /\ Disrupt
    /\ CrashExit(s)
    /\ ForgetProcess(s)

(* leaderElectionLoop: Postgres only, until the context is cancelled.      *)
Elect(s) ==
    /\ ~SingleNode /\ Live(s)
    /\ \/ ReadToAcquire(s)
       \/ ReadNotLeader(s)
       \/ TryAcquireWrite(s)
    /\ UNCHANGED jobVars

ElectionFails(s) ==
    /\ ~SingleNode /\ mode[s] # "down"
    /\ TryAcquireError(s)
    /\ UNCHANGED jobVars

HeartbeatExpires ==
    /\ Expire
    /\ UNCHANGED jobVars

-----------------------------------------------------------------------------

Enqueue(j) == EnqueueCheck(j) \/ EnqueueCreate(j)

ClaimStep(s) ==
    \/ BeginClaim(s) \/ EndLoop(s)
    \/ SelectJob(s) \/ SelectNothing(s)
    \/ CommitClaim(s)

Report(s, j) == CompleteJob(s, j) \/ FailJob(s, j)

Next ==
    \/ \E j \in Jobs : Enqueue(j) \/ BecomeDue(j) \/ BecomeStale(j)
    \/ \E s \in Servers :
          \/ ClaimStep(s)
          \/ AbortClaim(s)
          \/ CleanupStaleJobs(s)
          \/ Start(s)
          \/ BeginDrain(s)
          \/ CancelContext(s)
          \/ Exit(s)
          \/ Crash(s)
          \/ Elect(s)
          \/ ElectionFails(s)
    \/ \E s \in Servers, j \in Jobs : Report(s, j) \/ LoseResult(s, j)
    \/ HeartbeatExpires

(* The loops of a process keep running, every execution ends (its context  *)
(* has a deadline), time passes, and a process that ended is started again *)
(* by the desktop app or the service manager.  Nothing forces an enqueue,  *)
(* a fault or a shutdown.                                                  *)
Fairness ==
    /\ \A s \in Servers :
          /\ WF_vars(ClaimStep(s))
          /\ WF_vars(mode[s] = "stopping" /\ AbortClaim(s))
          /\ WF_vars(CleanupStaleJobs(s))
          /\ WF_vars(Start(s))
          /\ WF_vars(CancelContext(s))
          /\ WF_vars(Exit(s))
          /\ WF_vars(Elect(s))
          /\ \A j \in Jobs :
                /\ WF_vars(Report(s, j))
                /\ WF_vars(mode[s] = "stopping" /\ LoseResult(s, j))
    /\ \A j \in Jobs : WF_vars(BecomeDue(j)) /\ WF_vars(BecomeStale(j))
    /\ WF_vars(holder = Gone /\ HeartbeatExpires)

Spec == Init /\ [][Next]_vars

FairSpec == Spec /\ Fairness

-----------------------------------------------------------------------------
(* Properties.                                                             *)

(* The jobs of one resource are executed one at a time: no two goroutines, *)
(* of one server or of two, are inside the executors of jobs of the same   *)
(* resource (jobs/types.go, ClaimJobOfTypes).                              *)
SerialPerResource ==
    \A s, t \in Servers : \A j, k \in Jobs :
        /\ SameResource(j, k) /\ exec[s][j] > 0 /\ exec[t][k] > 0
        => s = t /\ j = k /\ exec[s][j] = 1

(* With Postgres, that holds for as long as no leader's heartbeat expires: *)
(* leadership is the only thing that keeps two claims apart, and a server  *)
(* that lost it without an expiry still owns the row while its loop runs.  *)
SerialUntilExpiry == ~expired => SerialPerResource

(* A process never runs more jobs of a type than its limit, whatever the   *)
(* order of claims, ends and resets (getAvailableJobTypes).                *)
WithinConcurrencyLimit ==
    \A s \in Servers, t \in Types :
        Cardinality({j \in Jobs : TypeOf[j] = t /\ exec[s][j] > 0}) <= Limit[t]

(* A job that completed or failed for good is never changed again: no      *)
(* late result of an earlier attempt revives it (FailJob, CompleteJob).    *)
SettledIsFinal ==
    [][\A j \in Jobs : status[j] \in Settled => status'[j] = status[j]]_vars

(* What a running process is executing is a running row: an execution can  *)
(* only lose its row when its process ends.                                *)
ExecutingIsRunning ==
    \A s \in Servers, j \in Jobs : exec[s][j] > 0 => status[j] = "running"

(* Why SerialUntilExpiry holds.  Until a heartbeat expires at most one     *)
(* server is anywhere in its claim loop, so what a claim read still holds  *)
(* when it commits; running rows never share a resource; and whatever is   *)
(* executing is a running row that is not stale, on one server, once.      *)
LoneClaimer ==
    /\ SingleNode => ~expired /\ ~fresh
    /\ ~SingleNode => HolderInv
    /\ ~SingleNode /\ ~expired =>
          \A s \in Servers : loop[s] # "idle" => holder = s

IdleWhenDown ==
    \A s \in Servers :
        /\ selected[s] # NoJob => loop[s] = "claiming"
        /\ mode[s] = "down" =>
              loop[s] = "idle" /\ \A j \in Jobs : exec[s][j] = 0

ClaimStillValid ==
    \A s \in Servers : selected[s] # NoJob =>
        /\ status[selected[s]] = "pending"
        /\ \A k \in Jobs : SameResource(selected[s], k) => status[k] # "running"

RowsSerial ==
    \A j, k \in Jobs :
        SameResource(j, k) /\ status[j] = "running" /\ status[k] = "running"
        => j = k

ExecutedOnce ==
    \A s \in Servers, j \in Jobs : exec[s][j] > 0 =>
        /\ exec[s][j] = 1
        /\ status[j] = "running" /\ ~stale[j]
        /\ \A t \in Servers : exec[t][j] > 0 => t = s

\* A row that is about to be created does not exist yet.
CheckedIsAbsent == \A j \in checked : status[j] = "absent"

SerialInv ==
    /\ LoneClaimer
    /\ IdleWhenDown
    /\ ~expired => /\ CheckedIsAbsent /\ ClaimStillValid
                   /\ RowsSerial /\ ExecutedOnce

(* Why WithinConcurrencyLimit holds.  runningJobs counts the executions of *)
(* a type, and between the capacity check of a claim and its commit it can *)
(* only go down, so that a type that had a free slot still has one.        *)
Executions(s, t) ==
    {e \in Jobs \X (Nat \ {0}) : TypeOf[e[1]] = t /\ e[2] <= exec[s][e[1]]}

SlotsCounted(s, t) ==
    /\ IsFiniteSet(Executions(s, t))
    /\ Cardinality(Executions(s, t)) = runningJobs[s][t]

SlotInv ==
    \A s \in Servers :
        /\ selected[s] # NoJob => TypeOf[selected[s]] \in avail[s]
        /\ \A t \in Types :
              /\ SlotsCounted(s, t)
              /\ runningJobs[s][t] <= Limit[t]
              /\ t \in avail[s] => runningJobs[s][t] < Limit[t]

(* With SQLite, what the other services rely on: the queue implements the  *)
(* contract of ResourceJobs.  Claims, drains and exits are no concern of   *)
(* it; a late result or an early cleanup would break it.                   *)
InHand == {j \in Jobs : \E s \in Servers : exec[s][j] > 0}

Contract == INSTANCE ResourceJobs WITH executing <- InHand

ImplementsContract == Contract!Spec

(* With Postgres it does so until a heartbeat expires, for any number of   *)
(* servers: until then no step of any of them is one that the contract     *)
(* does not allow, whatever handovers, crashes and lost results there are. *)
ContractUntilExpiry ==
    Contract!Init /\ [][~expired => Contract!Next]_(Contract!vars)

(* What that comes to: until then running rows and executions of a         *)
(* resource exclude each other, and no job fails with attempts left.       *)
PromisesUntilExpiry == ~expired => Contract!Promises

(* Nor does a late result, a cleanup or a claim change a settled job.      *)
SettledUntilExpiry ==
    [][~expired => Contract!KeepsSettled]_(Contract!vars)

(* Until a heartbeat expires at most one server is in its claim loop, also *)
(* when the leadership passes from one to the next.                        *)
OneClaimLoop ==
    ~expired =>
        \A s, t \in Servers : loop[s] # "idle" /\ loop[t] # "idle" => s = t

(* What a claim read is still the row's when it commits.                   *)
ReadStillValid ==
    ~expired => \A s \in Servers :
        selected[s] # NoJob => readAttempts[s] = attempts[selected[s]]

(* Every job that is enqueued ends completed or failed, whatever crashes,  *)
(* drains, lost results and changes of leader happen on the way.  With     *)
(* Postgres this needs LeadershipConverges' Quiet to recur.                *)
EveryJobSettles ==
    []<>Quiet =>
        \A j \in Jobs : status[j] = "pending" ~> status[j] \in Settled
=============================================================================
