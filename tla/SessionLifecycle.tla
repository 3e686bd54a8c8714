-------------------------- MODULE SessionLifecycle --------------------------
(***************************************************************************)
(* One session of the server and everything that writes its row: requests  *)
(* and the idle monitor, the watcher of sandbox events, the init, delete   *)
(* and commit jobs, the deferred removal of the sandbox, and the           *)
(* reconciliation after a restart (service/session.go, service/sandbox.go, *)
(* service/sandbox_idle_monitor.go).                                       *)
(*                                                                         *)
(* There are two ways to write the row.  UpdateSessionStatus and           *)
(* UpdateSessionSandboxProgress write the status column of a row that is   *)
(* not deleted.  UpdateSession saves a whole row as it was read before;    *)
(* gorm's Save updates a row that is not deleted and, when that finds      *)
(* none, inserts the row with ON CONFLICT UPDATE ALL, deleted_at included. *)
(*                                                                         *)
(* The queue is what JobQueue shows of it with one server: the jobs of a   *)
(* resource run one at a time, and a job whose process died is put back.   *)
(* Init and delete jobs share the resource session; commit jobs have the   *)
(* workspace, the deferred removal has a resource of its own.              *)
(***************************************************************************)
EXTENDS Naturals, FiniteSets

CONSTANTS
    Clients,        \* requests and rounds of the idle monitor, at one time
    Startup,        \* the goroutine that reconciles after a start
    StatusesGiven,  \* the statuses a request to rename may carry
    MaxIncidents    \* bound: requests, restarts, failed attempts and lost
                    \* writes, all together

None == "none"

\* preparing stands for cloning, pulling_image and creating_sandbox.
Statuses == {"initializing", "reinitializing", "preparing", "ready", "stopped",
             "error", "create_failed", "removing"}
CommitStatuses == {None, "pending", "committing", "completed", "failed"}
InProgress == {"pending", "committing"}
Row == [status: Statuses, commit: CommitStatuses]

ASSUME SessionBounds == /\ Startup \notin Clients
                        /\ StatusesGiven \subseteq Statuses
                        /\ MaxIncidents \in Nat

\* purge is a delete job with CreateFailed in its payload.
Deletes == {"delete", "purge"}
SessionKinds == {"init"} \union Deletes
Kinds == SessionKinds \union {"commit", "reap"}

VARIABLES
    row, deleted,   \* the columns sandbox_status, commit_status; deleted_at
    sandbox,        \* what the provider has
    queue,          \* kind -> how many jobs are pending
    work,           \* the job of the resource session that is executed
    committer,      \* where the commit job is, and the row in its hands
    reaper,         \* where the deferred removal is
    at, seen,       \* where a client is, and the row it read
    watcher,        \* the status handleSandboxEvent is about to write
    incidents,
    wrong           \* what has gone wrong so far

sessionVars == <<row, deleted, wrong>>
clientVars == <<at, seen>>
vars == <<row, deleted, sandbox, queue, work, committer, reaper, at, seen,
          watcher, incidents, wrong>>

Actors == Clients \union {Startup}
NewRow == [status |-> "initializing", commit |-> None]
Rest == [at |-> "idle", seen |-> NewRow]
Idle == [kind |-> None, at |-> "idle", put |-> None, first |-> FALSE]
InitPlaces == {"start", "workspace", "cloned", "sandbox", "restart", "create",
               "making", "made", "configure", "configured"}
DeletePlaces == {"stop", "erase", "purged", "retain"}
Asked == {"delete", "commit", "save", "stop", "open"}
Places == Asked \union
          {"away", "queue_delete", "queue_commit", "stopped", "queue_init",
           "images", "orphan", "outdated", "waiting", "states", "restate",
           "commits", "recommit"}
CommitPlaces == {"idle", "start", "backfill", "mark", "try", "prompt", "wait", "fetch",
                 "apply", "patch", "complete"}

TypeOK ==
    /\ row \in Row /\ deleted \in BOOLEAN
    /\ sandbox \in {"absent", "created", "running", "stopped", "failed"}
    /\ queue \in [Kinds -> Nat]
    /\ work \in [kind: {None} \union SessionKinds, put: {None} \union Statuses,
                 at: {"idle", "end"} \union InitPlaces \union DeletePlaces,
                 first: BOOLEAN]
    /\ committer \in [at: CommitPlaces, seen: Row]
    /\ reaper \in {"idle", "check", "remove"}
    /\ at \in [Actors -> Places] /\ seen \in [Actors -> Row]
    /\ watcher \in {None} \union Statuses
    /\ incidents \in 0 .. MaxIncidents
    /\ wrong \subseteq {"stop_failed", "reaper_lost", "commit_lost",
                        "commit_overwritten", "returned"}

\* NewSession has created the row and enqueued its init job.
Init ==
    /\ row = NewRow /\ deleted = FALSE
    /\ sandbox = "absent"
    /\ queue = [k \in Kinds |-> IF k = "init" THEN 1 ELSE 0]
    /\ work = Idle /\ committer = Rest
    /\ reaper = "idle"
    /\ at = [a \in Actors |-> "away"] /\ seen = [a \in Actors |-> NewRow]
    /\ watcher = None /\ incidents = 0 /\ wrong = {}

-----------------------------------------------------------------------------
\* UpdateSessionStatus, UpdateSessionSandboxProgress: one column.
SetStatus(status) ==
    /\ row' = IF deleted THEN row ELSE [row EXCEPT !.status = status]
    /\ UNCHANGED <<deleted, wrong>>

\* UpdateSession: the row as it was read, with what the caller changed in it.
SaveRow(old, new) ==
    /\ row' = new /\ deleted' = FALSE
    /\ wrong' = wrong
          \union (IF deleted THEN {"returned"} ELSE {})
          \union (IF row.commit /= old.commit THEN {"commit_overwritten"} ELSE {})

Removing == ~deleted /\ row.status = "removing"
Active(kinds) == \E k \in kinds : queue[k] > 0
SessionBusy == Active(SessionKinds) \/ work.kind /= None
CommitBusy == Active({"commit"}) \/ committer.at /= "idle"
ReaperBusy == Active({"reap"}) \/ reaper /= "idle"

Enqueue(kind) == queue' = [queue EXCEPT ![kind] = @ + 1]
Take(kind) == queue[kind] > 0 /\ queue' = [queue EXCEPT ![kind] = @ - 1]
Incident == incidents < MaxIncidents /\ incidents' = incidents + 1
Move(a, from, to) == at[a] = from /\ at' = [at EXCEPT ![a] = to]
Read(a) == seen' = [seen EXCEPT ![a] = row]
Leave(a, from) == Move(a, from, "away") /\ seen' = [seen EXCEPT ![a] = NewRow]

-----------------------------------------------------------------------------
\* Requests.  Each reads the row first; GetSessionByID finds no deleted row.
\* ensureSandboxReady reconciles a session that is stopped or in error, or
\* ready with a sandbox that does not answer; the idle monitor lists the
\* sessions that are ready.
Begin(c, op) ==
    /\ Move(c, "away", op) /\ ~deleted
    /\ IF op \in {"delete", "commit", "save"} THEN Read(c) ELSE UNCHANGED seen
    /\ Incident
    /\ op = "open" => row.status \in {"ready", "stopped", "error"}
    /\ op = "stop" => row.status /= "stopped"
    /\ UNCHANGED <<sessionVars, sandbox, queue, work, committer, reaper, watcher>>

DeleteSession(c) ==
    /\ Move(c, "delete", "queue_delete")
    /\ IF seen[c].status = "removing" THEN UNCHANGED sessionVars
       ELSE SaveRow(seen[c], [seen[c] EXCEPT !.status = "removing"])
    /\ UNCHANGED <<sandbox, queue, work, committer, reaper, seen, watcher, incidents>>

\* That the job cannot be enqueued is only logged.
QueueDelete(c) ==
    /\ Leave(c, "queue_delete")
    /\ \/ /\ Enqueue(IF seen[c].status = "create_failed" THEN "purge"
                     ELSE "delete")
          /\ UNCHANGED incidents
       \/ Incident /\ UNCHANGED queue
    /\ UNCHANGED <<sessionVars, sandbox, work, committer, reaper, watcher>>

\* markSessionOperationPending
CommitSession(c) ==
    /\ IF seen[c].commit \in InProgress
       THEN Leave(c, "commit") /\ UNCHANGED sessionVars
       ELSE /\ Move(c, "commit", "queue_commit") /\ UNCHANGED seen
            /\ SaveRow(seen[c], [seen[c] EXCEPT !.commit = "pending"])
    /\ UNCHANGED <<sandbox, queue, work, committer, reaper, watcher, incidents>>

QueueCommit(c) ==
    /\ Leave(c, "queue_commit")
    /\ \/ Enqueue("commit") /\ UNCHANGED <<incidents, wrong>>
       \/ Incident /\ wrong' = wrong \union {"commit_lost"} /\ UNCHANGED queue
    /\ UNCHANGED <<row, deleted, sandbox, work, committer, reaper, watcher>>

\* A new name.  The request may carry a status; the user interface sends none.
UpdateSession(c) ==
    /\ Leave(c, "save")
    /\ \E status \in StatusesGiven \union {seen[c].status} :
          SaveRow(seen[c], [seen[c] EXCEPT !.status = status])
    /\ UNCHANGED <<sandbox, queue, work, committer, reaper, watcher, incidents>>

ClearTerminalCommitState(c) ==
    /\ Leave(c, "save")
    /\ seen[c].commit \in {"completed", "failed"}
    /\ SaveRow(seen[c], [seen[c] EXCEPT !.commit = None])
    /\ UNCHANGED <<sandbox, queue, work, committer, reaper, watcher, incidents>>

\* StopSession, and the idle monitor when it finds nothing going on; or the
\* sandbox cannot be stopped.
StopSandbox(c) ==
    /\ \/ /\ Move(c, "stop", "stopped")
          /\ sandbox' = IF sandbox = "running" THEN "stopped" ELSE sandbox
       \/ Move(c, "stop", "away") /\ UNCHANGED sandbox
    /\ UNCHANGED <<sessionVars, queue, work, committer, reaper, seen, watcher, incidents>>

MarkStopped(c) ==
    /\ Move(c, "stopped", "away") /\ SetStatus("stopped")
    /\ UNCHANGED <<sandbox, queue, work, committer, reaper, seen, watcher, incidents>>

\* It reads the session first; one that is gone is an error.
ReconcileSandbox(a) ==
    /\ \/ Move(a, "open", "queue_init") /\ SetStatus("reinitializing")
       \/ /\ deleted /\ UNCHANGED sessionVars
          /\ Move(a, "open", IF a = Startup THEN "states" ELSE "away")
    /\ UNCHANGED <<sandbox, queue, work, committer, reaper, seen, watcher, incidents>>

\* The job exists already, or cannot be enqueued: the caller waits all the same.
QueueInit(a) ==
    /\ Move(a, "queue_init", IF a = Startup THEN "waiting" ELSE "away")
    /\ \/ SessionBusy /\ UNCHANGED <<queue, incidents>>
       \/ ~SessionBusy /\ Enqueue("init") /\ UNCHANGED incidents
       \/ ~SessionBusy /\ Incident /\ UNCHANGED queue
    /\ UNCHANGED <<sessionVars, sandbox, work, committer, reaper, seen, watcher>>

Request(c) ==
    \/ \E op \in Asked : Begin(c, op)
    \/ DeleteSession(c) \/ QueueDelete(c) \/ CommitSession(c) \/ QueueCommit(c)
    \/ UpdateSession(c) \/ ClearTerminalCommitState(c)
    \/ StopSandbox(c) \/ MarkStopped(c) \/ ReconcileSandbox(c) \/ QueueInit(c)

-----------------------------------------------------------------------------
\* handleSandboxEvent: what the event makes of the status that was read.  The
\* provider may tell the state of the sandbox at any time, also again.  Of the
\* statuses that preparing merges only creating_sandbox becomes stopped; here
\* all three may.
EventStatus(status) ==
    CASE sandbox = "running" /\ status /= "ready" -> "ready"
      [] sandbox \in {"stopped", "absent"}
            /\ status \in {"ready", "initializing", "preparing"} -> "stopped"
      [] sandbox = "failed" /\ status /= "error" -> "error"
      [] OTHER -> None

SandboxEvent ==
    /\ watcher = None /\ ~deleted /\ EventStatus(row.status) /= None
    /\ watcher' = EventStatus(row.status)
    /\ UNCHANGED <<sessionVars, sandbox, queue, work, committer, reaper, clientVars, incidents>>

RecordEvent ==
    /\ watcher /= None /\ SetStatus(watcher) /\ watcher' = None
    /\ UNCHANGED <<sandbox, queue, work, committer, reaper, clientVars, incidents>>

\* The sandbox fails by itself.
SandboxFails ==
    /\ sandbox = "running" /\ sandbox' = "failed" /\ Incident
    /\ UNCHANGED <<sessionVars, queue, work, committer, reaper, clientVars, watcher>>

-----------------------------------------------------------------------------
\* The jobs of the session.  updateStatusWithEvent reads the row, and writes
\* the status later unless the session was being removed or was gone.
Allowed(status) == IF deleted \/ Removing THEN None ELSE status

\* initialCreate matters until the sandbox is there.
Go(place) == work' = [work EXCEPT !.at = place,
                                  !.first = @ /\ place \notin {"made", "configure"}]
Put(status, place) ==
    work' = IF place = "end" /\ Allowed(status) = None THEN Idle
            ELSE [work EXCEPT !.at = place, !.put = Allowed(status)]

PutStatus ==
    /\ work.put /= None /\ SetStatus(work.put)
    /\ work' = IF work.at = "end" THEN Idle ELSE [work EXCEPT !.put = None]
    /\ UNCHANGED <<sandbox, queue, committer, reaper, clientVars, watcher, incidents>>

ClaimSessionJob(k) ==
    /\ work = Idle /\ Take(k)
    /\ work' = [Idle EXCEPT !.kind = k, !.at = IF k = "init" THEN "start"
                                              ELSE "stop"]
    /\ UNCHANGED <<sessionVars, sandbox, committer, reaper, clientVars, watcher, incidents>>

Working(place) == work.at = place /\ work.put = None

\* Mutant: a session that is not found is initialized all the same.
InitializeAnyway ==
    /\ Working("start")
    /\ work' = IF Removing THEN Idle
               ELSE [work EXCEPT !.at = "workspace",
                                 !.first = (row.status = "initializing")]
    /\ UNCHANGED <<sessionVars, sandbox>>

Initialize ==
    /\ Working("start")
    /\ work' = IF deleted \/ Removing THEN Idle
               ELSE [work EXCEPT !.at = "workspace",
                                 !.first = (row.status = "initializing")]
    /\ UNCHANGED <<sessionVars, sandbox>>

\* EnsureWorkspaceRepo, with a status of its own for a git workspace.  That it
\* fails, or that the workspace is not found, is the error of InitCloned.
InitWorkspace ==
    /\ Working("workspace")
    /\ IF Removing THEN work' = Idle
       ELSE Go("cloned") \/ Put("preparing", "cloned")
    /\ UNCHANGED <<sessionVars, sandbox>>

InitCloned ==
    /\ Working("cloned")
    /\ \/ work' = IF Removing THEN Idle ELSE [work EXCEPT !.at = "sandbox"]
       \/ Put("error", "end")
    /\ UNCHANGED <<sessionVars, sandbox>>

\* A sandbox that exists: kept if it is healthy, started if its image is the
\* current one, removed otherwise.
InitExisting ==
    /\ Working("sandbox")
    /\ \/ sandbox = "absent" /\ Go("create") /\ UNCHANGED sandbox
       \/ sandbox = "running" /\ Go("configure") /\ UNCHANGED sandbox
       \/ sandbox = "running" /\ Go("create") /\ sandbox' \in {"absent", sandbox}
       \/ /\ sandbox \in {"created", "stopped"}
          /\ Put("preparing", "restart") /\ UNCHANGED sandbox
       \/ /\ sandbox \in {"created", "stopped", "failed"}
          /\ Go("create") /\ sandbox' = "absent"
       \/ Put("error", "end") /\ UNCHANGED sandbox
    /\ UNCHANGED sessionVars

\* StartSessionSandbox.  configureSandboxAgent writes its progress without
\* looking at the status; after that, or before, the start may fail.
StartSandbox ==
    \/ UNCHANGED <<sandbox, sessionVars>>
    \/ /\ sandbox /= "absent" /\ sandbox' = "running"
       /\ SetStatus("initializing") \/ UNCHANGED sessionVars

\* A sandbox that does not start is removed and made again, if it can be removed.
InitRestart ==
    /\ Working("restart")
    /\ \/ StartSandbox /\ sandbox' = "running" /\ Go("configure")
       \/ /\ sandbox' = "absent" /\ Go("create")
          /\ \/ UNCHANGED sessionVars
             \/ sandbox /= "absent" /\ SetStatus("initializing")
       \/ StartSandbox /\ Put("error", "end")

InitCreate ==
    /\ Working("create")
    /\ IF Removing THEN work' = Idle ELSE Put("preparing", "making")
    /\ UNCHANGED <<sessionVars, sandbox>>

\* The sandbox may be there although its state could not be saved.
InitMaking ==
    /\ Working("making")
    /\ \/ sandbox = "absent" /\ sandbox' = "created" /\ Go("made")
       \/ /\ sandbox' \in {sandbox, IF sandbox = "absent" THEN "created" ELSE sandbox}
          /\ \/ Put("error", "end")
             \/ work.first /\ Put("create_failed", "end")
    /\ UNCHANGED sessionVars

InitMade ==
    /\ Working("made")
    /\ \/ Removing /\ work' = Idle /\ UNCHANGED <<sandbox, sessionVars>>
       \/ ~Removing /\ StartSandbox /\ sandbox' = "running" /\ Go("configure")
       \/ ~Removing /\ StartSandbox /\ Put("error", "end")

\* The progress of a sandbox that was found running, or ran already.
InitConfigure ==
    /\ Working("configure") /\ Go("configured")
    /\ SetStatus("initializing") \/ UNCHANGED sessionVars
    /\ UNCHANGED sandbox

InitConfigured ==
    /\ Working("configured")
    /\ Put("ready", "end") \/ Put("error", "end")
    /\ UNCHANGED <<sessionVars, sandbox>>

InitJob ==
    /\ \/ Initialize \/ InitWorkspace \/ InitCloned \/ InitExisting \/ InitRestart
       \/ InitCreate \/ InitMaking \/ InitMade \/ InitConfigure \/ InitConfigured
    /\ UNCHANGED <<queue, committer, reaper, clientVars, watcher, incidents>>

-----------------------------------------------------------------------------
\* performDeletion.  A failed attempt is retried until the attempts are used
\* up; a session that is gone fails every one.
FailDelete ==
    /\ work.kind \in Deletes /\ work.at \in {"stop", "erase", "purged"}
    /\ Incident /\ work' = Idle
    /\ Enqueue(work.kind) \/ UNCHANGED queue
    /\ UNCHANGED <<sessionVars, sandbox>>

DeleteStop ==
    /\ Working("stop")
    /\ \/ /\ deleted /\ work' = Idle /\ UNCHANGED <<sandbox, wrong>>
       \/ /\ ~deleted /\ (work.kind = "purge" \/ row.status = "create_failed")
          /\ sandbox' = "absent" /\ Go("purged") /\ UNCHANGED wrong
       \/ /\ ~deleted /\ work.kind /= "purge" /\ row.status /= "create_failed"
          /\ Go("erase")
          /\ \/ /\ sandbox' = IF sandbox = "running" THEN "stopped" ELSE sandbox
                /\ UNCHANGED wrong
             \/ /\ sandbox = "running" /\ UNCHANGED sandbox
                /\ wrong' = wrong \union {"stop_failed"}
    /\ UNCHANGED <<row, deleted, queue, incidents>>

\* Mutant: the deferred removal is not enqueued.
DeleteEraseOnly ==
    /\ work.at \in {"erase", "purged"} /\ deleted' = TRUE /\ work' = Idle
    /\ UNCHANGED <<row, wrong, sandbox, queue, incidents>>

\* The rows of the session, in one transaction.
DeleteErase ==
    /\ work.at \in {"erase", "purged"} /\ deleted' = TRUE
    /\ IF work.at = "purged" THEN work' = Idle ELSE Go("retain")
    /\ UNCHANGED <<row, wrong, sandbox, queue, incidents>>

DeleteRetain ==
    /\ Working("retain") /\ work' = Idle
    /\ \/ /\ IF ReaperBusy THEN UNCHANGED queue ELSE Enqueue("reap")
          /\ UNCHANGED <<incidents, wrong>>
       \/ Incident /\ wrong' = wrong \union {"reaper_lost"} /\ UNCHANGED queue
    /\ UNCHANGED <<row, deleted, sandbox>>

DeleteJob == /\ FailDelete \/ DeleteStop \/ DeleteErase \/ DeleteRetain
             /\ UNCHANGED <<committer, reaper, clientVars, watcher>>

SessionJob == \/ \E k \in SessionKinds : ClaimSessionJob(k)
              \/ PutStatus \/ InitJob \/ DeleteJob

-----------------------------------------------------------------------------
\* PerformDeferredSandboxDeletion, when the retention window is over.
ClaimReapJob ==
    /\ reaper = "idle" /\ Take("reap") /\ reaper' = "check"
    /\ UNCHANGED <<wrong, sandbox, incidents>>

ReapCheck ==
    /\ reaper = "check" /\ reaper' = IF deleted THEN "remove" ELSE "idle"
    /\ UNCHANGED <<wrong, sandbox, queue, incidents>>

ReapRemove ==
    /\ reaper = "remove" /\ reaper' = "idle"
    /\ \/ sandbox' = "absent" /\ UNCHANGED <<queue, incidents, wrong>>
       \/ /\ Incident /\ UNCHANGED sandbox
          /\ \/ Enqueue("reap") /\ UNCHANGED wrong
             \/ wrong' = wrong \union {"reaper_lost"} /\ UNCHANGED queue

ReapJob == /\ ClaimReapJob \/ ReapCheck \/ ReapRemove
           /\ UNCHANGED <<row, deleted, work, committer, clientVars, watcher>>

-----------------------------------------------------------------------------
\* PerformCommit.  It keeps the row it read at the start in its hands, and
\* saves it with each new commit status.  When it cannot read the session or
\* the workspace it ends before its deferred setCommitFailed is in place.
\* A step is a place, the status that is saved (None: no save) and the place
\* after it.
CommitSteps == {
    <<"mark", "pending", "try">>,
    <<"try", "failed", "idle">>,            \* the target, or a prepared pull
    <<"try", None, "prompt">>,              \* no patches so far
    <<"try", "committing", "patch">>,       \* patches are there
    <<"prompt", "failed", "idle">>,
    <<"prompt", "committing", "wait">>,
    <<"wait", "failed", "idle">>,
    <<"wait", None, "fetch">>,
    <<"fetch", "failed", "idle">>,
    <<"fetch", "completed", "complete">>,   \* nothing to apply, tree clean
    <<"fetch", None, "patch">>,
    <<"patch", "failed", "idle">>,
    <<"patch", "committing", "complete">>,  \* saves the applied commit
    <<"complete", "completed", "idle">>}

ClaimCommitJob ==
    /\ committer.at = "idle" /\ Take("commit")
    /\ committer' = [committer EXCEPT !.at = "start"]
    /\ UNCHANGED <<sessionVars, incidents>>

PerformCommit ==
    /\ committer.at = "start" /\ UNCHANGED <<row, deleted, queue>>
    /\ \/ /\ deleted /\ committer' = Rest
          /\ UNCHANGED <<incidents, wrong>>
       \/ /\ \E place \in {"backfill", "mark"} :
                ~deleted /\ committer' = [at |-> place, seen |-> row]
          /\ UNCHANGED <<incidents, wrong>>
       \/ /\ Incident /\ committer' = Rest
          /\ wrong' = wrong \union {"commit_lost"}

\* A session without a target ref is given one, and saved.
BackfillTargetRef ==
    /\ committer.at = "backfill" /\ SaveRow(committer.seen, committer.seen)
    /\ committer' = [committer EXCEPT !.at = "mark"]
    /\ UNCHANGED <<queue, incidents>>

\* Mutant: an error ends the commit without the deferred setCommitFailed.
CommitStepForgets ==
    /\ \E step \in CommitSteps :
          /\ committer.at = step[1]
          /\ IF step[2] \in {None, "failed"}
             THEN /\ committer' = IF step[3] = "idle" THEN Rest
                                  ELSE [committer EXCEPT !.at = step[3]]
                  /\ UNCHANGED sessionVars
             ELSE LET new == [committer.seen EXCEPT !.commit = step[2]]
                  IN /\ SaveRow(committer.seen, new)
                     /\ committer' = IF step[3] = "idle" THEN Rest
                                   ELSE [at |-> step[3], seen |-> new]
    /\ UNCHANGED <<queue, incidents>>

CommitStep ==
    /\ \E step \in CommitSteps :
          /\ committer.at = step[1]
          /\ IF step[2] = None
             THEN /\ committer' = [committer EXCEPT !.at = step[3]]
                  /\ UNCHANGED sessionVars
             ELSE LET new == [committer.seen EXCEPT !.commit = step[2]]
                  IN /\ SaveRow(committer.seen, new)
                     /\ committer' = IF step[3] = "idle" THEN Rest
                                   ELSE [at |-> step[3], seen |-> new]
    /\ UNCHANGED <<queue, incidents>>

\* A save fails; the save of "failed" that follows (setCommitFailed) succeeds,
\* or fails as well.
CommitSaveFails ==
    /\ committer.at \notin {"idle", "start"} /\ Incident
    /\ \/ LET new == [committer.seen EXCEPT !.commit = "failed"]
          IN SaveRow(committer.seen, new)
       \/ wrong' = wrong \union {"commit_lost"} /\ UNCHANGED <<row, deleted>>
    /\ committer' = Rest /\ UNCHANGED queue

CommitJob == /\ \/ ClaimCommitJob \/ PerformCommit \/ BackfillTargetRef
                \/ CommitStep \/ CommitSaveFails
             /\ UNCHANGED <<sandbox, work, reaper, clientVars, watcher>>

-----------------------------------------------------------------------------
\* The server's process ends and starts again: requests are gone, and the
\* dispatcher puts the running jobs back.  A delete job that had not enqueued
\* the deferred removal yet will find no session.
Interrupted == {k \in Kinds : \/ k = work.kind
                              \/ k = "commit" /\ committer.at /= "idle"
                              \/ k = "reap" /\ reaper /= "idle"}

Restart ==
    /\ Incident
    /\ queue' = [k \in Kinds |-> IF k \in Interrupted THEN queue[k] + 1 ELSE queue[k]]
    /\ work' = Idle /\ reaper' = "idle"
    /\ committer' = Rest
    /\ at' = [a \in Actors |-> IF a = Startup THEN "images" ELSE "away"]
    /\ seen' = [a \in Actors |-> NewRow]
    /\ watcher' = None
    /\ wrong' = wrong
          \union (IF work.at = "retain" THEN {"reaper_lost"} ELSE {})
          \union (IF \E c \in Clients : at[c] = "queue_commit"
                  THEN {"commit_lost"} ELSE {})
    /\ UNCHANGED <<row, deleted, sandbox>>

\* ReconcileSandboxes: a sandbox with an outdated image.  If it ran, it is
\* made again by an init job.
ReconcileImages ==
    /\ \/ Move(Startup, "images", "states")
       \/ sandbox /= "absent" /\ deleted /\ ~ReaperBusy
             /\ Move(Startup, "images", "orphan")
       \/ sandbox /= "absent" /\ ~deleted /\ Move(Startup, "images", "outdated")
    /\ UNCHANGED sandbox

RemoveOutdated ==
    /\ at[Startup] \in {"orphan", "outdated"}
    /\ \/ UNCHANGED sandbox /\ at' = [at EXCEPT ![Startup] = "states"]
       \/ /\ sandbox' = "absent"
          /\ at' = [at EXCEPT ![Startup] =
                       IF at[Startup] = "outdated" /\ sandbox \in {"running", "failed"}
                       THEN "open" ELSE "states"]

\* The init job is over, or has failed.
ImagesReconciled ==
    /\ Move(Startup, "waiting", "states")
    /\ SetStatus("stopped") \/ UNCHANGED sessionVars
    /\ UNCHANGED <<sandbox, seen, queue>>

\* ReconcileSessionStates
ListActive ==
    /\ \/ /\ ~deleted /\ row.status \in {"ready", "preparing", "initializing",
                                         "reinitializing"}
          /\ Move(Startup, "states", "restate") /\ Read(Startup)
       \/ /\ deleted \/ row.status \in {"stopped", "error", "create_failed", "removing"}
          /\ Move(Startup, "states", "commits") /\ UNCHANGED seen
    /\ UNCHANGED <<sessionVars, sandbox, queue>>

\* Mutant: the sandbox's own status is written.
ReconcileStateRaw ==
    /\ Move(Startup, "restate", "commits")
    /\ seen' = [seen EXCEPT ![Startup] = NewRow]
    /\ SetStatus(sandbox)
    /\ UNCHANGED <<sandbox, queue>>

ReconcileState ==
    /\ Move(Startup, "restate", "commits")
    /\ seen' = [seen EXCEPT ![Startup] = NewRow]
    /\ \/ sandbox = "failed" /\ SetStatus("error")
       \/ sandbox \in {"absent", "stopped", "created"} /\ SetStatus("stopped")
       \/ /\ sandbox = "running" /\ seen[Startup].status /= "ready"
          /\ SetStatus("ready")
       \/ UNCHANGED sessionVars     \* nothing to correct, or no answer
    /\ UNCHANGED <<sandbox, queue>>

\* ReconcileCommitStates
ListCommits ==
    /\ Move(Startup, "commits", IF ~deleted /\ row.commit \in InProgress
                                THEN "recommit" ELSE "away")
    /\ UNCHANGED <<sessionVars, sandbox, seen, queue>>

Recommit ==
    /\ Move(Startup, "recommit", "away")
    /\ IF CommitBusy THEN UNCHANGED queue ELSE Enqueue("commit")
    /\ UNCHANGED <<sessionVars, sandbox, seen>>

Reconciliation ==
    \/ /\ \/ (ReconcileImages \/ RemoveOutdated) /\ UNCHANGED <<sessionVars, seen, queue>>
          \/ ImagesReconciled \/ ListActive \/ ReconcileState
          \/ ListCommits \/ Recommit
       /\ UNCHANGED <<work, committer, reaper, watcher, incidents>>
    \/ ReconcileSandbox(Startup) \/ QueueInit(Startup)

-----------------------------------------------------------------------------
Next ==
    \/ \E c \in Clients : Request(c)
    \/ SandboxEvent \/ RecordEvent \/ SandboxFails
    \/ SessionJob \/ ReapJob \/ CommitJob
    \/ Restart \/ Reconciliation

\* The dispatcher runs the jobs; nothing is assumed of clients and the rest.
Fairness == WF_vars(SessionJob) /\ WF_vars(ReapJob)

Spec == Init /\ [][Next]_vars /\ Fairness

-----------------------------------------------------------------------------
\* Once a session is deleted its sandbox does not run, unless the one attempt
\* to stop it failed (session.go:661): no init job that was queued, or was under
\* way when the deletion was asked for, starts it afterwards.
DeletedIsQuiet == (deleted /\ sandbox = "running") => "stop_failed" \in wrong

\* A commit that is shown as pending or committing has a job, or a request about
\* to enqueue one; otherwise a write or an enqueue failed, or another holder of
\* the row saved an older one over it (session.go:526, store.go:630).
StuckCommitNeedsCause ==
    (/\ ~deleted /\ row.commit \in InProgress /\ ~CommitBusy
     /\ \A c \in Clients : at[c] /= "queue_commit")
        => wrong \intersect {"commit_lost", "commit_overwritten", "returned"} /= {}

\* A deleted session's sandbox is removed in the end, unless the deferred removal
\* was lost between the transaction and the queue, or the row has come back.
RetainedIsReaped ==
    (deleted /\ sandbox /= "absent")
        ~> (sandbox = "absent" \/ wrong \intersect {"reaper_lost", "returned"} /= {})

\* "removed" has no way out (docs/design/session-states.md:47-50).  A commit job
\* or a request that read the row before it was deleted saves it back.
DeletedStaysDeleted == [][deleted => deleted']_vars
=============================================================================
