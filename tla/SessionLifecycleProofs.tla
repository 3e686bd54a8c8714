----------------------- MODULE SessionLifecycleProofs -----------------------
(***************************************************************************)
(* What SessionLifecycle keeps in every reachable state, for any number of *)
(* clients, requests and faults.                                           *)
(*                                                                         *)
(* The invariant says where a job of the session can be: a delete job that *)
(* is past its first step leaves a sandbox that does not run, and an init  *)
(* job that finds its session deleted has not begun.  Jobs of one session  *)
(* run one at a time, so nothing starts the sandbox behind a delete job's  *)
(* back (JobQueueProofs, SerialInvariant).                                 *)
(***************************************************************************)
EXTENDS SessionLifecycle, TLAPS

NotRunning == sandbox = "running" => "stop_failed" \in wrong

\* What the job of the resource session is doing, by its kind.
JobPlaces ==
    /\ work.kind = None => work = Idle
    /\ work.kind = "init" => work.at \in InitPlaces \union {"end"}
    /\ work.kind \in Deletes => work.at \in DeletePlaces
    /\ work.at = "end" => work.put /= None

\* A delete job past its first step has stopped the sandbox.
StoppedFirst == (work.kind \in Deletes /\ work.at /= "stop") => NotRunning

\* An init job whose session is deleted has not begun.
InitIsFirst == (deleted /\ work.kind = "init") => work.at = "start"

\* A commit under way: the row says so, a job or a request has it, or not.
Stuck == ~deleted /\ row.commit \in InProgress
Held == CommitBusy \/ \E c \in Clients : at[c] = "queue_commit"
Cause == wrong \intersect {"commit_lost", "commit_overwritten", "returned"} /= {}
StuckHasCause == Stuck => (Held \/ Cause)

SessionInv ==
    /\ TypeOK /\ JobPlaces /\ StoppedFirst /\ InitIsFirst
    /\ DeletedIsQuiet /\ StuckHasCause

-----------------------------------------------------------------------------
\* What a step of CommitSteps may be.
LEMMA CommitStepShape ==
    ASSUME NEW step \in CommitSteps
    PROVE  /\ step[1] \in CommitPlaces /\ step[3] \in CommitPlaces
           /\ step[2] \in CommitStatuses
           /\ step[3] = "idle" => step[2] \in {"failed", "completed"}
  BY DEF CommitSteps, CommitPlaces, CommitStatuses, None

\* A saved row is a row, and only the known mishaps are recorded.
LEMMA SaveRowType ==
    ASSUME TypeOK, NEW old \in Row, NEW new \in Row, SaveRow(old, new)
    PROVE  /\ row' \in Row /\ deleted' \in BOOLEAN
           /\ wrong' \subseteq {"stop_failed", "reaper_lost", "commit_lost",
                                "commit_overwritten", "returned"}
  BY DEF TypeOK, SaveRow

\* Writing the status column keeps the commit status.
LEMMA SetStatusType ==
    ASSUME TypeOK, NEW status \in Statuses, SetStatus(status)
    PROVE  row' \in Row /\ deleted' \in BOOLEAN /\ row'.commit = row.commit
  BY DEF TypeOK, SetStatus, Row

\* Moving an actor to a place.
LEMMA MoveType ==
    ASSUME TypeOK, NEW a \in Actors, NEW from, NEW to \in Places, Move(a, from, to)
    PROVE  at' \in [Actors -> Places]
  BY DEF TypeOK, Move

\* The row of a new session is a row.
LEMMA NewRowType == NewRow \in Row
  BY DEF NewRow, Row, Statuses, CommitStatuses, None

\* An actor that is done forgets the row it read.
LEMMA LeaveType ==
    ASSUME TypeOK, NEW a \in Actors, NEW from, Leave(a, from)
    PROVE  at' \in [Actors -> Places] /\ seen' \in [Actors -> Row]
  BY NewRowType DEF TypeOK, Leave, Move, Places

\* Enqueueing a job.
LEMMA EnqueueType ==
    ASSUME TypeOK, NEW kind \in Kinds, Enqueue(kind)
    PROVE  queue' \in [Kinds -> Nat]
  BY DEF TypeOK, Enqueue

\* Claiming a job.
LEMMA TakeType ==
    ASSUME TypeOK, NEW kind \in Kinds, Take(kind)
    PROVE  queue' \in [Kinds -> Nat]
  BY DEF TypeOK, Take

\* The bound on incidents.
LEMMA IncidentType ==
    ASSUME TypeOK, Incident
    PROVE  incidents' \in 0 .. MaxIncidents
  BY SessionBounds DEF TypeOK, Incident

-----------------------------------------------------------------------------
\* The type invariant: requests.
LEMMA RequestType ==
    ASSUME TypeOK, NEW c \in Clients, Request(c)
    PROVE  TypeOK'
<1> c \in Actors
  BY DEF Actors
<1> USE DEF Kinds, SessionKinds, Deletes
<1>1. ASSUME NEW op \in Asked, Begin(c, op) PROVE TypeOK'
  <2>1. seen' \in [Actors -> Row]
    BY <1>1 DEF Begin, TypeOK, Read
  <2> QED
    BY <1>1, <2>1, MoveType, IncidentType
    DEF Begin, TypeOK, Places, sessionVars
<1>2. ASSUME DeleteSession(c) PROVE TypeOK'
  <2>1. /\ seen[c] \in Row
        /\ [seen[c] EXCEPT !.status = "removing"] \in Row
    BY DEF TypeOK, Row, Statuses
  <2>2. /\ row' \in Row /\ deleted' \in BOOLEAN
        /\ wrong' \subseteq {"stop_failed", "reaper_lost", "commit_lost",
                             "commit_overwritten", "returned"}
    BY <1>2, <2>1, SaveRowType DEF DeleteSession, TypeOK, sessionVars
  <2> QED
    BY <1>2, <2>2, MoveType DEF DeleteSession, TypeOK, Places
<1>3. ASSUME QueueDelete(c) PROVE TypeOK'
  <2>1. queue' \in [Kinds -> Nat] /\ incidents' \in 0 .. MaxIncidents
    BY <1>3, EnqueueType, IncidentType DEF QueueDelete, TypeOK
  <2> QED
    BY <1>3, <2>1, LeaveType DEF QueueDelete, TypeOK, sessionVars
<1>4. ASSUME CommitSession(c) PROVE TypeOK'
  <2>1. /\ seen[c] \in Row
        /\ [seen[c] EXCEPT !.commit = "pending"] \in Row
    BY DEF TypeOK, Row, CommitStatuses
  <2>2. /\ row' \in Row /\ deleted' \in BOOLEAN
        /\ wrong' \subseteq {"stop_failed", "reaper_lost", "commit_lost",
                             "commit_overwritten", "returned"}
    BY <1>4, <2>1, SaveRowType DEF CommitSession, TypeOK, sessionVars
  <2>3. at' \in [Actors -> Places] /\ seen' \in [Actors -> Row]
    BY <1>4, MoveType, LeaveType DEF CommitSession, TypeOK, Places
  <2> QED
    BY <1>4, <2>2, <2>3 DEF CommitSession, TypeOK
<1>5. ASSUME QueueCommit(c) PROVE TypeOK'
  <2>1. queue' \in [Kinds -> Nat] /\ incidents' \in 0 .. MaxIncidents
    BY <1>5, EnqueueType, IncidentType DEF QueueCommit, TypeOK
  <2>2. at' \in [Actors -> Places] /\ seen' \in [Actors -> Row]
    BY <1>5, LeaveType DEF QueueCommit
  <2>3. wrong' \subseteq {"stop_failed", "reaper_lost", "commit_lost",
                          "commit_overwritten", "returned"}
    BY <1>5 DEF QueueCommit, TypeOK
  <2> QED
    BY <1>5, <2>1, <2>2, <2>3 DEF QueueCommit, TypeOK
<1>6. ASSUME UpdateSession(c), StatusesGiven \subseteq Statuses PROVE TypeOK'
  <2>1. PICK status \in StatusesGiven \union {seen[c].status} :
            SaveRow(seen[c], [seen[c] EXCEPT !.status = status])
    BY <1>6 DEF UpdateSession
  <2>2. /\ seen[c] \in Row
        /\ [seen[c] EXCEPT !.status = status] \in Row
    BY <1>6, <2>1 DEF TypeOK, Row
  <2> QED
    BY <1>6, <2>1, <2>2, SaveRowType, LeaveType DEF UpdateSession, TypeOK
<1>7. ASSUME ClearTerminalCommitState(c) PROVE TypeOK'
  <2>1. /\ seen[c] \in Row
        /\ [seen[c] EXCEPT !.commit = None] \in Row
    BY DEF TypeOK, Row, CommitStatuses
  <2> QED
    BY <1>7, <2>1, SaveRowType, LeaveType
    DEF ClearTerminalCommitState, TypeOK
<1>8. ASSUME StopSandbox(c) PROVE TypeOK'
  <2>1. at' \in [Actors -> Places]
    BY <1>8, MoveType DEF StopSandbox, Places
  <2> QED
    BY <1>8, <2>1 DEF StopSandbox, TypeOK, sessionVars
<1>9. ASSUME MarkStopped(c) PROVE TypeOK'
  BY <1>9, MoveType, SetStatusType, "stopped" \in Statuses
  DEF MarkStopped, TypeOK, Places, SetStatus, Statuses
<1>10. ASSUME ReconcileSandbox(c) PROVE TypeOK'
  <2>1. at' \in [Actors -> Places]
    <3>1. {"queue_init", "states", "away"} \subseteq Places
      BY DEF Places
    <3>2. CASE Move(c, "open", "queue_init")
      BY <3>1, <3>2, MoveType
    <3>3. CASE Move(c, "open", "states")
      BY <3>1, <3>3, MoveType
    <3>4. CASE Move(c, "open", "away")
      BY <3>1, <3>4, MoveType
    <3> QED
      BY <1>10, <3>2, <3>3, <3>4 DEF ReconcileSandbox
  <2>2. "reinitializing" \in Statuses
    BY DEF Statuses
  <2>3. row' \in Row /\ UNCHANGED <<deleted, wrong>>
    <3>1. CASE SetStatus("reinitializing")
      BY <3>1, <2>2, SetStatusType DEF SetStatus
    <3>2. CASE UNCHANGED sessionVars
      BY <3>2 DEF sessionVars, TypeOK
    <3> QED
      BY <1>10, <3>1, <3>2 DEF ReconcileSandbox
  <2> QED
    BY <1>10, <2>1, <2>3 DEF ReconcileSandbox, TypeOK
<1>11. ASSUME QueueInit(c) PROVE TypeOK'
  <2>1. queue' \in [Kinds -> Nat] /\ incidents' \in 0 .. MaxIncidents
    BY <1>11, EnqueueType, IncidentType DEF QueueInit, TypeOK
  <2>2. at' \in [Actors -> Places]
    BY <1>11, MoveType DEF QueueInit, Places
  <2> QED
    BY <1>11, <2>1, <2>2 DEF QueueInit, TypeOK, sessionVars
<1> QED
  BY <1>1, <1>2, <1>3, <1>4, <1>5, <1>6, <1>7, <1>8, <1>9, <1>10, <1>11,
     SessionBounds DEF Request

-----------------------------------------------------------------------------
\* The type invariant: the sandbox's events and the session's jobs.
LEMMA SandboxType ==
    ASSUME TypeOK, SandboxEvent \/ RecordEvent \/ SandboxFails
    PROVE  TypeOK'
<1>1. CASE SandboxEvent
  <2>1. EventStatus(row.status) \in {None} \union Statuses
    BY DEF EventStatus, Statuses
  <2> QED
    BY <1>1, <2>1 DEF SandboxEvent, TypeOK, sessionVars, clientVars
<1>2. CASE RecordEvent
  <2>1. watcher \in Statuses
    BY <1>2 DEF RecordEvent, TypeOK
  <2> QED
    BY <1>2, <2>1, SetStatusType
    DEF RecordEvent, TypeOK, SetStatus, clientVars
<1>3. CASE SandboxFails
  BY <1>3, IncidentType DEF SandboxFails, TypeOK, sessionVars, clientVars
<1> QED
  BY <1>1, <1>2, <1>3

\* Where Go and Put may lead: any place, with a status or none.
Work == [kind: {None} \union SessionKinds, put: {None} \union Statuses,
         at: {"idle", "end"} \union InitPlaces \union DeletePlaces,
         first: BOOLEAN]

\* No job of the session is executed.
LEMMA IdleType == Idle \in Work
  BY DEF Idle, Work

\* An init or delete job goes on.
LEMMA GoType ==
    ASSUME TypeOK, NEW place \in InitPlaces \union DeletePlaces, Go(place)
    PROVE  /\ work' \in Work
           /\ work'.kind = work.kind /\ work'.at = place /\ work'.put = work.put
  BY DEF TypeOK, Go, Work

\* A job is about to write a status, unless the session is being removed.
LEMMA PutType ==
    ASSUME TypeOK, NEW status \in Statuses,
           NEW place \in {"end"} \union InitPlaces, Put(status, place)
    PROVE  /\ work' \in Work
           /\ \/ work' = Idle
              \/ /\ work'.kind = work.kind /\ work'.at = place
                 /\ place = "end" => work'.put /= None
  BY IdleType DEF TypeOK, Put, Allowed, Work

\* An init job stays one, or is over.  It makes the sandbox run only at the
\* places where StartSessionSandbox is called.
LEMMA InitJobShape ==
    ASSUME TypeOK, InitJob
    PROVE  /\ TypeOK'
           /\ \/ work' = Idle
              \/ /\ work'.kind = work.kind
                 /\ work'.at \in InitPlaces \union {"end"}
                 /\ work'.at = "end" => work'.put /= None
                 /\ work.at = "start" => ~deleted
           /\ work.at \in InitPlaces
           /\ sandbox' = "running" =>
                (sandbox = "running" \/ work.at \in {"restart", "made"})
           /\ UNCHANGED <<deleted, wrong, queue, committer, at>>
           /\ row'.commit = row.commit
<1> USE DEF InitPlaces
<1> DEFINE Shape ==
           /\ work' \in Work
           /\ \/ work' = Idle
              \/ /\ work'.kind = work.kind
                 /\ work'.at \in InitPlaces \union {"end"}
                 /\ work'.at = "end" => work'.put /= None
                 /\ work.at = "start" => ~deleted
           /\ work.at \in InitPlaces
           /\ sandbox' \in {"absent", "created", "running", "stopped", "failed"}
           /\ sandbox' = "running" =>
                (sandbox = "running" \/ work.at \in {"restart", "made"})
           /\ UNCHANGED <<deleted, wrong>>
           /\ row' \in Row /\ row'.commit = row.commit
<1> HIDE DEF Shape
<1>s. /\ "error" \in Statuses /\ "preparing" \in Statuses /\ "ready" \in Statuses
      /\ "create_failed" \in Statuses /\ "initializing" \in Statuses
  BY DEF Statuses
<1>w. work \in Work
  BY DEF TypeOK, Work
<1>1. ASSUME Initialize PROVE Shape
  BY <1>1, <1>w, IdleType DEF Initialize, Working, TypeOK, Work, sessionVars, Shape
<1>2. ASSUME InitWorkspace PROVE Shape
  BY <1>2, <1>s, IdleType, GoType, PutType
  DEF InitWorkspace, Working, TypeOK, sessionVars, Shape
<1>3. ASSUME InitCloned PROVE Shape
  <2>1. work' = [work EXCEPT !.at = "sandbox"] => work' \in Work
    BY <1>w DEF Work
  <2> QED
    BY <1>3, <1>s, <1>w, <2>1, IdleType, PutType
    DEF InitCloned, Working, TypeOK, Work, sessionVars, Shape
<1>4. ASSUME InitExisting PROVE Shape
  BY <1>4, <1>s, GoType, PutType
  DEF InitExisting, Working, TypeOK, sessionVars, Shape
<1>p. ASSUME SetStatus("initializing") \/ UNCHANGED sessionVars
      PROVE  row' \in Row /\ row'.commit = row.commit /\ UNCHANGED <<deleted, wrong>>
  BY <1>p, <1>s, SetStatusType DEF SetStatus, TypeOK, sessionVars
<1>a. ASSUME StartSandbox
      PROVE  /\ row' \in Row /\ row'.commit = row.commit
             /\ UNCHANGED <<deleted, wrong>> /\ sandbox' \in {sandbox, "running"}
  BY <1>a, <1>p DEF StartSandbox, sessionVars
<1>5. ASSUME InitRestart PROVE Shape
  <2>1. /\ row' \in Row /\ row'.commit = row.commit /\ UNCHANGED <<deleted, wrong>>
        /\ sandbox' \in {sandbox, "running", "absent"}
    BY <1>5, <1>a, <1>p DEF InitRestart
  <2> QED
    BY <1>5, <2>1, <1>s, GoType, PutType DEF InitRestart, Working, TypeOK, Shape
<1>6. ASSUME InitCreate PROVE Shape
  BY <1>6, <1>s, IdleType, PutType
  DEF InitCreate, Working, TypeOK, sessionVars, Shape
<1>7. ASSUME InitMaking PROVE Shape
  BY <1>7, <1>s, GoType, PutType
  DEF InitMaking, Working, TypeOK, sessionVars, Shape
<1>8. ASSUME InitMade PROVE Shape
  <2>1. /\ row' \in Row /\ row'.commit = row.commit /\ UNCHANGED <<deleted, wrong>>
        /\ sandbox' \in {sandbox, "running"}
    BY <1>8, <1>a, <1>p DEF InitMade, sessionVars
  <2> QED
    BY <1>8, <2>1, <1>s, IdleType, GoType, PutType
    DEF InitMade, Working, TypeOK, Shape
<1>9. ASSUME InitConfigure PROVE Shape
  <2>1. row' \in Row /\ row'.commit = row.commit /\ UNCHANGED <<deleted, wrong>>
    BY <1>9, <1>p DEF InitConfigure
  <2> QED
    BY <1>9, <2>1, GoType DEF InitConfigure, Working, TypeOK, Shape
<1>10. ASSUME InitConfigured PROVE Shape
  BY <1>10, <1>s, PutType
  DEF InitConfigured, Working, TypeOK, sessionVars, Shape
<1>11. Shape
  BY <1>1, <1>2, <1>3, <1>4, <1>5, <1>6, <1>7, <1>8, <1>9, <1>10 DEF InitJob
<1>12. UNCHANGED <<queue, committer, reaper, at, seen, watcher, incidents>>
  BY DEF InitJob, clientVars
<1>13. TypeOK'
  BY <1>11, <1>12 DEF TypeOK, Shape, Work
<1> QED
  BY <1>11, <1>12, <1>13 DEF Shape

\* A delete job: the row is deleted only by one that is past its first step,
\* and past it the sandbox does not run.
LEMMA DeleteJobShape ==
    ASSUME TypeOK, JobPlaces, StoppedFirst, DeleteJob
    PROVE  /\ TypeOK'
           /\ work.kind \in Deletes
           /\ \/ work' = Idle
              \/ /\ work'.kind = work.kind
                 /\ work'.at \in {"erase", "purged", "retain"}
                 /\ NotRunning'
           /\ sandbox' = "running" => sandbox = "running"
           /\ deleted' => (deleted \/ NotRunning')
           /\ deleted => deleted'
           /\ wrong \subseteq wrong'
           /\ queue["commit"] <= queue'["commit"]
           /\ UNCHANGED <<row, committer, at>>
<1> DEFINE Shape ==
           /\ work.kind \in Deletes
           /\ work' \in Work
           /\ \/ work' = Idle
              \/ /\ work'.kind = work.kind
                 /\ work'.at \in {"erase", "purged", "retain"}
                 /\ NotRunning'
           /\ sandbox' \in {"absent", "created", "running", "stopped", "failed"}
           /\ sandbox' = "running" => sandbox = "running"
           /\ deleted' => (deleted \/ NotRunning')
           /\ deleted => deleted'
           /\ deleted' \in BOOLEAN
           /\ wrong \subseteq wrong'
           /\ wrong' \subseteq {"stop_failed", "reaper_lost", "commit_lost",
                                "commit_overwritten", "returned"}
           /\ row' = row
<1> DEFINE Queued ==
           /\ queue' \in [Kinds -> Nat]
           /\ queue["commit"] <= queue'["commit"]
           /\ incidents' \in 0 .. MaxIncidents
<1> HIDE DEF Shape, Queued
<1>k. work.kind \in {None} \union SessionKinds /\ work.at \in {"idle", "end"} \union InitPlaces \union DeletePlaces
  BY DEF TypeOK
<1>d. work.at \in DeletePlaces => work.kind \in Deletes
  BY <1>k DEF JobPlaces, Idle, DeletePlaces, InitPlaces, SessionKinds
<1>q. \A kind \in Kinds : Enqueue(kind) => /\ queue' \in [Kinds -> Nat]
                                          /\ queue["commit"] <= queue'["commit"]
  <2> SUFFICES ASSUME NEW kind \in Kinds, Enqueue(kind)
               PROVE  /\ queue' \in [Kinds -> Nat]
                      /\ queue["commit"] <= queue'["commit"]
    OBVIOUS
  <2>1. queue \in [Kinds -> Nat] /\ "commit" \in Kinds
    BY DEF TypeOK, Kinds
  <2> QED
    BY <2>1, EnqueueType DEF Enqueue
<1>u. UNCHANGED queue => /\ queue' \in [Kinds -> Nat]
                        /\ queue["commit"] <= queue'["commit"]
  BY DEF TypeOK, Kinds
<1>i. /\ UNCHANGED incidents => incidents' \in 0 .. MaxIncidents
      /\ Incident => incidents' \in 0 .. MaxIncidents
  BY IncidentType DEF TypeOK
<1>1. ASSUME FailDelete PROVE Shape /\ Queued
  <2>1. Shape
    BY <1>1, IdleType DEF FailDelete, TypeOK, sessionVars, Shape
  <2>2. Queued
    BY <1>1, <1>q, <1>u, <1>i DEF FailDelete, Queued, Kinds, SessionKinds
  <2> QED
    BY <2>1, <2>2
<1>2. ASSUME DeleteStop PROVE Shape /\ Queued
  <2>1. work.at = "stop" /\ work.kind \in Deletes
    BY <1>2, <1>d DEF DeleteStop, Working, DeletePlaces
  <2>2. Shape
    BY <1>2, <2>1, IdleType, GoType
    DEF DeleteStop, TypeOK, Shape, DeletePlaces, NotRunning
  <2>3. Queued
    BY <1>2, <1>u, <1>i DEF DeleteStop, Queued
  <2> QED
    BY <2>2, <2>3
<1>3. ASSUME DeleteErase PROVE Shape /\ Queued
  <2>1. work.at \in {"erase", "purged"} /\ work.kind \in Deletes
    BY <1>3, <1>d DEF DeleteErase, DeletePlaces
  <2>2. NotRunning
    BY <2>1 DEF StoppedFirst
  <2>3. Shape
    BY <1>3, <2>1, <2>2, IdleType, GoType
    DEF DeleteErase, TypeOK, Shape, DeletePlaces, NotRunning
  <2>4. Queued
    BY <1>3, <1>u, <1>i DEF DeleteErase, Queued
  <2> QED
    BY <2>3, <2>4
<1>4. ASSUME DeleteRetain PROVE Shape /\ Queued
  <2>1. work.at = "retain" /\ work.kind \in Deletes
    BY <1>4, <1>d DEF DeleteRetain, Working, DeletePlaces
  <2>2. Shape
    BY <1>4, <2>1, IdleType DEF DeleteRetain, TypeOK, Shape
  <2>3. Queued
    BY <1>4, <1>q, <1>u, <1>i DEF DeleteRetain, Queued, Kinds
  <2> QED
    BY <2>2, <2>3
<1>5. Shape /\ Queued
  BY <1>1, <1>2, <1>3, <1>4 DEF DeleteJob
<1>6. UNCHANGED <<committer, reaper, at, seen, watcher>>
  BY DEF DeleteJob, clientVars
<1>7. TypeOK'
  BY <1>5, <1>6 DEF TypeOK, Shape, Queued, Work
<1> QED
  BY <1>5, <1>6, <1>7 DEF Shape, Queued

\* Claiming a job of the session, and writing its status.
LEMMA ClaimSessionJobShape ==
    ASSUME TypeOK, NEW k \in SessionKinds, ClaimSessionJob(k)
    PROVE  /\ TypeOK'
           /\ work'.kind = k /\ work'.put = None
           /\ work'.at = IF k = "init" THEN "start" ELSE "stop"
           /\ queue["commit"] = queue'["commit"]
           /\ UNCHANGED <<row, deleted, wrong, sandbox, committer, at>>
<1>1. work' \in Work
  BY DEF ClaimSessionJob, Idle, Work, InitPlaces, DeletePlaces
<1>2. queue' \in [Kinds -> Nat]
  BY TakeType DEF ClaimSessionJob, Kinds
<1>3. TypeOK'
  BY <1>1, <1>2 DEF ClaimSessionJob, TypeOK, Work, sessionVars, clientVars
<1>4. /\ work'.kind = k /\ work'.put = None
      /\ work'.at = IF k = "init" THEN "start" ELSE "stop"
  BY DEF ClaimSessionJob, Idle
<1>5. queue["commit"] = queue'["commit"]
  BY DEF ClaimSessionJob, Take, TypeOK, Kinds, SessionKinds, Deletes
<1> QED
  BY <1>3, <1>4, <1>5 DEF ClaimSessionJob, sessionVars, clientVars

\* The status that was allowed before is written now.
LEMMA PutStatusShape ==
    ASSUME TypeOK, PutStatus
    PROVE  /\ TypeOK'
           /\ \/ work' = Idle
              \/ /\ work'.kind = work.kind /\ work'.at = work.at
                 /\ work'.at /= "end"
           /\ row'.commit = row.commit
           /\ UNCHANGED <<deleted, wrong, sandbox, queue, committer, at>>
<1>1. work.put \in Statuses
  BY DEF PutStatus, TypeOK
<1>2. row' \in Row /\ row'.commit = row.commit /\ UNCHANGED <<deleted, wrong>>
  BY <1>1, SetStatusType DEF PutStatus, SetStatus
<1>3. work' \in Work
  BY IdleType DEF PutStatus, TypeOK, Work
<1>4. TypeOK'
  BY <1>2, <1>3 DEF PutStatus, TypeOK, Work, clientVars
<1>5. \/ work' = Idle
      \/ /\ work'.kind = work.kind /\ work'.at = work.at
         /\ work'.at /= "end"
  BY DEF PutStatus, TypeOK
<1> QED
  BY <1>2, <1>4, <1>5 DEF PutStatus, clientVars

-----------------------------------------------------------------------------
\* The deferred removal.
LEMMA ReapJobShape ==
    ASSUME TypeOK, ReapJob
    PROVE  /\ TypeOK'
           /\ sandbox' = "running" => sandbox = "running"
           /\ wrong \subseteq wrong'
           /\ queue["commit"] <= queue'["commit"]
           /\ UNCHANGED <<row, deleted, work, committer, at>>
<1>1. /\ queue' \in [Kinds -> Nat]
      /\ queue["commit"] <= queue'["commit"]
  <2> "reap" \in Kinds /\ "commit" \in Kinds /\ queue \in [Kinds -> Nat]
    BY DEF Kinds, TypeOK
  <2>1. CASE ClaimReapJob
    BY <2>1, TakeType DEF ClaimReapJob, Take
  <2>2. CASE ReapCheck
    BY <2>2 DEF ReapCheck
  <2>3. CASE ReapRemove
    BY <2>3, EnqueueType DEF ReapRemove, Enqueue
  <2> QED
    BY <2>1, <2>2, <2>3 DEF ReapJob
<1>2. incidents' \in 0 .. MaxIncidents
  BY IncidentType
  DEF ReapJob, ClaimReapJob, ReapCheck, ReapRemove, TypeOK
<1>3. /\ sandbox' \in {"absent", "created", "running", "stopped", "failed"}
      /\ sandbox' = "running" => sandbox = "running"
      /\ reaper' \in {"idle", "check", "remove"}
      /\ wrong \subseteq wrong'
      /\ wrong' \subseteq {"stop_failed", "reaper_lost", "commit_lost",
                           "commit_overwritten", "returned"}
  BY DEF ReapJob, ClaimReapJob, ReapCheck, ReapRemove, TypeOK
<1> QED
  BY <1>1, <1>2, <1>3 DEF ReapJob, TypeOK, clientVars

-----------------------------------------------------------------------------
\* A commit job.  It saves "pending" or "committing" only while it goes on.
LEMMA CommitJobShape ==
    ASSUME TypeOK, CommitJob
    PROVE  /\ TypeOK'
           /\ deleted' => deleted
           /\ wrong \subseteq wrong'
           /\ \/ committer'.at /= "idle"
              \/ row'.commit \notin InProgress
              \/ "commit_lost" \in wrong'
              \/ deleted'
           /\ UNCHANGED <<sandbox, work, at>>
<1> DEFINE Shape ==
           /\ committer' \in [at: CommitPlaces, seen: Row]
           /\ row' \in Row /\ deleted' \in BOOLEAN
           /\ deleted' => deleted
           /\ wrong \subseteq wrong'
           /\ wrong' \subseteq {"stop_failed", "reaper_lost", "commit_lost",
                                "commit_overwritten", "returned"}
           /\ \/ committer'.at /= "idle"
              \/ row'.commit \notin InProgress
              \/ "commit_lost" \in wrong'
              \/ deleted'
<1> DEFINE Queued == queue' \in [Kinds -> Nat] /\ incidents' \in 0 .. MaxIncidents
<1> HIDE DEF Shape, Queued
<1>r. Rest \in [at: CommitPlaces, seen: Row] /\ Rest.at = "idle"
  BY NewRowType DEF Rest, CommitPlaces
<1>n. \A status \in CommitStatuses :
         /\ [committer.seen EXCEPT !.commit = status] \in Row
         /\ [committer.seen EXCEPT !.commit = status].commit = status
         /\ committer.seen \in Row
  BY DEF TypeOK, Row
<1>i. Incident => incidents' \in 0 .. MaxIncidents
  BY IncidentType
<1>1. ASSUME ClaimCommitJob PROVE Shape /\ Queued
  <2>1. Queued
    BY <1>1, TakeType DEF ClaimCommitJob, TypeOK, Kinds, Queued
  <2>2. committer' \in [at: CommitPlaces, seen: Row] /\ committer'.at = "start"
    BY <1>1 DEF ClaimCommitJob, TypeOK, CommitPlaces
  <2> QED
    BY <1>1, <2>1, <2>2 DEF ClaimCommitJob, TypeOK, sessionVars, Shape
<1>2. ASSUME PerformCommit PROVE Shape /\ Queued
  <2>1. Queued
    BY <1>2, <1>i DEF PerformCommit, TypeOK, Queued
  <2>2. \A place \in {"backfill", "mark"} :
            [at |-> place, seen |-> row] \in [at: CommitPlaces, seen: Row]
    BY DEF TypeOK, CommitPlaces
  <2>3. Shape
    <3>1. ASSUME NEW place \in {"backfill", "mark"},
                 committer' = [at |-> place, seen |-> row]
          PROVE  Shape
      BY <1>2, <2>2, <3>1 DEF PerformCommit, TypeOK, Shape
    <3>2. CASE committer' = Rest /\ (deleted \/ "commit_lost" \in wrong')
      BY <1>2, <1>r, <3>2 DEF PerformCommit, TypeOK, Shape
    <3> QED
      BY <1>2, <3>1, <3>2 DEF PerformCommit
  <2> QED
    BY <2>1, <2>3
<1>3. ASSUME CommitStep PROVE Shape /\ Queued
  <2>1. Queued
    BY <1>3 DEF CommitStep, TypeOK, Queued
  <2>2. PICK step \in CommitSteps :
           /\ committer.at = step[1]
           /\ IF step[2] = None
              THEN /\ committer' = [committer EXCEPT !.at = step[3]]
                   /\ UNCHANGED sessionVars
              ELSE LET new == [committer.seen EXCEPT !.commit = step[2]]
                   IN /\ SaveRow(committer.seen, new)
                      /\ committer' = IF step[3] = "idle" THEN Rest
                                      ELSE [at |-> step[3], seen |-> new]
    BY <1>3 DEF CommitStep
  <2>3. CASE step[2] = None
    <3>1. step[3] \in CommitPlaces /\ step[3] /= "idle"
      BY <2>3, CommitStepShape DEF None
    <3>2. committer' \in [at: CommitPlaces, seen: Row] /\ committer'.at /= "idle"
      BY <2>2, <2>3, <3>1 DEF TypeOK
    <3> QED
      BY <2>1, <2>2, <2>3, <3>2 DEF sessionVars, TypeOK, Shape
  <2>4. CASE step[2] /= None
    <3> DEFINE new == [committer.seen EXCEPT !.commit = step[2]]
    <3>1. /\ new \in Row /\ new.commit = step[2] /\ committer.seen \in Row
          /\ SaveRow(committer.seen, new)
          /\ committer' = IF step[3] = "idle" THEN Rest
                          ELSE [at |-> step[3], seen |-> new]
      BY <2>2, <2>4, <1>n, CommitStepShape
    <3>2. /\ step[3] \in CommitPlaces
          /\ step[3] = "idle" => step[2] \in {"failed", "completed"}
      BY CommitStepShape
    <3> HIDE DEF new
    <3>3. row' = new /\ wrong \subseteq wrong' /\ deleted' = FALSE
      BY <3>1 DEF SaveRow
    <3>4. /\ row' \in Row /\ deleted' \in BOOLEAN
          /\ wrong' \subseteq {"stop_failed", "reaper_lost", "commit_lost",
                               "commit_overwritten", "returned"}
      BY <3>1, SaveRowType
    <3>5. committer' \in [at: CommitPlaces, seen: Row]
      BY <3>1, <3>2, <1>r
    <3>6. committer'.at /= "idle" \/ row'.commit \notin InProgress
      BY <3>1, <3>2, <3>3 DEF InProgress
    <3> QED
      BY <2>1, <3>3, <3>4, <3>5, <3>6 DEF Shape
  <2> QED
    BY <2>3, <2>4
<1>4. ASSUME CommitSaveFails PROVE Shape /\ Queued
  <2>1. Queued
    BY <1>4, <1>i DEF CommitSaveFails, TypeOK, Queued
  <2>2. CASE SaveRow(committer.seen, [committer.seen EXCEPT !.commit = "failed"])
    <3> DEFINE new == [committer.seen EXCEPT !.commit = "failed"]
    <3>1. new \in Row /\ new.commit = "failed" /\ committer.seen \in Row
      BY <1>n, "failed" \in CommitStatuses DEF CommitStatuses
    <3> HIDE DEF new
    <3>2. row' = new /\ wrong \subseteq wrong' /\ deleted' = FALSE
      BY <2>2 DEF SaveRow, new
    <3>3. /\ row' \in Row /\ deleted' \in BOOLEAN
          /\ wrong' \subseteq {"stop_failed", "reaper_lost", "commit_lost",
                               "commit_overwritten", "returned"}
      BY <2>2, <3>1, SaveRowType DEF new
    <3> QED
      BY <1>4, <1>r, <2>1, <3>1, <3>2, <3>3 DEF CommitSaveFails, Shape, InProgress
  <2>3. CASE wrong' = wrong \union {"commit_lost"} /\ UNCHANGED <<row, deleted>>
    BY <1>4, <1>r, <2>1, <2>3 DEF CommitSaveFails, Shape, TypeOK
  <2> QED
    BY <1>4, <2>2, <2>3 DEF CommitSaveFails
<1>b. ASSUME BackfillTargetRef PROVE Shape /\ Queued
  <2>1. Queued
    BY <1>b DEF BackfillTargetRef, TypeOK, Queued
  <2>2. committer' \in [at: CommitPlaces, seen: Row] /\ committer'.at = "mark"
    BY <1>b DEF BackfillTargetRef, TypeOK, CommitPlaces
  <2>3. /\ SaveRow(committer.seen, committer.seen) /\ committer.seen \in Row
        /\ wrong \subseteq wrong' /\ deleted' = FALSE
    BY <1>b DEF BackfillTargetRef, SaveRow, TypeOK
  <2>4. /\ row' \in Row /\ deleted' \in BOOLEAN
        /\ wrong' \subseteq {"stop_failed", "reaper_lost", "commit_lost",
                             "commit_overwritten", "returned"}
    BY <2>3, SaveRowType
  <2> QED
    BY <2>1, <2>2, <2>3, <2>4 DEF Shape
<1>5. Shape /\ Queued
  BY <1>1, <1>2, <1>3, <1>4, <1>b DEF CommitJob
<1>6. UNCHANGED <<sandbox, work, reaper, at, seen, watcher>>
  BY DEF CommitJob, clientVars
<1>7. TypeOK'
  BY <1>5, <1>6 DEF TypeOK, Shape, Queued
<1> QED
  BY <1>5, <1>6, <1>7 DEF Shape

-----------------------------------------------------------------------------
\* The restart and the reconciliation after it.
LEMMA RestartType ==
    ASSUME TypeOK, Restart
    PROVE  TypeOK'
<1>1. queue' \in [Kinds -> Nat]
  BY DEF Restart, TypeOK
<1>2. Idle \in Work /\ Rest \in [at: CommitPlaces, seen: Row]
  BY IdleType, NewRowType DEF Rest, CommitPlaces
<1>3. at' \in [Actors -> Places] /\ seen' \in [Actors -> Row]
  BY NewRowType DEF Restart, Places
<1>4. wrong' \subseteq {"stop_failed", "reaper_lost", "commit_lost",
                        "commit_overwritten", "returned"}
  BY DEF Restart, TypeOK
<1> QED
  BY <1>1, <1>2, <1>3, <1>4, IncidentType DEF Restart, TypeOK, Work

\* The reconciliation starts no sandbox itself, takes no commit job away and
\* leaves clients and commit status alone.
LEMMA ReconciliationShape ==
    ASSUME TypeOK, Reconciliation
    PROVE  /\ TypeOK'
           /\ sandbox' = "running" => sandbox = "running"
           /\ queue["commit"] <= queue'["commit"]
           /\ row'.commit = row.commit
           /\ \A c \in Clients : at'[c] = at[c]
           /\ UNCHANGED <<deleted, work, committer, wrong>>
<1> Startup \in Actors /\ \A c \in Clients : c \in Actors /\ c /= Startup
  BY SessionBounds DEF Actors
<1>s. /\ "error" \in Statuses /\ "stopped" \in Statuses /\ "ready" \in Statuses
      /\ "reinitializing" \in Statuses
  BY DEF Statuses
<1>k. /\ "commit" \in Kinds /\ "init" \in Kinds /\ queue \in [Kinds -> Nat]
  BY DEF Kinds, SessionKinds, TypeOK
<1>m. ASSUME NEW from, NEW to \in Places, Move(Startup, from, to)
      PROVE  /\ at' \in [Actors -> Places]
             /\ \A c \in Clients : at'[c] = at[c]
  BY <1>m DEF Move, TypeOK
<1>w. ASSUME NEW status \in Statuses, SetStatus(status)
      PROVE  row' \in Row /\ row'.commit = row.commit /\ UNCHANGED <<deleted, wrong>>
  BY <1>w, SetStatusType DEF SetStatus
<1>p. Asked \subseteq Places /\ {"away", "states", "orphan", "outdated", "restate",
         "commits", "recommit", "queue_init", "waiting", "open"} \subseteq Places
  BY DEF Asked, Places
<1>1. ASSUME ReconcileImages \/ RemoveOutdated, UNCHANGED <<sessionVars, seen, queue>>,
             UNCHANGED <<work, committer, reaper, watcher>>,
             incidents' \in 0 .. MaxIncidents
      PROVE  /\ TypeOK'
             /\ sandbox' = "running" => sandbox = "running"
             /\ \A c \in Clients : at'[c] = at[c]
  <2>1. at' \in [Actors -> Places] /\ \A c \in Clients : at'[c] = at[c]
    <3>1. CASE ReconcileImages
      BY <3>1, <1>m, <1>p DEF ReconcileImages
    <3>2. CASE RemoveOutdated
      BY <3>2, <1>p DEF RemoveOutdated, TypeOK
    <3> QED
      BY <1>1, <3>1, <3>2
  <2>2. /\ sandbox' \in {"absent", "created", "running", "stopped", "failed"}
        /\ sandbox' = "running" => sandbox = "running"
    BY <1>1 DEF ReconcileImages, RemoveOutdated, TypeOK
  <2> QED
    BY <1>1, <2>1, <2>2 DEF TypeOK, sessionVars
<1> DEFINE Shape ==
      /\ at' \in [Actors -> Places] /\ \A c \in Clients : at'[c] = at[c]
      /\ seen' \in [Actors -> Row] /\ queue' \in [Kinds -> Nat]
      /\ queue["commit"] <= queue'["commit"]
      /\ row' \in Row /\ row'.commit = row.commit
      /\ UNCHANGED <<deleted, wrong, sandbox>>
<1> HIDE DEF Shape
<1>2. ASSUME ImagesReconciled PROVE Shape
  <2>1. at' \in [Actors -> Places] /\ \A c \in Clients : at'[c] = at[c]
    BY <1>2, <1>m, <1>p DEF ImagesReconciled
  <2> QED
    BY <1>2, <1>s, <1>k, <1>w, <2>1 DEF ImagesReconciled, TypeOK, sessionVars, Shape
<1>3. ASSUME ListActive PROVE Shape
  <2>1. at' \in [Actors -> Places] /\ \A c \in Clients : at'[c] = at[c]
    BY <1>3, <1>m, <1>p DEF ListActive
  <2>2. seen' \in [Actors -> Row]
    BY <1>3 DEF ListActive, Read, TypeOK
  <2> QED
    BY <1>3, <1>k, <2>1, <2>2 DEF ListActive, TypeOK, sessionVars, Shape
<1>4. ASSUME ReconcileState PROVE Shape
  <2>1. at' \in [Actors -> Places] /\ \A c \in Clients : at'[c] = at[c]
    BY <1>4, <1>m, <1>p DEF ReconcileState
  <2>2. seen' \in [Actors -> Row]
    BY <1>4, NewRowType DEF ReconcileState, TypeOK
  <2>3. row' \in Row /\ row'.commit = row.commit /\ UNCHANGED <<deleted, wrong>>
    BY <1>4, <1>s, <1>w DEF ReconcileState, sessionVars, TypeOK
  <2> QED
    BY <1>4, <1>k, <2>1, <2>2, <2>3 DEF ReconcileState, Shape
<1>5. ASSUME ListCommits PROVE Shape
  <2>1. at' \in [Actors -> Places] /\ \A c \in Clients : at'[c] = at[c]
    BY <1>5, <1>m, <1>p DEF ListCommits
  <2> QED
    BY <1>5, <1>k, <2>1 DEF ListCommits, TypeOK, sessionVars, Shape
<1>6. ASSUME Recommit PROVE Shape
  <2>1. at' \in [Actors -> Places] /\ \A c \in Clients : at'[c] = at[c]
    BY <1>6, <1>m, <1>p DEF Recommit
  <2>2. queue' \in [Kinds -> Nat] /\ queue["commit"] <= queue'["commit"]
    BY <1>6, <1>k DEF Recommit, Enqueue
  <2> QED
    BY <1>6, <2>1, <2>2 DEF Recommit, TypeOK, sessionVars, Shape
<1>7. ASSUME ReconcileSandbox(Startup) PROVE Shape
  <2>1. at' \in [Actors -> Places] /\ \A c \in Clients : at'[c] = at[c]
    BY <1>7, <1>m, <1>p DEF ReconcileSandbox
  <2>2. row' \in Row /\ row'.commit = row.commit /\ UNCHANGED <<deleted, wrong>>
    <3>1. CASE SetStatus("reinitializing")
      BY <3>1, <1>s, <1>w
    <3>2. CASE UNCHANGED sessionVars
      BY <3>2 DEF sessionVars, TypeOK
    <3> QED
      BY <1>7, <3>1, <3>2 DEF ReconcileSandbox
  <2> QED
    BY <1>7, <1>k, <2>1, <2>2 DEF ReconcileSandbox, TypeOK, Shape
<1>8. ASSUME QueueInit(Startup) PROVE Shape
  <2>1. at' \in [Actors -> Places] /\ \A c \in Clients : at'[c] = at[c]
    BY <1>8, <1>m, <1>p DEF QueueInit
  <2>2. queue' \in [Kinds -> Nat] /\ queue["commit"] <= queue'["commit"]
    BY <1>8, <1>k DEF QueueInit, Enqueue
  <2> QED
    BY <1>8, <2>1, <2>2 DEF QueueInit, TypeOK, sessionVars, Shape
<1>9. ASSUME Shape, UNCHANGED <<work, committer, reaper, watcher>>,
             incidents' \in 0 .. MaxIncidents
      PROVE  TypeOK'
  BY <1>9 DEF TypeOK, Shape
<1>10. UNCHANGED <<work, committer, reaper, watcher>>
       /\ incidents' \in 0 .. MaxIncidents
  BY IncidentType DEF Reconciliation, ReconcileSandbox, QueueInit, TypeOK
<1>11. Shape \/ (/\ (ReconcileImages \/ RemoveOutdated)
                 /\ UNCHANGED <<sessionVars, seen, queue>>)
  BY <1>2, <1>3, <1>4, <1>5, <1>6, <1>7, <1>8 DEF Reconciliation
<1>12. CASE Shape
  BY <1>9, <1>10, <1>12 DEF Shape
<1>13. CASE (ReconcileImages \/ RemoveOutdated) /\ UNCHANGED <<sessionVars, seen, queue>>
  BY <1>1, <1>10, <1>13, <1>k DEF sessionVars
<1> QED
  BY <1>11, <1>12, <1>13

-----------------------------------------------------------------------------
\* What keeps the part of the invariant that is about the sandbox: a step that
\* leaves the session's job alone, starts nothing and deletes nothing.
LEMMA QuietKept ==
    ASSUME SessionInv, UNCHANGED work, deleted' => deleted,
           sandbox' = "running" => sandbox = "running", wrong \subseteq wrong'
    PROVE  (JobPlaces /\ StoppedFirst /\ InitIsFirst /\ DeletedIsQuiet)'
<1>1. NotRunning => NotRunning'
  BY DEF NotRunning
<1>2. JobPlaces'
  BY DEF SessionInv, JobPlaces, Idle
<1>3. StoppedFirst'
  BY <1>1 DEF SessionInv, StoppedFirst
<1>4. InitIsFirst'
  BY DEF SessionInv, InitIsFirst
<1>5. DeletedIsQuiet'
  BY DEF SessionInv, DeletedIsQuiet
<1> QED
  BY <1>2, <1>3, <1>4, <1>5

\* What keeps the part about commits: a step that leaves the commit status, the
\* commit job and the requests about to enqueue one.
LEMMA StuckKept ==
    ASSUME TypeOK, TypeOK', StuckHasCause, deleted => deleted',
           row'.commit = row.commit, wrong \subseteq wrong',
           queue["commit"] <= queue'["commit"], UNCHANGED committer,
           \A c \in Clients : at[c] = "queue_commit" => at'[c] = "queue_commit"
    PROVE  StuckHasCause'
<1>1. queue["commit"] \in Nat /\ queue'["commit"] \in Nat
  BY DEF TypeOK, Kinds
<1>2. Stuck' => Stuck
  BY DEF Stuck
<1>3. Cause => Cause'
  BY DEF Cause
<1>4. Held => Held'
  BY <1>1 DEF Held, CommitBusy, Active
<1> QED
  BY <1>2, <1>3, <1>4 DEF StuckHasCause

\* Saving a row over another one with a different commit status is a cause.
LEMMA SaveKeeps ==
    ASSUME NEW old, NEW new, SaveRow(old, new), new.commit = old.commit
    PROVE  /\ Stuck' => (Stuck \/ Cause')
           /\ ~deleted' /\ wrong \subseteq wrong'
<1>1. row' = new /\ deleted' = FALSE /\ wrong \subseteq wrong'
  BY DEF SaveRow
<1>2. deleted => "returned" \in wrong'
  BY DEF SaveRow
<1>3. row.commit /= old.commit => "commit_overwritten" \in wrong'
  BY DEF SaveRow
<1>4. row'.commit = old.commit
  BY <1>1
<1> QED
  BY <1>1, <1>2, <1>3, <1>4 DEF Stuck, Cause

\* A step that saves a row and leaves the commit jobs alone.
LEMMA SavedKept ==
    ASSUME TypeOK, TypeOK', StuckHasCause, Stuck' => (Stuck \/ Cause'),
           wrong \subseteq wrong', UNCHANGED <<queue, committer>>,
           \A c \in Clients : at[c] = "queue_commit" => at'[c] = "queue_commit"
    PROVE  StuckHasCause'
<1>1. Cause => Cause'
  BY DEF Cause
<1>2. Held => Held'
  BY DEF Held, CommitBusy, Active
<1> QED
  BY <1>1, <1>2 DEF StuckHasCause

-----------------------------------------------------------------------------
\* Requests keep the invariant.
LEMMA RequestKeeps ==
    ASSUME SessionInv, NEW c \in Clients, Request(c)
    PROVE  SessionInv'
<1>t. TypeOK /\ StuckHasCause
  BY DEF SessionInv
<1>t2. TypeOK'
  BY <1>t, RequestType
<1>c. c \in Actors /\ at \in [Actors -> Places] /\ Clients \subseteq Actors
  BY <1>t DEF Actors, TypeOK
<1>m. ASSUME NEW from, NEW to, Move(c, from, to), from /= "queue_commit"
      PROVE  \A d \in Clients : at[d] = "queue_commit" => at'[d] = "queue_commit"
  BY <1>m, <1>c DEF Move
<1>l. ASSUME NEW from, Leave(c, from), from /= "queue_commit"
      PROVE  \A d \in Clients : at[d] = "queue_commit" => at'[d] = "queue_commit"
  BY <1>l, <1>c DEF Leave, Move
<1>k. /\ "commit" \in Kinds /\ queue \in [Kinds -> Nat] /\ queue["commit"] \in Nat
      /\ queue["commit"] <= queue["commit"]
  BY <1>t DEF Kinds, TypeOK
<1>q. ASSUME NEW kind \in Kinds, kind /= "commit", Enqueue(kind)
      PROVE  queue["commit"] <= queue'["commit"]
  BY <1>q, <1>k DEF Enqueue
<1>r. seen[c] \in Row
  BY <1>t, <1>c DEF TypeOK
<1>f. /\ UNCHANGED <<work, committer>>
      /\ deleted' => deleted
      /\ wrong \subseteq wrong'
      /\ sandbox' = "running" => sandbox = "running"
  <2> USE DEF sessionVars, SaveRow, SetStatus
  <2>1. CASE \E op \in Asked : Begin(c, op)
    BY <2>1 DEF Begin
  <2>2. CASE DeleteSession(c) \/ QueueDelete(c)
    BY <2>2 DEF DeleteSession, QueueDelete
  <2>3. CASE CommitSession(c) \/ QueueCommit(c)
    BY <2>3 DEF CommitSession, QueueCommit
  <2>4. CASE UpdateSession(c) \/ ClearTerminalCommitState(c)
    BY <2>4 DEF UpdateSession, ClearTerminalCommitState
  <2>5. CASE StopSandbox(c) \/ MarkStopped(c)
    BY <2>5 DEF StopSandbox, MarkStopped
  <2>6. CASE ReconcileSandbox(c) \/ QueueInit(c)
    BY <2>6 DEF ReconcileSandbox, QueueInit
  <2> QED
    BY <2>1, <2>2, <2>3, <2>4, <2>5, <2>6 DEF Request
<1>g. (JobPlaces /\ StoppedFirst /\ InitIsFirst /\ DeletedIsQuiet)'
  BY <1>f, QuietKept
<1>1. ASSUME NEW op \in Asked, Begin(c, op) PROVE StuckHasCause'
  BY <1>1, <1>t, <1>t2, <1>m, <1>k, StuckKept DEF Begin, sessionVars
<1>2. ASSUME DeleteSession(c) PROVE StuckHasCause'
  <2>1. [seen[c] EXCEPT !.status = "removing"].commit = seen[c].commit
    BY <1>r DEF Row
  <2>2. Stuck' => (Stuck \/ Cause')
    BY <1>2, <2>1, SaveKeeps DEF DeleteSession, sessionVars, Stuck
  <2> QED
    BY <1>2, <1>f, <1>t, <1>t2, <1>m, <2>2, SavedKept DEF DeleteSession
<1>3. ASSUME QueueDelete(c) PROVE StuckHasCause'
  <2>1. queue["commit"] <= queue'["commit"]
    BY <1>3, <1>k, <1>q DEF QueueDelete, Kinds, SessionKinds, Deletes
  <2> QED
    BY <1>3, <1>t, <1>t2, <1>l, <2>1, StuckKept DEF QueueDelete, sessionVars
<1>4. ASSUME CommitSession(c) PROVE StuckHasCause'
  <2>1. CASE seen[c].commit \in InProgress
    BY <1>4, <2>1, <1>k, <1>t, <1>t2, <1>l, StuckKept DEF CommitSession, sessionVars
  <2>2. CASE seen[c].commit \notin InProgress
    <3>1. at'[c] = "queue_commit"
      BY <1>4, <2>2, <1>c DEF CommitSession, Move
    <3> QED
      BY <3>1 DEF StuckHasCause, Held
  <2> QED
    BY <2>1, <2>2
<1>5. ASSUME QueueCommit(c) PROVE StuckHasCause'
  <2>1. CASE Enqueue("commit")
    <3>1. queue'["commit"] > 0
      BY <2>1, <1>k DEF Enqueue
    <3> QED
      BY <3>1 DEF StuckHasCause, Held, CommitBusy, Active
  <2>2. CASE wrong' = wrong \union {"commit_lost"}
    BY <2>2 DEF StuckHasCause, Cause
  <2> QED
    BY <1>5, <2>1, <2>2 DEF QueueCommit
<1>6. ASSUME UpdateSession(c) PROVE StuckHasCause'
  <2>1. PICK status \in StatusesGiven \union {seen[c].status} :
            SaveRow(seen[c], [seen[c] EXCEPT !.status = status])
    BY <1>6 DEF UpdateSession
  <2>2. [seen[c] EXCEPT !.status = status].commit = seen[c].commit
    BY <1>r DEF Row
  <2>3. Stuck' => (Stuck \/ Cause')
    BY <2>1, <2>2, SaveKeeps
  <2> QED
    BY <1>6, <1>f, <1>t, <1>t2, <1>l, <2>3, SavedKept DEF UpdateSession
<1>7. ASSUME ClearTerminalCommitState(c) PROVE StuckHasCause'
  <2>1. [seen[c] EXCEPT !.commit = None].commit \notin InProgress
    BY <1>r DEF Row, InProgress, None
  <2> QED
    BY <1>7, <2>1 DEF ClearTerminalCommitState, SaveRow, StuckHasCause, Stuck
<1>8. ASSUME StopSandbox(c) PROVE StuckHasCause'
  BY <1>8, <1>k, <1>t, <1>t2, <1>m, StuckKept DEF StopSandbox, sessionVars
<1>s. /\ "stopped" \in Statuses /\ "reinitializing" \in Statuses
  BY DEF Statuses
<1>9. ASSUME MarkStopped(c) PROVE StuckHasCause'
  <2>1. row'.commit = row.commit /\ UNCHANGED <<deleted, wrong>>
    BY <1>9, <1>t, <1>s, SetStatusType DEF MarkStopped, SetStatus
  <2> QED
    BY <1>9, <2>1, <1>k, <1>t, <1>t2, <1>m, StuckKept DEF MarkStopped
<1>10. ASSUME ReconcileSandbox(c) PROVE StuckHasCause'
  <2>1. row'.commit = row.commit /\ UNCHANGED <<deleted, wrong>>
    BY <1>10, <1>t, <1>s, SetStatusType DEF ReconcileSandbox, SetStatus, sessionVars
  <2> QED
    BY <1>10, <2>1, <1>k, <1>t, <1>t2, <1>m, StuckKept DEF ReconcileSandbox
<1>11. ASSUME QueueInit(c) PROVE StuckHasCause'
  <2>1. queue["commit"] <= queue'["commit"]
    BY <1>11, <1>k, <1>q DEF QueueInit, Kinds, SessionKinds
  <2> QED
    BY <1>11, <2>1, <1>t, <1>t2, <1>m, StuckKept DEF QueueInit, sessionVars
<1>12. StuckHasCause'
  BY <1>1, <1>2, <1>3, <1>4, <1>5, <1>6, <1>7, <1>8, <1>9, <1>10, <1>11 DEF Request
<1> QED
  BY <1>t2, <1>g, <1>12 DEF SessionInv

\* The sandbox's events keep the invariant.
LEMMA SandboxKeeps ==
    ASSUME SessionInv, SandboxEvent \/ RecordEvent \/ SandboxFails
    PROVE  SessionInv'
<1>t. TypeOK /\ StuckHasCause
  BY DEF SessionInv
<1>t2. TypeOK'
  BY <1>t, SandboxType
<1>1. /\ UNCHANGED <<work, committer, queue, at, deleted, wrong>>
      /\ sandbox' = "running" => sandbox = "running"
      /\ row'.commit = row.commit
  <2>1. CASE SandboxEvent
    BY <2>1 DEF SandboxEvent, sessionVars, clientVars
  <2>2. CASE RecordEvent
    <3>1. watcher \in Statuses
      BY <2>2, <1>t DEF RecordEvent, TypeOK
    <3> QED
      BY <1>t, <2>2, <3>1, SetStatusType DEF RecordEvent, SetStatus, clientVars
  <2>3. CASE SandboxFails
    BY <2>3 DEF SandboxFails, sessionVars, clientVars
  <2> QED
    BY <2>1, <2>2, <2>3
<1>2. queue["commit"] <= queue'["commit"]
  BY <1>t, <1>1 DEF TypeOK, Kinds
<1> QED
  BY <1>t, <1>t2, <1>1, <1>2, QuietKept, StuckKept DEF SessionInv

\* An init job keeps the invariant.
LEMMA InitJobKeeps ==
    ASSUME SessionInv, InitJob
    PROVE  SessionInv'
<1>t. TypeOK /\ StuckHasCause /\ JobPlaces /\ InitIsFirst /\ DeletedIsQuiet
  BY DEF SessionInv
<1>1. /\ TypeOK'
      /\ \/ work' = Idle
         \/ /\ work'.kind = work.kind
            /\ work'.at \in InitPlaces \union {"end"}
            /\ work'.at = "end" => work'.put /= None
            /\ work.at = "start" => ~deleted
      /\ work.at \in InitPlaces
      /\ sandbox' = "running" =>
           (sandbox = "running" \/ work.at \in {"restart", "made"})
      /\ UNCHANGED <<deleted, wrong, queue, committer, at>>
      /\ row'.commit = row.commit
  BY <1>t, InitJobShape
<1>2. work.kind = "init"
  BY <1>1, <1>t
  DEF TypeOK, JobPlaces, Idle, InitPlaces, DeletePlaces, SessionKinds
<1>3. work.at /= "start" => ~deleted
  BY <1>2, <1>t DEF InitIsFirst
<1>i. Idle.kind = None /\ Idle.at = "idle" /\ None \notin Deletes /\ None /= "init"
  BY DEF Idle, Deletes, None
<1>4. JobPlaces'
  BY <1>1, <1>2, <1>i DEF JobPlaces, Deletes, None
<1>5. StoppedFirst'
  BY <1>1, <1>2, <1>i DEF StoppedFirst, Deletes
<1>6. InitIsFirst'
  BY <1>1, <1>3, <1>i DEF InitIsFirst
<1>7. DeletedIsQuiet'
  BY <1>1, <1>3, <1>t DEF DeletedIsQuiet
<1>8. queue["commit"] <= queue'["commit"]
  BY <1>t, <1>1 DEF TypeOK, Kinds
<1>9. StuckHasCause'
  BY <1>t, <1>1, <1>8, StuckKept
<1> QED
  BY <1>1, <1>4, <1>5, <1>6, <1>7, <1>9 DEF SessionInv

\* A delete job keeps the invariant.
LEMMA DeleteJobKeeps ==
    ASSUME SessionInv, DeleteJob
    PROVE  SessionInv'
<1>t. TypeOK /\ StuckHasCause /\ JobPlaces /\ StoppedFirst /\ DeletedIsQuiet
  BY DEF SessionInv
<1>1. /\ TypeOK'
      /\ work.kind \in Deletes
      /\ \/ work' = Idle
         \/ /\ work'.kind = work.kind
            /\ work'.at \in {"erase", "purged", "retain"}
            /\ NotRunning'
      /\ sandbox' = "running" => sandbox = "running"
      /\ deleted' => (deleted \/ NotRunning')
      /\ deleted => deleted'
      /\ wrong \subseteq wrong'
      /\ queue["commit"] <= queue'["commit"]
      /\ UNCHANGED <<row, committer, at>>
  BY <1>t, DeleteJobShape
<1>i. Idle.kind = None /\ Idle.at = "idle" /\ None \notin Deletes /\ None /= "init"
  BY DEF Idle, Deletes, None
<1>4. JobPlaces'
  BY <1>1, <1>i DEF JobPlaces, Deletes, DeletePlaces, None
<1>5. StoppedFirst'
  BY <1>1, <1>i DEF StoppedFirst
<1>6. InitIsFirst'
  BY <1>1, <1>i DEF InitIsFirst, Deletes
<1>7. DeletedIsQuiet'
  BY <1>1, <1>t DEF DeletedIsQuiet, NotRunning
<1>9. StuckHasCause'
  BY <1>t, <1>1, StuckKept
<1> QED
  BY <1>1, <1>4, <1>5, <1>6, <1>7, <1>9 DEF SessionInv

\* Claims and status writes of the session's jobs keep the invariant.
LEMMA SessionJobKeeps ==
    ASSUME SessionInv, SessionJob
    PROVE  SessionInv'
<1>t. TypeOK /\ StuckHasCause /\ JobPlaces /\ StoppedFirst /\ DeletedIsQuiet /\ InitIsFirst
  BY DEF SessionInv
<1>q. queue["commit"] \in Nat
  BY <1>t DEF TypeOK, Kinds
<1>i. Idle.kind = None /\ Idle.at = "idle" /\ None \notin Deletes /\ None /= "init"
  BY DEF Idle, Deletes, None
<1>1. ASSUME NEW k \in SessionKinds, ClaimSessionJob(k) PROVE SessionInv'
  <2>1. /\ TypeOK'
        /\ work'.kind = k /\ work'.put = None
        /\ work'.at = IF k = "init" THEN "start" ELSE "stop"
        /\ queue["commit"] = queue'["commit"]
        /\ UNCHANGED <<row, deleted, wrong, sandbox, committer, at>>
    BY <1>1, <1>t, ClaimSessionJobShape
  <2>2. (JobPlaces /\ StoppedFirst /\ InitIsFirst)'
    BY <2>1 DEF JobPlaces, StoppedFirst, InitIsFirst, InitPlaces, DeletePlaces,
                SessionKinds, Deletes, None
  <2>3. DeletedIsQuiet'
    BY <2>1, <1>t DEF DeletedIsQuiet
  <2>4. StuckHasCause'
    BY <2>1, <1>t, <1>q, StuckKept
  <2> QED
    BY <2>1, <2>2, <2>3, <2>4 DEF SessionInv
<1>2. ASSUME PutStatus PROVE SessionInv'
  <2>1. /\ TypeOK'
        /\ \/ work' = Idle
           \/ /\ work'.kind = work.kind /\ work'.at = work.at
              /\ work'.at /= "end"
        /\ row'.commit = row.commit
        /\ UNCHANGED <<deleted, wrong, sandbox, queue, committer, at>>
    BY <1>2, <1>t, PutStatusShape
  <2>2. work.kind /= None
    BY <1>2, <1>t DEF PutStatus, JobPlaces, Idle
  <2>3. JobPlaces'
    BY <2>1, <2>2, <1>t, <1>i DEF JobPlaces
  <2>4. (StoppedFirst /\ InitIsFirst)'
    BY <2>1, <1>t, <1>i DEF StoppedFirst, InitIsFirst, NotRunning
  <2>5. DeletedIsQuiet'
    BY <2>1, <1>t DEF DeletedIsQuiet
  <2>6. StuckHasCause'
    BY <2>1, <1>t, <1>q, StuckKept
  <2> QED
    BY <2>1, <2>3, <2>4, <2>5, <2>6 DEF SessionInv
<1> QED
  BY <1>1, <1>2, InitJobKeeps, DeleteJobKeeps DEF SessionJob

\* The deferred removal keeps the invariant.
LEMMA ReapJobKeeps ==
    ASSUME SessionInv, ReapJob
    PROVE  SessionInv'
<1>t. TypeOK /\ StuckHasCause
  BY DEF SessionInv
<1>1. /\ TypeOK'
      /\ sandbox' = "running" => sandbox = "running"
      /\ wrong \subseteq wrong'
      /\ queue["commit"] <= queue'["commit"]
      /\ UNCHANGED <<row, deleted, work, committer, at>>
  BY <1>t, ReapJobShape
<1> QED
  BY <1>t, <1>1, QuietKept, StuckKept DEF SessionInv

\* A commit job keeps the invariant.
LEMMA CommitJobKeeps ==
    ASSUME SessionInv, CommitJob
    PROVE  SessionInv'
<1>1. /\ TypeOK'
      /\ deleted' => deleted
      /\ wrong \subseteq wrong'
      /\ \/ committer'.at /= "idle"
         \/ row'.commit \notin InProgress
         \/ "commit_lost" \in wrong'
         \/ deleted'
      /\ UNCHANGED <<sandbox, work, at>>
  BY CommitJobShape DEF SessionInv
<1>2. StuckHasCause'
  BY <1>1 DEF StuckHasCause, Stuck, Held, CommitBusy, Cause
<1> QED
  BY <1>1, <1>2, QuietKept DEF SessionInv

\* A restart keeps the invariant.
LEMMA RestartKeeps ==
    ASSUME SessionInv, Restart
    PROVE  SessionInv'
<1>t. TypeOK /\ StuckHasCause /\ DeletedIsQuiet
  BY DEF SessionInv
<1>t2. TypeOK'
  BY <1>t, RestartType
<1>i. Idle.kind = None /\ Idle.at = "idle" /\ None \notin Deletes /\ None /= "init"
  BY DEF Idle, Deletes, None
<1>1. /\ work' = Idle /\ UNCHANGED <<row, deleted, sandbox>> /\ wrong \subseteq wrong'
  BY DEF Restart
<1>2. (JobPlaces /\ StoppedFirst /\ InitIsFirst)'
  BY <1>1, <1>i DEF JobPlaces, StoppedFirst, InitIsFirst, Idle
<1>3. DeletedIsQuiet'
  BY <1>1, <1>t DEF DeletedIsQuiet
<1>4. queue["commit"] \in Nat /\ "commit" \in Kinds
  BY <1>t DEF TypeOK, Kinds
<1>5. CommitBusy => CommitBusy'
  <2>1. committer.at /= "idle" => queue'["commit"] = queue["commit"] + 1
    BY <1>4 DEF Restart, Interrupted
  <2>2. queue'["commit"] >= queue["commit"]
    BY <1>4 DEF Restart
  <2>3. queue'["commit"] > 0 => CommitBusy'
    BY DEF CommitBusy, Active
  <2>4. CommitBusy => (queue["commit"] > 0 \/ committer.at /= "idle")
    BY DEF CommitBusy, Active
  <2>5. queue'["commit"] \in Nat
    BY <1>4, <1>t2 DEF TypeOK
  <2> QED
    BY <1>4, <2>1, <2>2, <2>3, <2>4, <2>5
<1>6. (\E c \in Clients : at[c] = "queue_commit") => "commit_lost" \in wrong'
  BY DEF Restart
<1>7. StuckHasCause'
  BY <1>1, <1>5, <1>6, <1>t DEF StuckHasCause, Stuck, Held, Cause
<1> QED
  BY <1>t2, <1>2, <1>3, <1>7 DEF SessionInv

\* The reconciliation keeps the invariant.
LEMMA ReconciliationKeeps ==
    ASSUME SessionInv, Reconciliation
    PROVE  SessionInv'
<1>t. TypeOK /\ StuckHasCause
  BY DEF SessionInv
<1>1. /\ TypeOK'
      /\ sandbox' = "running" => sandbox = "running"
      /\ queue["commit"] <= queue'["commit"]
      /\ row'.commit = row.commit
      /\ \A c \in Clients : at'[c] = at[c]
      /\ UNCHANGED <<deleted, work, committer, wrong>>
  BY <1>t, ReconciliationShape
<1> QED
  BY <1>t, <1>1, QuietKept, StuckKept DEF SessionInv

-----------------------------------------------------------------------------
\* The initial states have the invariant.
LEMMA InitEstablishes == Init => SessionInv
<1> SUFFICES ASSUME Init PROVE SessionInv
  OBVIOUS
<1>1. TypeOK
  <2>1. queue \in [Kinds -> Nat]
    BY DEF Init
  <2>2. row \in Row /\ Rest \in [at: CommitPlaces, seen: Row] /\ Idle \in Work
    BY NewRowType, IdleType DEF Init, Rest, CommitPlaces
  <2>3. at \in [Actors -> Places] /\ seen \in [Actors -> Row]
    BY NewRowType DEF Init, Places
  <2>4. incidents \in 0 .. MaxIncidents
    BY SessionBounds DEF Init
  <2> QED
    BY <2>1, <2>2, <2>3, <2>4 DEF Init, TypeOK, Work
<1>2. JobPlaces /\ StoppedFirst /\ InitIsFirst
  BY DEF Init, JobPlaces, StoppedFirst, InitIsFirst, Idle, Deletes, None
<1>3. DeletedIsQuiet /\ StuckHasCause
  BY DEF Init, DeletedIsQuiet, StuckHasCause, Stuck, NewRow, InProgress, None
<1> QED
  BY <1>1, <1>2, <1>3 DEF SessionInv

\* Every step keeps the invariant.
LEMMA StepKeeps == SessionInv /\ [Next]_vars => SessionInv'
<1> SUFFICES ASSUME SessionInv, [Next]_vars PROVE SessionInv'
  OBVIOUS
<1>1. CASE Next
  BY <1>1, RequestKeeps, SandboxKeeps, SessionJobKeeps, ReapJobKeeps,
     CommitJobKeeps, RestartKeeps, ReconciliationKeeps DEF Next
<1>2. CASE UNCHANGED vars
  BY <1>2 DEF vars, SessionInv, TypeOK, JobPlaces, StoppedFirst, NotRunning,
              InitIsFirst, DeletedIsQuiet, StuckHasCause, Stuck, Held, CommitBusy,
              Active, Cause
<1> QED
  BY <1>1, <1>2

\* Every reachable state has the invariant above.
THEOREM SessionInvariant == Spec => []SessionInv
<1> QED
  BY InitEstablishes, StepKeeps, PTL DEF Spec

\* The columns, the queue, the jobs and the requests keep to their types.
THEOREM SessionTypes == Spec => []TypeOK
<1>1. SessionInv => TypeOK
  BY DEF SessionInv
<1> QED
  BY <1>1, SessionInvariant, PTL

\* A deleted session's sandbox does not run unless it could not be stopped:
\* performDeletion stops it before it deletes the rows, jobs of a session run
\* one at a time, and an init job ends at once when its session is not found.
THEOREM DeletedSessionsAreQuiet == Spec => []DeletedIsQuiet
<1>1. SessionInv => DeletedIsQuiet
  BY DEF SessionInv
<1> QED
  BY <1>1, SessionInvariant, PTL

\* A commit that is under way in the row and nowhere else has lost a write, its
\* job or its row: PerformCommit saves "failed" on every error, and a job that a
\* restart interrupts is put back.
THEOREM StuckCommitsHaveACause == Spec => []StuckCommitNeedsCause
<1>1. SessionInv => StuckCommitNeedsCause
  BY DEF SessionInv, StuckHasCause, Stuck, Held, Cause, StuckCommitNeedsCause
<1> QED
  BY <1>1, SessionInvariant, PTL
=============================================================================
