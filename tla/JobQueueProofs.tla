--------------------------- MODULE JobQueueProofs ---------------------------
(***************************************************************************)
(* Proofs about LeaderElection, for any number of servers: its types, and  *)
(* that two servers lead at once only after a heartbeat has expired.  And  *)
(* about JobQueue, which extends it, for any servers, jobs, types and      *)
(* resources: its types, and that the jobs of one resource are executed    *)
(* one at a time - always with SQLite, and with Postgres until a leader's  *)
(* heartbeat expires - provided no job outlives the stale-job timeout;     *)
(* and that no server ever executes more jobs of a type than its limit.    *)
(***************************************************************************)
EXTENDS JobQueue, FiniteSetTheorems, TLAPS

-----------------------------------------------------------------------------
(* Leader election on its own.  The lemmas about single steps are used     *)
(* again below, where the same actions are steps of the job queue.         *)

(* The end of a process, released or not, keeps the election's types.      *)
LEMMA ExitTypes ==
    ASSUME NEW s \in Servers, ElectionTypeOK, GracefulExit(s) \/ CrashExit(s),
           disruptions' \in 0 .. MaxDisruptions
    PROVE  ElectionTypeOK'
<1>1. holder' \in Servers \cup {NoServer, Gone} /\ fresh' \in BOOLEAN
  BY DEF GracefulExit, CrashExit, ReleaseLeadership, LeaveRow, ElectionTypeOK
<1>2. electing' \in [Servers -> Decision] /\ isLeader' \in [Servers -> BOOLEAN]
      /\ expired' \in BOOLEAN
  BY DEF GracefulExit, CrashExit, ProcessEnds, ElectionTypeOK, Decision
<1> QED  BY <1>1, <1>2 DEF ElectionTypeOK

(* A fault counts as one and stays within the bound.                       *)
LEMMA DisruptTypes ==
    ASSUME ElectionTypeOK, Disrupt \/ UNCHANGED disruptions
    PROVE  disruptions' \in 0 .. MaxDisruptions
  BY ElectionAssumption DEF ElectionTypeOK, Disrupt

(* The steps of TryAcquireLeadership and of time keep the election's types.*)
LEMMA ElectTypes ==
    ASSUME NEW s \in Servers, ElectionTypeOK,
           ReadToAcquire(s) \/ ReadNotLeader(s) \/ TryAcquireWrite(s)
              \/ TryAcquireError(s) \/ Expire
    PROVE  ElectionTypeOK'
<1> USE DEF ElectionTypeOK, Decision
<1>1. CASE ReadToAcquire(s)  BY <1>1 DEF ReadToAcquire
<1>2. CASE ReadNotLeader(s)  BY <1>2 DEF ReadNotLeader
<1>3. CASE TryAcquireWrite(s)
  <2>1. holder' \in Servers \cup {NoServer, Gone} /\ fresh' \in BOOLEAN
    BY <1>3 DEF TryAcquireWrite
  <2>2. isLeader' \in [Servers -> BOOLEAN]
    <3>1. (electing[s] = "save" \/ holder = NoServer) \in BOOLEAN  OBVIOUS
    <3> QED  BY <1>3, <3>1, Zenon DEF TryAcquireWrite
  <2> QED  BY <1>3, <2>1, <2>2 DEF TryAcquireWrite
<1>4. CASE TryAcquireError(s)
  BY <1>4, DisruptTypes DEF TryAcquireError
<1>5. CASE Expire
  BY <1>5, DisruptTypes DEF Expire
<1> QED  BY <1>1, <1>2, <1>3, <1>4, <1>5

(* Every reachable state of the election has the declared types.           *)
THEOREM ElectionTypes == ElectionSpec => []ElectionTypeOK
<1>1. ElectionInit => ElectionTypeOK
  <2> SUFFICES ASSUME ElectionInit PROVE ElectionTypeOK
    OBVIOUS
  <2>1. disruptions \in 0 .. MaxDisruptions
    BY ElectionAssumption DEF ElectionInit
  <2>2. electing \in [Servers -> Decision] /\ isLeader \in [Servers -> BOOLEAN]
    BY DEF ElectionInit, Decision
  <2> QED  BY <2>1, <2>2 DEF ElectionInit, ElectionTypeOK
<1>2. ElectionTypeOK /\ [ElectionNext]_allElectionVars => ElectionTypeOK'
  <2> SUFFICES ASSUME ElectionTypeOK, [ElectionNext]_allElectionVars
               PROVE  ElectionTypeOK'
    OBVIOUS
  <2>1. ASSUME NEW s \in Servers,
               ReadToAcquire(s) \/ ReadNotLeader(s) \/ TryAcquireWrite(s)
                  \/ TryAcquireError(s)
        PROVE  ElectionTypeOK'
    BY <2>1, ElectTypes
  <2>2. ASSUME NEW s \in Servers, Disrupt, GracefulExit(s) \/ CrashExit(s)
        PROVE  ElectionTypeOK'
    BY <2>2, DisruptTypes, ExitTypes
  <2>3. CASE Expire
    BY <2>3, DisruptTypes DEF Expire, ElectionTypeOK
  <2>4. CASE UNCHANGED allElectionVars
    BY <2>4 DEF allElectionVars, electionVars, ElectionTypeOK
  <2> QED  BY <2>1, <2>2, <2>3, <2>4 DEF ElectionNext
<1> QED  BY <1>1, <1>2, PTL DEF ElectionSpec

(* The steps of TryAcquireLeadership and of time keep HolderInv.           *)
LEMMA ElectHolder ==
    ASSUME NEW s \in Servers, ElectionTypeOK, HolderInv,
           ReadToAcquire(s) \/ ReadNotLeader(s) \/ TryAcquireWrite(s)
              \/ TryAcquireError(s) \/ Expire
    PROVE  HolderInv'
<1> USE ElectionAssumption DEF ElectionTypeOK, HolderInv
<1>1. CASE ReadToAcquire(s)    BY <1>1 DEF ReadToAcquire
<1>2. CASE ReadNotLeader(s)    BY <1>2 DEF ReadNotLeader
<1>3. CASE TryAcquireWrite(s)
  BY <1>3 DEF TryAcquireWrite, Decision
<1>4. CASE TryAcquireError(s)  BY <1>4 DEF TryAcquireError
<1>5. CASE Expire              BY <1>5 DEF Expire
<1> QED  BY <1>1, <1>2, <1>3, <1>4, <1>5

(* The end of a process keeps HolderInv: only its own row is released.     *)
LEMMA ExitHolder ==
    ASSUME NEW s \in Servers, ElectionTypeOK, HolderInv,
           GracefulExit(s) \/ CrashExit(s)
    PROVE  HolderInv'
<1> USE ElectionAssumption DEF ElectionTypeOK, HolderInv, ProcessEnds
<1>1. CASE CrashExit(s)  BY <1>1 DEF CrashExit, LeaveRow
<1>2. CASE GracefulExit(s) /\ isLeader[s]
  BY <1>2 DEF GracefulExit, ReleaseLeadership
<1>3. CASE GracefulExit(s) /\ ~isLeader[s]
  BY <1>3 DEF GracefulExit, LeaveRow
<1> QED  BY <1>1, <1>2, <1>3

(* Until a heartbeat expires, the leader is the server the row names.      *)
THEOREM LeaderHoldsRow == ElectionSpec => []HolderInv
<1>1. ElectionInit => HolderInv
  BY DEF ElectionInit, HolderInv
<1>2. ElectionTypeOK /\ HolderInv /\ [ElectionNext]_allElectionVars => HolderInv'
  <2> SUFFICES ASSUME ElectionTypeOK, HolderInv, [ElectionNext]_allElectionVars
               PROVE  HolderInv'
    OBVIOUS
  <2>1. ASSUME NEW s \in Servers,
               ReadToAcquire(s) \/ ReadNotLeader(s) \/ TryAcquireWrite(s)
                  \/ TryAcquireError(s)
        PROVE  HolderInv'
    BY <2>1, ElectHolder
  <2>2. ASSUME NEW s \in Servers, GracefulExit(s) \/ CrashExit(s)
        PROVE  HolderInv'
    BY <2>2, ExitHolder
  <2>3. CASE Expire
    BY <2>3 DEF Expire, HolderInv
  <2>4. CASE UNCHANGED allElectionVars
    BY <2>4 DEF allElectionVars, electionVars, HolderInv
  <2> QED  BY <2>1, <2>2, <2>3, <2>4 DEF ElectionNext
<1> QED  BY <1>1, <1>2, ElectionTypes, PTL DEF ElectionSpec

(* Two servers lead at once only after some heartbeat has expired.         *)
THEOREM SplitBrain == ElectionSpec => []SplitBrainNeedsExpiry
<1>1. HolderInv => SplitBrainNeedsExpiry
  BY DEF HolderInv, SplitBrainNeedsExpiry, Leaders
<1> QED  BY <1>1, LeaderHoldsRow, PTL

-----------------------------------------------------------------------------
(* Type correctness, group of actions by group of actions.                 *)

LEMMA EnqueueTypes ==
    ASSUME NEW j \in Jobs, TypeOK, Enqueue(j) \/ BecomeDue(j) \/ BecomeStale(j)
    PROVE  TypeOK'
<1> USE DEF TypeOK, Status, ElectionTypeOK, Decision, electionVars,
            allElectionVars, storeVars, claimVars, execVars
<1>1. CASE EnqueueCheck(j)   BY <1>1 DEF EnqueueCheck
<1>2. CASE EnqueueCreate(j)  BY <1>2 DEF EnqueueCreate
<1>3. CASE BecomeDue(j)      BY <1>3 DEF BecomeDue
<1>4. CASE BecomeStale(j)
  <2>1. disruptions' \in 0 .. MaxDisruptions
    BY <1>4, DisruptTypes DEF BecomeStale
  <2> QED  BY <1>4, <2>1 DEF BecomeStale
<1> QED  BY <1>1, <1>2, <1>3, <1>4 DEF Enqueue

LEMMA ClaimTypes ==
    ASSUME NEW s \in Servers, TypeOK, ClaimStep(s) \/ AbortClaim(s)
    PROVE  TypeOK'
<1> USE JobQueueAssumption
        DEF TypeOK, Status, Loop, ElectionTypeOK, electionVars,
            allElectionVars, storeVars, claimVars, execVars
<1>1. CASE BeginClaim(s)     BY <1>1 DEF BeginClaim, AvailableTypes
<1>2. CASE EndLoop(s)        BY <1>2 DEF EndLoop
<1>3. CASE SelectJob(s)      BY <1>3 DEF SelectJob, Candidates
<1>4. CASE SelectNothing(s)  BY <1>4 DEF SelectNothing
<1>5. CASE CommitClaim(s)
  <2> DEFINE j == selected[s]
  <2>1. j \in Jobs /\ TypeOf[j] \in Types
    BY <1>5 DEF CommitClaim
  <2>2. exec' \in [Servers -> [Jobs -> Nat]]
    BY <1>5, <2>1 DEF CommitClaim
  <2>3. runningJobs' \in [Servers -> [Types -> Int]]
    BY <1>5, <2>1 DEF CommitClaim
  <2> QED  BY <1>5, <2>1, <2>2, <2>3 DEF CommitClaim
<1>6. CASE AbortClaim(s)
  <2>1. disruptions' \in 0 .. MaxDisruptions
    BY <1>6, DisruptTypes DEF AbortClaim
  <2> QED  BY <1>6, <2>1 DEF AbortClaim
<1> QED  BY <1>1, <1>2, <1>3, <1>4, <1>5, <1>6 DEF ClaimStep

LEMMA ReportTypes ==
    ASSUME NEW s \in Servers, NEW j \in Jobs, TypeOK,
           Report(s, j) \/ LoseResult(s, j)
    PROVE  TypeOK'
<1> USE JobQueueAssumption
        DEF TypeOK, Status, ElectionTypeOK, electionVars,
            allElectionVars, storeVars, claimVars, execVars
<1>1. ASSUME GoroutineEnds(s, j)
      PROVE  /\ exec' \in [Servers -> [Jobs -> Nat]]
             /\ runningJobs' \in [Servers -> [Types -> Int]]
  <2>1. exec[s] \in [Jobs -> Nat] /\ exec[s][j] - 1 \in Nat
    BY <1>1 DEF GoroutineEnds
  <2>2. runningJobs[s] \in [Types -> Int] /\ TypeOf[j] \in Types
    OBVIOUS
  <2> QED  BY <1>1, <2>1, <2>2 DEF GoroutineEnds
<1>2. CASE CompleteJob(s, j)  BY <1>2, <1>1 DEF CompleteJob
<1>3. CASE FailJob(s, j)      BY <1>3, <1>1 DEF FailJob
<1>4. CASE LoseResult(s, j)
  <2>1. disruptions' \in 0 .. MaxDisruptions
    BY <1>4, DisruptTypes DEF LoseResult
  <2> QED  BY <1>4, <1>1, <2>1 DEF LoseResult
<1> QED  BY <1>2, <1>3, <1>4 DEF Report

LEMMA ResetTypes ==
    ASSUME NEW reset \in SUBSET Jobs, TypeOK, ResetJobs(reset)
    PROVE  /\ status' \in [Jobs -> Status] /\ stale' \in [Jobs -> BOOLEAN]
           /\ attempts' \in [Jobs -> Nat] /\ due' \in [Jobs -> BOOLEAN]
  BY DEF ResetJobs, TypeOK, Status

LEMMA ForgetTypes ==
    ASSUME NEW s \in Servers, TypeOK, ForgetProcess(s), ElectionTypeOK'
    PROVE  TypeOK'
<1> USE DEF TypeOK, Mode, Loop, storeVars
<1>1. exec' \in [Servers -> [Jobs -> Nat]]
      /\ runningJobs' \in [Servers -> [Types -> Int]]
  BY DEF ForgetProcess
<1> QED  BY <1>1 DEF ForgetProcess

LEMMA LifeTypes ==
    ASSUME NEW s \in Servers, TypeOK,
           \/ CleanupStaleJobs(s) \/ Start(s) \/ BeginDrain(s)
           \/ CancelContext(s) \/ Exit(s) \/ Crash(s)
    PROVE  TypeOK'
<1> USE DEF storeVars, claimVars, execVars
<1>1. CASE CleanupStaleJobs(s)
  <2>1. {j \in RunningRows : stale[j]} \in SUBSET Jobs  BY DEF RunningRows
  <2> QED  BY <1>1, <2>1, ResetTypes
           DEF CleanupStaleJobs, TypeOK, ElectionTypeOK, allElectionVars, electionVars
<1>2. CASE Start(s)
  <2>1. disruptions' \in 0 .. MaxDisruptions
    BY <1>2, DisruptTypes DEF Start, TypeOK
  <2>2. RunningRows \in SUBSET Jobs  BY DEF RunningRows
  <2>3. /\ status' \in [Jobs -> Status] /\ stale' \in [Jobs -> BOOLEAN]
        /\ attempts' \in [Jobs -> Nat] /\ due' \in [Jobs -> BOOLEAN]
    BY <1>2, <2>2, ResetTypes DEF Start, TypeOK
  <2>4. isLeader' \in [Servers -> BOOLEAN]
    BY <1>2 DEF Start, TypeOK, ElectionTypeOK
  <2> QED  BY <1>2, <2>1, <2>3, <2>4 DEF Start, TypeOK, ElectionTypeOK, Mode
<1>3. CASE BeginDrain(s)
  <2>1. disruptions' \in 0 .. MaxDisruptions
    BY <1>3, DisruptTypes DEF BeginDrain, TypeOK
  <2> QED  BY <1>3, <2>1 DEF BeginDrain, TypeOK, ElectionTypeOK, electionVars, Mode
<1>4. CASE CancelContext(s)
  <2>1. disruptions' \in 0 .. MaxDisruptions
    BY <1>4, DisruptTypes DEF CancelContext, TypeOK
  <2> QED  BY <1>4, <2>1 DEF CancelContext, TypeOK, ElectionTypeOK, electionVars, Mode
<1>5. CASE Exit(s)
  <2>1. disruptions' \in 0 .. MaxDisruptions
    BY <1>5, DisruptTypes DEF Exit, TypeOK
  <2> QED  BY <1>5, <2>1, ExitTypes, ForgetTypes DEF Exit, TypeOK
<1>6. CASE Crash(s)
  <2>1. disruptions' \in 0 .. MaxDisruptions
    BY <1>6, DisruptTypes DEF Crash, TypeOK
  <2> QED  BY <1>6, <2>1, ExitTypes, ForgetTypes DEF Crash, TypeOK
<1> QED  BY <1>1, <1>2, <1>3, <1>4, <1>5, <1>6

LEMMA ElectionStepTypes ==
    ASSUME NEW s \in Servers, TypeOK, Elect(s) \/ ElectionFails(s) \/ HeartbeatExpires
    PROVE  TypeOK'
<1>1. ElectionTypeOK'
  BY ElectTypes DEF TypeOK, Elect, ElectionFails, HeartbeatExpires
<1>2. UNCHANGED jobVars  BY DEF Elect, ElectionFails, HeartbeatExpires
<1> QED  BY <1>1, <1>2 DEF TypeOK, jobVars, storeVars, claimVars, execVars

(* Every reachable state of the queue has the declared types.              *)
THEOREM JobQueueTypes == Spec => []TypeOK
<1>1. Init => TypeOK
  <2> SUFFICES ASSUME Init PROVE TypeOK
    OBVIOUS
  <2>1. ElectionTypeOK
    <3>1. disruptions \in 0 .. MaxDisruptions
      BY ElectionAssumption DEF Init, ElectionInit
    <3> QED  BY <3>1 DEF Init, ElectionInit, ElectionTypeOK, Decision
  <2>2. exec \in [Servers -> [Jobs -> Nat]]
        /\ runningJobs \in [Servers -> [Types -> Int]]
    BY DEF Init
  <2> QED  BY <2>1, <2>2 DEF Init, TypeOK, Status, Mode, Loop
<1>2. TypeOK /\ [Next]_vars => TypeOK'
  <2> SUFFICES ASSUME TypeOK, [Next]_vars PROVE TypeOK'
    OBVIOUS
  <2>1. ASSUME NEW j \in Jobs, Enqueue(j) \/ BecomeDue(j) \/ BecomeStale(j)
        PROVE  TypeOK'
    BY <2>1, EnqueueTypes
  <2>2. ASSUME NEW s \in Servers,
               \/ ClaimStep(s) \/ AbortClaim(s) \/ CleanupStaleJobs(s)
               \/ Start(s) \/ BeginDrain(s) \/ CancelContext(s)
               \/ Exit(s) \/ Crash(s) \/ Elect(s) \/ ElectionFails(s)
        PROVE  TypeOK'
    BY <2>2, ClaimTypes, LifeTypes, ElectionStepTypes
  <2>3. ASSUME NEW s \in Servers, NEW j \in Jobs,
               Report(s, j) \/ LoseResult(s, j)
        PROVE  TypeOK'
    BY <2>3, ReportTypes
  <2>4. CASE HeartbeatExpires
    <3>1. UNCHANGED jobVars /\ Expire  BY <2>4 DEF HeartbeatExpires
    <3>2. ElectionTypeOK'
      BY <3>1, DisruptTypes DEF Expire, TypeOK, ElectionTypeOK
    <3> QED  BY <3>1, <3>2 DEF TypeOK, jobVars, storeVars, claimVars, execVars
  <2>5. CASE UNCHANGED vars
    BY <2>5 DEF vars, jobVars, storeVars, claimVars, execVars, allElectionVars,
               electionVars, TypeOK, ElectionTypeOK
  <2> QED  BY <2>1, <2>2, <2>3, <2>4, <2>5 DEF Next
<1> QED  BY <1>1, <1>2, PTL DEF Spec

-----------------------------------------------------------------------------
(* Leadership in the composed system: LoneClaimer and IdleWhenDown are     *)
(* inductive by themselves, however long jobs take.                        *)

LEMMA IdleWhenDownKept ==
    ASSUME TypeOK, IdleWhenDown, [Next]_vars
    PROVE  IdleWhenDown'
<1> USE DEF TypeOK, IdleWhenDown
<1>1. ASSUME UNCHANGED <<loop, selected, exec>>,
             \A s \in Servers : mode'[s] = "down" => mode[s] = "down"
      PROVE  IdleWhenDown'
  BY <1>1
<1>2. ASSUME NEW j \in Jobs, Enqueue(j) \/ BecomeDue(j) \/ BecomeStale(j)
      PROVE  IdleWhenDown'
  BY <1>1, <1>2 DEF Enqueue, EnqueueCheck, EnqueueCreate, BecomeDue, BecomeStale,
                    claimVars, execVars
<1>3. ASSUME NEW s \in Servers,
             \/ CleanupStaleJobs(s) \/ Start(s) \/ BeginDrain(s)
             \/ CancelContext(s) \/ Elect(s) \/ ElectionFails(s)
      PROVE  IdleWhenDown'
  BY <1>1, <1>3 DEF CleanupStaleJobs, Start, BeginDrain, CancelContext, Elect,
                    ElectionFails, jobVars, claimVars, execVars
<1>4. ASSUME NEW s \in Servers,
             BeginClaim(s) \/ EndLoop(s) \/ SelectJob(s) \/ SelectNothing(s)
      PROVE  IdleWhenDown'
  BY <1>4 DEF BeginClaim, EndLoop, SelectJob, SelectNothing, Live, execVars
<1>5. ASSUME NEW s \in Servers, CommitClaim(s) PROVE IdleWhenDown'
  <2>1. /\ mode[s] # "down" /\ UNCHANGED mode
        /\ loop' = [loop EXCEPT ![s] = "next"]
        /\ selected' = [selected EXCEPT ![s] = NoJob]
        /\ exec' = [exec EXCEPT ![s][selected[s]] = @ + 1]
    BY <1>5 DEF CommitClaim, Live
  <2> QED  BY <2>1
<1>6. ASSUME NEW s \in Servers, AbortClaim(s) PROVE IdleWhenDown'
  BY <1>6 DEF AbortClaim, execVars
<1>7. ASSUME NEW s \in Servers, Exit(s) \/ Crash(s) PROVE IdleWhenDown'
  BY <1>7 DEF Exit, Crash, ForgetProcess
<1>8. ASSUME NEW s \in Servers, NEW j \in Jobs, Report(s, j) \/ LoseResult(s, j)
      PROVE  IdleWhenDown'
  <2>1. /\ UNCHANGED <<loop, selected, mode>> /\ exec[s][j] > 0
        /\ exec' = [exec EXCEPT ![s][j] = @ - 1]
    BY <1>8 DEF Report, CompleteJob, FailJob, LoseResult, GoroutineEnds, claimVars
  <2>2. mode[s] # "down"
    BY <2>1
  <2> QED  BY <2>1, <2>2
<1>9. CASE HeartbeatExpires \/ UNCHANGED vars
  BY <1>1, <1>9 DEF HeartbeatExpires, vars, jobVars, claimVars, execVars
<1> QED  BY <1>2, <1>3, <1>4, <1>5, <1>6, <1>7, <1>8, <1>9 DEF Next, ClaimStep

(* A server enters its claim loop only as the leader, hence as the holder. *)
LEMMA LoopsOfHolder ==
    ASSUME NEW s \in Servers, TypeOK, LoneClaimer, IdleWhenDown,
           ClaimStep(s) \/ AbortClaim(s)
    PROVE  LoneClaimer'
<1>1. UNCHANGED electionVars
  BY DEF ClaimStep, BeginClaim, EndLoop, SelectJob, SelectNothing, CommitClaim,
         AbortClaim, allElectionVars
<1>2. /\ \A t \in Servers : t # s => loop'[t] = loop[t]
      /\ loop'[s] # "idle" => loop[s] # "idle" \/ isLeader[s]
  BY DEF TypeOK, IdleWhenDown, ClaimStep, BeginClaim, EndLoop, SelectJob, SelectNothing,
         CommitClaim, AbortClaim
<1> QED  BY <1>1, <1>2 DEF LoneClaimer, HolderInv, electionVars

(* The row of the server that loops stays: it ends with the loop, and no   *)
(* other server saves it.                                                  *)
LEMMA ExitLeavesHolder ==
    ASSUME NEW s \in Servers, TypeOK, LoneClaimer, Exit(s) \/ Crash(s)
    PROVE  LoneClaimer'
<1>1. /\ loop' = [loop EXCEPT ![s] = "idle"] /\ UNCHANGED expired
      /\ GracefulExit(s) \/ CrashExit(s)
  BY DEF Exit, Crash, ForgetProcess, GracefulExit, CrashExit, ProcessEnds
<1>2. SingleNode => ~expired' /\ ~fresh'
  BY <1>1 DEF LoneClaimer, GracefulExit, CrashExit, ReleaseLeadership, LeaveRow
<1>3. ~SingleNode => HolderInv'
  BY <1>1, ExitHolder DEF LoneClaimer, TypeOK
<1>4. \A t \in Servers \ {s} : holder = t => holder' = t
  BY <1>1 DEF GracefulExit, CrashExit, ReleaseLeadership, LeaveRow
<1>5. \A t \in Servers : loop'[t] = IF t = s THEN "idle" ELSE loop[t]
  BY <1>1 DEF TypeOK
<1> QED  BY <1>1, <1>2, <1>3, <1>4, <1>5 DEF LoneClaimer

LEMMA ElectionLeavesHolder ==
    ASSUME NEW s \in Servers, TypeOK, LoneClaimer, Elect(s) \/ ElectionFails(s)
    PROVE  LoneClaimer'
<1>1. ~SingleNode /\ UNCHANGED loop
  BY DEF Elect, ElectionFails, jobVars, claimVars
<1>2. \/ ReadToAcquire(s) \/ ReadNotLeader(s) \/ TryAcquireWrite(s)
      \/ TryAcquireError(s)
  BY DEF Elect, ElectionFails
<1>3. HolderInv'
  BY <1>1, <1>2, ElectHolder DEF LoneClaimer, TypeOK
<1>4. ASSUME ~expired', NEW t \in Servers, loop'[t] # "idle"
      PROVE  holder' = t
  <2>1. ~expired /\ UNCHANGED expired
    BY <1>2, <1>4
       DEF ReadToAcquire, ReadNotLeader, TryAcquireWrite, TryAcquireError
  <2>2. holder = t
    BY <1>1, <1>4, <2>1 DEF LoneClaimer
  <2>3. CASE TryAcquireWrite(s)
    <3>1. electing[s] = "save" => holder = s
      BY <1>1, <2>1 DEF LoneClaimer, HolderInv
    <3> QED  BY <2>2, <2>3, <3>1, ElectionAssumption
             DEF TryAcquireWrite, TypeOK, ElectionTypeOK, Decision
  <2> QED  BY <1>2, <2>2, <2>3 DEF ReadToAcquire, ReadNotLeader, TryAcquireError
<1> QED  BY <1>1, <1>3, <1>4 DEF LoneClaimer

LEMMA LoneClaimerKept ==
    ASSUME TypeOK, LoneClaimer, IdleWhenDown, [Next]_vars
    PROVE  LoneClaimer'
<1> USE DEF allElectionVars, electionVars
<1>1. ASSUME UNCHANGED <<holder, fresh, electing, expired, loop>>,
             \A s \in Servers : isLeader'[s] => isLeader[s] \/ SingleNode
      PROVE  LoneClaimer'
  BY <1>1 DEF LoneClaimer, HolderInv
<1>2. ASSUME NEW j \in Jobs,
             \/ Enqueue(j) \/ BecomeDue(j) \/ BecomeStale(j)
             \/ \E s \in Servers : Report(s, j) \/ LoseResult(s, j)
      PROVE  LoneClaimer'
  BY <1>1, <1>2
     DEF Enqueue, EnqueueCheck, EnqueueCreate, BecomeDue, BecomeStale, Report,
         CompleteJob, FailJob, LoseResult, claimVars
<1>3. ASSUME NEW s \in Servers,
             CleanupStaleJobs(s) \/ BeginDrain(s) \/ CancelContext(s)
      PROVE  LoneClaimer'
  BY <1>1, <1>3 DEF CleanupStaleJobs, BeginDrain, CancelContext, claimVars
<1>4. ASSUME NEW s \in Servers, Start(s) PROVE LoneClaimer'
  BY <1>1, <1>4 DEF Start, claimVars
<1>5. CASE HeartbeatExpires
  BY <1>5 DEF HeartbeatExpires, Expire, LoneClaimer, HolderInv
<1>6. CASE UNCHANGED vars
  BY <1>1, <1>6 DEF vars, jobVars, claimVars
<1> QED
  BY <1>2, <1>3, <1>4, <1>5, <1>6, LoopsOfHolder, ExitLeavesHolder,
     ElectionLeavesHolder DEF Next

LEMMA LoneClaimerInvariant == Spec => [](LoneClaimer /\ IdleWhenDown)
<1>1. Init => LoneClaimer /\ IdleWhenDown
  BY DEF Init, ElectionInit, LoneClaimer, HolderInv, IdleWhenDown
<1>2. TypeOK /\ LoneClaimer /\ IdleWhenDown /\ [Next]_vars =>
        LoneClaimer' /\ IdleWhenDown'
  BY LoneClaimerKept, IdleWhenDownKept
<1> QED  BY <1>1, <1>2, JobQueueTypes, PTL DEF Spec

(* Only one server can be in its claim loop: with SQLite there is no other *)
(* server, with Postgres each of two would have to be the row's holder.    *)
THEOREM OneServerClaims == Spec => []OneClaimLoop
<1>1. LoneClaimer => OneClaimLoop
  BY JobQueueAssumption DEF LoneClaimer, OneClaimLoop
<1> QED  BY <1>1, LoneClaimerInvariant, PTL

(* Claims, drains and exits of the dispatchers leave SplitBrain as it is:  *)
(* in the composed system, too, two servers lead only after an expiry.     *)
THEOREM DispatchersLeadAlone == Spec => []SplitBrainNeedsExpiry
<1>1. LoneClaimer => SplitBrainNeedsExpiry
  <2>1. CASE SingleNode
    BY <2>1, JobQueueAssumption DEF SplitBrainNeedsExpiry, Leaders
  <2>2. CASE ~SingleNode
    BY <2>2 DEF LoneClaimer, HolderInv, SplitBrainNeedsExpiry, Leaders
  <2> QED  BY <2>1, <2>2
<1> QED  BY <1>1, LoneClaimerInvariant, PTL

-----------------------------------------------------------------------------
(* SerialInv is inductive.  One lemma per group of actions; in each, the   *)
(* conjuncts the action can disturb are steps of their own.                *)

LEMMA OneLoop ==
    ASSUME TypeOK, SerialInv, ~expired, NEW s \in Servers, NEW t \in Servers,
           loop[s] # "idle", loop[t] # "idle"
    PROVE  s = t
<1>1. CASE SingleNode   BY <1>1, JobQueueAssumption
<1>2. CASE ~SingleNode  BY <1>2 DEF SerialInv, LoneClaimer
<1> QED  BY <1>1, <1>2

LEMMA EnqueueSerial ==
    ASSUME NEW j \in Jobs, TypeOK, SerialInv, TimelyJobs,
           Enqueue(j) \/ BecomeDue(j) \/ BecomeStale(j)
    PROVE  SerialInv'
<1> USE DEF TypeOK, ElectionTypeOK, electionVars, allElectionVars, storeVars,
            claimVars, execVars
<1> DEFINE Step == Enqueue(j) \/ BecomeDue(j) \/ BecomeStale(j)
<1>1. /\ UNCHANGED <<holder, fresh, electing, isLeader, expired>>
      /\ UNCHANGED <<mode, loop, selected, exec>>
  BY DEF Enqueue, EnqueueCheck, EnqueueCreate, BecomeDue, BecomeStale
<1>2. LoneClaimer' /\ IdleWhenDown'
  BY <1>1 DEF SerialInv, LoneClaimer, HolderInv, IdleWhenDown
<1>3. ASSUME ~expired
      PROVE  CheckedIsAbsent' /\ ClaimStillValid' /\ RowsSerial' /\ ExecutedOnce'
  <2> USE <1>3
  <2>1. CASE UNCHANGED status /\ UNCHANGED stale
    <3>1. CheckedIsAbsent'
      BY <2>1 DEF SerialInv, CheckedIsAbsent, Enqueue, EnqueueCheck,
                  EnqueueCreate, BecomeDue, BecomeStale
    <3> QED  BY <1>1, <2>1, <3>1
             DEF SerialInv, ClaimStillValid, RowsSerial, ExecutedOnce, SameResource
  <2>2. CASE EnqueueCreate(j)
    <3>1. /\ status[j] = "absent" /\ checked' = checked \ {j} /\ stale' = stale
          /\ status' = [status EXCEPT ![j] = "pending"]
      BY <2>2 DEF EnqueueCreate, SerialInv, CheckedIsAbsent
    <3>2. CheckedIsAbsent'  BY <3>1 DEF SerialInv, CheckedIsAbsent
    <3>3. ClaimStillValid'
      BY <1>1, <3>1 DEF SerialInv, ClaimStillValid, SameResource
    <3>4. RowsSerial'    BY <3>1 DEF SerialInv, RowsSerial, SameResource
    <3>5. ExecutedOnce'  BY <1>1, <3>1 DEF SerialInv, ExecutedOnce
    <3> QED  BY <3>2, <3>3, <3>4, <3>5
  <2>3. CASE BecomeStale(j)
    <3>1. /\ \A s \in Servers : ~(exec[s][j] > 0)
          /\ checked' = checked /\ status' = status
          /\ stale' = [stale EXCEPT ![j] = TRUE]
      BY <2>3 DEF BecomeStale
    <3>2. CheckedIsAbsent' /\ ClaimStillValid' /\ RowsSerial'
      BY <1>1, <3>1
      DEF SerialInv, CheckedIsAbsent, ClaimStillValid, RowsSerial, SameResource
    <3>3. ExecutedOnce'  BY <1>1, <3>1 DEF SerialInv, ExecutedOnce
    <3> QED  BY <3>2, <3>3
  <2> QED  BY <2>1, <2>2, <2>3 DEF Enqueue, EnqueueCheck, BecomeDue
<1> QED  BY <1>1, <1>2, <1>3 DEF SerialInv

(* What happens inside a claim before it commits writes no row.            *)
LEMMA ClaimSerial ==
    ASSUME NEW s \in Servers, TypeOK, SerialInv,
           \/ BeginClaim(s) \/ EndLoop(s) \/ SelectJob(s)
           \/ SelectNothing(s) \/ AbortClaim(s)
    PROVE  SerialInv'
<1> USE DEF TypeOK, ElectionTypeOK, electionVars, allElectionVars, storeVars,
            claimVars, execVars
<1>1. /\ UNCHANGED <<holder, fresh, electing, isLeader, expired>>
      /\ UNCHANGED <<checked, status, stale, mode, exec>>
  BY DEF BeginClaim, EndLoop, SelectJob, SelectNothing, AbortClaim
<1>2. LoneClaimer'
  <2>1. \A t \in Servers : loop'[t] # "idle" => loop[t] # "idle" \/ isLeader[t]
    BY DEF BeginClaim, EndLoop, SelectJob, SelectNothing, AbortClaim
  <2> QED  BY <1>1, <2>1 DEF SerialInv, LoneClaimer, HolderInv
<1>3. IdleWhenDown'
  BY <1>1, JobQueueAssumption DEF SerialInv, IdleWhenDown, BeginClaim, EndLoop, SelectJob,
         SelectNothing, AbortClaim, Live
<1>4. ASSUME ~expired
      PROVE  CheckedIsAbsent' /\ RowsSerial' /\ ExecutedOnce'
  BY <1>1, <1>4 DEF SerialInv, CheckedIsAbsent, RowsSerial, ExecutedOnce, SameResource
<1>5. ASSUME ~expired PROVE ClaimStillValid'
  <2>1. CASE SelectJob(s)
    <3>1. PICK j \in Candidates(s) :
             ~ResourceBusy(j) /\ selected' = [selected EXCEPT ![s] = j]
      BY <2>1 DEF SelectJob
    <3>2. j \in Jobs /\ status[j] = "pending"
      BY <3>1 DEF Candidates
    <3>3. \A k \in Jobs : SameResource(j, k) => status[k] # "running"
      BY <3>1, <3>2 DEF ResourceBusy
    <3> QED  BY <1>1, <1>5, <3>1, <3>2, <3>3
             DEF SerialInv, ClaimStillValid, SameResource
  <2>2. CASE ~SelectJob(s)
    <3>1. \A t \in Servers : selected'[t] \in {selected[t], NoJob}
      BY <2>2 DEF BeginClaim, EndLoop, SelectNothing, AbortClaim
    <3> QED  BY <1>1, <1>5, <3>1 DEF SerialInv, ClaimStillValid, SameResource
  <2> QED  BY <2>1, <2>2
<1> QED  BY <1>1, <1>2, <1>3, <1>4, <1>5 DEF SerialInv

(* The commit is where a row starts to run: what was read still holds.     *)
LEMMA CommitSerial ==
    ASSUME NEW s \in Servers, TypeOK, SerialInv, CommitClaim(s)
    PROVE  SerialInv'
<1> USE DEF TypeOK, ElectionTypeOK, electionVars, allElectionVars
<1> DEFINE j == selected[s]
<1>1. /\ UNCHANGED <<holder, fresh, electing, isLeader, expired>>
      /\ UNCHANGED <<checked, mode>>
      /\ j \in Jobs /\ Live(s) /\ loop[s] = "claiming"
      /\ status' = [status EXCEPT ![j] = "running"]
      /\ stale' = [stale EXCEPT ![j] = FALSE]
      /\ exec' = [exec EXCEPT ![s][j] = @ + 1]
      /\ loop' = [loop EXCEPT ![s] = "next"]
      /\ selected' = [selected EXCEPT ![s] = NoJob]
  <2>1. j # NoJob /\ j \in Jobs /\ loop[s] = "claiming"
    BY DEF CommitClaim, SerialInv, IdleWhenDown
  <2> QED  BY <2>1 DEF CommitClaim
<1>2. LoneClaimer'
  BY <1>1 DEF SerialInv, LoneClaimer, HolderInv
<1>3. IdleWhenDown'
  BY <1>1 DEF SerialInv, IdleWhenDown, Live
<1>4. ASSUME ~expired
      PROVE  CheckedIsAbsent' /\ ClaimStillValid' /\ RowsSerial' /\ ExecutedOnce'
  <2>1. /\ status[j] = "pending"
        /\ \A k \in Jobs : SameResource(j, k) => status[k] # "running"
    BY <1>1, <1>4, JobQueueAssumption DEF SerialInv, ClaimStillValid
  <2>2. CheckedIsAbsent'
    BY <1>1, <1>4, <2>1 DEF SerialInv, CheckedIsAbsent
  <2>3. \A t \in Servers : selected'[t] = NoJob
    <3>1. \A t \in Servers : selected[t] # NoJob => t = s
      BY <1>1, <1>4, OneLoop DEF SerialInv, IdleWhenDown
    <3> QED  BY <1>1, <3>1
  <2>4. ClaimStillValid'  BY <2>3 DEF ClaimStillValid
  <2>5. RowsSerial'
    BY <1>1, <1>4, <2>1 DEF SerialInv, RowsSerial, SameResource
  <2>6. \A t \in Servers : exec[t][j] = 0
    <3> SUFFICES ASSUME NEW t \in Servers PROVE exec[t][j] = 0
      OBVIOUS
    <3>1. exec[t][j] \in Nat  BY <1>1
    <3>2. ~(exec[t][j] > 0)
      BY <1>4, <1>1, <2>1 DEF SerialInv, ExecutedOnce
    <3> QED  BY <3>1, <3>2
  <2>7. ExecutedOnce'
    <3> SUFFICES ASSUME NEW t \in Servers, NEW k \in Jobs, exec'[t][k] > 0
                 PROVE  /\ exec'[t][k] = 1
                        /\ status'[k] = "running" /\ ~stale'[k]
                        /\ \A u \in Servers : exec'[u][k] > 0 => u = t
      BY DEF ExecutedOnce
    <3>1. CASE k = j
      <4>1. \A u \in Servers : exec'[u][j] = IF u = s THEN 1 ELSE 0
        BY <1>1, <2>6
      <4> QED  BY <1>1, <3>1, <4>1
    <3>2. CASE k # j
      <4>1. \A u \in Servers : exec'[u][k] = exec[u][k]
        BY <1>1, <3>2
      <4> QED  BY <1>1, <1>4, <3>2, <4>1 DEF SerialInv, ExecutedOnce
    <3> QED  BY <3>1, <3>2
  <2> QED  BY <2>2, <2>4, <2>5, <2>7
<1> QED  BY <1>1, <1>2, <1>3, <1>4 DEF SerialInv

(* A result is written for a row that is running here and nowhere else.    *)
LEMMA ReportSerial ==
    ASSUME NEW s \in Servers, NEW j \in Jobs, TypeOK, SerialInv,
           Report(s, j) \/ LoseResult(s, j)
    PROVE  SerialInv'
<1> USE DEF TypeOK, ElectionTypeOK, electionVars, allElectionVars, storeVars,
            claimVars
<1>1. /\ UNCHANGED <<holder, fresh, electing, isLeader, expired>>
      /\ UNCHANGED <<checked, mode, loop, selected>>
      /\ exec[s][j] > 0 /\ exec' = [exec EXCEPT ![s][j] = @ - 1]
  BY DEF Report, CompleteJob, FailJob, LoseResult, GoroutineEnds
<1>2. LoneClaimer'
  BY <1>1 DEF SerialInv, LoneClaimer, HolderInv
<1>3. IdleWhenDown'
  <2> SUFFICES ASSUME NEW t \in Servers, NEW k \in Jobs, mode[t] = "down"
               PROVE  exec'[t][k] = 0
    BY <1>1 DEF SerialInv, IdleWhenDown
  <2>1. exec[t][k] = 0 /\ t # s
    BY <1>1 DEF SerialInv, IdleWhenDown
  <2> QED  BY <1>1, <2>1
<1>4. ASSUME ~expired
      PROVE  CheckedIsAbsent' /\ ClaimStillValid' /\ RowsSerial' /\ ExecutedOnce'
  <2>1. /\ exec[s][j] = 1 /\ status[j] = "running" /\ ~stale[j]
        /\ \A t \in Servers : exec[t][j] > 0 => t = s
    BY <1>1, <1>4 DEF SerialInv, ExecutedOnce
  <2>2. /\ status'[j] # "absent"
        /\ \A k \in Jobs \ {j} : status'[k] = status[k] /\ stale'[k] = stale[k]
    BY <2>1 DEF Report, CompleteJob, FailJob, LoseResult
  <2>3. CheckedIsAbsent'
    BY <1>1, <1>4, <2>1, <2>2 DEF SerialInv, CheckedIsAbsent
  <2>4. ClaimStillValid'
    <3> SUFFICES ASSUME NEW t \in Servers, selected[t] # NoJob
                 PROVE  /\ status'[selected[t]] = "pending"
                        /\ \A k \in Jobs : SameResource(selected[t], k)
                                           => status'[k] # "running"
      BY <1>1 DEF ClaimStillValid, SameResource
    <3>1. /\ status[selected[t]] = "pending" /\ selected[t] \in Jobs \ {j}
          /\ \A k \in Jobs : SameResource(selected[t], k) => status[k] # "running"
      BY <1>4, <2>1 DEF SerialInv, ClaimStillValid
    <3>2. ~SameResource(selected[t], j)
      BY <2>1, <3>1
    <3> QED  BY <2>2, <3>1, <3>2
  <2>5. RowsSerial'
    <3>1. \A k \in Jobs : status'[k] = "running" => status[k] = "running"
      BY <2>1, <2>2
    <3> QED  BY <1>4, <3>1 DEF SerialInv, RowsSerial, SameResource
  <2>6. ExecutedOnce'
    <3>1. \A t \in Servers : ~(exec'[t][j] > 0)
      <4> SUFFICES ASSUME NEW t \in Servers PROVE ~(exec'[t][j] > 0)
        OBVIOUS
      <4>1. CASE t = s  BY <1>1, <2>1, <4>1
      <4>2. CASE t # s  BY <1>1, <2>1, <4>2
      <4> QED  BY <4>1, <4>2
    <3>2. \A t \in Servers, k \in Jobs \ {j} : exec'[t][k] = exec[t][k]
      BY <1>1
    <3> QED  BY <1>4, <2>2, <3>1, <3>2 DEF SerialInv, ExecutedOnce
  <2> QED  BY <2>3, <2>4, <2>5, <2>6
<1> QED  BY <1>1, <1>2, <1>3, <1>4 DEF SerialInv

(* Putting back running rows that nobody executes disturbs nothing.        *)
LEMMA ResetSerial ==
    ASSUME NEW reset \in SUBSET RunningRows, TypeOK, SerialInv, ~expired,
           ResetJobs(reset), UNCHANGED <<checked, selected, exec>>,
           \A j \in reset, s \in Servers : ~(exec[s][j] > 0)
    PROVE  CheckedIsAbsent' /\ ClaimStillValid' /\ RowsSerial' /\ ExecutedOnce'
<1> USE DEF TypeOK, storeVars
<1>1. /\ \A k \in Jobs \ reset : status'[k] = status[k] /\ stale'[k] = stale[k]
      /\ \A k \in reset : status[k] = "running" /\ status'[k] = "pending"
      /\ reset \subseteq Jobs
  BY DEF ResetJobs, RunningRows
<1>2. CheckedIsAbsent'
  BY <1>1 DEF SerialInv, CheckedIsAbsent
<1>3. ClaimStillValid'
  BY <1>1 DEF SerialInv, ClaimStillValid, SameResource
<1>4. RowsSerial'
  BY <1>1 DEF SerialInv, RowsSerial, SameResource
<1>5. ExecutedOnce'
  BY <1>1 DEF SerialInv, ExecutedOnce
<1> QED  BY <1>2, <1>3, <1>4, <1>5

LEMMA CleanupSerial ==
    ASSUME NEW s \in Servers, TypeOK, SerialInv, CleanupStaleJobs(s)
    PROVE  SerialInv'
<1>1. /\ UNCHANGED <<holder, fresh, electing, isLeader, expired>>
      /\ UNCHANGED <<checked, mode, loop, selected, exec>>
      /\ ResetJobs({j \in RunningRows : stale[j]})
  BY DEF CleanupStaleJobs, allElectionVars, electionVars, claimVars, execVars
<1>2. LoneClaimer' /\ IdleWhenDown'
  BY <1>1 DEF SerialInv, LoneClaimer, HolderInv, IdleWhenDown
<1>3. ASSUME ~expired
      PROVE  CheckedIsAbsent' /\ ClaimStillValid' /\ RowsSerial' /\ ExecutedOnce'
  <2>1. \A j \in RunningRows, t \in Servers : stale[j] => ~(exec[t][j] > 0)
    BY <1>3 DEF SerialInv, ExecutedOnce, RunningRows
  <2> QED  BY <1>1, <1>3, <2>1, ResetSerial
<1> QED  BY <1>1, <1>2, <1>3 DEF SerialInv

(* SQLite resets every running row when its one process starts, which has  *)
(* not executed anything yet; Postgres resets nothing.                     *)
LEMMA StartSerial ==
    ASSUME NEW s \in Servers, TypeOK, SerialInv, Start(s)
    PROVE  SerialInv'
<1>1. /\ UNCHANGED <<holder, fresh, electing, expired>>
      /\ UNCHANGED <<checked, loop, selected, exec>>
      /\ mode[s] = "down" /\ mode' = [mode EXCEPT ![s] = "up"]
      /\ ~SingleNode => isLeader' = isLeader
  BY DEF Start, claimVars, execVars
<1>2. LoneClaimer'
  BY <1>1 DEF SerialInv, LoneClaimer, HolderInv
<1>3. IdleWhenDown'
  BY <1>1 DEF SerialInv, IdleWhenDown, TypeOK
<1>4. ASSUME ~expired
      PROVE  CheckedIsAbsent' /\ ClaimStillValid' /\ RowsSerial' /\ ExecutedOnce'
  <2>1. CASE UNCHANGED storeVars
    BY <1>1, <1>4, <2>1
    DEF SerialInv, CheckedIsAbsent, ClaimStillValid, RowsSerial, ExecutedOnce,
        SameResource, storeVars
  <2>2. CASE SingleNode /\ ResetJobs(RunningRows)
    <3>1. \A t \in Servers : t = s
      BY <2>2, JobQueueAssumption
    <3>2. \A j \in RunningRows, t \in Servers : ~(exec[t][j] > 0)
      BY <1>1, <3>1 DEF SerialInv, IdleWhenDown, RunningRows
    <3> QED  BY <1>1, <1>4, <2>2, <3>2, ResetSerial
  <2> QED  BY <2>1, <2>2 DEF Start
<1> QED  BY <1>1, <1>2, <1>3, <1>4 DEF SerialInv

LEMMA ShutdownSerial ==
    ASSUME NEW s \in Servers, TypeOK, SerialInv, BeginDrain(s) \/ CancelContext(s)
    PROVE  SerialInv'
<1>1. /\ UNCHANGED <<holder, fresh, electing, isLeader, expired>>
      /\ UNCHANGED <<checked, status, stale, loop, selected, exec>>
      /\ \A t \in Servers : mode'[t] = "down" => mode[t] = "down"
  BY DEF BeginDrain, CancelContext, electionVars, claimVars, execVars,
         storeVars, TypeOK
<1>2. LoneClaimer' /\ IdleWhenDown'
  BY <1>1 DEF SerialInv, LoneClaimer, HolderInv, IdleWhenDown
<1> QED
  BY <1>1, <1>2 DEF SerialInv, CheckedIsAbsent, ClaimStillValid, RowsSerial,
                    ExecutedOnce, SameResource

(* A process ends with its loop and its goroutines; its rows stay.         *)
LEMMA ExitSerial ==
    ASSUME NEW s \in Servers, TypeOK, SerialInv, Exit(s) \/ Crash(s)
    PROVE  SerialInv'
<1> USE DEF TypeOK
<1>1. /\ UNCHANGED <<checked, status, stale, expired>>
      /\ mode' = [mode EXCEPT ![s] = "down"]
      /\ loop' = [loop EXCEPT ![s] = "idle"]
      /\ selected' = [selected EXCEPT ![s] = NoJob]
      /\ exec' = [exec EXCEPT ![s] = [j \in Jobs |-> 0]]
      /\ GracefulExit(s) \/ CrashExit(s)
  BY DEF Exit, Crash, ForgetProcess, GracefulExit, CrashExit, ProcessEnds, storeVars
<1>2. LoneClaimer'
  BY ExitLeavesHolder DEF SerialInv
<1>3. IdleWhenDown'
  BY <1>1 DEF SerialInv, IdleWhenDown
<1>4. \A t \in Servers, j \in Jobs : exec'[t][j] > 0 => exec'[t][j] = exec[t][j]
  <2> SUFFICES ASSUME NEW t \in Servers, NEW j \in Jobs, exec'[t][j] > 0
               PROVE  exec'[t][j] = exec[t][j]
    OBVIOUS
  <2>1. t # s  BY <1>1
  <2> QED  BY <1>1, <2>1
<1>5. \A t \in Servers : selected'[t] \in {selected[t], NoJob}
  BY <1>1
<1> QED
  BY <1>1, <1>2, <1>3, <1>4, <1>5
  DEF SerialInv, CheckedIsAbsent, ClaimStillValid, RowsSerial, ExecutedOnce,
      SameResource

(* Elections move the row only to a server that held it, or when nobody    *)
(* did - until a heartbeat expires.                                        *)
LEMMA ElectionSerial ==
    ASSUME NEW s \in Servers, TypeOK, SerialInv,
           Elect(s) \/ ElectionFails(s) \/ HeartbeatExpires
    PROVE  SerialInv'
<1>1. UNCHANGED <<checked, status, stale, mode, loop, selected, exec>>
  BY DEF Elect, ElectionFails, HeartbeatExpires, jobVars, storeVars, claimVars,
         execVars
<1>2. \/ ReadToAcquire(s) \/ ReadNotLeader(s) \/ TryAcquireWrite(s)
      \/ TryAcquireError(s) \/ Expire
  BY DEF Elect, ElectionFails, HeartbeatExpires
<1>3. ~expired' => ~expired
  BY <1>2 DEF ReadToAcquire, ReadNotLeader, TryAcquireWrite, TryAcquireError, Expire
<1>4. LoneClaimer'
  BY LoneClaimerKept DEF SerialInv, Next
<1>5. IdleWhenDown'
  BY <1>1 DEF SerialInv, IdleWhenDown
<1> QED
  BY <1>1, <1>3, <1>4, <1>5
  DEF SerialInv, CheckedIsAbsent, ClaimStillValid, RowsSerial, ExecutedOnce,
      SameResource

(* The inductive invariant holds in every reachable state.                 *)
THEOREM SerialInvariant == TimelyJobs => (Spec => []SerialInv)
<1> SUFFICES ASSUME TimelyJobs PROVE Spec => []SerialInv
  OBVIOUS
<1>1. Init => SerialInv
  BY JobQueueAssumption, ElectionAssumption
  DEF Init, ElectionInit, SerialInv, LoneClaimer, HolderInv, IdleWhenDown,
      CheckedIsAbsent, ClaimStillValid, RowsSerial, ExecutedOnce
<1>2. TypeOK /\ SerialInv /\ [Next]_vars => SerialInv'
  <2> SUFFICES ASSUME TypeOK, SerialInv, [Next]_vars PROVE SerialInv'
    OBVIOUS
  <2>1. ASSUME NEW j \in Jobs, Enqueue(j) \/ BecomeDue(j) \/ BecomeStale(j)
        PROVE  SerialInv'
    BY <2>1, EnqueueSerial
  <2>2. ASSUME NEW s \in Servers, ClaimStep(s) \/ AbortClaim(s)
        PROVE  SerialInv'
    BY <2>2, ClaimSerial, CommitSerial DEF ClaimStep
  <2>3. ASSUME NEW s \in Servers,
               \/ CleanupStaleJobs(s) \/ Start(s) \/ BeginDrain(s)
               \/ CancelContext(s) \/ Exit(s) \/ Crash(s)
        PROVE  SerialInv'
    BY <2>3, CleanupSerial, StartSerial, ShutdownSerial, ExitSerial
  <2>4. ASSUME NEW s \in Servers, Elect(s) \/ ElectionFails(s)
        PROVE  SerialInv'
    BY <2>4, ElectionSerial
  <2>5. ASSUME NEW s \in Servers, NEW j \in Jobs,
               Report(s, j) \/ LoseResult(s, j)
        PROVE  SerialInv'
    BY <2>5, ReportSerial
  <2>6. CASE HeartbeatExpires
    <3>1. CASE Servers = {}
      BY <2>6, <3>1
      DEF HeartbeatExpires, Expire, SerialInv, LoneClaimer, HolderInv, IdleWhenDown,
          CheckedIsAbsent, ClaimStillValid, RowsSerial, ExecutedOnce
    <3>2. CASE Servers # {}
      BY <2>6, <3>2, ElectionSerial
    <3> QED  BY <3>1, <3>2
  <2>7. CASE UNCHANGED vars
    BY <2>7
    DEF vars, jobVars, storeVars, claimVars, execVars, allElectionVars, electionVars,
        SerialInv, LoneClaimer, HolderInv, IdleWhenDown, CheckedIsAbsent,
        ClaimStillValid, RowsSerial, ExecutedOnce, SameResource
  <2> QED  BY <2>1, <2>2, <2>3, <2>4, <2>5, <2>6, <2>7 DEF Next
<1> QED  BY <1>1, <1>2, JobQueueTypes, PTL DEF Spec

-----------------------------------------------------------------------------
LEMMA SerialFromInv ==
    ASSUME TypeOK, SerialInv, ~expired
    PROVE  SerialPerResource /\ ExecutingIsRunning
<1>1. ExecutingIsRunning
  BY DEF SerialInv, ExecutedOnce, ExecutingIsRunning
<1>2. SerialPerResource
  <2> SUFFICES ASSUME NEW s \in Servers, NEW t \in Servers,
                      NEW j \in Jobs, NEW k \in Jobs,
                      SameResource(j, k), exec[s][j] > 0, exec[t][k] > 0
               PROVE  s = t /\ j = k /\ exec[s][j] = 1
    BY DEF SerialPerResource
  <2>1. status[j] = "running" /\ status[k] = "running" /\ exec[s][j] = 1
    BY DEF SerialInv, ExecutedOnce
  <2>2. j = k
    BY <2>1 DEF SerialInv, RowsSerial
  <2> QED  BY <2>1, <2>2 DEF SerialInv, ExecutedOnce
<1> QED  BY <1>1, <1>2

(* With any number of servers on Postgres, the jobs of one resource are    *)
(* executed one at a time until some leader's heartbeat expires.           *)
THEOREM SerialExecutionUntilExpiry ==
    TimelyJobs => (Spec => []SerialUntilExpiry)
<1>1. TypeOK /\ SerialInv => SerialUntilExpiry
  BY SerialFromInv DEF SerialUntilExpiry
<1> QED  BY <1>1, SerialInvariant, JobQueueTypes, PTL

(* With SQLite they always are.                                            *)
THEOREM SerialExecutionOnSQLite ==
    SingleNode /\ TimelyJobs => (Spec => []SerialPerResource)
<1>1. SingleNode /\ TypeOK /\ SerialInv => SerialPerResource
  BY SerialFromInv DEF SerialInv, LoneClaimer
<1> SUFFICES ASSUME SingleNode, TimelyJobs PROVE Spec => []SerialPerResource
  OBVIOUS
<1>2. TypeOK /\ SerialInv => SerialPerResource
  BY <1>1
<1> QED  BY <1>2, SerialInvariant, JobQueueTypes, PTL

(* With SQLite, what a process executes is a running row: neither the      *)
(* cleanup nor a late result takes the row from under an execution.        *)
THEOREM ExecutionsKeepTheirRows ==
    SingleNode /\ TimelyJobs => (Spec => []ExecutingIsRunning)
<1>1. SingleNode /\ TypeOK /\ SerialInv => ExecutingIsRunning
  BY SerialFromInv DEF SerialInv, LoneClaimer
<1> SUFFICES ASSUME SingleNode, TimelyJobs PROVE Spec => []ExecutingIsRunning
  OBVIOUS
<1>2. TypeOK /\ SerialInv => ExecutingIsRunning
  BY <1>1
<1> QED  BY <1>2, SerialInvariant, JobQueueTypes, PTL

-----------------------------------------------------------------------------
(* Until a heartbeat expires the queue implements the contract of          *)
(* ResourceJobs: each step is one of the contract's or changes neither a   *)
(* row's status nor what is executed.                                      *)

LEMMA ExpiredStays == ASSUME [Next]_vars, expired PROVE expired'
<1>1. \A s \in Servers : Elect(s) \/ ElectionFails(s) => expired'
  BY DEF Elect, ElectionFails, ReadToAcquire, ReadNotLeader, TryAcquireWrite,
         TryAcquireError
<1>2. \A s \in Servers : Start(s) \/ Exit(s) \/ Crash(s) => expired'
  BY DEF Start, Exit, Crash, GracefulExit, CrashExit, ProcessEnds
<1>3. HeartbeatExpires => expired'
  BY DEF HeartbeatExpires, Expire
<1>4. \A s \in Servers :
        ClaimStep(s) \/ AbortClaim(s) \/ CleanupStaleJobs(s)
        \/ BeginDrain(s) \/ CancelContext(s) => expired'
  BY DEF ClaimStep, BeginClaim, EndLoop, SelectJob, SelectNothing, CommitClaim,
         AbortClaim, CleanupStaleJobs, BeginDrain, CancelContext,
         allElectionVars, electionVars
<1>5. \A j \in Jobs :
        \/ Enqueue(j) \/ BecomeDue(j) \/ BecomeStale(j)
        \/ \E s \in Servers : Report(s, j) \/ LoseResult(s, j)
        => expired'
  BY DEF Enqueue, EnqueueCheck, EnqueueCreate, BecomeDue, BecomeStale, Report,
         CompleteJob, FailJob, LoseResult, allElectionVars, electionVars
<1>6. UNCHANGED vars => expired'
  BY DEF vars, allElectionVars, electionVars
<1> QED  BY <1>1, <1>2, <1>3, <1>4, <1>5, <1>6 DEF Next

LEMMA ReadKept ==
    ASSUME TypeOK, SerialInv, ReadStillValid, [Next]_vars
    PROVE  ReadStillValid'
<1> SUFFICES ASSUME ~expired PROVE ReadStillValid'
  BY ExpiredStays DEF ReadStillValid
<1> USE DEF TypeOK, ReadStillValid, storeVars, claimVars
<1>1. ASSUME UNCHANGED <<attempts, selected, readAttempts>> PROVE ReadStillValid'
  BY <1>1
<1>2. ASSUME NEW j \in Jobs,
             \/ Enqueue(j) \/ BecomeDue(j) \/ BecomeStale(j)
             \/ \E s \in Servers : Report(s, j) \/ LoseResult(s, j)
      PROVE  ReadStillValid'
  BY <1>1, <1>2 DEF Enqueue, EnqueueCheck, EnqueueCreate, BecomeDue, BecomeStale,
                    Report, CompleteJob, FailJob, LoseResult
<1>3. ASSUME NEW s \in Servers,
             \/ BeginClaim(s) \/ EndLoop(s) \/ SelectNothing(s)
             \/ CleanupStaleJobs(s) \/ Start(s) \/ BeginDrain(s)
             \/ CancelContext(s) \/ Elect(s) \/ ElectionFails(s)
      PROVE  ReadStillValid'
  BY <1>1, <1>3 DEF BeginClaim, EndLoop, SelectNothing, CleanupStaleJobs, Start,
                    ResetJobs, BeginDrain, CancelContext, Elect, ElectionFails, jobVars
<1>4. ASSUME NEW s \in Servers, SelectJob(s) PROVE ReadStillValid'
  BY <1>4 DEF SelectJob
<1>5. ASSUME NEW s \in Servers, CommitClaim(s) PROVE ReadStillValid'
  <2>1. selected[s] # NoJob /\ selected' = [selected EXCEPT ![s] = NoJob]
    BY <1>5 DEF CommitClaim
  <2>2. \A t \in Servers : selected[t] # NoJob => t = s
    BY <2>1, OneLoop DEF SerialInv, IdleWhenDown
  <2>3. \A t \in Servers : selected'[t] = NoJob
    BY <2>1, <2>2
  <2> QED  BY <2>3
<1>6. ASSUME NEW s \in Servers, AbortClaim(s) \/ Exit(s) \/ Crash(s)
      PROVE  ReadStillValid'
  <2>1. /\ selected' = [selected EXCEPT ![s] = NoJob]
        /\ readAttempts' = [readAttempts EXCEPT ![s] = 0]
        /\ UNCHANGED attempts
    BY <1>6 DEF AbortClaim, Exit, Crash, ForgetProcess
  <2> QED  BY <2>1
<1>7. CASE HeartbeatExpires \/ UNCHANGED vars
  BY <1>1, <1>7 DEF HeartbeatExpires, vars, jobVars
<1> QED  BY <1>2, <1>3, <1>4, <1>5, <1>6, <1>7 DEF Next, ClaimStep

(* The contract's view of the goroutines.                                  *)
LEMMA SameHand == UNCHANGED exec => UNCHANGED InHand
  BY DEF InHand

LEMMA HandGrows ==
    ASSUME TypeOK, NEW s \in Servers, NEW j \in Jobs,
           exec' = [exec EXCEPT ![s][j] = @ + 1]
    PROVE  InHand' = InHand \cup {j}
<1>1. \A t \in Servers, k \in Jobs :
        exec'[t][k] = IF t = s /\ k = j THEN exec[s][j] + 1 ELSE exec[t][k]
  BY DEF TypeOK
<1>2. exec[s][j] \in Nat
  BY DEF TypeOK
<1> QED  BY <1>1, <1>2 DEF InHand

LEMMA HandShrinks ==
    ASSUME TypeOK, ExecutedOnce, NEW s \in Servers, NEW j \in Jobs,
           GoroutineEnds(s, j)
    PROVE  j \in InHand /\ InHand' = InHand \ {j}
<1>1. \A t \in Servers, k \in Jobs :
        exec'[t][k] = IF t = s /\ k = j THEN exec[s][j] - 1 ELSE exec[t][k]
  BY DEF TypeOK, GoroutineEnds
<1>2. exec[s][j] = 1 /\ \A t \in Servers : exec[t][j] > 0 => t = s
  BY DEF GoroutineEnds, ExecutedOnce
<1> QED  BY <1>1, <1>2 DEF InHand

LEMMA HandForgets ==
    ASSUME TypeOK, NEW s \in Servers, ForgetProcess(s)
    PROVE  InHand' \subseteq InHand
<1>1. \A t \in Servers, k \in Jobs : exec'[t][k] = IF t = s THEN 0 ELSE exec[t][k]
  BY DEF TypeOK, ForgetProcess
<1> QED  BY <1>1 DEF InHand

LEMMA QueueStarts ==
    ASSUME TypeOK, SerialInv, ReadStillValid, ~expired,
           NEW s \in Servers, CommitClaim(s)
    PROVE  Contract!Start(selected[s])
<1> DEFINE j == selected[s]
<1>1. j \in Jobs /\ j # NoJob /\ readAttempts[s] = attempts[j]
  BY DEF TypeOK, CommitClaim, ReadStillValid
<1>2. /\ status[j] = "pending"
      /\ \A k \in Jobs : SameResource(j, k) => status[k] # "running"
  BY <1>1 DEF SerialInv, ClaimStillValid
<1>3. \A k \in InHand : k \in Jobs /\ status[k] = "running"
  BY DEF SerialInv, ExecutedOnce, InHand
<1>4. Contract!Idle(ResourceOf[j])
  BY <1>2, <1>3 DEF Contract!Idle, SameResource
<1>5. InHand' = InHand \cup {j}
  BY <1>1, HandGrows DEF CommitClaim
<1>6. /\ status' = [status EXCEPT ![j] = "running"]
      /\ attempts' = [attempts EXCEPT ![j] = attempts[j] + 1]
  BY <1>1 DEF CommitClaim
<1> QED  BY <1>2, <1>4, <1>5, <1>6 DEF Contract!Start

LEMMA QueueReports ==
    ASSUME TypeOK, SerialInv, ~expired, NEW s \in Servers, NEW j \in Jobs,
           Report(s, j) \/ LoseResult(s, j)
    PROVE  \/ Contract!Complete(j) \/ Contract!Retry(j) \/ Contract!Fail(j)
           \/ Contract!Abandon({j})
<1>1. GoroutineEnds(s, j)
  BY DEF Report, CompleteJob, FailJob, LoseResult
<1>2. j \in InHand /\ InHand' = InHand \ {j}
  BY <1>1, HandShrinks DEF SerialInv
<1>3. CASE CompleteJob(s, j)
  BY <1>2, <1>3 DEF CompleteJob, Contract!Complete, Contract!Finish
<1>4. CASE FailJob(s, j)
  BY <1>2, <1>4 DEF FailJob, Contract!Retry, Contract!Fail, Contract!Finish
<1>5. CASE LoseResult(s, j)
  BY <1>2, <1>5 DEF LoseResult, storeVars, Contract!Abandon
<1> QED  BY <1>3, <1>4, <1>5 DEF Report

LEMMA QueuePutsBack ==
    ASSUME TypeOK, SerialInv, ~expired, NEW s \in Servers,
           CleanupStaleJobs(s) \/ Start(s)
    PROVE  \/ \E J \in SUBSET Jobs : Contract!PutBack(J)
           \/ UNCHANGED Contract!vars
<1>1. UNCHANGED InHand
  BY SameHand DEF CleanupStaleJobs, Start, execVars
<1>2. \A j \in InHand : j \in Jobs /\ status[j] = "running" /\ ~stale[j]
  BY DEF SerialInv, ExecutedOnce, InHand
<1>3. ASSUME NEW J \in SUBSET Jobs, ResetJobs(J),
             \A j \in J : status[j] = "running" /\ j \notin InHand
      PROVE  Contract!PutBack(J)
  BY <1>1, <1>3 DEF ResetJobs, Contract!PutBack
<1>4. CASE CleanupStaleJobs(s)
  <2> DEFINE J == {j \in RunningRows : stale[j]}
  <2>1. J \in SUBSET Jobs /\ ResetJobs(J)
        /\ \A j \in J : status[j] = "running" /\ j \notin InHand
    BY <1>2, <1>4 DEF CleanupStaleJobs, RunningRows
  <2> QED  BY <1>3, <2>1
<1>5. CASE Start(s)
  <2>1. SingleNode => InHand = {}
    <3>1. SingleNode => \A t \in Servers : t = s
      BY JobQueueAssumption
    <3>2. \A j \in Jobs : exec[s][j] = 0
      BY <1>5 DEF Start, SerialInv, IdleWhenDown
    <3> QED  BY <3>1, <3>2 DEF InHand
  <2>2. CASE SingleNode /\ ResetJobs(RunningRows)
    BY <1>3, <2>1, <2>2 DEF RunningRows
  <2>3. CASE UNCHANGED storeVars
    BY <1>1, <2>3 DEF storeVars, Contract!vars
  <2> QED  BY <1>5, <2>2, <2>3 DEF Start
<1> QED  BY <1>4, <1>5

LEMMA QueueKeepsContract ==
    ASSUME TypeOK, SerialInv, ReadStillValid, ~expired, [Next]_vars
    PROVE  [Contract!Next]_(Contract!vars)
<1>1. ~expired
  OBVIOUS
<1>2. ASSUME UNCHANGED <<status, attempts, exec>> PROVE UNCHANGED Contract!vars
  BY <1>2, SameHand DEF Contract!vars
<1>3. ASSUME NEW j \in Jobs, EnqueueCreate(j) PROVE Contract!Submit(j)
  BY <1>1, <1>3, SameHand
     DEF EnqueueCreate, SerialInv, CheckedIsAbsent, execVars, Contract!Submit
<1>4. ASSUME NEW j \in Jobs, EnqueueCheck(j) \/ BecomeDue(j) \/ BecomeStale(j)
      PROVE  UNCHANGED Contract!vars
  BY <1>2, <1>4 DEF EnqueueCheck, BecomeDue, BecomeStale, storeVars, execVars
<1>5. ASSUME NEW s \in Servers,
             \/ BeginClaim(s) \/ EndLoop(s) \/ SelectJob(s) \/ SelectNothing(s)
             \/ AbortClaim(s) \/ BeginDrain(s) \/ CancelContext(s)
             \/ Elect(s) \/ ElectionFails(s)
      PROVE  UNCHANGED Contract!vars
  BY <1>2, <1>5 DEF BeginClaim, EndLoop, SelectJob, SelectNothing, AbortClaim,
                    BeginDrain, CancelContext, Elect, ElectionFails, jobVars,
                    storeVars, execVars
<1>6. ASSUME NEW s \in Servers, CommitClaim(s)
      PROVE  \E j \in Jobs : Contract!Start(j)
  BY <1>1, <1>6, QueueStarts DEF CommitClaim, TypeOK
<1>7. ASSUME NEW s \in Servers, CleanupStaleJobs(s) \/ Start(s)
      PROVE  (\E J \in SUBSET Jobs : Contract!PutBack(J)) \/ UNCHANGED Contract!vars
  BY <1>1, <1>7, QueuePutsBack
<1>8. ASSUME NEW s \in Servers, Exit(s) \/ Crash(s)
      PROVE  \E J \in SUBSET Jobs : Contract!Abandon(J)
  <2>1. ForgetProcess(s) /\ UNCHANGED <<status, attempts>>
    BY <1>8 DEF Exit, Crash, ForgetProcess, storeVars
  <2>2. InHand' \subseteq InHand /\ InHand \subseteq Jobs
    BY <2>1, HandForgets DEF InHand
  <2>3. Contract!Abandon(InHand \ InHand')
    BY <2>1, <2>2 DEF Contract!Abandon
  <2> QED  BY <2>2, <2>3
<1>9. ASSUME NEW s \in Servers, NEW j \in Jobs, Report(s, j) \/ LoseResult(s, j)
      PROVE  \/ Contract!Complete(j) \/ Contract!Retry(j) \/ Contract!Fail(j)
             \/ \E J \in SUBSET Jobs : Contract!Abandon(J)
  BY <1>1, <1>9, QueueReports
<1>10. CASE HeartbeatExpires \/ UNCHANGED vars
  BY <1>2, <1>10 DEF HeartbeatExpires, vars, jobVars, storeVars, execVars
<1> QED  BY <1>3, <1>4, <1>5, <1>6, <1>7, <1>8, <1>9, <1>10
         DEF Next, Enqueue, ClaimStep, Contract!Next

LEMMA ContractStarts == Init => Contract!Init /\ ReadStillValid
  BY DEF Init, Contract!Init, InHand, ReadStillValid

LEMMA ReadsStayValid == TimelyJobs => (Spec => []ReadStillValid)
<1> SUFFICES ASSUME TimelyJobs PROVE Spec => []ReadStillValid
  OBVIOUS
<1>1. TypeOK /\ SerialInv /\ ReadStillValid /\ [Next]_vars => ReadStillValid'
  BY ReadKept
<1> QED  BY <1>1, ContractStarts, SerialInvariant, JobQueueTypes, PTL DEF Spec

(* Whatever crashes, drains, handovers and lost results there are, and on  *)
(* however many servers, the queue behaves as ResourceJobs says until a    *)
(* leader's heartbeat expires.                                             *)
THEOREM QueueKeepsContractUntilExpiry ==
    TimelyJobs => (Spec => ContractUntilExpiry)
<1> SUFFICES ASSUME TimelyJobs PROVE Spec => ContractUntilExpiry
  OBVIOUS
<1>1. TypeOK /\ SerialInv /\ ReadStillValid /\ [Next]_vars =>
        [~expired => Contract!Next]_(Contract!vars)
  BY QueueKeepsContract
<1> QED  BY <1>1, ContractStarts, ReadsStayValid, SerialInvariant, JobQueueTypes, PTL
         DEF Spec, ContractUntilExpiry

(* On SQLite no heartbeat expires: the queue behaves as ResourceJobs says. *)
THEOREM QueueRefinesContract ==
    SingleNode /\ TimelyJobs => (Spec => ImplementsContract)
<1> SUFFICES ASSUME SingleNode, TimelyJobs PROVE Spec => ImplementsContract
  OBVIOUS
<1>1. TypeOK /\ SerialInv /\ ReadStillValid /\ [Next]_vars =>
        [Contract!Next]_(Contract!vars)
  BY QueueKeepsContract DEF SerialInv, LoneClaimer
<1> QED  BY <1>1, ContractStarts, ReadsStayValid, SerialInvariant, JobQueueTypes, PTL
         DEF Spec, ImplementsContract, Contract!Spec

-----------------------------------------------------------------------------
(* What the contract is worth: its promises follow from its actions alone, *)
(* and hold of the queue for as long as it keeps the contract.             *)

LEMMA ContractStep ==
    ASSUME Contract!Promises, [Contract!Next]_(Contract!vars)
    PROVE  Contract!Promises' /\ Contract!KeepsSettled
<1> USE JobQueueAssumption DEF Contract!Promises, Contract!TypeOK, Contract!Settled
<1>1. ASSUME NEW j \in Jobs, Contract!Submit(j)
      PROVE  Contract!Promises' /\ Contract!KeepsSettled
  BY <1>1 DEF Contract!Submit, Contract!OneAtATime, Contract!AttemptsUsed,
              Contract!KeepsSettled
<1>2. ASSUME NEW j \in Jobs, Contract!Start(j)
      PROVE  Contract!Promises' /\ Contract!KeepsSettled
  <2>1. Contract!TypeOK' /\ Contract!KeepsSettled /\ Contract!AttemptsUsed'
    BY <1>2 DEF Contract!Start, Contract!OneAtATime, Contract!AttemptsUsed,
                Contract!KeepsSettled
  <2>2. Contract!OneAtATime'
    BY <1>2 DEF Contract!Start, Contract!Idle, Contract!OneAtATime
  <2> QED  BY <2>1, <2>2
<1>3. ASSUME NEW j \in Jobs,
             Contract!Complete(j) \/ Contract!Retry(j) \/ Contract!Fail(j)
      PROVE  Contract!Promises' /\ Contract!KeepsSettled
  <2> PICK outcome \in {"pending", "completed", "failed"} :
          /\ Contract!Finish(j, outcome)
          /\ outcome = "failed" => attempts[j] >= MaxAttempts[j]
    BY <1>3 DEF Contract!Complete, Contract!Retry, Contract!Fail
  <2>1. /\ j \in InHand /\ status[j] = "running" /\ attempts[j] > 0
        /\ status' = [status EXCEPT ![j] = outcome]
        /\ InHand' = InHand \ {j} /\ UNCHANGED attempts
    BY DEF Contract!Finish, Contract!OneAtATime, Contract!AttemptsUsed
  <2>2. Contract!TypeOK' /\ Contract!AttemptsUsed'
    BY <2>1 DEF Contract!AttemptsUsed
  <2>3. Contract!OneAtATime' /\ Contract!KeepsSettled
    BY <2>1 DEF Contract!OneAtATime, Contract!KeepsSettled
  <2> QED  BY <2>2, <2>3
<1>4. ASSUME NEW J \in SUBSET Jobs, Contract!Abandon(J) \/ Contract!PutBack(J)
      PROVE  Contract!Promises' /\ Contract!KeepsSettled
  BY <1>4 DEF Contract!Abandon, Contract!PutBack, Contract!OneAtATime,
              Contract!AttemptsUsed, Contract!KeepsSettled
<1>5. CASE UNCHANGED Contract!vars
  BY <1>5 DEF Contract!vars, Contract!OneAtATime, Contract!AttemptsUsed,
              Contract!KeepsSettled
<1> QED  BY <1>1, <1>2, <1>3, <1>4, <1>5 DEF Contract!Next

LEMMA ContractBegins == ASSUME Contract!Init PROVE Contract!Promises
  BY DEF Contract!Init, Contract!Promises, Contract!TypeOK, Contract!OneAtATime,
         Contract!AttemptsUsed, Contract!Settled

(* Whoever keeps the contract executes the jobs of a resource one at a     *)
(* time, fails none with attempts left, and leaves settled jobs alone.     *)
THEOREM ContractPromises ==
    Contract!Spec => []Contract!Promises /\ Contract!SettledForGood
<1>1. Contract!Init => Contract!Promises
  BY ContractBegins
<1>2. Contract!Promises /\ [Contract!Next]_(Contract!vars) =>
        Contract!Promises' /\ [Contract!KeepsSettled]_(Contract!vars)
  BY ContractStep
<1> QED  BY <1>1, <1>2, PTL DEF Contract!Spec, Contract!SettledForGood

(* With any number of servers: until a heartbeat expires, running rows and *)
(* executions of a resource exclude each other and no job fails with       *)
(* attempts left.                                                          *)
THEOREM PromisesKeptUntilExpiry == TimelyJobs => (Spec => []PromisesUntilExpiry)
<1> SUFFICES ASSUME TimelyJobs PROVE Spec => []PromisesUntilExpiry
  OBVIOUS
<1>1. Contract!Init => PromisesUntilExpiry
  BY ContractBegins DEF PromisesUntilExpiry
<1>2. /\ PromisesUntilExpiry /\ [Next]_vars
      /\ [~expired => Contract!Next]_(Contract!vars)
      => PromisesUntilExpiry'
  BY ContractStep, ExpiredStays DEF PromisesUntilExpiry
<1> QED  BY <1>1, <1>2, QueueKeepsContractUntilExpiry, PTL
         DEF Spec, ContractUntilExpiry

(* And until then nothing changes a job that completed or failed for good. *)
THEOREM SettledKeptUntilExpiry == TimelyJobs => (Spec => SettledUntilExpiry)
<1> SUFFICES ASSUME TimelyJobs PROVE Spec => SettledUntilExpiry
  OBVIOUS
<1>1. PromisesUntilExpiry /\ [~expired => Contract!Next]_(Contract!vars) =>
        [~expired => Contract!KeepsSettled]_(Contract!vars)
  BY ContractStep DEF PromisesUntilExpiry
<1> QED  BY <1>1, PromisesKeptUntilExpiry, QueueKeepsContractUntilExpiry, PTL
         DEF ContractUntilExpiry, SettledUntilExpiry

(* With SQLite a settled job never changes again: every write is made for  *)
(* a row that is pending, running, or not created yet.                     *)
THEOREM SettledJobsStaySettled ==
    SingleNode /\ TimelyJobs => (Spec => SettledIsFinal)
<1> SUFFICES ASSUME SingleNode, TimelyJobs PROVE Spec => SettledIsFinal
  OBVIOUS
<1>1. Contract!Promises /\ [Contract!Next]_(Contract!vars) =>
        [\A j \in Jobs : status[j] \in Settled => status'[j] = status[j]]_vars
  BY ContractStep DEF Contract!KeepsSettled, Contract!Settled, Settled
<1>2. Spec => []Contract!Promises
  BY QueueRefinesContract, ContractPromises, PTL DEF ImplementsContract
<1> QED  BY <1>1, <1>2, QueueRefinesContract, PTL
         DEF ImplementsContract, Contract!Spec, SettledIsFinal

-----------------------------------------------------------------------------
(* SlotInv is inductive on both databases, whatever expires or crashes.    *)

(* Nothing but a commit, the end of a goroutine and the end of a process   *)
(* changes what is counted.                                                *)
LEMMA SameSlots ==
    ASSUME SlotInv, UNCHANGED execVars,
           \A s \in Servers :
              /\ selected'[s] # NoJob => TypeOf[selected'[s]] \in avail'[s]
              /\ \A t \in avail'[s] \cap Types : runningJobs[s][t] < Limit[t]
    PROVE  SlotInv'
<1>1. exec' = exec /\ runningJobs' = runningJobs
  BY DEF execVars
<1>2. \A s \in Servers, t \in Types : SlotsCounted(s, t)' <=> SlotsCounted(s, t)
  BY <1>1 DEF SlotsCounted, Executions
<1> QED  BY <1>1, <1>2 DEF SlotInv

(* A goroutine of job j more on server s.                                  *)
LEMMA OneMore ==
    ASSUME TypeOK, NEW s \in Servers, NEW j \in Jobs, NEW t \in Types,
           SlotsCounted(s, t),
           exec' = [exec EXCEPT ![s][j] = @ + 1],
           runningJobs' = [runningJobs EXCEPT ![s][TypeOf[j]] = @ + 1]
    PROVE  SlotsCounted(s, t)'
<1>1. /\ exec \in [Servers -> [Jobs -> Nat]] /\ TypeOf[j] \in Types
      /\ runningJobs \in [Servers -> [Types -> Int]]
  BY JobQueueAssumption DEF TypeOK
<1>2. /\ exec'[s] = [exec[s] EXCEPT ![j] = @ + 1]
      /\ runningJobs'[s] = [runningJobs[s] EXCEPT ![TypeOf[j]] = @ + 1]
      /\ exec[s] \in [Jobs -> Nat] /\ runningJobs[s] \in [Types -> Int]
  BY <1>1
<1>3. exec[s][j] \in Nat /\ exec'[s][j] = exec[s][j] + 1
      /\ \A k \in Jobs : k # j => exec'[s][k] = exec[s][k]
  BY <1>2
<1> DEFINE e == <<j, exec[s][j] + 1>>
<1>4. CASE TypeOf[j] = t
  <2>1. Executions(s, t)' = Executions(s, t) \cup {e}
    <3>1. ASSUME NEW d \in Jobs \X (Nat \ {0})
          PROVE  d \in Executions(s, t)' <=> d \in Executions(s, t) \cup {e}
      <4>1. d = <<d[1], d[2]>> /\ d[1] \in Jobs /\ d[2] \in Nat \ {0}
        OBVIOUS
      <4>2. CASE d[1] = j
        <5>1. d[2] <= exec[s][j] + 1 <=> d[2] <= exec[s][j] \/ d[2] = exec[s][j] + 1
          BY <1>3, <4>1
        <5>2. d = e <=> d[2] = exec[s][j] + 1
          BY <4>1, <4>2
        <5> QED  BY <1>3, <1>4, <4>2, <5>1, <5>2 DEF Executions
      <4>3. CASE d[1] # j
        BY <1>3, <4>1, <4>3 DEF Executions
      <4> QED  BY <4>2, <4>3
    <3>2. e \in Jobs \X (Nat \ {0})
      BY <1>3
    <3> QED  BY <3>1, <3>2 DEF Executions
  <2>2. e \notin Executions(s, t)
    BY <1>3 DEF Executions
  <2>3. runningJobs'[s][t] = runningJobs[s][t] + 1
    BY <1>1, <1>2, <1>4
  <2> HIDE DEF e
  <2> QED  BY <2>1, <2>2, <2>3, FS_AddElement DEF SlotsCounted
<1>5. CASE TypeOf[j] # t
  <2>1. Executions(s, t)' = Executions(s, t)
    BY <1>3, <1>5 DEF Executions
  <2>2. runningJobs'[s][t] = runningJobs[s][t]
    BY <1>1, <1>2, <1>5
  <2> QED  BY <2>1, <2>2 DEF SlotsCounted
<1> QED  BY <1>4, <1>5

(* One less.                                                               *)
LEMMA OneLess ==
    ASSUME TypeOK, NEW s \in Servers, NEW j \in Jobs, NEW t \in Types,
           SlotsCounted(s, t), GoroutineEnds(s, j)
    PROVE  /\ SlotsCounted(s, t)'
           /\ runningJobs'[s][t] <= runningJobs[s][t]
<1>1. /\ exec \in [Servers -> [Jobs -> Nat]] /\ TypeOf[j] \in Types
      /\ runningJobs \in [Servers -> [Types -> Int]]
  BY JobQueueAssumption DEF TypeOK
<1>2. /\ exec'[s] = [exec[s] EXCEPT ![j] = @ - 1]
      /\ runningJobs'[s] = [runningJobs[s] EXCEPT ![TypeOf[j]] = @ - 1]
      /\ exec[s] \in [Jobs -> Nat] /\ runningJobs[s] \in [Types -> Int]
  BY <1>1 DEF GoroutineEnds
<1>3. exec[s][j] \in Nat \ {0} /\ exec'[s][j] = exec[s][j] - 1
      /\ \A k \in Jobs : k # j => exec'[s][k] = exec[s][k]
  BY <1>2 DEF GoroutineEnds
<1> DEFINE e == <<j, exec[s][j]>>
<1>4. CASE TypeOf[j] = t
  <2>1. Executions(s, t)' = Executions(s, t) \ {e}
    <3>1. ASSUME NEW d \in Jobs \X (Nat \ {0})
          PROVE  d \in Executions(s, t)' <=> d \in Executions(s, t) \ {e}
      <4>1. d = <<d[1], d[2]>> /\ d[1] \in Jobs /\ d[2] \in Nat \ {0}
        OBVIOUS
      <4>2. CASE d[1] = j
        <5>1. d[2] <= exec[s][j] - 1 <=> (d[2] <= exec[s][j] /\ d[2] # exec[s][j])
          BY <1>3, <4>1
        <5>2. d = e <=> d[2] = exec[s][j]
          BY <4>1, <4>2
        <5> QED  BY <1>3, <1>4, <4>2, <5>1, <5>2 DEF Executions
      <4>3. CASE d[1] # j
        BY <1>3, <4>1, <4>3 DEF Executions
      <4> QED  BY <4>2, <4>3
    <3> QED  BY <3>1 DEF Executions
  <2>2. e \in Executions(s, t)
    BY <1>3, <1>4 DEF Executions
  <2>3. runningJobs'[s][t] = runningJobs[s][t] - 1 /\ runningJobs[s][t] \in Int
    BY <1>1, <1>2, <1>4
  <2> HIDE DEF e
  <2> QED  BY <2>1, <2>2, <2>3, FS_RemoveElement DEF SlotsCounted
<1>5. CASE TypeOf[j] # t
  <2>1. Executions(s, t)' = Executions(s, t)
    BY <1>3, <1>5 DEF Executions
  <2>2. runningJobs'[s][t] = runningJobs[s][t] /\ runningJobs[s][t] \in Int
    BY <1>1, <1>2, <1>5
  <2> QED  BY <2>1, <2>2 DEF SlotsCounted
<1> QED  BY <1>4, <1>5

(* Other servers do not notice.                                            *)
LEMMA OtherSlots ==
    ASSUME NEW r \in Servers, exec'[r] = exec[r], runningJobs'[r] = runningJobs[r]
    PROVE  \A t \in Types : SlotsCounted(r, t)' <=> SlotsCounted(r, t)
  BY DEF SlotsCounted, Executions

(* The steps of a claim before its commit, and those of a claim that fails.*)
LEMMA ClaimSlots ==
    ASSUME NEW s \in Servers, TypeOK, SlotInv,
           \/ BeginClaim(s) \/ EndLoop(s) \/ SelectJob(s)
           \/ SelectNothing(s) \/ AbortClaim(s)
    PROVE  SlotInv'
<1> USE DEF TypeOK
<1>1. UNCHANGED execVars
  BY DEF BeginClaim, EndLoop, SelectJob, SelectNothing, AbortClaim
<1>2. CASE BeginClaim(s)
  <2>1. selected' = selected /\ avail' = [avail EXCEPT ![s] = AvailableTypes(s)]
    BY <1>2 DEF BeginClaim
  <2>2. selected[s] # NoJob => TypeOf[selected[s]] \in AvailableTypes(s)
    BY JobQueueAssumption DEF SlotInv, AvailableTypes
  <2> QED  BY <1>1, <2>1, <2>2, SameSlots DEF SlotInv, AvailableTypes
<1>3. CASE EndLoop(s)
  BY <1>1, <1>3, SameSlots DEF EndLoop, SlotInv
<1>4. CASE SelectJob(s)
  <2>1. PICK j \in Candidates(s) : selected' = [selected EXCEPT ![s] = j]
    BY <1>4 DEF SelectJob
  <2>2. TypeOf[j] \in avail[s] /\ avail' = avail
    BY <1>4 DEF Candidates, SelectJob
  <2> QED  BY <1>1, <2>1, <2>2, SameSlots DEF SlotInv
<1>5. CASE SelectNothing(s)
  BY <1>1, <1>5, SameSlots DEF SelectNothing, SlotInv
<1>6. CASE AbortClaim(s)
  BY <1>1, <1>6, SameSlots DEF AbortClaim, SlotInv
<1> QED  BY <1>2, <1>3, <1>4, <1>5, <1>6

(* A commit takes the slot that the check before the claim found free.     *)
LEMMA CommitSlots ==
    ASSUME NEW s \in Servers, TypeOK, SlotInv, CommitClaim(s)
    PROVE  SlotInv'
<1> DEFINE j == selected[s]
<1>1. /\ j \in Jobs /\ TypeOf[j] \in avail[s] /\ TypeOf[j] \in Types
      /\ exec' = [exec EXCEPT ![s][j] = @ + 1]
      /\ runningJobs' = [runningJobs EXCEPT ![s][TypeOf[j]] = @ + 1]
      /\ avail' = [avail EXCEPT ![s] = {}]
      /\ selected' = [selected EXCEPT ![s] = NoJob]
  BY JobQueueAssumption DEF CommitClaim, SlotInv, TypeOK
<1>2. /\ exec \in [Servers -> [Jobs -> Nat]] /\ avail \in [Servers -> SUBSET Types]
      /\ selected \in [Servers -> Jobs \cup {NoJob}]
      /\ runningJobs \in [Servers -> [Types -> Int]] /\ Limit \in [Types -> Nat \ {0}]
  BY JobQueueAssumption DEF TypeOK
<1> HIDE DEF j
<1>3. ASSUME NEW r \in Servers, r # s
      PROVE  /\ exec'[r] = exec[r] /\ runningJobs'[r] = runningJobs[r]
             /\ avail'[r] = avail[r] /\ selected'[r] = selected[r]
  BY <1>1, <1>2, <1>3
<1>4. avail'[s] = {} /\ selected'[s] = NoJob
  BY <1>1, <1>2
<1>5. ASSUME NEW t \in Types
      PROVE  SlotsCounted(s, t)' /\ runningJobs'[s][t] <= Limit[t]
  <2>1. SlotsCounted(s, t)'
    BY <1>1, OneMore DEF SlotInv
  <2>2. /\ runningJobs[s] \in [Types -> Int] /\ runningJobs[s][t] \in Int
        /\ Limit[t] \in Nat
        /\ runningJobs'[s] = [runningJobs[s] EXCEPT ![TypeOf[j]] = @ + 1]
    BY <1>1, <1>2
  <2>3. CASE t = TypeOf[j]
    <3>1. runningJobs[s][t] < Limit[t]
      BY <1>1, <2>3 DEF SlotInv
    <3>2. runningJobs'[s][t] = runningJobs[s][t] + 1
      BY <2>2, <2>3
    <3> QED  BY <2>1, <2>2, <3>1, <3>2
  <2>4. CASE t # TypeOf[j]
    <3>1. runningJobs'[s][t] = runningJobs[s][t]
      BY <2>2, <2>4
    <3> QED  BY <2>1, <3>1 DEF SlotInv
  <2> QED  BY <2>3, <2>4
<1>6. ASSUME NEW r \in Servers
      PROVE  /\ selected'[r] # NoJob => TypeOf[selected'[r]] \in avail'[r]
             /\ \A t \in Types :
                  /\ SlotsCounted(r, t)'
                  /\ runningJobs'[r][t] <= Limit[t]
                  /\ t \in avail'[r] => runningJobs'[r][t] < Limit[t]
  <2>1. CASE r = s
    BY <1>4, <1>5, <2>1
  <2>2. CASE r # s
    BY <1>3, <2>2, OtherSlots DEF SlotInv
  <2> QED  BY <2>1, <2>2
<1> QED  BY <1>6 DEF SlotInv

LEMMA ReportSlots ==
    ASSUME NEW s \in Servers, NEW j \in Jobs, TypeOK, SlotInv,
           Report(s, j) \/ LoseResult(s, j)
    PROVE  SlotInv'
<1>1. GoroutineEnds(s, j) /\ UNCHANGED <<avail, selected>>
  BY DEF Report, CompleteJob, FailJob, LoseResult, claimVars
<1>2. ASSUME NEW r \in Servers, r # s
      PROVE  exec'[r] = exec[r] /\ runningJobs'[r] = runningJobs[r]
  BY <1>1, <1>2 DEF GoroutineEnds, TypeOK
<1>3. ASSUME NEW t \in Types
      PROVE  /\ SlotsCounted(s, t)' /\ runningJobs'[s][t] <= Limit[t]
             /\ runningJobs[s][t] < Limit[t] => runningJobs'[s][t] < Limit[t]
  <2>1. SlotsCounted(s, t)' /\ runningJobs'[s][t] <= runningJobs[s][t]
    BY <1>1, OneLess DEF SlotInv
  <2>2. runningJobs[s][t] \in Int /\ runningJobs'[s][t] \in Int /\ Limit[t] \in Nat
    <3>1. runningJobs \in [Servers -> [Types -> Int]] /\ Limit \in [Types -> Nat \ {0}]
      BY JobQueueAssumption DEF TypeOK
    <3>2. TypeOK'
      BY ReportTypes
    <3> QED  BY <3>1, <3>2 DEF TypeOK
  <2>3. runningJobs[s][t] <= Limit[t]
    BY DEF SlotInv
  <2> QED  BY <2>1, <2>2, <2>3
<1>4. ASSUME NEW r \in Servers
      PROVE  /\ selected'[r] # NoJob => TypeOf[selected'[r]] \in avail'[r]
             /\ \A t \in Types :
                  /\ SlotsCounted(r, t)'
                  /\ runningJobs'[r][t] <= Limit[t]
                  /\ t \in avail'[r] => runningJobs'[r][t] < Limit[t]
  <2>1. CASE r = s
    BY <1>1, <1>3, <2>1 DEF SlotInv
  <2>2. CASE r # s
    BY <1>1, <1>2, <2>2, OtherSlots DEF SlotInv
  <2> QED  BY <2>1, <2>2
<1> QED  BY <1>4 DEF SlotInv

(* No goroutine, no slot taken.                                            *)
LEMMA NoSlots ==
    ASSUME NEW E, NEW R, NEW t \in Types, E = [j \in Jobs |-> 0],
           R = [u \in Types |-> 0]
    PROVE  /\ {e \in Jobs \X (Nat \ {0}) : TypeOf[e[1]] = t /\ e[2] <= E[e[1]]} = {}
           /\ R[t] = 0 /\ IsFiniteSet({}) /\ Cardinality({}) = 0
           /\ Limit[t] \in Nat /\ R[t] <= Limit[t]
<1>1. \A e \in Jobs \X (Nat \ {0}) : ~(e[2] <= E[e[1]])
  OBVIOUS
<1>2. Limit[t] \in Nat
  BY JobQueueAssumption
<1> QED  BY <1>1, <1>2, FS_EmptySet

LEMMA EndSlots ==
    ASSUME NEW s \in Servers, TypeOK, SlotInv, Exit(s) \/ Crash(s)
    PROVE  SlotInv'
<1>1. ForgetProcess(s)
  BY DEF Exit, Crash
<1>2. /\ exec'[s] = [j \in Jobs |-> 0] /\ runningJobs'[s] = [t \in Types |-> 0]
      /\ avail'[s] = {} /\ selected'[s] = NoJob
  BY <1>1 DEF ForgetProcess, TypeOK
<1>3. ASSUME NEW r \in Servers, r # s
      PROVE  /\ exec'[r] = exec[r] /\ runningJobs'[r] = runningJobs[r]
             /\ avail'[r] = avail[r] /\ selected'[r] = selected[r]
  BY <1>1, <1>3 DEF ForgetProcess, TypeOK
<1>4. ASSUME NEW t \in Types
      PROVE  SlotsCounted(s, t)' /\ runningJobs'[s][t] <= Limit[t]
  <2>1. {e \in Jobs \X (Nat \ {0}) : TypeOf[e[1]] = t /\ e[2] <= exec'[s][e[1]]} = {}
    BY <1>2, NoSlots
  <2>2. Executions(s, t)' = {}
    BY <2>1 DEF Executions
  <2>3. /\ runningJobs'[s][t] = 0 /\ runningJobs'[s][t] <= Limit[t]
        /\ IsFiniteSet({}) /\ Cardinality({}) = 0
    BY <1>2, NoSlots
  <2> QED  BY <2>2, <2>3 DEF SlotsCounted
<1>5. ASSUME NEW r \in Servers
      PROVE  /\ selected'[r] # NoJob => TypeOf[selected'[r]] \in avail'[r]
             /\ \A t \in Types :
                  /\ SlotsCounted(r, t)'
                  /\ runningJobs'[r][t] <= Limit[t]
                  /\ t \in avail'[r] => runningJobs'[r][t] < Limit[t]
  <2>1. CASE r = s
    BY <1>2, <1>4, <2>1
  <2>2. CASE r # s
    BY <1>3, <2>2, OtherSlots DEF SlotInv
  <2> QED  BY <2>1, <2>2
<1> QED  BY <1>5 DEF SlotInv

(* The limits are kept, and why: in every reachable state.                 *)
THEOREM SlotInvariant == Spec => []SlotInv
<1>1. Init => SlotInv
  <2> SUFFICES ASSUME Init, NEW s \in Servers
               PROVE  /\ selected[s] # NoJob => TypeOf[selected[s]] \in avail[s]
                      /\ \A t \in Types :
                           /\ SlotsCounted(s, t)
                           /\ runningJobs[s][t] <= Limit[t]
                           /\ t \in avail[s] => runningJobs[s][t] < Limit[t]
    BY DEF SlotInv
  <2>1. /\ exec[s] = [j \in Jobs |-> 0] /\ runningJobs[s] = [t \in Types |-> 0]
        /\ avail[s] = {} /\ selected[s] = NoJob
    BY DEF Init
  <2>2. ASSUME NEW t \in Types
        PROVE  SlotsCounted(s, t) /\ runningJobs[s][t] <= Limit[t]
    <3>1. {e \in Jobs \X (Nat \ {0}) : TypeOf[e[1]] = t /\ e[2] <= exec[s][e[1]]} = {}
      BY <2>1, NoSlots
    <3>2. Executions(s, t) = {}
      BY <3>1 DEF Executions
    <3>3. /\ runningJobs[s][t] = 0 /\ runningJobs[s][t] <= Limit[t]
          /\ IsFiniteSet({}) /\ Cardinality({}) = 0
      BY <2>1, NoSlots
    <3> QED  BY <3>2, <3>3 DEF SlotsCounted
  <2> QED  BY <2>1, <2>2
<1>2. TypeOK /\ SlotInv /\ [Next]_vars => SlotInv'
  <2> SUFFICES ASSUME TypeOK, SlotInv, [Next]_vars PROVE SlotInv'
    OBVIOUS
  <2>1. ASSUME UNCHANGED <<avail, selected>>, UNCHANGED execVars PROVE SlotInv'
    BY <2>1, SameSlots DEF SlotInv
  <2>2. ASSUME NEW j \in Jobs, Enqueue(j) \/ BecomeDue(j) \/ BecomeStale(j)
        PROVE  SlotInv'
    BY <2>1, <2>2 DEF Enqueue, EnqueueCheck, EnqueueCreate, BecomeDue, BecomeStale,
                      claimVars
  <2>3. ASSUME NEW s \in Servers, ClaimStep(s) \/ AbortClaim(s)
        PROVE  SlotInv'
    BY <2>3, ClaimSlots, CommitSlots DEF ClaimStep
  <2>4. ASSUME NEW s \in Servers,
               \/ CleanupStaleJobs(s) \/ Start(s) \/ BeginDrain(s) \/ CancelContext(s)
               \/ Elect(s) \/ ElectionFails(s)
        PROVE  SlotInv'
    BY <2>1, <2>4 DEF CleanupStaleJobs, Start, BeginDrain, CancelContext, Elect,
                      ElectionFails, jobVars, claimVars
  <2>5. ASSUME NEW s \in Servers, Exit(s) \/ Crash(s) PROVE SlotInv'
    BY <2>5, EndSlots
  <2>6. ASSUME NEW s \in Servers, NEW j \in Jobs, Report(s, j) \/ LoseResult(s, j)
        PROVE  SlotInv'
    BY <2>6, ReportSlots
  <2>7. CASE HeartbeatExpires
    BY <2>1, <2>7 DEF HeartbeatExpires, jobVars, claimVars
  <2>8. CASE UNCHANGED vars
    BY <2>1, <2>8 DEF vars, jobVars, claimVars
  <2> QED  BY <2>2, <2>3, <2>4, <2>5, <2>6, <2>7, <2>8 DEF Next
<1> QED  BY <1>1, <1>2, JobQueueTypes, PTL DEF Spec

(* No server ever executes more jobs of a type than its limit.             *)
THEOREM LimitsKept == Spec => []WithinConcurrencyLimit
<1>1. TypeOK /\ SlotInv => WithinConcurrencyLimit
  <2> SUFFICES ASSUME TypeOK, SlotInv, NEW s \in Servers, NEW t \in Types
               PROVE  Cardinality({j \in Jobs : TypeOf[j] = t /\ exec[s][j] > 0})
                         <= Limit[t]
    BY DEF WithinConcurrencyLimit
  <2> DEFINE J == {j \in Jobs : TypeOf[j] = t /\ exec[s][j] > 0}
             E == Executions(s, t)
             f == [j \in J |-> <<j, 1>>]
  <2>1. \A j \in J : <<j, 1>> \in E
    <3> SUFFICES ASSUME NEW j \in J PROVE <<j, 1>> \in E
      OBVIOUS
    <3>1. exec[s][j] \in Nat /\ exec[s][j] > 0 /\ TypeOf[j] = t /\ j \in Jobs
      BY DEF TypeOK
    <3> QED  BY <3>1 DEF Executions
  <2>2. f \in Injection(J, E)
    <3>1. f \in [J -> E]
      BY <2>1
    <3>2. \A j, k \in J : f[j] = f[k] => j = k
      OBVIOUS
    <3> QED  BY <3>1, <3>2 DEF Injection, IsInjective
  <2>3. IsFiniteSet(E) /\ Cardinality(E) = runningJobs[s][t]
        /\ runningJobs[s][t] <= Limit[t]
    BY DEF SlotInv, SlotsCounted
  <2> HIDE DEF J, E, f
  <2>4. IsFiniteSet(J) /\ Cardinality(J) <= Cardinality(E)
    BY <2>2, <2>3, FS_Injection
  <2>5. Cardinality(J) \in Nat /\ Cardinality(E) \in Nat /\ Limit[t] \in Nat
    BY <2>3, <2>4, FS_CardinalityType, JobQueueAssumption
  <2>6. Cardinality(J) <= Limit[t]
    BY <2>3, <2>4, <2>5
  <2> QED  BY <2>6 DEF J
<1> QED  BY <1>1, SlotInvariant, JobQueueTypes, PTL
=============================================================================
