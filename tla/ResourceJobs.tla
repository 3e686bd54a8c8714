---------------------------- MODULE ResourceJobs ----------------------------
(***************************************************************************)
(* What the job queue promises of the jobs of its resources, without       *)
(* servers, claims, drains, timeouts or lost writes.  A job is executed    *)
(* only while no other job of its resource is, and each execution counts   *)
(* one attempt.  Only an execution of the job completes it, retries it or  *)
(* fails it, and it fails for good only with its attempts used up.  What   *)
(* is executed is never put back, and a settled job never changes.         *)
(*                                                                         *)
(* JobQueue implements it with SQLite, and on Postgres until a heartbeat   *)
(* expires.  The jobs of JobWait are its jobs of one resource; those of    *)
(* PromptHandoff and SessionLifecycle, which have no identity, behave so.  *)
(***************************************************************************)
EXTENDS Naturals

CONSTANTS Jobs, ResourceOf, MaxAttempts

VARIABLES
    status,     \* job -> status column, or "absent"
    attempts,   \* job -> attempts column
    executing   \* the jobs inside an executor

vars == <<status, attempts, executing>>

Settled == {"completed", "failed"}

Init ==
    /\ status = [j \in Jobs |-> "absent"]
    /\ attempts = [j \in Jobs |-> 0]
    /\ executing = {}

Submit(j) ==
    /\ status[j] = "absent"
    /\ status' = [status EXCEPT ![j] = "pending"]
    /\ UNCHANGED <<attempts, executing>>

Idle(r) ==
    \A k \in Jobs : ResourceOf[k] = r => status[k] /= "running" /\ k \notin executing

Start(j) ==
    /\ status[j] = "pending" /\ Idle(ResourceOf[j])
    /\ status' = [status EXCEPT ![j] = "running"]
    /\ attempts' = [attempts EXCEPT ![j] = @ + 1]
    /\ executing' = executing \cup {j}

Finish(j, outcome) ==
    /\ j \in executing
    /\ status' = [status EXCEPT ![j] = outcome]
    /\ executing' = executing \ {j}
    /\ UNCHANGED attempts

Complete(j) == Finish(j, "completed")
Retry(j) == attempts[j] < MaxAttempts[j] /\ Finish(j, "pending")
Fail(j) == attempts[j] >= MaxAttempts[j] /\ Finish(j, "failed")

\* Executions end without a result: it could not be written, or the process died.
Abandon(J) ==
    /\ J \subseteq executing
    /\ executing' = executing \ J
    /\ UNCHANGED <<status, attempts>>

\* Running rows that nobody executes are made pending again.
PutBack(J) ==
    /\ \A j \in J : status[j] = "running" /\ j \notin executing
    /\ status' = [j \in Jobs |-> IF j \in J THEN "pending" ELSE status[j]]
    /\ UNCHANGED <<attempts, executing>>

Next ==
    \/ \E j \in Jobs : Submit(j) \/ Start(j) \/ Complete(j) \/ Retry(j) \/ Fail(j)
    \/ \E J \in SUBSET Jobs : Abandon(J) \/ PutBack(J)

Spec == Init /\ [][Next]_vars

-----------------------------------------------------------------------------
(* What its users may rely on.                                             *)

TypeOK ==
    /\ status \in [Jobs -> {"absent", "pending", "running"} \cup Settled]
    /\ attempts \in [Jobs -> Nat]
    /\ executing \in SUBSET Jobs

(* Two running rows never share a resource, nor do two executions, and     *)
(* nothing but a running row is executed.                                  *)
OneAtATime ==
    /\ \A j, k \in Jobs :
          ResourceOf[j] = ResourceOf[k] /\ status[j] = "running" /\ status[k] = "running"
          => j = k
    /\ \A j \in executing : status[j] = "running"

(* A job has failed for good only after as many executions as it may have, *)
(* and none has completed without one.                                     *)
AttemptsUsed ==
    \A j \in Jobs :
        /\ status[j] = "failed" => attempts[j] >= MaxAttempts[j]
        /\ status[j] \in Settled \cup {"running"} => attempts[j] > 0

Promises == TypeOK /\ OneAtATime /\ AttemptsUsed

(* A settled job never changes again and is not executed again.            *)
KeepsSettled ==
    \A j \in Jobs : status[j] \in Settled =>
        status'[j] = status[j] /\ attempts'[j] = attempts[j] /\ j \notin executing'
SettledForGood == [][KeepsSettled]_vars
=============================================================================
