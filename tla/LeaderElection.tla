--------------------------- MODULE LeaderElection ---------------------------
(***************************************************************************)
(* Leadership of the job dispatcher, when several servers share one        *)
(* Postgres database (server/internal/dispatcher, server/internal/store).  *)
(*                                                                         *)
(* The table dispatcher_leaders holds at most one row.  Every server runs  *)
(* leaderElectionLoop, which calls TryAcquireLeadership on each heartbeat  *)
(* tick.  That call is a transaction at Postgres' default isolation (READ  *)
(* COMMITTED): it reads the row, decides, and then writes the whole row by *)
(* primary key, so the row may change between the read and the write.      *)
(*                                                                         *)
(* Time is abstract: the row's heartbeat is fresh until an expiry makes it *)
(* older than the heartbeat timeout.  A server process picks a new random  *)
(* id when it starts, so a row left by a process that ended belongs to     *)
(* nobody: its holder becomes Gone.                                        *)
(***************************************************************************)
EXTENDS Naturals

CONSTANTS
    Servers,         \* the server processes (a restarted one reuses its slot)
    NoServer,        \* holder when there is no row
    Gone,            \* holder when the row was left by an ended process
    MaxDisruptions   \* bound on the faults and restarts of a behaviour

ASSUME ElectionAssumption ==
    /\ NoServer \notin Servers
    /\ Gone \notin Servers
    /\ NoServer # Gone
    /\ MaxDisruptions \in Nat

VARIABLES
    holder,        \* server_id of the leader row, Gone, or NoServer
    fresh,         \* the row's heartbeat_at is within the heartbeat timeout
    electing,      \* per server: the write its open transaction decided on
    isLeader,      \* per server: Service.isLeader
    expired,       \* history: some heartbeat has expired
    disruptions    \* history: faults and restarts so far

electionVars == <<holder, fresh, electing, isLeader, expired>>
allElectionVars == <<electionVars, disruptions>>

\* The open transaction will create the row (it read none) or save it (it
\* read its own, or an expired one); "none" when no transaction is open.
Decision == {"none", "create", "save"}

ElectionTypeOK ==
    /\ holder \in Servers \cup {NoServer, Gone}
    /\ fresh \in BOOLEAN
    /\ electing \in [Servers -> Decision]
    /\ isLeader \in [Servers -> BOOLEAN]
    /\ expired \in BOOLEAN
    /\ disruptions \in 0 .. MaxDisruptions

ElectionInit ==
    /\ holder = NoServer
    /\ fresh = FALSE
    /\ electing = [s \in Servers |-> "none"]
    /\ isLeader = [s \in Servers |-> FALSE]
    /\ expired = FALSE
    /\ disruptions = 0

Disrupt ==
    /\ disruptions < MaxDisruptions
    /\ disruptions' = disruptions + 1

-----------------------------------------------------------------------------

(* TryAcquireLeadership opens its transaction, reads the row and decides   *)
(* to write: there is no row, it is this server's, or it has expired.      *)
ReadToAcquire(s) ==
    /\ electing[s] = "none"
    /\ \/ /\ holder = NoServer
          /\ electing' = [electing EXCEPT ![s] = "create"]
       \/ /\ holder # NoServer
          /\ holder = s \/ ~fresh
          /\ electing' = [electing EXCEPT ![s] = "save"]
    /\ UNCHANGED <<holder, fresh, isLeader, expired, disruptions>>

\* Mutant: the flag of a leader that lost the row is not cleared.
ReadKeepsLeader(s) ==
    /\ electing[s] = "none"
    /\ holder \notin {NoServer, s} /\ fresh
    /\ UNCHANGED <<electionVars, disruptions>>

(* TryAcquireLeadership reads a fresh row of another server: not leader.   *)
ReadNotLeader(s) ==
    /\ electing[s] = "none"
    /\ holder \notin {NoServer, s} /\ fresh
    /\ isLeader' = [isLeader EXCEPT ![s] = FALSE]
    /\ UNCHANGED <<holder, fresh, electing, expired, disruptions>>

\* Mutant: a create that lost the race counts as acquired.
AcquireOnConflict(s) ==
    /\ electing[s] # "none"
    /\ holder' = IF electing[s] = "save" \/ holder = NoServer THEN s ELSE holder
    /\ fresh' = TRUE
    /\ isLeader' = [isLeader EXCEPT ![s] = TRUE]
    /\ electing' = [electing EXCEPT ![s] = "none"]
    /\ UNCHANGED <<expired, disruptions>>

(* The transaction writes and commits.  A create that meets a row another  *)
(* server inserted meanwhile fails on the primary key and leaves the row   *)
(* alone; a save writes every column of the row whoever holds it by now,   *)
(* and inserts it again if it was deleted.                                 *)
TryAcquireWrite(s) ==
    /\ electing[s] # "none"
    /\ LET acquired == electing[s] = "save" \/ holder = NoServer
       IN  /\ holder' = IF acquired THEN s ELSE holder
           /\ fresh' = (acquired \/ fresh)
           /\ isLeader' = [isLeader EXCEPT ![s] = acquired]
    /\ electing' = [electing EXCEPT ![s] = "none"]
    /\ UNCHANGED <<expired, disruptions>>

(* The database call fails: the server stops acting as leader.             *)
TryAcquireError(s) ==
    /\ Disrupt
    /\ isLeader' = [isLeader EXCEPT ![s] = FALSE]
    /\ electing' = [electing EXCEPT ![s] = "none"]
    /\ UNCHANGED <<holder, fresh, expired>>

(* The heartbeat timeout passes: always, in the end, for a row of an ended *)
(* process; for a live holder only if it is paused or cut off that long.   *)
Expire ==
    /\ fresh
    /\ IF holder = Gone THEN UNCHANGED disruptions ELSE Disrupt
    /\ fresh' = FALSE
    /\ expired' = TRUE
    /\ UNCHANGED <<holder, electing, isLeader>>

(* The process of server s ends.  What it had in memory is lost; a row it  *)
(* still holds stays behind, unless it is released.                        *)
ProcessEnds(s) ==
    /\ electing' = [electing EXCEPT ![s] = "none"]
    /\ isLeader' = [isLeader EXCEPT ![s] = FALSE]
    /\ UNCHANGED expired

LeaveRow(s) ==
    /\ holder' = IF holder = s THEN Gone ELSE holder
    /\ UNCHANGED fresh

\* Mutant: the row is blanked where it should be deleted.
ReleaseBlanksRow(s) ==
    /\ holder' = IF holder = s THEN "" ELSE holder
    /\ fresh' = (fresh /\ holder # s)

\* ReleaseLeadership deletes the row only where server_id is this server's.
ReleaseLeadership(s) ==
    /\ holder' = IF holder = s THEN NoServer ELSE holder
    /\ fresh' = (fresh /\ holder # s)

(* DrainAndStop: a leader releases the row, any other process just ends.   *)
GracefulExit(s) ==
    /\ IF isLeader[s] THEN ReleaseLeadership(s) ELSE LeaveRow(s)
    /\ ProcessEnds(s)

CrashExit(s) == LeaveRow(s) /\ ProcessEnds(s)

ElectionNext ==
    \/ \E s \in Servers :
          \/ ReadToAcquire(s)
          \/ ReadNotLeader(s)
          \/ TryAcquireWrite(s)
          \/ TryAcquireError(s)
          \/ Disrupt /\ GracefulExit(s)
          \/ Disrupt /\ CrashExit(s)
    \/ Expire

(* The heartbeat ticker keeps firing, an open transaction ends, and a row  *)
(* nobody heartbeats expires as time passes.  No fault is forced.          *)
ElectionFairness ==
    /\ \A s \in Servers :
          /\ WF_allElectionVars(ReadToAcquire(s))
          /\ WF_allElectionVars(ReadNotLeader(s))
          /\ WF_allElectionVars(TryAcquireWrite(s))
    /\ WF_allElectionVars(holder = Gone /\ Expire)

ElectionSpec ==
    ElectionInit /\ [][ElectionNext]_allElectionVars /\ ElectionFairness

-----------------------------------------------------------------------------

Leaders == {s \in Servers : isLeader[s]}

(* Two servers act as leader at once only after some heartbeat has expired:*)
(* the race to create the row has one winner, and a handover leaves no     *)
(* moment at which both lead (TryAcquireLeadership, ReleaseLeadership).    *)
SplitBrainNeedsExpiry ==
    ~expired => \A s, t \in Leaders : s = t

(* Why: until a heartbeat expires, whoever leads or is about to save the   *)
(* row is the one the row names, and a row that exists is fresh.           *)
HolderInv ==
    ~expired =>
        /\ holder # NoServer => fresh
        /\ \A s \in Servers : isLeader[s] \/ electing[s] = "save" => holder = s

\* No acquisition is between its read and its write.
Quiet == \A s \in Servers : electing[s] = "none"

(* Once faults and restarts stop, exactly one server is leader for good:   *)
(* a dead leader's row is taken over, and of two servers that both believe *)
(* they lead, the one that lost the row finds out on its next heartbeat    *)
(* (tryAcquireLeadership).  Quiet must recur: heartbeats are seconds apart *)
(* and a transaction takes milliseconds.  Were two leaders' transactions   *)
(* to overlap for ever, each would keep saving the row over the other's.   *)
LeadershipConverges ==
    []<>Quiet => <>[](\E s \in Servers : Leaders = {s} /\ holder = s)
=============================================================================
