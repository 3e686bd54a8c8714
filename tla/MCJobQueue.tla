----------------------------- MODULE MCJobQueue -----------------------------
(***************************************************************************)
(* Instances of JobQueue.  Jobs a (two attempts), b and d (one attempt,    *)
(* high priority, duplicate-allowing) are the init and two deletes of one  *)
(* session; c is the init of another, scheduled for later.  While one of   *)
(* a, b and d runs the other two fill a window of two candidates.          *)
(***************************************************************************)
EXTENDS JobQueue

CONSTANTS s1, s2, a, b, c, d, init, delete, r1, r2

MCOneServer == {s1}
MCTwoServers == {s1, s2}
MCTwoJobs == {a, b}
MCFourJobs == {a, b, c, d}
MCTypes == {init, delete}
MCResources == {r1, r2}

MCTypeOf == [j \in Jobs |-> IF j \in {b, d} THEN delete ELSE init]
MCResourceOf == [j \in Jobs |-> IF j = c THEN r2 ELSE r1]
MCPriority == [j \in Jobs |-> IF j \in {b, d} THEN 20 ELSE 10]
MCMaxAttempts == [j \in Jobs |-> IF j \in {b, d} THEN 1 ELSE 2]
MCLimit == [t \in Types |-> IF t = delete THEN 2 ELSE 1]
MCDuplicates == Jobs \cap {b, d}
MCDelayed == Jobs \cap {c}
=============================================================================
