-------------------------- MODULE MCLeaderElection --------------------------
(* LeaderElection on three servers. *)
EXTENDS LeaderElection

CONSTANTS s1, s2, s3

MCServers == {s1, s2, s3}
=============================================================================
