-------------------------- MODULE MCTurnExecution --------------------------
(***************************************************************************)
(* Instances of TurnExecution, and what a test says of the loop that the   *)
(* loop does not do.                                                       *)
(***************************************************************************)
EXTENDS TurnExecution

(* After a crash in the tools phase the model is sent every result: three  *)
(* results, of which that of the call that had completed is not an error   *)
(* (turn_test.go:2041, 2047).                                              *)
HistoryComplete == pc = "streaming" => HistoryHolds(mem.leaf, mem.step)
=============================================================================
