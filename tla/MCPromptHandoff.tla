-------------------------- MODULE MCPromptHandoff --------------------------
(* Instances of PromptHandoff. *)
EXTENDS PromptHandoff, TLC

CONSTANTS s1, s2, p1, r1, r2

MCOneServer == {s1}
MCTwoServers == {s1, s2}
MCPrompts == {p1}
MCOneRequest == {r1}
MCTwoRequests == {r1, r2}

\* Request lanes are alike.
MCSymmetry == Permutations(MCTwoRequests)

=============================================================================
