--------------------------- MODULE MCPromptQueue ---------------------------
(***************************************************************************)
(* PromptQueue for two prompts, one of a client and one of a hook.         *)
(***************************************************************************)
EXTENDS PromptQueue

CONSTANTS p1, p2
MCPrompts == {p1, p2}
MCHookPrompts == {p2}
=============================================================================
