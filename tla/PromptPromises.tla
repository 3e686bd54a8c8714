--------------------------- MODULE PromptPromises ---------------------------
(***************************************************************************)
(* What the agent promises of the prompts of one thread, without queue,    *)
(* timers, callers or completions.  A prompt that is offered is refused to *)
(* who offers it, or promised: he was told that it is queued or started.   *)
(* What was promised is not refused any more.  It is taken by a new turn,  *)
(* once the turn before is over, or deleted by the user; it is dropped     *)
(* only if something failed, or if a turn asked the user a question while  *)
(* somebody had the prompt in hand.  A turn begins with a prompt that is   *)
(* taken, or when a process that was restarted closes the turn it found;   *)
(* and one that asked goes on only when it has its answer.                 *)
(*                                                                         *)
(* PromptQueue implements it.                                              *)
(***************************************************************************)

CONSTANT Prompts

VARIABLES
    standing,   \* prompt -> where it stands
    turn,       \* the turn of the thread: "none", "open" or "question"
    answered,   \* the question has its answer
    asked,      \* prompts that met a question
    failed      \* something failed, or the process ended

vars == <<standing, turn, answered, asked, failed>>
turnVars == <<turn, answered, asked>>

Final == {"taken", "refused", "deleted", "dropped"}
Standing == {"unsent", "offered", "promised"} \cup Final

Init ==
    /\ standing = [p \in Prompts |-> "unsent"]
    /\ turn = "none" /\ answered = FALSE
    /\ asked = {} /\ failed = FALSE

Goes(p, from, to) ==
    standing[p] = from /\ standing' = [standing EXCEPT ![p] = to]

(* The turn.                                                               *)
Ask ==
    /\ turn = "open" /\ turn' = "question" /\ answered' = FALSE
    /\ asked \subseteq asked'
End ==
    turn # "none" /\ turn' = "none" /\ answered' = FALSE /\ UNCHANGED asked
Answer == turn = "question" /\ answered' = TRUE /\ UNCHANGED <<turn, asked>>
GoOn ==
    /\ turn = "question" /\ answered
    /\ turn' = "open" /\ answered' = FALSE /\ UNCHANGED asked
Begin == turn = "none" /\ turn' = "open" /\ UNCHANGED <<answered, asked>>

(* A prompt.                                                               *)
Offer(p) == Goes(p, "unsent", "offered") /\ UNCHANGED turnVars
Refuse(p) == Goes(p, "offered", "refused") /\ UNCHANGED turnVars
\* What is started in place of an open turn closes that first.
Promise(p) ==
    /\ Goes(p, "offered", "promised")
    /\ UNCHANGED turnVars \/ (turn = "open" /\ (Ask \/ End))
Take(p) == Goes(p, "promised", "taken") /\ Begin
Delete(p) == Goes(p, "promised", "deleted") /\ UNCHANGED turnVars
Drop(p) ==
    /\ Goes(p, "promised", "dropped")
    /\ failed' \/ p \in asked
    /\ UNCHANGED turnVars

\* The process ends: who waits for an answer gets none, and what was not on
\* disk is gone.
Crash ==
    /\ failed'
    /\ standing' \in [Prompts -> Standing]
    /\ \A p \in Prompts :
          CASE standing[p] = "offered" -> standing'[p] = "refused"
            [] standing[p] = "promised" -> standing'[p] \in {"promised", "dropped"}
            [] OTHER -> standing'[p] = standing[p]
    /\ UNCHANGED turnVars

PromptStep(p) ==
    Offer(p) \/ Refuse(p) \/ Promise(p) \/ Take(p) \/ Delete(p) \/ Drop(p)

TurnStep ==
    /\ UNCHANGED standing
    /\ Ask \/ End \/ Answer \/ GoOn \/ (failed /\ Begin)

Next ==
    /\ failed => failed'
    /\ \/ \E p \in Prompts : PromptStep(p)
       \/ TurnStep
       \/ Crash
       \/ UNCHANGED <<standing, turnVars>>

Spec == Init /\ [][Next]_vars

-----------------------------------------------------------------------------
(* What its users may rely on.                                             *)

TypeOK ==
    /\ standing \in [Prompts -> Standing]
    /\ turn \in {"none", "open", "question"}
    /\ answered \in BOOLEAN /\ failed \in BOOLEAN

(* Only what failed or met a question is dropped.                          *)
DropsHaveAReason ==
    \A p \in Prompts : standing[p] = "dropped" => failed \/ p \in asked

Promises == TypeOK /\ DropsHaveAReason

(* No answer is taken back: a final standing stays, and a promise is not    *)
(* turned into a refusal.  What is taken was promised, one prompt at a time *)
(* by a turn that begins; and as long as nothing fails a turn begins with a *)
(* prompt.                                                                  *)
Keeps ==
    /\ \A p \in Prompts :
          /\ standing[p] \in Final => standing'[p] = standing[p]
          /\ standing[p] = "promised" =>
                standing'[p] \in {"promised", "taken", "deleted", "dropped"}
          /\ standing'[p] = "taken" /\ standing[p] # "taken" =>
                /\ standing[p] = "promised" /\ turn = "none" /\ turn' = "open"
                /\ \A q \in Prompts : standing'[q] = "taken" /\ standing[q] # "taken" => q = p
    /\ turn = "none" /\ turn' # "none" =>
          failed \/ \E p \in Prompts : standing'[p] = "taken" /\ standing[p] # "taken"
    /\ turn = "question" /\ turn' = "open" => answered
Lasting == [][Keeps]_vars
=============================================================================
