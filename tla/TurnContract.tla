---------------------------- MODULE TurnContract ----------------------------
(***************************************************************************)
(* What the step loop promises about one turn, without disk, memory,       *)
(* crashes or asynchronous work: a turn goes through its steps in order; a *)
(* step's completion names its calls once; a call is executed only while   *)
(* it has no result and nothing is asked; it gets its result in its own    *)
(* step, and the step is left only when every call has one.  While a       *)
(* question is open only its call can get a result.                        *)
(*                                                                         *)
(* Crashes, resumes and everything that only moves data between disk and   *)
(* memory are stuttering steps of this specification.  TurnExecution       *)
(* implements it.                                                          *)
(***************************************************************************)
EXTENDS Naturals

CONSTANTS NumCalls

Calls == 1..NumCalls
NoQuestion == 0

VARIABLES
    open,     \* a turn is under way
    step,
    known,    \* the completion of the step is known
    asked,    \* the calls it asks for
    settled,  \* calls of the step that have a result
    ran,      \* how often each call of the step was executed
    question  \* the call that waits for an answer

vars == <<open, step, known, asked, settled, ran, question>>

FreshStep ==
    /\ known' = FALSE /\ asked' = {} /\ settled' = {}
    /\ ran' = [c \in Calls |-> 0] /\ question' = NoQuestion

Init ==
    /\ open = FALSE /\ step = 0
    /\ known = FALSE /\ asked = {} /\ settled = {}
    /\ ran = [c \in Calls |-> 0] /\ question = NoQuestion

Begin ==
    /\ ~open
    /\ open' = TRUE /\ step' = 0 /\ FreshStep

Reply(n) ==
    /\ open /\ ~known
    /\ known' = TRUE /\ asked' = 1..n
    /\ UNCHANGED <<open, step, settled, ran, question>>

Run(c) ==
    /\ open /\ c \in asked \ settled /\ question = NoQuestion
    /\ ran' = [ran EXCEPT ![c] = @ + 1]
    /\ UNCHANGED <<open, step, known, asked, settled, question>>

Settle(c) ==
    /\ open /\ c \in asked \ settled
    /\ question \in {NoQuestion, c}
    /\ settled' = settled \cup {c}
    /\ UNCHANGED <<open, step, known, asked, ran, question>>

AskUser(c) ==
    /\ open /\ c \in asked /\ question = NoQuestion
    /\ question' = c
    /\ UNCHANGED <<open, step, known, asked, settled, ran>>

CloseQuestion ==
    /\ question /= NoQuestion
    /\ question' = NoQuestion
    /\ UNCHANGED <<open, step, known, asked, settled, ran>>

Advance ==
    /\ open /\ known /\ asked /= {} /\ asked \subseteq settled
    /\ question = NoQuestion
    /\ open' = TRUE /\ step' = step + 1 /\ FreshStep

\* A turn may end in any step: with a reply without calls, or cancelled.
End ==
    /\ open
    /\ open' = FALSE /\ step' = 0 /\ FreshStep

Next ==
    \/ Begin \/ \E n \in 0..NumCalls : Reply(n)
    \/ \E c \in Calls : Run(c) \/ Settle(c) \/ AskUser(c)
    \/ CloseQuestion \/ Advance \/ End

Spec == Init /\ [][Next]_vars

-----------------------------------------------------------------------------
(* What its users may rely on.                                             *)

TypeOK ==
    /\ open \in BOOLEAN /\ known \in BOOLEAN /\ step \in Nat
    /\ asked \in SUBSET Calls /\ settled \in SUBSET Calls
    /\ ran \in [Calls -> Nat] /\ question \in Calls \cup {NoQuestion}

(* Only what the step's completion asks for is executed, settled or put to *)
(* the user, and there is no completion without a turn.                    *)
AskedFirst ==
    /\ settled \subseteq asked /\ question \in asked \cup {NoQuestion}
    /\ \A c \in Calls : ran[c] > 0 => c \in asked
    /\ asked /= {} => known
    /\ known => open

Promises == TypeOK /\ AskedFirst

(* A turn never forgets: within a step the completion, the results and the *)
(* executions stay, and a settled call is not executed again; a turn goes  *)
(* to the next step only with every call settled and nothing asked.        *)
Onward ==
    open /\ open' =>
        \/ /\ step' = step
           /\ known => known' /\ asked' = asked
           /\ settled \subseteq settled'
           /\ \A c \in Calls : ran'[c] >= ran[c] /\ (c \in settled => ran'[c] = ran[c])
        \/ /\ step' = step + 1
           /\ known /\ asked \subseteq settled /\ question = NoQuestion

(* While a question is open nothing is executed, no other call is settled  *)
(* and the step is not left; and no turn begins with a question.           *)
WaitsForAnswer ==
    /\ question /= NoQuestion /\ open' =>
          step' = step /\ ran' = ran /\ settled' \subseteq settled \cup {question}
    /\ ~open => question' = NoQuestion

NeverSetBack == [][Onward /\ WaitsForAnswer]_vars
=============================================================================
