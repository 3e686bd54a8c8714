---------------------------- MODULE PromptLedger ----------------------------
(***************************************************************************)
(* What the server's answer about a prompt is worth, without requests,     *)
(* jobs, reconciliation or processes.  A prompt that was submitted is open *)
(* until it is accepted or failed, and a failed one is opened again by a   *)
(* resubmission.  While it is open the agent may take it, once.  It is     *)
(* accepted only if the agent took it, or another completion was met; it   *)
(* is failed only if the agent did not take it.  The session's deletion    *)
(* ends all of its prompts at once, and no prompt follows it; a post that  *)
(* is under way may still arrive.                                          *)
(*                                                                         *)
(* A prompt is disturbed once something failed, or it was put back, or     *)
(* failed for a closed session, while it was being handed over or after it *)
(* was accepted: from then on it may be taken again, and an answer that    *)
(* was given may be taken back.  What stays true is said in Lasting.       *)
(*                                                                         *)
(* PromptHandoff implements it.                                            *)
(***************************************************************************)
EXTENDS Naturals

CONSTANT Prompts

VARIABLES
    state,      \* prompt -> where it stands, for who submitted it
    taken,      \* prompt -> times the agent started or queued it
    met,        \* prompts a post of which met another completion
    disturbed   \* prompts whose story need not be a plain one

vars == <<state, taken, met, disturbed>>

State == {"absent", "open", "accepted", "failed", "gone"}

Init ==
    /\ state = [p \in Prompts |-> "absent"]
    /\ taken = [p \in Prompts |-> 0]
    /\ met = {}
    /\ disturbed = {}

\* Any step may disturb prompts, and excuses itself by that.
Disturb == disturbed \subseteq disturbed' /\ disturbed' \subseteq Prompts
Excused(p) == p \in disturbed'

Becomes(p, st) == state' = [state EXCEPT ![p] = st] /\ Disturb

Submit(p) ==
    /\ state[p] = "absent" /\ \A q \in Prompts : state[q] # "gone"
    /\ Becomes(p, "open")
    /\ UNCHANGED <<taken, met>>

Reopen(p) ==
    /\ state[p] = "failed" \/ (state[p] = "accepted" /\ Excused(p))
    /\ Becomes(p, "open")
    /\ UNCHANGED <<taken, met>>

Take(p) ==
    /\ state[p] # "absent"
    /\ Excused(p) \/ (taken[p] = 0 /\ state[p] \in {"open", "gone"})
    /\ taken' = [taken EXCEPT ![p] = @ + 1]
    /\ Disturb
    /\ UNCHANGED <<state, met>>

Meet(p) ==
    /\ state[p] # "absent"
    /\ Excused(p) \/ state[p] \in {"open", "gone"}
    /\ met' = met \cup {p}
    /\ Disturb
    /\ UNCHANGED <<state, taken>>

Accept(p) ==
    /\ taken[p] > 0 \/ p \in met
    /\ state[p] = "open" \/ (state[p] = "failed" /\ Excused(p))
    /\ Becomes(p, "accepted")
    /\ UNCHANGED <<taken, met>>

Fail(p) ==
    /\ \/ state[p] = "open" /\ (taken[p] = 0 \/ Excused(p))
       \/ state[p] = "accepted" /\ Excused(p)
    /\ Becomes(p, "failed")
    /\ UNCHANGED <<taken, met>>

Delete ==
    /\ state' = [p \in Prompts |-> IF state[p] = "absent" THEN "absent" ELSE "gone"]
    /\ Disturb
    /\ UNCHANGED <<taken, met>>

Next ==
    \/ \E p \in Prompts : Submit(p) \/ Reopen(p) \/ Take(p) \/ Meet(p)
                             \/ Accept(p) \/ Fail(p)
    \/ Delete
    \/ Disturb /\ UNCHANGED <<state, taken, met>>

Spec == Init /\ [][Next]_vars

-----------------------------------------------------------------------------
(* What its users may rely on.                                             *)

TypeOK ==
    /\ state \in [Prompts -> State]
    /\ taken \in [Prompts -> Nat]
    /\ met \in SUBSET Prompts
    /\ disturbed \in SUBSET Prompts

(* Who is told that a prompt was accepted knows that the agent has it, or   *)
(* met another completion; who is told that it failed may submit it again   *)
(* without having it run twice.                                             *)
Truthful ==
    \A p \in Prompts :
        /\ state[p] = "accepted" => taken[p] > 0 \/ p \in met
        /\ state[p] = "absent" => taken[p] = 0
        /\ p \notin disturbed =>
              taken[p] <= 1 /\ (state[p] = "failed" => taken[p] = 0)

Promises == TypeOK /\ Truthful

(* A prompt that is gone stays so, none is taken that was not submitted,    *)
(* what was taken is not forgotten; and an acceptance is not taken back     *)
(* unless the prompt is disturbed.                                          *)
Keeps ==
    \A p \in Prompts :
        /\ state[p] = "gone" => state'[p] = "gone"
        /\ state'[p] = "absent" => state[p] = "absent"
        /\ taken[p] <= taken'[p]
        /\ p \notin disturbed' /\ state[p] = "accepted" =>
              state'[p] \in {"accepted", "gone"} /\ taken'[p] = taken[p]
Lasting == [][Keeps]_vars
=============================================================================
