---------------------------- MODULE PromptQueue ----------------------------
(***************************************************************************)
(* The prompt queue of one thread of the agent (agent-go/promptqueue) with *)
(* the completions it starts (agent-go/agent/conversation.go).  A prompt   *)
(* that meets an active completion, or that has a time to run after, waits *)
(* in a file; whoever finds the thread idle starts the next one.  Nobody   *)
(* owns that duty: the end of a completion, a timer, a change of the queue *)
(* and a start that failed each have to pass it on.                        *)
(*                                                                         *)
(* Sections under Manager.mu are one step, and so are those under the      *)
(* mutex of the conversations.  The turn is what TurnExecution makes of it *)
(* for this thread: none, open (to be resumed) or waiting for an answer.   *)
(* Built-in slash commands and the deletion of threads are left out.       *)
(***************************************************************************)
EXTENDS Naturals, Sequences, FiniteSets, SequencesExt

CONSTANTS
    Prompts,       \* every prompt somebody wants to send, once each
    HookPrompts,   \* those sent by a failing hook, the others by clients
    MaxWakeups,    \* bound on StartNext goroutines that have not begun
    MaxFaults,     \* bound on errors and crashes
    MaxQuestions,  \* bound on questions to the user
    MaxEdits       \* bound on updates of queued prompts

ASSUME HooksAssumption == HookPrompts \subseteq Prompts
ASSUME BoundsAssumption ==
    /\ MaxWakeups \in Nat \ {0} /\ MaxFaults \in Nat 
    /\ MaxQuestions \in Nat /\ MaxEdits \in Nat

NoPrompt == "no prompt"
ASSUME NoPromptAssumption == NoPrompt \notin Prompts

VARIABLES
    \* On disk: promptqueue.json and turn.json.
    queue,     \* the prompts that wait, in order
    later,     \* prompts whose RunAfter is in the future
    timed,     \* prompts that have a RunAfter
    turn,      \* "none", "open" or "question"
    answered,  \* the question has its answer
    \* In memory: Manager and ConversationManager.
    timer,        \* of the thread: "off", "set" or "elapsed"
    timersReady,
    resuming,     \* resumeTimers was started and has not run
    wakeups,      \* StartNext goroutines that have not begun
    call,         \* who has the prompt in hand, and where he is
    active,       \* the thread's latest completion
    readers,      \* who is about to resume the turn without a prompt
    recover,      \* startup has not looked for an interrupted turn
    \* What has happened, for the properties.
    fate,       \* what became of a prompt in the end
    parked,     \* the duty to start the queue was dropped
    overlapped, \* prompts that were in hand while a turn asked a question
    questions, edits, faults

disk == <<queue, later, timed, turn, answered>>
duty == <<timer, wakeups, parked>>
rest == <<timersReady, resuming, recover>>
past == <<fate, overlapped, questions, edits, faults>>
vars == <<queue, later, timed, turn, answered, timer, timersReady, resuming,
          wakeups, call, active, readers, recover, fate, parked, overlapped,
          questions, edits, faults>>

Callers == {"client", "hook", "queue"}
Places == {"posted", "enqueue", "question", "interrupted", "chat", "resume",
           "preparing", "started", "park", "restore"}
NoCall == [from |-> "nobody", at |-> "nowhere"]
Calls == [from : Callers, at : Places] \cup {NoCall}
Modes == {"chat", "close", "continue"}
NoCompletion == [prompt |-> NoPrompt, mode |-> "none", at |-> "none"]
DoneCompletion == [NoCompletion EXCEPT !.at = "done"]
Running ==
    {c \in [prompt : Prompts \cup {NoPrompt}, mode : Modes,
            at : {"preparing", "running", "turn"}] :
        c.mode = "continue" => c.prompt = NoPrompt}
Completions == Running \cup {NoCompletion, DoneCompletion}
Fates == {"unsent", "pending", "taken", "refused", "deleted", "dropped"}

Idle == active \in {NoCompletion, DoneCompletion}
InHand(p) == call[p] /= NoCall
Queued(p) == \E i \in DOMAIN queue : queue[i] = p
QueueAtWork == \E p \in Prompts : call[p].from = "queue"

\* A prompt that may run now.
Due(q, l) == \E i \in DOMAIN q : q[i] \notin l
Min2(a, b) == IF a < b THEN a ELSE b

-----------------------------------------------------------------------------
Init ==
    /\ queue = <<>> /\ later = {} /\ timed = {}
    /\ turn = "none" /\ answered = FALSE
    /\ timer = "off" /\ timersReady = FALSE /\ resuming = FALSE
    /\ wakeups = 0
    /\ call = [p \in Prompts |-> NoCall]
    /\ active = NoCompletion
    /\ readers = {} /\ recover = FALSE
    /\ fate = [p \in Prompts |-> "unsent"]
    /\ parked = FALSE /\ overlapped = {} /\ questions = 0 /\ edits = 0 /\ faults = 0

Fault == faults < MaxFaults /\ faults' = faults + 1

\* Mutant: one goroutine for every prompt that is due.
RescheduleEach(q, l, w) ==
    IF ~timersReady THEN wakeups' = w /\ UNCHANGED <<timer, parked>>
    ELSE IF ~Idle THEN timer' = "off" /\ wakeups' = w /\ UNCHANGED parked
    ELSE /\ parked' = FALSE
         /\ wakeups' = w + Cardinality({i \in DOMAIN q : q[i] \notin l})
         /\ timer' = IF ~Due(q, l) /\ q /= <<>> THEN "set" ELSE "off"

\* rescheduleLocked on the queue q with future prompts l, when w wake-ups are
\* pending: wake up StartNext for a prompt that is due, set the timer for one
\* that is not, and leave everything to the active completion if there is one.
\* Wake-ups beyond MaxWakeups are not told apart.
Reschedule(q, l, w) ==
    IF ~timersReady THEN wakeups' = w /\ UNCHANGED <<timer, parked>>
    ELSE IF ~Idle THEN timer' = "off" /\ wakeups' = w /\ UNCHANGED parked
    ELSE /\ parked' = FALSE
         /\ wakeups' = IF Due(q, l) THEN Min2(w + 1, MaxWakeups) ELSE w
         /\ timer' = IF ~Due(q, l) /\ q /= <<>> THEN "set" ELSE "off"

\* Mutant: the timer is stopped and nothing is scheduled.
StopOnly ==
    timer' = "off" /\ wakeups' = wakeups - 1 /\ UNCHANGED parked

\* StartNext found nothing to start: its wake-up and the timer are gone.
StopAndReschedule ==
    IF timersReady THEN Reschedule(queue, later, wakeups - 1)
    ELSE wakeups' = wakeups - 1 /\ timer' = "off" /\ UNCHANGED parked

-----------------------------------------------------------------------------
(* Prompts come in: PostChat and StartFailureReprompt, StartOrQueue, Enqueue *)

Post(p) ==
    /\ fate[p] = "unsent"
    /\ fate' = [fate EXCEPT ![p] = "pending"]
    /\ call' = [call EXCEPT ![p] =
           [from |-> IF p \in HookPrompts THEN "hook" ELSE "client",
            at |-> "posted"]]
    /\ \/ UNCHANGED <<later, timed>>
       \/ /\ p \notin HookPrompts
          /\ later' = later \cup {p} /\ timed' = timed \cup {p}
    /\ UNCHANGED <<queue, turn, answered, duty, rest, active, readers,
                   overlapped, questions, faults, edits>>

Move(p, place) == call' = [call EXCEPT ![p].at = place]

\* StartOrQueue looks once whether a completion is active.
StartOrQueue(p) ==
    /\ call[p].at = "posted"
    /\ Move(p, IF ~Idle \/ p \in timed THEN "enqueue" ELSE "question")
    /\ UNCHANGED <<disk, duty, rest, active, readers, past>>

Enqueue(p) ==
    /\ call[p].at = "enqueue"
    /\ call' = [call EXCEPT ![p] = NoCall]
    /\ \/ /\ queue' = Append(queue, p)
          /\ Reschedule(queue', later, wakeups)
          /\ UNCHANGED <<fate, faults>>
       \/ /\ Fault /\ fate' = [fate EXCEPT ![p] = "refused"]
          /\ UNCHANGED <<queue, duty>>
    /\ UNCHANGED <<later, timed, turn, answered, rest, active, readers,
                   overlapped, questions, edits>>

-----------------------------------------------------------------------------
(* Somebody starts a prompt: startPromptRequest and startCompletion.         *)

\* The start did not work.  A client is told so, a hook queues its prompt if a
\* question was the reason, and StartNext puts it back.
Rejects(p, why) ==
    CASE call[p].from = "queue" ->
           Move(p, IF why = "question" THEN "park" ELSE "restore")
           /\ UNCHANGED fate
      [] call[p].from = "hook" /\ why = "question" ->
           Move(p, "enqueue") /\ UNCHANGED fate
      [] OTHER ->
           /\ call' = [call EXCEPT ![p] = NoCall]
           /\ fate' = [fate EXCEPT ![p] = "refused"]

\* Mutant: the pending question is not looked at.
SkipQuestion(p) ==
    /\ call[p].at = "question" /\ Move(p, "interrupted")
    /\ UNCHANGED <<disk, duty, rest, active, readers, past>>

ReadQuestion(p) ==
    /\ call[p].at = "question"
    /\ \/ /\ turn = "question" /\ Rejects(p, "question")
          /\ UNCHANGED faults
       \/ /\ turn /= "question" /\ Move(p, "interrupted")
          /\ UNCHANGED <<fate, faults>>
       \/ Fault /\ Rejects(p, "error")
    /\ UNCHANGED <<disk, duty, rest, active, readers, overlapped, questions, edits>>

ReadInterrupted(p) ==
    /\ call[p].at = "interrupted"
    /\ \/ /\ Move(p, IF turn = "open" THEN "resume" ELSE "chat")
          /\ UNCHANGED <<fate, faults>>
       \/ Fault /\ Rejects(p, "error")
    /\ UNCHANGED <<disk, duty, rest, active, readers, overlapped, questions, edits>>

\* startCompletion: at most one completion, the others are refused.
StartCompletion(p) ==
    /\ call[p].at \in {"chat", "resume"}
    /\ IF Idle
       THEN /\ active' = [prompt |-> p, at |-> "preparing",
                mode |-> IF call[p].at = "chat" THEN "chat" ELSE "close"]
            /\ Move(p, "preparing") /\ UNCHANGED fate
       ELSE Rejects(p, "busy") /\ UNCHANGED active
    /\ UNCHANGED <<disk, duty, rest, readers, overlapped, questions, faults, edits>>

\* prepare has worked: OnTurnStart clears the timer, the completion runs, and
\* the caller of StartOrQueue is done.
Prepared ==
    /\ active' = [active EXCEPT !.at = "running"]
    /\ call' = [p \in Prompts |->
           IF p /= active.prompt THEN call[p]
           ELSE IF call[p].from = "queue"
                THEN [call[p] EXCEPT !.at = "started"]
           ELSE NoCall]
    /\ timer' = "off" /\ UNCHANGED <<wakeups, parked, fate>>

\* prepare has failed: the completion is removed, and nobody is notified.
PrepareFails(why) ==
    /\ active' = NoCompletion
    /\ IF active.prompt = NoPrompt
       THEN UNCHANGED <<call, fate>> ELSE Rejects(active.prompt, why)
    /\ parked' = (parked \/ active.prompt = NoPrompt
                         \/ call[active.prompt].from /= "queue")
    /\ UNCHANGED <<timer, wakeups, turn, answered, questions, overlapped>>

\* Chat prepares nothing: its stream looks at the turn when it is read.
PrepareChat ==
    /\ active.at = "preparing" /\ active.mode = "chat"
    /\ Prepared
    /\ UNCHANGED <<disk, rest, readers, overlapped, questions, faults, edits>>

AsksUser ==
    /\ questions < MaxQuestions /\ questions' = questions + 1
    /\ turn' = "question" /\ answered' = FALSE
    /\ overlapped' = overlapped \cup {p \in Prompts : InHand(p)}
                                \cup ({active.prompt} \ {NoPrompt})

\* DefaultAgent.Resume: without a prompt it goes on with the turn, with one it
\* closes the turn first, which may end in a question instead.
PrepareResume ==
    /\ active.at = "preparing" /\ active.mode \in {"close", "continue"}
    /\ \/ turn = "none" /\ PrepareFails("error") /\ UNCHANGED faults
       \/ /\ turn = "question" /\ (active.mode = "close" \/ ~answered)
          /\ PrepareFails("question") /\ UNCHANGED faults
       \/ /\ active.mode = "continue"
          /\ (turn = "open" \/ (turn = "question" /\ answered))
          /\ Prepared
          /\ UNCHANGED <<turn, answered, overlapped, questions, faults>>
       \/ /\ active.mode = "close" /\ turn = "open" /\ Prepared
          /\ \/ /\ turn' = "none"
                /\ UNCHANGED <<answered, overlapped, questions>>
             \/ AsksUser
          /\ UNCHANGED faults
       \/ Fault /\ PrepareFails("error")
    /\ UNCHANGED <<queue, later, timed, rest, readers, edits>>

-----------------------------------------------------------------------------
(* The completion runs: runCompletion and the streams of the agent.          *)

\* The completion is done.  OnTurnComplete starts StartNext, whose wake-up is
\* counted from here.
Completes ==
    /\ active' = DoneCompletion
    /\ wakeups' = Min2(wakeups + 1, MaxWakeups) /\ parked' = FALSE
    /\ UNCHANGED timer

Becomes(p, f) ==
    fate' = IF p = NoPrompt THEN fate ELSE [fate EXCEPT ![p] = f]

\* promptStream and RunTurn up to the first write of turn.json: the prompt is
\* refused if the turn is not over, and nobody puts it back.
TakePrompt ==
    /\ active.at = "running" /\ active.mode \in {"chat", "close"}
    /\ \/ /\ turn = "none" /\ turn' = "open"
          /\ Becomes(active.prompt, "taken")
          /\ active' = [active EXCEPT !.at = "turn"]
          /\ UNCHANGED <<duty, faults>>
       \/ /\ turn /= "none" \/ faults < MaxFaults
          /\ faults' = IF turn /= "none" THEN faults ELSE faults + 1
          /\ Becomes(active.prompt, "dropped")
          /\ Completes /\ UNCHANGED turn
    /\ UNCHANGED <<queue, later, timed, answered, rest, call, readers,
                   overlapped, questions, edits>>

\* ResumeTurn goes on with a turn, also with one whose question was answered.
ContinueTurn ==
    /\ active.at = "running" /\ active.mode = "continue"
    /\ active' = [active EXCEPT !.at = "turn"]
    /\ turn' = "open" /\ answered' = FALSE
    /\ UNCHANGED <<queue, later, timed, duty, rest, call, readers, past>>

\* The turn ends or is cancelled, asks the user, or fails and stays on disk.
EndTurn ==
    /\ active.at = "turn"
    /\ \/ turn' = "none" /\ UNCHANGED <<answered, overlapped, questions, faults>>
       \/ AsksUser /\ UNCHANGED faults
       \/ Fault /\ UNCHANGED <<turn, answered, overlapped, questions>>
    /\ Completes
    /\ UNCHANGED <<queue, later, timed, rest, call, readers, fate, edits>>

-----------------------------------------------------------------------------
(* Resuming without a prompt: PostAnswer, ChatStream, startup.               *)

\* PostAnswer saves the answer and resumes.
Answer ==
    /\ turn = "question"
    /\ answered' = TRUE /\ readers' = readers \cup {"answer"}
    /\ UNCHANGED <<queue, later, timed, turn, duty, rest, call, active, past>>

\* ChatStream finds a turn that is open and a process that has seen no
\* completion of the thread; ResumeInterruptedTurns looks once, at startup.
FindInterrupted ==
    /\ active = NoCompletion /\ turn = "open"
    /\ readers' = readers \cup {"stream"}
    /\ UNCHANGED <<disk, duty, rest, call, active, past>>

FindAtStartup ==
    /\ recover /\ recover' = FALSE
    /\ readers' = IF Idle /\ turn = "open" THEN readers \cup {"startup"}
                  ELSE readers
    /\ UNCHANGED <<disk, duty, timersReady, resuming, call, active, past>>

ResumeThread(r) ==
    /\ r \in readers /\ readers' = readers \ {r}
    /\ active' = IF ~Idle THEN active
                 ELSE [prompt |-> NoPrompt, at |-> "preparing",
                       mode |-> IF r = "startup" THEN "close" ELSE "continue"]
    /\ UNCHANGED <<disk, duty, rest, call, past>>

\* Cancel without a completion: a question is withdrawn and the turn is over.
CancelQuestion ==
    /\ Idle /\ turn = "question"
    /\ turn' = "none" /\ answered' = FALSE
    /\ UNCHANGED <<queue, later, timed, duty, rest, call, active, readers, past>>

-----------------------------------------------------------------------------
(* The queue is started: timers and StartNext.                               *)

EnableTimers ==
    /\ ~timersReady /\ timersReady' = TRUE /\ resuming' = TRUE
    /\ UNCHANGED <<disk, duty, recover, call, active, readers, past>>

\* Mutant: a thread that has no timer is left alone.
ResumeNothing ==
    /\ resuming /\ resuming' = FALSE
    /\ UNCHANGED <<disk, duty, timersReady, recover, call, active, readers, past>>

ResumeTimers ==
    /\ resuming /\ resuming' = FALSE
    /\ Reschedule(queue, later, wakeups)
    /\ UNCHANGED <<disk, timersReady, recover, call, active, readers, past>>

\* The RunAfter of a prompt passes.  The timer is set for the first to do so.
TimePasses(p) ==
    /\ p \in later /\ later' = later \ {p}
    /\ timer' = IF timer = "set" /\ Queued(p) THEN "elapsed" ELSE timer
    /\ UNCHANGED <<queue, timed, turn, answered, wakeups, parked, rest, call,
                   active, readers, past>>

FireTimer ==
    /\ timer = "elapsed" /\ timer' = "off"
    /\ wakeups' = Min2(wakeups + 1, MaxWakeups)
    /\ UNCHANGED <<disk, parked, rest, call, active, readers, past>>

\* Pop takes the first prompt that is due, and saves the queue without it.
FirstDue(i) ==
    /\ i \in DOMAIN queue /\ queue[i] \notin later
    /\ \A j \in 1..(i - 1) : queue[j] \in later

\* Mutant: the prompt is read and stays in the file.
Peeked(i) == queue
Popped(i) == RemoveAt(queue, i)

StartNext ==
    /\ wakeups > 0
    /\ \/ /\ Idle
          /\ \E i \in DOMAIN queue :
                /\ FirstDue(i)
                /\ queue' = Popped(i)
                /\ call' = [call EXCEPT ![queue[i]] =
                               [from |-> "queue", at |-> "question"]]
          /\ timer' = "off" /\ wakeups' = wakeups - 1
          /\ UNCHANGED <<parked, faults>>
       \/ /\ ~Idle \/ ~Due(queue, later)
          /\ StopAndReschedule
          /\ UNCHANGED <<queue, call, faults>>
       \/ /\ Idle /\ Fault
          /\ StopAndReschedule
          /\ UNCHANGED <<queue, call>>
    /\ UNCHANGED <<later, timed, turn, answered, rest, active, readers, fate,
                   overlapped, questions, edits>>

\* The start worked.
FinishStart(p) ==
    /\ call[p].at = "started"
    /\ call' = [call EXCEPT ![p] = NoCall]
    /\ Reschedule(queue, later, wakeups)
    /\ UNCHANGED <<disk, rest, active, readers, past>>

\* restore: to the front of the queue again, after an error not before some
\* time has passed, and not at all if the write fails.
Restore(p) ==
    /\ call[p].at \in {"park", "restore"}
    /\ call' = [call EXCEPT ![p] = NoCall]
    /\ IF call[p].at = "restore" /\ p \notin timed
       THEN later' = later \cup {p} /\ timed' = timed \cup {p}
       ELSE UNCHANGED <<later, timed>>
    /\ \/ /\ queue' = <<p>> \o queue
          /\ IF call[p].at = "restore" THEN Reschedule(queue', later', wakeups)
             ELSE parked' = TRUE /\ UNCHANGED <<timer, wakeups>>
          /\ UNCHANGED <<fate, faults>>
       \/ /\ Fault /\ fate' = [fate EXCEPT ![p] = "dropped"]
          /\ Reschedule(queue, later, wakeups)
          /\ UNCHANGED queue
    /\ UNCHANGED <<turn, answered, rest, active, readers, overlapped,
                   questions, edits>>

-----------------------------------------------------------------------------
(* The user edits the queue: DeleteQueuedPrompt and UpdateQueuedPrompt.      *)

Delete(i) ==
    /\ i \in DOMAIN queue
    /\ queue' = RemoveAt(queue, i)
    /\ fate' = [fate EXCEPT ![queue[i]] = "deleted"]
    /\ Reschedule(queue', later, wakeups)
    /\ UNCHANGED <<later, timed, turn, answered, rest, call, active, readers,
                   overlapped, questions, faults, edits>>

\* A new time, no time, or a new place in the queue.
UpdatePrompt(i) ==
    /\ i \in DOMAIN queue /\ edits < MaxEdits /\ edits' = edits + 1
    /\ LET p == queue[i] IN
       \/ /\ later' = later \cup {p} /\ timed' = timed \cup {p}
          /\ UNCHANGED queue
       \/ /\ later' = later \ {p} /\ timed' = timed \ {p}
          /\ UNCHANGED queue
       \/ /\ \E k \in DOMAIN queue :
                queue' = InsertAt(RemoveAt(queue, i), k, p)
          /\ UNCHANGED <<later, timed>>
    /\ Reschedule(queue', later', wakeups)
    /\ UNCHANGED <<turn, answered, rest, call, active, readers, fate,
                   overlapped, questions, faults>>

\* The process dies and starts again.  A prompt that was in hand, or given to
\* a completion that has not saved its turn, is gone; a caller that waits for
\* the answer to a post learns of it.
Crash ==
    /\ Fault
    /\ active' = NoCompletion /\ call' = [p \in Prompts |-> NoCall]
    /\ fate' = [p \in Prompts |->
           IF fate[p] /= "pending" \/ Queued(p) THEN fate[p]
           ELSE IF call[p].from \in {"client", "hook"} THEN "refused"
           ELSE "dropped"]
    /\ timer' = "off" /\ wakeups' = 0 /\ parked' = FALSE
    /\ timersReady' = FALSE /\ resuming' = FALSE /\ recover' = TRUE
    /\ readers' = {}
    /\ UNCHANGED <<disk, overlapped, questions, edits>>

-----------------------------------------------------------------------------
\* The goroutine that has prompt p in hand.
CallStep(p) ==
    \/ StartOrQueue(p) \/ Enqueue(p) \/ ReadQuestion(p) \/ ReadInterrupted(p)
    \/ StartCompletion(p) \/ FinishStart(p) \/ Restore(p)

CompletionStep ==
    PrepareChat \/ PrepareResume \/ TakePrompt \/ ContinueTurn \/ EndTurn

ReaderStep == FindAtStartup \/ \E r \in readers : ResumeThread(r)

Clock == \E p \in Prompts : TimePasses(p)

Environment ==
    \/ \E p \in Prompts : Post(p)
    \/ \E i \in DOMAIN queue : Delete(i) \/ UpdatePrompt(i)
    \/ Answer \/ CancelQuestion \/ FindInterrupted \/ EnableTimers
    \/ Crash

Next ==
    \/ \E p \in Prompts : CallStep(p)
    \/ CompletionStep \/ ReaderStep \/ Clock
    \/ FireTimer \/ ResumeTimers \/ StartNext
    \/ Environment

Spec == Init /\ [][Next]_vars

\* Goroutines that were started go on, time passes and a turn does not run for
\* ever.  Nothing is assumed of the clients and of the user.
FairSpec ==
    /\ Spec
    /\ \A p \in Prompts : WF_vars(CallStep(p)) /\ WF_vars(TimePasses(p))
    /\ WF_vars(CompletionStep) /\ WF_vars(ReaderStep)
    /\ WF_vars(FireTimer) /\ WF_vars(ResumeTimers) /\ WF_vars(StartNext)

-----------------------------------------------------------------------------
TypeOK ==
    /\ queue \in Seq(Prompts)
    /\ later \subseteq Prompts /\ timed \subseteq Prompts
    /\ turn \in {"none", "open", "question"} /\ answered \in BOOLEAN
    /\ timer \in {"off", "set", "elapsed"}
    /\ timersReady \in BOOLEAN /\ resuming \in BOOLEAN
    /\ recover \in BOOLEAN /\ parked \in BOOLEAN
    /\ wakeups \in 0..MaxWakeups
    /\ call \in [Prompts -> Calls]
    /\ active \in Completions
    /\ readers \subseteq {"answer", "stream", "startup"}
    /\ fate \in [Prompts -> Fates]
    /\ overlapped \subseteq Prompts
    /\ questions \in 0..MaxQuestions /\ edits \in 0..MaxEdits
    /\ faults \in 0..MaxFaults

\* A prompt that was sent and not refused, deleted or taken is in one place:
\* once in the queue, in the hands of one caller, or with the completion.
\* It is neither lost nor doubled by all the popping and putting back.
OnePlace ==
    /\ \A i, j \in DOMAIN queue : queue[i] = queue[j] => i = j
    /\ \A p \in Prompts :
         /\ Queued(p) => fate[p] = "pending" /\ ~InHand(p) /\ active.prompt /= p
         /\ fate[p] = "pending" => Queued(p) \/ InHand(p) \/ active.prompt = p

\* The duty to start the queue is never dropped silently: when timers are on
\* and a prompt waits in an idle thread, then a wake-up is under way, or a
\* caller of StartNext, or a timer that does not come too late, unless the
\* duty was given up for a question or with a start that failed (parked).
NoLostWakeup ==
    (/\ timersReady /\ ~resuming /\ Idle /\ queue /= <<>>
     /\ wakeups = 0 /\ ~QueueAtWork /\ ~parked)
    => timer \in (IF Due(queue, later) THEN {"elapsed"} ELSE {"set", "elapsed"})

\* Without an error or a crash a prompt that the agent has promised to run is
\* lost only if a turn asked the user a question while it was in hand: the
\* stream refuses it then, after StartNext has let go of it.
DroppedNeedsQuestion ==
    \A p \in Prompts : fate[p] = "dropped" /\ faults = 0 => p \in overlapped

\* With timers on, a prompt that waits is taken or given up in the end, unless
\* a question waits for the user or the duty to start the queue was given up.
QueueMoves ==
    \A p \in Prompts :
        Queued(p) ~> (fate[p] /= "pending" \/ ~timersReady \/ parked
                        \/ turn = "question")

-----------------------------------------------------------------------------
(* The inductive invariant.                                                  *)

\* Where a prompt is agrees with who has it in hand and with the completion.
HandsAgree ==
    \A p \in Prompts :
        /\ fate[p] = "unsent" => ~InHand(p)
        /\ InHand(p) /\ call[p].at \notin {"preparing", "started"} =>
               fate[p] = "pending" /\ active.prompt /= p
        /\ call[p].at = "preparing" <=>
               active.prompt = p /\ active.at = "preparing"
        /\ call[p].at = "started" /\ fate[p] = "pending" => active.prompt = p
        /\ active.prompt = p =>
               fate[p] = IF active.at = "turn" THEN "taken" ELSE "pending"
        /\ call[p].at \in {"posted", "enqueue"} => call[p].from /= "queue"
        /\ call[p].at \in {"started", "park", "restore"} =>
               call[p].from = "queue"

QueueInv == TypeOK /\ OnePlace /\ HandsAgree /\ NoLostWakeup

\* Why a prompt is dropped: without a fault a turn is open only while it runs,
\* and whoever is past the look at the question has met it if there is one.
DropInv ==
    /\ (faults = 0 /\ active.at /= "turn") => turn /= "open"
    /\ \A p \in Prompts :
         (/\ faults = 0 /\ turn = "question"
          /\ \/ call[p].at \in {"interrupted", "chat", "resume"}
             \/ active.prompt = p /\ active.at \in {"preparing", "running"})
         => p \in overlapped
    /\ DroppedNeedsQuestion

\* What a turn without a running completion, and a completion without a prompt,
\* say of each other.
TurnAgrees ==
    /\ turn /= "question" => ~answered
    /\ active.at = "turn" => turn = "open"
    /\ active.at = "running" /\ active.mode = "continue" =>
           turn = "open" \/ (turn = "question" /\ answered)
    /\ active.mode = "chat" => active.prompt /= NoPrompt
    /\ \/ recover \/ "startup" \in readers
       \/ active.mode = "close" /\ active.prompt = NoPrompt
       => faults > 0

-----------------------------------------------------------------------------
(* What that amounts to for who sends prompts to the thread.                 *)

\* A caller who waits for the answer to his post has been promised nothing.
StandsAt(p) ==
    IF fate[p] /= "pending" THEN fate[p]
    ELSE IF call[p].from \in {"client", "hook"} THEN "offered" ELSE "promised"

Standings == [p \in Prompts |-> StandsAt(p)]

Promised == INSTANCE PromptPromises WITH
                standing <- Standings, asked <- overlapped, failed <- faults > 0

\* A prompt of which the agent said that it is queued or started is not refused
\* afterwards, and is dropped only for a question or a failure; a turn begins
\* with one prompt, when the turn before is over, and goes on when it has its
\* answer: whatever popping, putting back, waking up and resuming go on.
KeepsPromises == Promised!Spec

\* In terms of the queue: once a prompt has been in it, no caller of StartNext
\* and no completion can have it refused, however often it is put back.
QueuedForGood(p) == [](Queued(p) => [](fate[p] /= "refused"))

\* And a turn is not begun without one of the prompts that were promised.
BeginsWithPrompt ==
    turn = "none" /\ turn' /= "none" /\ faults = 0 =>
        \E p \in Prompts : fate[p] = "pending" /\ fate'[p] = "taken"
TurnsAreAskedFor == [][BeginsWithPrompt]_vars
=============================================================================
