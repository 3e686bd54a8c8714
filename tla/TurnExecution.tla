--------------------------- MODULE TurnExecution ---------------------------
(***************************************************************************)
(* One agent turn of one thread: the step loop of                          *)
(* agent-go/thread/turn.go and the ways into it in                         *)
(* agent-go/agentimpl/default.go.                                          *)
(*                                                                         *)
(* A turn is a sequence of steps.  A step streams a completion from the    *)
(* model and then settles the tool calls the completion asks for: a call   *)
(* is executed, or becomes asynchronous work that is awaited, or asks the  *)
(* user and pauses the turn.  Every transition is written to disk before   *)
(* it is acted on (turn.json and the step files), and a turn found on disk *)
(* is resumed from there.                                                  *)
(*                                                                         *)
(* The disk and the memory of the process are kept apart: a crash, or an   *)
(* error that ends the loop, loses the memory between any two writes.      *)
(* Messages are immutable and each names its parent, so a leaf message     *)
(* stands for the chain of messages above it: leaf is the set of replies   *)
(* and tool results on that chain, as pairs of a step and a call.          *)
(***************************************************************************)
EXTENDS Naturals

CONSTANTS
    NumCalls,    \* the most tool calls a completion asks for
    LastStep,    \* bound: the completion of this step asks for no calls
    LimitSteps,  \* TurnConfig.MaxSteps
    MaxFaults    \* bound on crashes and failed writes or requests of a turn

ASSUME BoundsAssumption ==
    /\ NumCalls \in Nat \ {0}
    /\ LastStep \in Nat
    /\ LimitSteps \in Nat \ {0}
    /\ MaxFaults \in Nat

Steps == 0..LastStep
Calls == 1..NumCalls

\* A tool call that cannot be named: recoverStreamingStep writes a step
\* result without the list of its calls.  Also "no call" in memory.
Unnamed == 0

\* The assistant message of a step, among the messages of a chain.
Reply == NumCalls + 1

VARIABLES
    \* The thread's directory.
    turn,      \* turn.json, with the question file of its pending approval
    stream,    \* the chunk file of the current step
    result,    \* the step files: the completion of each step
    recorded,  \* the step event files: results of each call, 2 for several
    async,     \* the async files: calls with a continuation, of each step
    answered,  \* an answer file exists for the pending approval
    \* The process.
    pc,        \* where the loop is between two writes, "idle" outside it
    mem,       \* the turnState that the loop works on
    work,      \* what a tools or async phase knows besides the turn state
    context,   \* the turn's context: live, cancelled, or closing the turn
    recover,   \* the process has started and not looked at the thread yet
    \* What has happened in this turn.
    runs,      \* how often each call was given to the executor
    marked,    \* calls recorded as interrupted by a transient failure
    resumed,   \* the turn has been resumed from disk
    faults

disk == <<turn, stream, result, recorded, async, answered>>
process == <<pc, mem, work, context, recover>>
past == <<runs, marked, resumed, faults>>
vars == <<disk, process, past>>

Contexts == {"live", "cancelled", "closing"}
Cancelled == context /= "live"

Phases == {"none", "streaming", "tools", "async", "answer"}

\* TurnState: "none" stands for the absence of turn.json.
TurnStates ==
    [phase: Phases, step: Steps, leaf: SUBSET (Steps \X (0..Reply)),
     tools: BOOLEAN, limited: BOOLEAN,
     pending: 0..NumCalls, resume: {"tools", "async"}]

NoTurn ==
    [phase |-> "none", step |-> 0, leaf |-> {}, tools |-> FALSE,
     limited |-> FALSE, pending |-> Unnamed, resume |-> "tools"]

NewTurn ==
    [NoTurn EXCEPT !.phase = "streaming", !.tools = TRUE, !.limited = TRUE]

\* StepResult: saved is "the assistant message is stored", listed is "the
\* tool calls are listed in the result", which an answer needs.
StepResults ==
    [there: BOOLEAN, calls: 0..NumCalls, saved: BOOLEAN, listed: BOOLEAN]

NoResult == [there |-> FALSE, calls |-> 0, saved |-> FALSE, listed |-> FALSE]

\* The chunk file: absent or empty, cut short, or closed by a FinishChunk
\* after the given number of calls.
Streams == [state: {"none", "partial", "complete"}, calls: 0..NumCalls]
NoStream == [state |-> "none", calls |-> 0]

\* toolsPhaseState and the locals of the two phases: had and async are read
\* once when the phase begins (completedTools, asyncContinuationsState).
Work ==
    [had: BOOLEAN, skipped: BOOLEAN, async: SUBSET Calls,
     handles: SUBSET Calls, call: 0..NumCalls, pause: 0..NumCalls]

NoWork ==
    [had |-> FALSE, skipped |-> FALSE, async |-> {}, handles |-> {},
     call |-> Unnamed, pause |-> Unnamed]

\* The places of the loop, where a cancelled turn is still completed.
LoopPlaces ==
    {"stream", "request", "streaming", "saveResult", "save", "decide",
     "loadTools", "tools", "ran", "loadAsync", "recoverAsync", "wait",
     "finalizeAsync", "answer", "answered", "answeredAsync", "nextStep"}
Places == LoopPlaces \cup {"idle", "partial", "finish", "delete"}

-----------------------------------------------------------------------------
(* What the disk says. *)

\* Calls of a step that have a result in its event messages.
Settled(t) == {c \in Calls : recorded[t][c] > 0}

CallsOf(t) == 1..result[t].calls

\* Calls of the current step without a result.
Missing == CallsOf(mem.step) \ Settled(mem.step)

\* Mutant: a call with a result is not skipped.
OpenWithSettled == CallsOf(mem.step) \ work.handles

\* Calls the tools phase has not dealt with yet, in order.
Open == Missing \ work.handles
IsNext(c, S) == c \in S /\ \A d \in S : c <= d

\* Does the chain hold every reply and tool result of the steps before t?
HistoryHolds(leaf, t) ==
    \A u \in Steps : u < t =>
        /\ <<u, Reply>> \in leaf
        /\ \A c \in CallsOf(u) : <<u, c>> \in leaf

\* Results are counted as none, one or several.
OneMore(n) == IF n = 0 THEN 1 ELSE 2

\* Where the loop enters a phase (executeLoop).
PlaceOf(phase) ==
    CASE phase = "streaming" -> "stream"
      [] phase = "tools" -> "loadTools"
      [] phase = "async" -> "loadAsync"
      [] phase = "answer" -> "answer"
      [] OTHER -> "idle"

-----------------------------------------------------------------------------
Init ==
    /\ turn = NoTurn
    /\ stream = NoStream
    /\ result = [t \in Steps |-> NoResult]
    /\ recorded = [t \in Steps |-> [c \in 0..NumCalls |-> 0]]
    /\ async = [t \in Steps |-> {}]
    /\ answered = FALSE
    /\ pc = "idle"
    /\ mem = NoTurn
    /\ work = NoWork
    /\ context = "live"
    /\ recover = FALSE
    /\ runs = [t \in Steps |-> [c \in Calls |-> 0]]
    /\ marked = [t \in Steps |-> {}]
    /\ resumed = FALSE
    /\ faults = 0

\* RunTurn: a prompt starts a turn under a new id, with step files of its own.
\* The previous turn's faults and history are forgotten with it.
StartTurn ==
    /\ pc = "idle" /\ turn.phase = "none"
    /\ turn' = NewTurn
    /\ stream' = NoStream
    /\ result' = [t \in Steps |-> NoResult]
    /\ recorded' = [t \in Steps |-> [c \in 0..NumCalls |-> 0]]
    /\ async' = [t \in Steps |-> {}]
    /\ answered' = FALSE
    /\ pc' = "stream" /\ mem' = NewTurn /\ work' = NoWork
    /\ context' = "live" /\ recover' = FALSE
    /\ runs' = [t \in Steps |-> [c \in Calls |-> 0]]
    /\ marked' = [t \in Steps |-> {}]
    /\ resumed' = FALSE /\ faults' = 0

\* Resume and ResumeTurn: load the turn, recover the step that was streaming
\* from its chunk file, and enter the loop.  close: the context is cancelled
\* from the start, to close the turn before a new prompt.
Resume(close) ==
    /\ pc = "idle" /\ turn.phase /= "none"
    /\ turn.phase = "answer" =>
           (answered /\ turn.pending /= Unnamed /\ ~close)
    /\ mem' = turn /\ work' = NoWork
    /\ context' = IF close THEN "closing" ELSE "live"
    /\ recover' = FALSE /\ resumed' = TRUE
    /\ IF /\ turn.phase = "streaming"
          /\ ~result[turn.step].there
          /\ stream.state /= "none"
       THEN /\ result' = [result EXCEPT ![turn.step] =
                   [there |-> TRUE, calls |-> stream.calls,
                    saved |-> FALSE, listed |-> FALSE]]
            /\ pc' = IF stream.state = "complete" THEN "stream" ELSE "partial"
       ELSE /\ result' = result
            /\ pc' = PlaceOf(turn.phase)
    /\ UNCHANGED <<turn, stream, recorded, async, answered,
                   runs, marked, faults>>

\* An answer, a client that opens the chat stream, or a parent's Task resumes.
ResumeTurn == Resume(FALSE)

\* A prompt finds an interrupted turn and closes it first.
CloseInterruptedTurn == Resume(TRUE)

\* Mutant: only a turn that was streaming is recovered.
StartupRecoveryStreaming ==
    recover /\ turn.phase = "streaming" /\ Resume(TRUE)

\* ResumeInterruptedTurns, which runs once when the process starts.
StartupRecovery == recover /\ Resume(TRUE)

-----------------------------------------------------------------------------
(* Streaming phase. *)

\* The head of runStreamingPhase: at the limit the tools are withdrawn, then
\* refreshTurnTools offers what ResolveTools returns.  Only a turn started
\* by a prompt has ResolveTools; a resumed one has not.
PrepareStep ==
    /\ pc = "stream"
    /\ LET atLimit == mem.limited /\ mem.step >= LimitSteps
           kept == [mem EXCEPT !.tools = @ /\ ~atLimit,
                               !.limited = @ /\ ~atLimit]
       IN mem' = [kept EXCEPT !.tools = @ \/ ~resumed]
    /\ turn' = mem'
    /\ pc' = IF ~result[mem.step].there THEN "request"
             ELSE IF result[mem.step].saved THEN "decide" ELSE "save"
    /\ UNCHANGED <<stream, result, recorded, async, answered, work,
                   context, recover, past>>

\* runCompletion: truncate the chunk file, send the history to the provider.
RequestCompletion ==
    /\ pc = "request"
    /\ stream' = NoStream
    /\ pc' = "streaming"
    /\ UNCHANGED <<turn, result, recorded, async, answered, mem, work,
                   context, recover, past>>

\* A chunk is appended to the file.
ReceiveChunk ==
    /\ pc = "streaming" /\ stream.state = "none"
    /\ stream' = [stream EXCEPT !.state = "partial"]
    /\ UNCHANGED <<turn, result, recorded, async, answered, process, past>>

\* The FinishChunk is appended: the completion asks for n calls.
FinishStream(n) ==
    /\ pc = "streaming" /\ stream.state = "partial"
    /\ n > 0 => (mem.tools /\ mem.step < LastStep)
    /\ stream' = [state |-> "complete", calls |-> n]
    /\ pc' = "saveResult"
    /\ UNCHANGED <<turn, result, recorded, async, answered, mem, work,
                   context, recover, past>>

SaveStepResult ==
    /\ pc = "saveResult"
    /\ result' = [result EXCEPT ![mem.step] =
           [there |-> TRUE, calls |-> stream.calls,
            saved |-> FALSE, listed |-> TRUE]]
    /\ pc' = "save"
    /\ UNCHANGED <<turn, stream, recorded, async, answered, mem, work,
                   context, recover, past>>

\* The stream ends because the turn is cancelled: what has arrived is kept
\* without its tool calls, and nothing is kept of an empty reply.
CancelledStream ==
    /\ pc = "streaming" /\ Cancelled
    /\ \/ /\ stream.state = "partial"
          /\ result' = [result EXCEPT ![mem.step] =
                 [there |-> TRUE, calls |-> 0,
                  saved |-> FALSE, listed |-> TRUE]]
          /\ pc' = "save"
       \/ /\ result' = result
          /\ pc' = "finish"
    /\ UNCHANGED <<turn, stream, recorded, async, answered, mem, work,
                   context, recover, past>>

\* saveAssistantStepMessage: the reply becomes the leaf, in memory.
SaveReply ==
    /\ pc \in {"save", "partial"}
    /\ mem' = [mem EXCEPT !.leaf = @ \cup {<<mem.step, Reply>>}]
    /\ result' = [result EXCEPT ![mem.step].saved = TRUE]
    /\ pc' = IF pc = "save" THEN "decide" ELSE "finish"
    /\ UNCHANGED <<turn, stream, recorded, async, answered, work,
                   context, recover, past>>

\* Mutant: a completion without calls goes on to the tools phase.
DecideAlwaysTools ==
    /\ pc = "decide"
    /\ mem' = [mem EXCEPT !.phase = "tools"]
    /\ turn' = mem'
    /\ pc' = "loadTools"
    /\ UNCHANGED <<stream, result, recorded, async, answered, work,
                   context, recover, past>>

\* A completion without calls ends the turn; otherwise the tools phase is
\* written to disk, with the leaf that the memory has.
DecideStep ==
    /\ pc = "decide"
    /\ IF result[mem.step].calls = 0
       THEN pc' = "finish" /\ UNCHANGED <<turn, mem>>
       ELSE /\ mem' = [mem EXCEPT !.phase = "tools"]
            /\ turn' = mem'
            /\ pc' = "loadTools"
    /\ UNCHANGED <<stream, result, recorded, async, answered, work,
                   context, recover, past>>

-----------------------------------------------------------------------------
(* Tools phase. *)

\* Mutant: the message is stored and does not become the leaf.
RecordBesideLeaf(c) ==
    /\ recorded' = [recorded EXCEPT ![mem.step][c] = OneMore(@)]
    /\ mem' = mem

\* appendStepToolEventMessage: the result's message becomes the leaf, in
\* memory only, and its id goes to the step's events.
Record(c) ==
    /\ recorded' = [recorded EXCEPT ![mem.step][c] = OneMore(@)]
    /\ mem' = [mem EXCEPT !.leaf = @ \cup {<<mem.step, c>>}]

\* pauseForApproval: the question is stored and the turn waits on disk.
Pause(c, phase) ==
    /\ turn' = [mem EXCEPT !.phase = "answer", !.pending = c,
                           !.resume = phase]
    /\ answered' = FALSE
    /\ pc' = "idle"
    /\ mem' = NoTurn /\ work' = NoWork /\ context' = "live"

\* loadToolsPhaseState.
LoadTools ==
    /\ pc = "loadTools"
    /\ work' = [NoWork EXCEPT
           !.had = \E c \in 0..NumCalls : recorded[mem.step][c] > 0,
           !.async = async[mem.step]]
    /\ pc' = "tools"
    /\ UNCHANGED <<disk, mem, context, recover, past>>

\* handleRecoveredAsyncTool and handleRecoveredWaitingAsyncContinuation: the
\* executor reports a result (or that the work is lost), work that goes on,
\* or a question.
ContinueAsync(c, phase) ==
    \/ /\ Record(c)
       /\ UNCHANGED <<turn, stream, result, async, answered, pc, work,
                      context, recover, past>>
    \/ /\ work' = [work EXCEPT !.handles = @ \cup {c}]
       /\ UNCHANGED <<disk, pc, mem, context, recover, past>>
    \/ /\ Pause(c, phase)
       /\ UNCHANGED <<stream, result, recorded, async, recover, past>>

ContinueInTools(c) ==
    /\ pc = "tools" /\ ~Cancelled
    /\ IsNext(c, Open) /\ c \in work.async
    /\ ContinueAsync(c, "tools")

\* Mutant: counts the results there are now, not those found on entry.
MarkAfterFirst(c) ==
    /\ pc = "tools" /\ ~Cancelled
    /\ IsNext(c, Open) /\ c \notin work.async
    /\ Settled(mem.step) /= {} /\ ~work.skipped
    /\ Record(c)
    /\ marked' = [marked EXCEPT ![mem.step] = @ \cup {c}]
    /\ work' = [work EXCEPT !.skipped = TRUE]
    /\ UNCHANGED <<turn, stream, result, async, answered, pc, context,
                   recover, runs, resumed, faults>>

\* After a resume that found results, the first call without one counts as
\* interrupted and is not executed.
MarkInterrupted(c) ==
    /\ pc = "tools" /\ ~Cancelled
    /\ IsNext(c, Open) /\ c \notin work.async
    /\ work.had /\ ~work.skipped
    /\ Record(c)
    /\ marked' = [marked EXCEPT ![mem.step] = @ \cup {c}]
    /\ work' = [work EXCEPT !.skipped = TRUE]
    /\ UNCHANGED <<turn, stream, result, async, answered, pc, context,
                   recover, runs, resumed, faults>>

\* handleFreshToolExecution: the executor runs the call, with all its effects.
Execute(c) ==
    /\ pc = "tools" /\ ~Cancelled
    /\ IsNext(c, Open) /\ c \notin work.async
    /\ work.had => work.skipped
    /\ runs' = [runs EXCEPT ![mem.step][c] = @ + 1]
    /\ work' = [work EXCEPT !.call = c]
    /\ pc' = "ran"
    /\ UNCHANGED <<disk, mem, context, recover, marked, resumed, faults>>

\* It returned a result or an error.
RanToResult ==
    /\ pc = "ran"
    /\ Record(work.call)
    /\ work' = [work EXCEPT !.call = Unnamed]
    /\ pc' = "tools"
    /\ UNCHANGED <<turn, stream, result, async, answered, context,
                   recover, past>>

\* It started asynchronous work.  The continuations written are those read
\* when the phase began and this one: the struct is passed by value, so the
\* calls that started work earlier in the phase are not among them.
RanToAsync ==
    /\ pc = "ran"
    /\ async' = [async EXCEPT ![mem.step] = work.async \cup {work.call}]
    /\ work' = [work EXCEPT !.handles = @ \cup {work.call},
                            !.call = Unnamed]
    /\ pc' = "tools"
    /\ UNCHANGED <<turn, stream, result, recorded, answered, mem, context,
                   recover, past>>

\* It asks the user: work already started is awaited first.
RanToQuestion ==
    /\ pc = "ran"
    /\ IF work.handles = {}
       THEN /\ Pause(work.call, "tools")
            /\ UNCHANGED <<stream, result, recorded, async, recover>>
       ELSE pc' = "wait" /\ UNCHANGED <<disk, mem, work, context, recover>>
    /\ UNCHANGED past

\* finalizeToolsPhase in a cancelled turn: what has no result gets one that
\* says so, also work in progress, and the turn is completed.
CancelCalls ==
    /\ pc = "tools" /\ Cancelled
    /\ IF Missing = {}
       THEN pc' = "finish" /\ UNCHANGED <<recorded, mem>>
       ELSE pc' = pc /\ \E c \in Calls : IsNext(c, Missing) /\ Record(c)
    /\ UNCHANGED <<turn, stream, result, async, answered, work, context,
                   recover, past>>

\* Mutant: goes on without the work in progress.
FinalizeToolsNow ==
    /\ pc = "tools" /\ ~Cancelled /\ Open = {}
    /\ pc' = "nextStep"
    /\ UNCHANGED <<disk, mem, work, context, recover, past>>

\* finalizeToolsPhase: wait for the work in progress, or go on.
FinalizeTools ==
    /\ pc = "tools" /\ ~Cancelled /\ Open = {}
    /\ IF work.handles = {}
       THEN pc' = "nextStep" /\ UNCHANGED <<turn, mem>>
       ELSE /\ mem' = [mem EXCEPT !.phase = "async"]
            /\ turn' = mem'
            /\ pc' = "loadAsync"
    /\ UNCHANGED <<stream, result, recorded, async, answered, work,
                   context, recover, past>>

\* advanceToNextStep, after prepareMaxStepsFinalStep.
AdvanceStep ==
    /\ pc = "nextStep"
    /\ LET last == mem.limited /\ mem.step + 1 >= LimitSteps
       IN mem' = [mem EXCEPT !.phase = "streaming", !.step = @ + 1,
                             !.pending = Unnamed,
                             !.tools = @ /\ ~last, !.limited = @ /\ ~last]
    /\ turn' = mem'
    /\ stream' = NoStream
    /\ work' = NoWork
    /\ pc' = "stream"
    /\ UNCHANGED <<result, recorded, async, answered, context, recover,
                   past>>

-----------------------------------------------------------------------------
(* Waiting for asynchronous work. *)

\* loadWaitingForAsyncPhaseState: handles that are still in memory are
\* awaited; without any, the continuations on disk are picked up.
LoadAsync ==
    /\ pc = "loadAsync"
    /\ pc' = IF work.handles = {} THEN "recoverAsync" ELSE "wait"
    /\ UNCHANGED <<disk, mem, work, context, recover, past>>

ToRecover == (async[mem.step] \ Settled(mem.step)) \ work.handles

RecoverContinuation(c) ==
    /\ pc = "recoverAsync"
    /\ c \in ToRecover
    /\ ContinueAsync(c, "async")

RecoveredAll ==
    /\ pc = "recoverAsync" /\ ToRecover = {}
    /\ pc' = IF work.handles = {} THEN "finalizeAsync" ELSE "wait"
    /\ UNCHANGED <<disk, mem, work, context, recover, past>>

\* waitForAsyncHandles: results are recorded in the order they arrive; of
\* several questions the first one is kept.
AwaitResult(c) ==
    /\ pc = "wait" /\ c \in work.handles
    /\ Record(c)
    /\ work' = [work EXCEPT !.handles = @ \ {c}]
    /\ UNCHANGED <<turn, stream, result, async, answered, pc, context,
                   recover, past>>

AwaitQuestion(c) ==
    /\ pc = "wait" /\ c \in work.handles
    /\ work' = [work EXCEPT !.handles = @ \ {c},
                            !.pause = IF @ = Unnamed THEN c ELSE @]
    /\ UNCHANGED <<disk, pc, mem, context, recover, past>>

\* Everything awaited has reported.  A question of the work comes before the
\* question of the call that was being executed (handleFreshToolExecution).
WaitOver ==
    /\ pc = "wait" /\ work.handles = {}
    /\ IF work.pause /= Unnamed
       THEN Pause(work.pause,
                  IF work.call = Unnamed THEN "async" ELSE "tools")
       ELSE IF work.call /= Unnamed
       THEN Pause(work.call, "tools")
       ELSE pc' = "finalizeAsync"
            /\ UNCHANGED <<turn, answered, mem, work, context>>
    /\ UNCHANGED <<stream, result, recorded, async, recover, past>>

\* Mutant: looks at the results from before the wait.
FinalizeAsyncStale ==
    /\ pc = "finalizeAsync"
    /\ pc' = "nextStep"
    /\ \E c \in CallsOf(mem.step) : Record(c)
    /\ UNCHANGED <<turn, stream, result, async, answered, work, context,
                   recover, past>>

\* finalizeWaitingForAsyncPhase: a call that still has no result counts as
\* interrupted, and the step is over.
FinalizeAsync ==
    /\ pc = "finalizeAsync"
    /\ IF Missing = {}
       THEN pc' = "nextStep" /\ UNCHANGED <<recorded, mem, marked>>
       ELSE /\ pc' = pc
            /\ \E c \in Calls :
                 /\ IsNext(c, Missing)
                 /\ Record(c)
                 /\ marked' = [marked EXCEPT ![mem.step] = @ \cup {c}]
    /\ UNCHANGED <<turn, stream, result, async, answered, work, context,
                   recover, runs, resumed, faults>>

-----------------------------------------------------------------------------
(* Waiting for the user. *)

\* SubmitAnswer: the answer file of the pending approval.
SubmitAnswer ==
    /\ pc = "idle" /\ turn.phase = "answer" /\ turn.pending /= Unnamed
    /\ ~answered
    /\ answered' = TRUE
    /\ UNCHANGED <<turn, stream, result, recorded, async, process, past>>

\* runWaitingForAnswerPhase: the executor continues the call with the answer.
\* A step result without its list of calls does not name the call; the result
\* is then recorded for no call, or the executor refuses (see Fail).
AnswerResult ==
    /\ pc = "answer"
    /\ Record(IF result[mem.step].listed THEN mem.pending ELSE Unnamed)
    /\ pc' = "answered"
    /\ UNCHANGED <<turn, stream, result, async, answered, work, context,
                   recover, past>>

AnswerAsync ==
    /\ pc = "answer" /\ result[mem.step].listed
    /\ async' = [async EXCEPT ![mem.step] = @ \cup {mem.pending}]
    /\ work' = [NoWork EXCEPT !.handles = {mem.pending}]
    /\ pc' = "answeredAsync"
    /\ UNCHANGED <<turn, stream, result, recorded, answered, mem, context,
                   recover, past>>

AnswerQuestion ==
    /\ pc = "answer" /\ result[mem.step].listed
    /\ Pause(mem.pending, mem.resume)
    /\ UNCHANGED <<stream, result, recorded, async, recover, past>>

\* Mutant: the answered question is taken off, the phase is kept.
LeaveAnswerInPhase ==
    /\ pc \in {"answered", "answeredAsync"}
    /\ mem' = [mem EXCEPT !.pending = Unnamed]
    /\ turn' = mem'
    /\ pc' = PlaceOf(mem'.phase)
    /\ UNCHANGED <<stream, result, recorded, async, answered, work,
                   context, recover, past>>

\* The phase in which the turn goes on is written.
LeaveAnswer ==
    /\ pc \in {"answered", "answeredAsync"}
    /\ mem' = [mem EXCEPT !.phase = IF pc = "answered" THEN mem.resume
                                    ELSE "async",
                          !.pending = Unnamed]
    /\ turn' = mem'
    /\ pc' = PlaceOf(mem'.phase)
    /\ UNCHANGED <<stream, result, recorded, async, answered, work,
                   context, recover, past>>

\* CancelWaitingTurn: the pending call is denied and the turn is completed.
\* Without a pending approval it is an error and nothing changes.
CancelWaitingTurn ==
    /\ pc = "idle" /\ turn.phase = "answer" /\ turn.pending /= Unnamed
    /\ recorded' = [recorded EXCEPT ![turn.step][turn.pending] = OneMore(@)]
    /\ mem' = [turn EXCEPT !.leaf = @ \cup {<<turn.step, turn.pending>>},
                           !.pending = Unnamed]
    /\ pc' = "finish"
    /\ UNCHANGED <<turn, stream, result, async, answered, work, context,
                   recover, past>>

-----------------------------------------------------------------------------
(* The end of a turn, cancellation and failure. *)

\* completeTurn: the state is saved once more, and then removed.
FinalizeTurn ==
    /\ pc = "finish"
    /\ turn' = mem
    /\ pc' = "delete"
    /\ UNCHANGED <<stream, result, recorded, async, answered, mem, work,
                   context, recover, past>>

DeleteTurnState ==
    /\ pc = "delete"
    /\ turn' = NoTurn
    /\ pc' = "idle" /\ mem' = NoTurn /\ work' = NoWork /\ context' = "live"
    /\ UNCHANGED <<stream, result, recorded, async, answered, recover, past>>

\* DefaultAgent.Cancel while the turn runs.
Cancel ==
    /\ pc \in LoopPlaces /\ ~Cancelled
    /\ context' = "cancelled"
    /\ UNCHANGED <<disk, pc, mem, work, recover, past>>

\* A write, the provider or the executor fails, or the consumer of the stream
\* is gone.  The loop ends where it is; a cancelled turn is completed, another
\* one stays on disk until somebody resumes it.
Fail ==
    /\ pc /= "idle" /\ faults < MaxFaults
    /\ faults' = faults + 1
    /\ IF Cancelled /\ pc \in LoopPlaces
       THEN pc' = "finish" /\ UNCHANGED <<mem, work, context>>
       ELSE /\ pc' = "idle" /\ mem' = NoTurn /\ work' = NoWork
            /\ context' = "live"
    /\ UNCHANGED <<disk, recover, runs, marked, resumed>>

\* The process dies and starts again: what is not on disk is gone.  A turn
\* that waits for the user is not interrupted.
Crash ==
    /\ turn.phase /= "none" /\ faults < MaxFaults
    /\ faults' = faults + 1
    /\ pc' = "idle" /\ mem' = NoTurn /\ work' = NoWork /\ context' = "live"
    /\ recover' = (turn.phase /= "answer")
    /\ UNCHANGED <<disk, runs, marked, resumed>>

-----------------------------------------------------------------------------
\* The loop itself.
LoopStep ==
    \/ PrepareStep \/ RequestCompletion \/ ReceiveChunk
    \/ \E n \in 0..NumCalls : FinishStream(n)
    \/ SaveStepResult \/ CancelledStream \/ SaveReply \/ DecideStep
    \/ LoadTools
    \/ \E c \in Calls :
         ContinueInTools(c) \/ MarkInterrupted(c) \/ Execute(c)
    \/ RanToResult \/ RanToAsync \/ RanToQuestion
    \/ CancelCalls \/ FinalizeTools \/ AdvanceStep
    \/ LoadAsync
    \/ \E c \in Calls :
         RecoverContinuation(c) \/ AwaitResult(c) \/ AwaitQuestion(c)
    \/ RecoveredAll \/ WaitOver \/ FinalizeAsync
    \/ AnswerResult \/ AnswerAsync \/ AnswerQuestion \/ LeaveAnswer
    \/ FinalizeTurn \/ DeleteTurnState

Next ==
    \/ LoopStep
    \/ StartTurn \/ ResumeTurn \/ CloseInterruptedTurn
    \/ SubmitAnswer \/ CancelWaitingTurn \/ Cancel
    \/ Fail \/ Crash

Spec == Init /\ [][Next]_vars

\* The loop keeps going, and a process that starts closes what it finds.
FairSpec == Spec /\ WF_vars(LoopStep) /\ WF_vars(StartupRecovery)

-----------------------------------------------------------------------------
TypeOK ==
    /\ turn \in TurnStates /\ mem \in TurnStates
    /\ stream \in Streams
    /\ result \in [Steps -> StepResults]
    /\ recorded \in [Steps -> [0..NumCalls -> 0..2]]
    /\ async \in [Steps -> SUBSET Calls]
    /\ pc \in Places
    /\ work \in Work
    /\ answered \in BOOLEAN /\ context \in Contexts
    /\ recover \in BOOLEAN /\ resumed \in BOOLEAN
    /\ runs \in [Steps -> [Calls -> Nat]]
    /\ marked \in [Steps -> SUBSET Calls]
    /\ faults \in 0..MaxFaults

\* Whatever was lost, cancelled, resumed or answered on the way: a step that
\* has been left had its completion on disk and a result for each of its
\* calls.  A provider refuses a history in which a call has no result.
StepsSettled ==
    \A t \in Steps : t < turn.step =>
        result[t].there /\ CallsOf(t) \subseteq Settled(t)

\* However async work, questions, answers and cancellation mix: a call has a
\* second result only if something failed in the turn, and is executed a
\* second time only by a turn that was picked up from disk.
OncePerCall ==
    \A t \in Steps, c \in Calls :
        /\ recorded[t][c] > 1 => faults > 0
        /\ runs[t][c] > 1 => resumed

\* The history that goes to the provider holds every earlier reply and every
\* result, unless something has failed in the turn (HistoryComplete of
\* MCTurnExecution is the same without the exception, and does not hold).
GapNeedsFault ==
    (pc = "streaming" /\ ~HistoryHolds(mem.leaf, mem.step)) => faults > 0

\* A call is reported to the model as interrupted by a failure only in a turn
\* that was picked up from disk.
MarkedNeedsResume == (\E t \in Steps : marked[t] /= {}) => resumed

(* Why OncePerCall holds.  Until something fails, whatever a call still     *)
(* waits for - a handle, the executor, an answer - it has no result yet;    *)
(* only a cancelled turn records results over work in progress, and then it *)
(* looks at that work no more.                                              *)
Awaiting ==
    \/ pc \in {"ran", "loadAsync", "recoverAsync", "wait", "answeredAsync"}
    \/ pc = "tools" /\ ~Cancelled

RecordedOnce ==
    /\ \A t \in Steps, c \in Calls : recorded[t][c] <= 1
    /\ (pc \in {"idle", "answer"} /\ turn.pending /= Unnamed) =>
          turn.pending \notin Settled(turn.step)
    /\ Awaiting => work.handles \cap Settled(turn.step) = {}
    /\ (Awaiting /\ work.call /= Unnamed) =>
          work.call \notin Settled(turn.step) \cup work.handles
    /\ pc \in {"answer", "answered"} => work.handles = {}
    /\ work.pause /= Unnamed =>
          /\ pc = "wait"
          /\ work.pause \notin Settled(turn.step) \cup work.handles

(* And until the turn is resumed, the loop goes through a step once: what   *)
(* was executed has its result or is awaited, and at the end of the wait    *)
(* nothing is missing - which is why nothing is marked as interrupted.      *)
GoesThroughOnce ==
    /\ pc \notin {"answer", "answered", "answeredAsync", "recoverAsync",
                  "partial"}
    /\ ~work.had
    /\ \A t \in Steps :
          /\ marked[t] = {} /\ recorded[t][Unnamed] = 0
          /\ \A c \in Calls : runs[t][c] <= 1
    /\ pc \in {"stream", "request", "streaming", "saveResult", "save",
               "decide", "loadTools"} =>
          \A c \in Calls :
              recorded[turn.step][c] = 0 /\ runs[turn.step][c] = 0
    /\ pc \in {"tools", "ran"} =>
          \A c \in Calls : runs[turn.step][c] > 0 =>
              c \in Settled(turn.step) \cup work.handles \cup {work.call}
    /\ pc = "loadAsync" => work.handles /= {}
    /\ (\/ pc \in {"loadAsync", "finalizeAsync"}
        \/ pc = "wait" /\ work.call = Unnamed /\ work.pause = Unnamed) =>
          CallsOf(turn.step) \subseteq Settled(turn.step) \cup work.handles
    /\ pc = "finalizeAsync" => work.handles = {}

CallInv ==
    /\ faults = 0 => RecordedOnce
    /\ ~resumed => GoesThroughOnce

(* Why GapNeedsFault holds.  Until something fails, the turn leaves memory  *)
(* only to wait for an answer, with the leaf on disk, and every reply and   *)
(* result that was recorded is on the chain.                                *)
Chain == IF pc = "idle" THEN turn.leaf ELSE mem.leaf

ChainKept ==
    /\ pc = "idle" => turn.phase = "answer"
    /\ pc = "stream" => ~result[turn.step].there
    /\ \A t \in Steps :
          /\ result[t].there => result[t].listed
          /\ \A c \in Settled(t) : <<t, c>> \in Chain
          /\ t < turn.step => <<t, Reply>> \in Chain
    /\ (pc = "decide" \/ turn.phase \in {"tools", "async", "answer"}) =>
          <<turn.step, Reply>> \in Chain

ChainInv == (faults = 0 /\ turn.phase /= "none") => ChainKept

\* The loop implements the contract of TurnContract: what it promises is a
\* matter of the disk, so a crash changes none of it.
Contract == INSTANCE TurnContract WITH
    open <- turn.phase /= "none",
    step <- turn.step,
    known <- turn.phase /= "none" /\ result[turn.step].there,
    asked <- IF turn.phase = "none" THEN {} ELSE CallsOf(turn.step),
    settled <- IF turn.phase = "none" THEN {} ELSE Settled(turn.step),
    ran <- IF turn.phase = "none" THEN [c \in Calls |-> 0]
           ELSE runs[turn.step],
    question <- IF turn.phase = "answer" THEN turn.pending ELSE Unnamed

ImplementsContract == Contract!Spec

\* A turn does not run for ever: it ends, waits for the user, or stops at a
\* failure.  The bound is the model's: it asks for no calls in LastStep.
TurnRests == pc /= "idle" ~> pc = "idle"

\* A turn that a restarted process finds interrupted is closed, or ends up
\* waiting for the user, unless something fails again (ResumeInterruptedTurns).
RecoveryCloses ==
    \A k \in 0..MaxFaults :
        (recover /\ faults = k) ~>
            (turn.phase \in {"none", "answer"} \/ faults > k)

=============================================================================
