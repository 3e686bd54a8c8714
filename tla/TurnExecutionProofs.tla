------------------------ MODULE TurnExecutionProofs ------------------------
(***************************************************************************)
(* Proofs about TurnExecution, for any number of calls, steps and faults:  *)
(* types, that a step is left only with a result for each call, that calls *)
(* happen once and histories are whole until something fails, and that the *)
(* loop implements TurnContract.                                           *)
(*                                                                         *)
(* All rest on one inductive invariant, TurnInv.  Its parts say that the   *)
(* memory of a running loop agrees with turn.json on what matters (Agrees),*)
(* which phase is on disk at which place of the loop (InPhase), what the   *)
(* phase says about the step's completion (Completed), that no file names  *)
(* a call the completion did not ask for (NamesCalls, Working), and that   *)
(* steps to come have left no trace (Fresh).  CallInv and ChainInv, stated *)
(* next to the properties they explain, are inductive relative to it.      *)
(***************************************************************************)
EXTENDS TurnExecution, TLAPS

StreamingPlaces ==
    {"stream", "request", "streaming", "saveResult", "save", "decide",
     "partial"}

\* The loop works on the turn that is on disk.
Agrees ==
    /\ pc /= "idle" =>
         /\ turn.phase /= "none"
         /\ mem.phase = turn.phase /\ mem.step = turn.step
         /\ mem.pending \in {turn.pending, Unnamed}
    /\ pc \in LoopPlaces \cup {"partial", "delete"} =>
         mem.pending = turn.pending

InPhase ==
    /\ pc \in StreamingPlaces => turn.phase = "streaming"
    /\ pc \in {"loadTools", "tools", "ran"} => turn.phase = "tools"
    /\ pc \in {"loadAsync", "recoverAsync", "finalizeAsync"} =>
         turn.phase = "async"
    /\ pc = "wait" =>
         turn.phase = (IF work.call = Unnamed THEN "async" ELSE "tools")
    /\ pc = "nextStep" => turn.phase \in {"tools", "async"}
    /\ pc \in {"answer", "answered", "answeredAsync"} =>
         turn.phase = "answer" /\ turn.pending /= Unnamed
    /\ turn.phase /= "answer" => turn.pending = Unnamed

Completed ==
    /\ pc \in {"save", "decide", "partial"} => result[turn.step].there
    /\ pc \in {"request", "streaming", "saveResult"} =>
         ~result[turn.step].there
    /\ turn.phase \in {"tools", "async", "answer"} =>
         result[turn.step].there /\ result[turn.step].calls > 0
    /\ pc = "nextStep" => CallsOf(turn.step) \subseteq Settled(turn.step)
    /\ \A t \in Steps : result[t].calls > 0 => (result[t].there /\ t < LastStep)
    /\ stream.calls > 0 => turn.step < LastStep

NamesCalls ==
    /\ \A t \in Steps :
         Settled(t) \subseteq CallsOf(t) /\ async[t] \subseteq CallsOf(t)
    /\ turn.pending /= Unnamed => turn.pending \in CallsOf(turn.step)

Working ==
    /\ pc = "idle" => work = NoWork
    /\ work.handles \cup work.async \subseteq CallsOf(turn.step)
    /\ work.call /= Unnamed => work.call \in CallsOf(turn.step)
    /\ work.pause /= Unnamed => work.pause \in CallsOf(turn.step)
    /\ pc = "ran" => work.call /= Unnamed
    /\ pc \in LoopPlaces \ {"ran", "wait"} => work.call = Unnamed

Fresh ==
    \A t \in Steps : t > turn.step /\ turn.phase /= "none" =>
        /\ result[t] = NoResult
        /\ \A c \in Calls : recorded[t][c] = 0 /\ runs[t][c] = 0

TurnInv ==
    /\ TypeOK /\ Agrees /\ InPhase /\ Completed /\ NamesCalls /\ Working
    /\ Fresh /\ StepsSettled
-----------------------------------------------------------------------------
(* Types. *)

LEMMA NoValues ==
    /\ NoTurn \in TurnStates /\ NewTurn \in TurnStates /\ NoWork \in Work
    /\ NoStream \in Streams /\ NoResult \in StepResults
    /\ 0 \in Steps /\ Unnamed \in 0..NumCalls
<1>1. 0 \in Steps /\ Unnamed \in 0..NumCalls /\ 0 \in 0..NumCalls
  BY BoundsAssumption DEF Steps, Unnamed
<1>2. NoTurn \in TurnStates
  BY <1>1 DEF NoTurn, TurnStates, Phases
<1>3. NewTurn \in TurnStates
  BY <1>2 DEF NewTurn, TurnStates, Phases
<1>4. NoWork \in Work
  BY <1>1 DEF NoWork, Work
<1>5. NoStream \in Streams /\ NoResult \in StepResults
  BY <1>1 DEF NoStream, Streams, NoResult, StepResults
<1> QED  BY <1>1, <1>2, <1>3, <1>4, <1>5

LEMMA TurnFields ==
    ASSUME NEW m \in TurnStates
    PROVE  /\ m.phase \in Phases /\ m.step \in Steps /\ m.tools \in BOOLEAN
           /\ m.limited \in BOOLEAN /\ m.pending \in 0..NumCalls
           /\ m.resume \in {"tools", "async"}
           /\ m.leaf \in SUBSET (Steps \X (0..Reply))
  BY DEF TurnStates

LEMMA TurnUpdates ==
    ASSUME NEW m \in TurnStates
    PROVE  /\ \A p \in Phases : [m EXCEPT !.phase = p] \in TurnStates
           /\ \A x \in SUBSET (Steps \X (0..Reply)) :
                [m EXCEPT !.leaf = x] \in TurnStates
           /\ \A x \in SUBSET (Steps \X (0..Reply)), c \in 0..NumCalls :
                [m EXCEPT !.leaf = x, !.pending = c] \in TurnStates
           /\ \A p \in Phases, c \in 0..NumCalls :
                [m EXCEPT !.phase = p, !.pending = c] \in TurnStates
           /\ \A p \in Phases, c \in 0..NumCalls, r \in {"tools", "async"} :
                [m EXCEPT !.phase = p, !.pending = c, !.resume = r]
                    \in TurnStates
           /\ \A x \in BOOLEAN, y \in BOOLEAN :
                [m EXCEPT !.tools = x, !.limited = y] \in TurnStates
           /\ \A x \in BOOLEAN : [m EXCEPT !.tools = x] \in TurnStates
           /\ \A p \in Phases, t \in Steps, c \in 0..NumCalls,
                 x \in BOOLEAN, y \in BOOLEAN :
                [m EXCEPT !.phase = p, !.step = t, !.pending = c,
                          !.tools = x, !.limited = y] \in TurnStates
  BY DEF TurnStates

\* A result or a reply on the chain changes no other field.
LEMMA LeafGrows ==
    ASSUME NEW m \in TurnStates, NEW c \in 0..Reply
    PROVE  LET n == [m EXCEPT !.leaf = @ \cup {<<m.step, c>>}]
           IN  /\ n \in TurnStates
               /\ n.phase = m.phase /\ n.step = m.step
               /\ n.pending = m.pending
<1>1. m.leaf \cup {<<m.step, c>>} \in SUBSET (Steps \X (0..Reply))
  BY TurnFields
<1>2. [m EXCEPT !.leaf = @ \cup {<<m.step, c>>}] \in TurnStates
  BY <1>1, TurnUpdates
<1> QED  BY <1>2 DEF TurnStates

LEMMA CallNames ==
    /\ Calls \subseteq 0..NumCalls /\ 0..NumCalls \subseteq 0..Reply
    /\ Reply \in 0..Reply
  BY BoundsAssumption DEF Calls, Reply

LEMMA RecordTypes ==
    ASSUME TypeOK, NEW c \in 0..NumCalls, Record(c)
    PROVE  /\ recorded' \in [Steps -> [0..NumCalls -> 0..2]]
           /\ mem' \in TurnStates
           /\ mem'.phase = mem.phase /\ mem'.step = mem.step
           /\ mem'.pending = mem.pending
<1>1. mem.step \in Steps /\ mem \in TurnStates
  BY TurnFields DEF TypeOK
<1>2. recorded' \in [Steps -> [0..NumCalls -> 0..2]]
  BY <1>1 DEF TypeOK, Record, OneMore
<1> QED  BY <1>1, <1>2, LeafGrows, CallNames DEF Record

LEMMA PauseTypes ==
    ASSUME TypeOK, NEW c \in 0..NumCalls, NEW phase \in {"tools", "async"},
           Pause(c, phase)
    PROVE  /\ turn' \in TurnStates /\ mem' \in TurnStates /\ work' \in Work
           /\ answered' \in BOOLEAN /\ pc' \in Places /\ context' \in Contexts
<1>1. turn' \in TurnStates
  BY TurnUpdates DEF TypeOK, Pause, Phases
<1> QED  BY <1>1, NoValues DEF Pause, Places, Contexts

LEMMA TRequestCompletion ==
    ASSUME TurnInv, RequestCompletion
    PROVE TypeOK'
  BY NoValues DEF TurnInv, TypeOK, RequestCompletion, disk, process, past,
       Places, LoopPlaces

LEMMA TReceiveChunk ==
    ASSUME TurnInv, ReceiveChunk
    PROVE TypeOK'
  BY DEF TurnInv, TypeOK, ReceiveChunk, disk, process, past, Places,
       LoopPlaces, Streams

LEMMA TLoadAsync ==
    ASSUME TurnInv, LoadAsync
    PROVE TypeOK'
  BY DEF TurnInv, TypeOK, LoadAsync, disk, process, past, Places, LoopPlaces

LEMMA TRecoveredAll ==
    ASSUME TurnInv, RecoveredAll
    PROVE TypeOK'
  BY DEF TurnInv, TypeOK, RecoveredAll, disk, process, past, Places, LoopPlaces

LEMMA TSubmitAnswer ==
    ASSUME TurnInv, SubmitAnswer
    PROVE TypeOK'
  BY DEF TurnInv, TypeOK, SubmitAnswer, disk, process, past, Places, LoopPlaces

LEMMA TCancel ==
    ASSUME TurnInv, Cancel
    PROVE TypeOK'
  BY DEF TurnInv, TypeOK, Cancel, disk, process, past, Places, LoopPlaces,
       Contexts

LEMMA TDeleteTurnState ==
    ASSUME TurnInv, DeleteTurnState
    PROVE TypeOK'
  BY NoValues DEF TurnInv, TypeOK, DeleteTurnState, disk, process, past,
       Places, LoopPlaces, Contexts

LEMMA TFinalizeTurn ==
    ASSUME TurnInv, FinalizeTurn
    PROVE TypeOK'
  BY DEF TurnInv, TypeOK, FinalizeTurn, disk, process, past, Places, LoopPlaces

LEMMA TSaveStepResult ==
    ASSUME TurnInv, SaveStepResult
    PROVE TypeOK'
  BY TurnFields DEF TurnInv, TypeOK, SaveStepResult, disk, process, past,
       Places, LoopPlaces, StepResults, Streams

LEMMA TPrepareStep ==
    ASSUME TurnInv, PrepareStep
    PROVE TypeOK'
  BY TurnFields, TurnUpdates DEF TurnInv, TypeOK, PrepareStep, disk, process,
       past, Places, LoopPlaces

LEMMA TAnswerResult ==
    ASSUME TurnInv, AnswerResult
    PROVE TypeOK'
  BY RecordTypes, TurnFields, NoValues DEF TurnInv, TypeOK, AnswerResult,
       disk, process, past, Places, LoopPlaces

LEMMA TAnswerQuestion ==
    ASSUME TurnInv, AnswerQuestion
    PROVE TypeOK'
  BY PauseTypes, TurnFields DEF TurnInv, TypeOK, AnswerQuestion, disk,
       process, past, Places, LoopPlaces

LEMMA TLoadTools ==
    ASSUME TurnInv, LoadTools
    PROVE TypeOK'
<1>1. (\E c \in 0..NumCalls : recorded[mem.step][c] > 0) \in BOOLEAN
  OBVIOUS
<1>2. async[mem.step] \in SUBSET Calls
  BY TurnFields DEF TurnInv, TypeOK
<1>3. \A x \in BOOLEAN, S \in SUBSET Calls :
        [NoWork EXCEPT !.had = x, !.async = S] \in Work
  BY NoValues DEF Work
<1>4. work' \in Work
  BY <1>1, <1>2, <1>3 DEF LoadTools
<1> QED  BY <1>4
         DEF TurnInv, TypeOK, LoadTools, disk, past, Places, LoopPlaces

LEMMA TRanToResult ==
    ASSUME TurnInv, RanToResult
    PROVE TypeOK'
<1>1. work.call \in 0..NumCalls /\ work' \in Work
  BY NoValues DEF TurnInv, TypeOK, RanToResult, Work
<1> QED  BY <1>1, RecordTypes
         DEF TurnInv, TypeOK, RanToResult, past, Places, LoopPlaces

LEMMA TCrash ==
    ASSUME TurnInv, Crash \/ Fail
    PROVE TypeOK'
<1>1. faults' \in 0..MaxFaults
  BY BoundsAssumption DEF TurnInv, TypeOK, Crash, Fail
<1>2. recover' \in BOOLEAN
  BY DEF TurnInv, TypeOK, Crash, Fail
<1>3. context' \in Contexts /\ pc' \in Places
  BY DEF TurnInv, TypeOK, Crash, Fail, Contexts, Places
<1>4. mem' \in TurnStates /\ work' \in Work
  BY NoValues DEF TurnInv, TypeOK, Crash, Fail
<1> QED  BY <1>1, <1>2, <1>3, <1>4 DEF TurnInv, TypeOK, Crash, Fail, disk

LEMMA TNew ==
    ASSUME TurnInv, StartTurn
    PROVE TypeOK'
<1>1. result' \in [Steps -> StepResults] /\ async' \in [Steps -> SUBSET Calls]
      /\ marked' \in [Steps -> SUBSET Calls]
  BY NoValues DEF StartTurn
<1>2. runs' \in [Steps -> [Calls -> Nat]]
      /\ recorded' \in [Steps -> [0..NumCalls -> 0..2]]
  BY DEF StartTurn
<1>3. faults' \in 0..MaxFaults
  BY BoundsAssumption DEF StartTurn
<1> QED  BY <1>1, <1>2, <1>3, NoValues
         DEF TypeOK, StartTurn, Places, LoopPlaces, Contexts

LEMMA TCancelledStream ==
    ASSUME TurnInv, CancelledStream
    PROVE TypeOK'
<1>1. [there |-> TRUE, calls |-> 0, saved |-> FALSE, listed |-> TRUE]
        \in StepResults
  BY BoundsAssumption DEF StepResults
<1>2. result' \in [Steps -> StepResults]
  BY <1>1 DEF TurnInv, TypeOK, CancelledStream
<1> QED  BY <1>2 DEF TurnInv, TypeOK, CancelledStream, Places, LoopPlaces, past

LEMMA TCancelCalls ==
    ASSUME TurnInv, CancelCalls \/ FinalizeAsync
    PROVE TypeOK'
<1>1. recorded' \in [Steps -> [0..NumCalls -> 0..2]] /\ mem' \in TurnStates
  BY RecordTypes, CallNames DEF TurnInv, TypeOK, CancelCalls, FinalizeAsync
<1>2. marked' \in [Steps -> SUBSET Calls]
  <2>1. CASE CancelCalls
    BY <2>1 DEF TurnInv, TypeOK, CancelCalls, past
  <2>2. CASE FinalizeAsync /\ marked' = marked
    BY <2>2 DEF TurnInv, TypeOK
  <2>3. CASE FinalizeAsync /\ marked' /= marked
    <3>1. PICK c \in Calls :
            marked' = [marked EXCEPT ![mem.step] = @ \cup {c}]
      BY <2>3 DEF FinalizeAsync
    <3> QED  BY <3>1 DEF TurnInv, TypeOK
  <2> QED  BY <2>1, <2>2, <2>3
<1>3. pc' \in Places
  BY DEF TurnInv, TypeOK, CancelCalls, FinalizeAsync, Places, LoopPlaces
<1> QED  BY <1>1, <1>2, <1>3
         DEF TurnInv, TypeOK, CancelCalls, FinalizeAsync, past

LEMMA TFinalizeTools ==
    ASSUME TurnInv, FinalizeTools \/ DecideStep
    PROVE TypeOK'
<1>1. [mem EXCEPT !.phase = "async"] \in TurnStates
      /\ [mem EXCEPT !.phase = "tools"] \in TurnStates
  BY TurnUpdates DEF TurnInv, TypeOK, Phases
<1>2. turn' \in TurnStates /\ mem' \in TurnStates
  BY <1>1 DEF TurnInv, TypeOK, FinalizeTools, DecideStep
<1>3. pc' \in Places
  BY DEF FinalizeTools, DecideStep, Places, LoopPlaces
<1> QED  BY <1>2, <1>3 DEF TurnInv, TypeOK, FinalizeTools, DecideStep, past

LEMMA TAdvanceStep ==
    ASSUME TurnInv, AdvanceStep
    PROVE TypeOK'
<1>1. mem \in TurnStates /\ mem.step \in Steps /\ mem.step = turn.step
  BY TurnFields DEF TurnInv, TypeOK, AdvanceStep, Agrees
<1>2. turn.step < LastStep
  BY <1>1 DEF TurnInv, AdvanceStep, InPhase, Completed
<1>3. mem.step + 1 \in Steps
  BY <1>1, <1>2, BoundsAssumption DEF Steps
<1>4. mem.tools \in BOOLEAN /\ mem.limited \in BOOLEAN
  BY <1>1, TurnFields
<1>5. mem' \in TurnStates
  <2> DEFINE last == mem.limited /\ mem.step + 1 >= LimitSteps
             m(x, y) == [mem EXCEPT !.phase = "streaming", !.step = mem.step + 1,
                                    !.pending = Unnamed, !.tools = x,
                                    !.limited = y]
  <2>1. \A x \in BOOLEAN, y \in BOOLEAN : m(x, y) \in TurnStates
    BY <1>1, <1>3, NoValues, TurnUpdates DEF Phases
  <2>2. (mem.tools /\ ~last) \in BOOLEAN /\ (mem.limited /\ ~last) \in BOOLEAN
    OBVIOUS
  <2>3. mem' = m(mem.tools /\ ~last, mem.limited /\ ~last)
    BY DEF AdvanceStep
  <2> QED  BY <2>1, <2>2, <2>3
<1> QED  BY <1>5, NoValues DEF TurnInv, TypeOK, AdvanceStep, past, Places,
     LoopPlaces

LEMMA TLeaveAnswer ==
    ASSUME TurnInv, LeaveAnswer
    PROVE TypeOK'
<1>1. mem.resume \in Phases /\ "async" \in Phases
  BY TurnFields DEF TurnInv, TypeOK, Phases
<1>2. (IF pc = "answered" THEN mem.resume ELSE "async") \in Phases
  BY <1>1
<1>3. mem' \in TurnStates
  BY <1>2, NoValues, TurnUpdates DEF TurnInv, TypeOK, LeaveAnswer
<1>4. pc' \in Places
  BY DEF LeaveAnswer, PlaceOf, Places, LoopPlaces
<1> QED  BY <1>3, <1>4 DEF TurnInv, TypeOK, LeaveAnswer, past

LEMMA TSaveReply ==
    ASSUME TurnInv, SaveReply
    PROVE TypeOK'
<1>1. mem' \in TurnStates
  BY LeafGrows, CallNames DEF TurnInv, TypeOK, SaveReply
<1>2. result' \in [Steps -> StepResults]
  BY DEF TurnInv, TypeOK, SaveReply, StepResults
<1> QED  BY <1>1, <1>2 DEF TurnInv, TypeOK, SaveReply, past, Places, LoopPlaces

LEMMA TWaitOver ==
    ASSUME TurnInv, WaitOver
    PROVE TypeOK'
<1>1. work.pause \in 0..NumCalls /\ work.call \in 0..NumCalls
  BY DEF TurnInv, TypeOK, Work
<1>2. (IF work.call = Unnamed THEN "async" ELSE "tools") \in {"tools", "async"}
  OBVIOUS
<1>3. /\ turn' \in TurnStates /\ mem' \in TurnStates /\ work' \in Work
      /\ answered' \in BOOLEAN /\ pc' \in Places /\ context' \in Contexts
  <2>1. CASE work.pause /= Unnamed
    BY <1>1, <1>2, <2>1, PauseTypes DEF TurnInv, WaitOver
  <2>2. CASE work.pause = Unnamed /\ work.call /= Unnamed
    BY <1>1, <2>2, PauseTypes DEF TurnInv, WaitOver
  <2>3. CASE work.pause = Unnamed /\ work.call = Unnamed
    BY <2>3 DEF TurnInv, TypeOK, WaitOver, Places, LoopPlaces
  <2> QED  BY <2>1, <2>2, <2>3
<1> QED  BY <1>3 DEF TurnInv, TypeOK, WaitOver, past

LEMMA TRanToQuestion ==
    ASSUME TurnInv, RanToQuestion
    PROVE TypeOK'
<1>1. work.call \in 0..NumCalls
  BY DEF TurnInv, TypeOK, Work
<1>2. CASE work.handles = {}
  BY <1>1, <1>2, PauseTypes DEF TurnInv, TypeOK, RanToQuestion, past
<1>3. CASE work.handles /= {}
  BY <1>3 DEF TurnInv, TypeOK, RanToQuestion, disk, past, Places, LoopPlaces
<1> QED  BY <1>2, <1>3

LEMMA TRanToAsync ==
    ASSUME TurnInv, RanToAsync
    PROVE TypeOK'
<1>1. work \in Work /\ work.call \in CallsOf(turn.step) /\ turn.step \in Steps
      /\ mem.step = turn.step
  BY TurnFields DEF TurnInv, TypeOK, Working, RanToAsync, Agrees
<1>2. CallsOf(turn.step) \subseteq Calls
  BY <1>1, BoundsAssumption DEF TurnInv, TypeOK, CallsOf, StepResults, Calls
<1>3. work.async \cup {work.call} \in SUBSET Calls
      /\ work.handles \cup {work.call} \in SUBSET Calls
  BY <1>1, <1>2 DEF Work
<1>4. work' \in Work
  BY <1>3, NoValues DEF TurnInv, TypeOK, RanToAsync, Work
<1>5. async' \in [Steps -> SUBSET Calls]
  BY <1>1, <1>3 DEF TurnInv, TypeOK, RanToAsync
<1> QED  BY <1>4, <1>5 DEF TurnInv, TypeOK, RanToAsync, past, Places,
     LoopPlaces

LEMMA TAnswerAsync ==
    ASSUME TurnInv, AnswerAsync
    PROVE TypeOK'
<1>1. mem.pending \in CallsOf(turn.step) /\ turn.step \in Steps
      /\ mem.step = turn.step
  BY TurnFields
     DEF TurnInv, TypeOK, AnswerAsync, InPhase, Agrees, NamesCalls, LoopPlaces
<1>2. CallsOf(turn.step) \subseteq Calls
  BY <1>1, BoundsAssumption DEF TurnInv, TypeOK, CallsOf, StepResults, Calls
<1>3. work' \in Work
  BY <1>1, <1>2, NoValues DEF TurnInv, TypeOK, AnswerAsync, Work, NoWork
<1>4. async' \in [Steps -> SUBSET Calls]
  BY <1>1, <1>2 DEF TurnInv, TypeOK, AnswerAsync
<1> QED  BY <1>3, <1>4 DEF TurnInv, TypeOK, AnswerAsync, past, Places,
     LoopPlaces

LEMMA TCancelWaitingTurn ==
    ASSUME TurnInv, CancelWaitingTurn
    PROVE TypeOK'
<1>1. turn \in TurnStates /\ turn.step \in Steps /\ turn.pending \in 0..NumCalls
      /\ turn.leaf \in SUBSET (Steps \X (0..Reply))
  BY TurnFields DEF TurnInv, TypeOK
<1>2. turn.leaf \cup {<<turn.step, turn.pending>>} \in SUBSET (Steps \X (0..Reply))
  BY <1>1, CallNames
<1>3. mem' \in TurnStates
  BY <1>1, <1>2, NoValues, TurnUpdates DEF CancelWaitingTurn
<1>4. recorded' \in [Steps -> [0..NumCalls -> 0..2]]
  BY <1>1 DEF TurnInv, TypeOK, CancelWaitingTurn, OneMore
<1> QED  BY <1>3, <1>4 DEF TurnInv, TypeOK, CancelWaitingTurn, past, Places

LEMMA TResume ==
    ASSUME TurnInv, NEW close \in BOOLEAN, Resume(close)
    PROVE TypeOK'
<1>1. [there |-> TRUE, calls |-> stream.calls, saved |-> FALSE,
       listed |-> FALSE] \in StepResults
  BY DEF TurnInv, TypeOK, StepResults, Streams
<1>2. result' \in [Steps -> StepResults]
  BY <1>1 DEF TurnInv, TypeOK, Resume
<1>3. pc' \in Places
  BY DEF Resume, PlaceOf, Places, LoopPlaces
<1> QED  BY <1>2, <1>3, NoValues DEF TurnInv, TypeOK, Resume, Contexts

LEMMA TFinishStream ==
    ASSUME TurnInv, NEW n \in 0..NumCalls, FinishStream(n)
    PROVE TypeOK'
  BY DEF TurnInv, TypeOK, FinishStream, Streams, past, Places, LoopPlaces

LEMMA TContinue ==
    ASSUME TurnInv, NEW c \in Calls, NEW phase \in {"tools", "async"},
           ContinueAsync(c, phase)
    PROVE TypeOK'
<1>1. CASE Record(c) /\ UNCHANGED <<turn, stream, result, async, answered, pc,
                                    work, context, recover, past>>
  BY <1>1, RecordTypes, CallNames DEF TurnInv, TypeOK, past
<1>2. CASE /\ work' = [work EXCEPT !.handles = @ \cup {c}]
           /\ UNCHANGED <<disk, pc, mem, context, recover, past>>
  BY <1>2 DEF TurnInv, TypeOK, Work, disk, past
<1>3. CASE /\ Pause(c, phase)
           /\ UNCHANGED <<stream, result, recorded, async, recover, past>>
  BY <1>3, PauseTypes, CallNames DEF TurnInv, TypeOK, past
<1> QED  BY <1>1, <1>2, <1>3 DEF ContinueAsync

LEMMA TMark ==
    ASSUME TurnInv, NEW c \in Calls, MarkInterrupted(c)
    PROVE TypeOK'
<1>1. recorded' \in [Steps -> [0..NumCalls -> 0..2]] /\ mem' \in TurnStates
  BY RecordTypes, CallNames DEF TurnInv, MarkInterrupted
<1>2. work' \in Work
  BY DEF TurnInv, TypeOK, MarkInterrupted, Work
<1>3. marked' \in [Steps -> SUBSET Calls]
  BY TurnFields DEF TurnInv, TypeOK, MarkInterrupted
<1> QED  BY <1>1, <1>2, <1>3 DEF TurnInv, TypeOK, MarkInterrupted

LEMMA TExecute ==
    ASSUME TurnInv, NEW c \in Calls, Execute(c)
    PROVE TypeOK'
<1>1. runs' \in [Steps -> [Calls -> Nat]]
  BY TurnFields DEF TurnInv, TypeOK, Execute
<1>2. work' \in Work
  BY CallNames DEF TurnInv, TypeOK, Execute, Work
<1> QED  BY <1>1, <1>2
         DEF TurnInv, TypeOK, Execute, disk, Places, LoopPlaces

LEMMA TAwait ==
    ASSUME TurnInv, NEW c \in Calls, AwaitResult(c) \/ AwaitQuestion(c)
    PROVE TypeOK'
<1>1. work' \in Work
  BY CallNames DEF TurnInv, TypeOK, AwaitResult, AwaitQuestion, Work
<1>2. CASE AwaitResult(c)
  BY <1>1, <1>2, RecordTypes, CallNames DEF TurnInv, TypeOK, AwaitResult, past
<1>3. CASE AwaitQuestion(c)
  BY <1>1, <1>3 DEF TurnInv, TypeOK, AwaitQuestion, disk, past
<1> QED  BY <1>2, <1>3

-----------------------------------------------------------------------------
(* The inductive invariant. *)

LEMMA Shape ==
    ASSUME TurnInv
    PROVE  /\ turn \in TurnStates /\ mem \in TurnStates
           /\ turn.step \in Steps /\ mem.step \in Steps
           /\ turn.pending \in 0..NumCalls
           /\ result \in [Steps -> StepResults]
           /\ \A t \in Steps : result[t].calls \in 0..NumCalls
           /\ recorded \in [Steps -> [0..NumCalls -> 0..2]]
           /\ runs \in [Steps -> [Calls -> Nat]]
           /\ async \in [Steps -> SUBSET Calls]
           /\ Calls \subseteq 0..NumCalls
           /\ stream.calls \in 0..NumCalls
           /\ stream.state \in {"none", "partial", "complete"}
           /\ \A t \in Steps : CallsOf(t) \subseteq Calls
           /\ Unnamed \notin Calls
<1>1. \A t \in Steps : result[t].calls \in 0..NumCalls
  BY DEF TurnInv, TypeOK, StepResults
<1>2. \A t \in Steps : CallsOf(t) \subseteq Calls
  BY <1>1, BoundsAssumption DEF CallsOf, Calls
<1> QED  BY <1>1, <1>2, TurnFields, CallNames
         DEF TurnInv, TypeOK, Streams, Calls, Unnamed

\* What Fresh, StepsSettled and NamesCalls say of the files.
FilesInv ==
    /\ Fresh /\ StepsSettled
    /\ \A t \in Steps :
         Settled(t) \subseteq CallsOf(t) /\ async[t] \subseteq CallsOf(t)

LEMMA KeptFiles ==
    ASSUME TurnInv, UNCHANGED <<result, recorded, async, runs>>,
           turn'.step = turn.step,
           turn.phase = "none" => turn'.phase = "none"
    PROVE  FilesInv'
  BY Shape DEF TurnInv, FilesInv, Fresh, StepsSettled, NamesCalls, CallsOf,
     Settled

\* A result for a call of the step settles that call and no other.
LEMMA RecordedFiles ==
    ASSUME TurnInv, NEW c \in CallsOf(turn.step) \cup {Unnamed},
           recorded' = [recorded EXCEPT ![turn.step][c] = OneMore(@)],
           turn'.step = turn.step, turn.phase /= "none",
           UNCHANGED <<result, async, runs>>
    PROVE  /\ FilesInv'
           /\ Settled(turn.step)' =
                Settled(turn.step) \cup (IF c = Unnamed THEN {} ELSE {c})
           /\ \A t \in Steps : Settled(t) \subseteq Settled(t)'
<1>1. \A t \in Steps : t /= turn.step => recorded'[t] = recorded[t]
  BY Shape
<1>2. \A d \in Calls :
        recorded'[turn.step][d] =
            IF d = c THEN OneMore(recorded[turn.step][d])
            ELSE recorded[turn.step][d]
  BY Shape
<1>3. \A n \in 0..2 : OneMore(n) > 0
  BY DEF OneMore
<1>4. c /= Unnamed => c \in Calls
  BY Shape
<1>5. Settled(turn.step)' =
        Settled(turn.step) \cup (IF c = Unnamed THEN {} ELSE {c})
  <2>1. Settled(turn.step)' = {d \in Calls : recorded'[turn.step][d] > 0}
    BY DEF Settled
  <2>2. \A d \in Calls : recorded[turn.step][d] \in 0..2
    <3>1. recorded[turn.step] \in [0..NumCalls -> 0..2]
      BY Shape
    <3> QED  BY <3>1, Shape
  <2>3. \A d \in Calls :
          recorded'[turn.step][d] > 0 <=>
            (d = c \/ recorded[turn.step][d] > 0)
    BY <1>2, <1>3, <2>2
  <2> QED  BY <2>1, <2>3, <1>4, Shape DEF Settled
<1>6. \A t \in Steps : t /= turn.step => Settled(t)' = Settled(t)
  BY <1>1 DEF Settled
<1>7. \A t \in Steps : CallsOf(t)' = CallsOf(t)
  BY DEF CallsOf
<1>8. Fresh'
  BY <1>1, Shape DEF TurnInv, Fresh, Steps
<1>9. StepsSettled'
  BY <1>5, <1>6, <1>7 DEF TurnInv, StepsSettled
<1>10. \A t \in Steps :
         Settled(t)' \subseteq CallsOf(t)' /\ async'[t] \subseteq CallsOf(t)'
  BY <1>5, <1>6, <1>7 DEF TurnInv, NamesCalls
<1> QED  BY <1>5, <1>6, <1>8, <1>9, <1>10 DEF FilesInv

\* The completion of the step becomes known, or is marked as saved.
LEMMA CompletedFiles ==
    ASSUME TurnInv, NEW r \in StepResults,
           result' = [result EXCEPT ![turn.step] = r],
           r.there, ~result[turn.step].there \/ r.calls = result[turn.step].calls,
           turn'.step = turn.step, turn.phase /= "none",
           UNCHANGED <<recorded, async, runs>>
    PROVE  FilesInv' /\ CallsOf(turn.step) \subseteq CallsOf(turn.step)'
<1>1. ~result[turn.step].there => CallsOf(turn.step) = {}
  BY Shape DEF TurnInv, Completed, CallsOf
<1>2. result'[turn.step] = r /\ \A t \in Steps : t /= turn.step => result'[t] = result[t]
  BY Shape
<1>3. CallsOf(turn.step) \subseteq CallsOf(turn.step)'
      /\ \A t \in Steps : t /= turn.step => CallsOf(t)' = CallsOf(t)
  BY <1>1, <1>2 DEF CallsOf
<1>4. \A t \in Steps : Settled(t)' = Settled(t)
  BY DEF Settled
<1>5. Fresh'
  BY <1>2, Shape DEF TurnInv, Fresh, Steps
<1>6. StepsSettled'
  BY <1>2, <1>3, <1>4, Shape DEF TurnInv, StepsSettled, Steps
<1> QED  BY <1>3, <1>4, <1>5, <1>6 DEF TurnInv, NamesCalls, FilesInv

\* Leaving a phase changes neither the step nor the pending call.
LEMMA PhaseChange ==
    ASSUME NEW m \in TurnStates, NEW p \in Phases
    PROVE  LET n == [m EXCEPT !.phase = p]
           IN  n.phase = p /\ n.step = m.step /\ n.pending = m.pending
  BY DEF TurnStates

LEMMA PhaseAndPendingChange ==
    ASSUME NEW m \in TurnStates, NEW p \in Phases, NEW c \in 0..NumCalls
    PROVE  LET n == [m EXCEPT !.phase = p, !.pending = c]
           IN  n.phase = p /\ n.step = m.step /\ n.pending = c
  BY DEF TurnStates

LEMMA PauseChange ==
    ASSUME TurnInv, NEW c \in 0..NumCalls, NEW phase \in {"tools", "async"},
           Pause(c, phase)
    PROVE  turn'.phase = "answer" /\ turn'.step = mem.step /\ turn'.pending = c
  BY Shape DEF Pause, TurnStates

\* Pausing for a question about a call of the step.
LEMMA PauseInv ==
    ASSUME TurnInv, NEW c \in CallsOf(turn.step),
           NEW phase \in {"tools", "async"}, Pause(c, phase),
           pc /= "idle",
           turn.phase \in {"tools", "async", "answer"},
           UNCHANGED <<stream, result, recorded, async, recover, past>>
    PROVE  TurnInv'
<1>1. c \in 0..NumCalls /\ c /= Unnamed
  BY Shape
<1>2. turn'.phase = "answer" /\ turn'.step = turn.step /\ turn'.pending = c
      /\ pc' = "idle" /\ work' = NoWork
  BY <1>1, PauseChange DEF TurnInv, Agrees, Pause
<1>3. FilesInv' /\ CallsOf(turn.step)' = CallsOf(turn.step)
  BY <1>2, KeptFiles DEF CallsOf, past
<1>4. TypeOK'
  BY <1>1, PauseTypes DEF TurnInv, TypeOK, past
<1>5. Agrees' /\ InPhase'
  BY <1>1, <1>2 DEF Agrees, InPhase, LoopPlaces, StreamingPlaces
<1>6. Completed'
  BY <1>2 DEF TurnInv, Completed
<1>7. Working'
  BY <1>2 DEF Working, NoWork, LoopPlaces
<1> QED  BY <1>2, <1>3, <1>4, <1>5, <1>6, <1>7
         DEF TurnInv, FilesInv, NamesCalls

LEMMA IRequestCompletion ==
    ASSUME TurnInv, RequestCompletion
    PROVE TurnInv'
<1>1. Agrees'
  BY Shape DEF TurnInv, Agrees, InPhase, Completed, NamesCalls, Working,
       RequestCompletion, disk, process, past, Pause, Record, NoTurn,
       NewTurn, NoResult, NoStream, NoWork, LoopPlaces, StreamingPlaces,
       Cancelled, Missing, Open, IsNext, PlaceOf, Unnamed, ToRecover,
       ContinueAsync, CallsOf, Settled
<1>2. InPhase'
  BY Shape DEF TurnInv, Agrees, InPhase, Completed, NamesCalls, Working,
       RequestCompletion, disk, process, past, Pause, Record, NoTurn,
       NewTurn, NoResult, NoStream, NoWork, LoopPlaces, StreamingPlaces,
       Cancelled, Missing, Open, IsNext, PlaceOf, Unnamed, ToRecover,
       ContinueAsync, CallsOf, Settled
<1>3. Completed'
  BY Shape DEF TurnInv, Agrees, InPhase, Completed, NamesCalls, Working,
       RequestCompletion, disk, process, past, Pause, Record, NoTurn,
       NewTurn, NoResult, NoStream, NoWork, LoopPlaces, StreamingPlaces,
       Cancelled, Missing, Open, IsNext, PlaceOf, Unnamed, ToRecover,
       ContinueAsync, CallsOf, Settled
<1>4. Working'
  BY Shape DEF TurnInv, Agrees, InPhase, Completed, NamesCalls, Working,
       RequestCompletion, disk, process, past, Pause, Record, NoTurn,
       NewTurn, NoResult, NoStream, NoWork, LoopPlaces, StreamingPlaces,
       Cancelled, Missing, Open, IsNext, PlaceOf, Unnamed, ToRecover,
       ContinueAsync, CallsOf, Settled
<1>5. FilesInv'
  BY KeptFiles, Shape DEF TurnInv, Agrees, InPhase, Completed, NamesCalls,
       Working, RequestCompletion, disk, past, Pause, NoTurn, LoopPlaces
<1>6. (turn.pending /= Unnamed => turn.pending \in CallsOf(turn.step))'
  BY Shape DEF TurnInv, Agrees, InPhase, Completed, NamesCalls, Working,
       RequestCompletion, disk, process, past, Pause, Record, NoTurn,
       NewTurn, NoResult, NoStream, NoWork, LoopPlaces, StreamingPlaces,
       Cancelled, Missing, Open, IsNext, PlaceOf, Unnamed, ToRecover,
       ContinueAsync, CallsOf, Settled
<1> QED  BY <1>1, <1>2, <1>3, <1>4, <1>5, <1>6, TRequestCompletion
   DEF TurnInv, FilesInv, NamesCalls

LEMMA IReceiveChunk ==
    ASSUME TurnInv, ReceiveChunk
    PROVE TurnInv'
<1>1. Agrees'
  BY Shape DEF TurnInv, Agrees, InPhase, Completed, NamesCalls, Working,
       ReceiveChunk, disk, process, past, Pause, Record, NoTurn, NewTurn,
       NoResult, NoStream, NoWork, LoopPlaces, StreamingPlaces, Cancelled,
       Missing, Open, IsNext, PlaceOf, Unnamed, ToRecover, ContinueAsync,
       CallsOf, Settled
<1>2. InPhase'
  BY Shape DEF TurnInv, Agrees, InPhase, Completed, NamesCalls, Working,
       ReceiveChunk, disk, process, past, Pause, Record, NoTurn, NewTurn,
       NoResult, NoStream, NoWork, LoopPlaces, StreamingPlaces, Cancelled,
       Missing, Open, IsNext, PlaceOf, Unnamed, ToRecover, ContinueAsync,
       CallsOf, Settled
<1>3. Completed'
  BY Shape DEF TurnInv, Agrees, InPhase, Completed, NamesCalls, Working,
       ReceiveChunk, disk, process, past, Pause, Record, NoTurn, NewTurn,
       NoResult, NoStream, NoWork, LoopPlaces, StreamingPlaces, Cancelled,
       Missing, Open, IsNext, PlaceOf, Unnamed, ToRecover, ContinueAsync,
       CallsOf, Settled
<1>4. Working'
  BY Shape DEF TurnInv, Agrees, InPhase, Completed, NamesCalls, Working,
       ReceiveChunk, disk, process, past, Pause, Record, NoTurn, NewTurn,
       NoResult, NoStream, NoWork, LoopPlaces, StreamingPlaces, Cancelled,
       Missing, Open, IsNext, PlaceOf, Unnamed, ToRecover, ContinueAsync,
       CallsOf, Settled
<1>5. FilesInv'
  BY KeptFiles, Shape DEF TurnInv, Agrees, InPhase, Completed, NamesCalls,
       Working, ReceiveChunk, disk, past, Pause, NoTurn, LoopPlaces
<1>6. (turn.pending /= Unnamed => turn.pending \in CallsOf(turn.step))'
  BY Shape DEF TurnInv, Agrees, InPhase, Completed, NamesCalls, Working,
       ReceiveChunk, disk, process, past, Pause, Record, NoTurn, NewTurn,
       NoResult, NoStream, NoWork, LoopPlaces, StreamingPlaces, Cancelled,
       Missing, Open, IsNext, PlaceOf, Unnamed, ToRecover, ContinueAsync,
       CallsOf, Settled
<1> QED  BY <1>1, <1>2, <1>3, <1>4, <1>5, <1>6, TReceiveChunk DEF TurnInv,
     FilesInv, NamesCalls

LEMMA ILoadTools ==
    ASSUME TurnInv, LoadTools
    PROVE TurnInv'
<1>1. Agrees'
  BY Shape DEF TurnInv, Agrees, InPhase, Completed, NamesCalls, Working,
       LoadTools, disk, process, past, Pause, Record, NoTurn, NewTurn,
       NoResult, NoStream, NoWork, LoopPlaces, StreamingPlaces, Cancelled,
       Missing, Open, IsNext, PlaceOf, Unnamed, ToRecover, ContinueAsync,
       CallsOf, Settled
<1>2. InPhase'
  BY Shape DEF TurnInv, Agrees, InPhase, Completed, NamesCalls, Working,
       LoadTools, disk, process, past, Pause, Record, NoTurn, NewTurn,
       NoResult, NoStream, NoWork, LoopPlaces, StreamingPlaces, Cancelled,
       Missing, Open, IsNext, PlaceOf, Unnamed, ToRecover, ContinueAsync,
       CallsOf, Settled
<1>3. Completed'
  BY Shape DEF TurnInv, Agrees, InPhase, Completed, NamesCalls, Working,
       LoadTools, disk, process, past, Pause, Record, NoTurn, NewTurn,
       NoResult, NoStream, NoWork, LoopPlaces, StreamingPlaces, Cancelled,
       Missing, Open, IsNext, PlaceOf, Unnamed, ToRecover, ContinueAsync,
       CallsOf, Settled
<1>4. Working'
  BY Shape DEF TurnInv, Agrees, InPhase, Completed, NamesCalls, Working,
       LoadTools, disk, process, past, Pause, Record, NoTurn, NewTurn,
       NoResult, NoStream, NoWork, LoopPlaces, StreamingPlaces, Cancelled,
       Missing, Open, IsNext, PlaceOf, Unnamed, ToRecover, ContinueAsync,
       CallsOf, Settled
<1>5. FilesInv'
  BY KeptFiles, Shape DEF TurnInv, Agrees, InPhase, Completed, NamesCalls,
       Working, LoadTools, disk, past, Pause, NoTurn, LoopPlaces
<1>6. (turn.pending /= Unnamed => turn.pending \in CallsOf(turn.step))'
  BY Shape DEF TurnInv, Agrees, InPhase, Completed, NamesCalls, Working,
       LoadTools, disk, process, past, Pause, Record, NoTurn, NewTurn,
       NoResult, NoStream, NoWork, LoopPlaces, StreamingPlaces, Cancelled,
       Missing, Open, IsNext, PlaceOf, Unnamed, ToRecover, ContinueAsync,
       CallsOf, Settled
<1> QED  BY <1>1, <1>2, <1>3, <1>4, <1>5, <1>6, TLoadTools DEF TurnInv,
     FilesInv, NamesCalls

LEMMA ILoadAsync ==
    ASSUME TurnInv, LoadAsync
    PROVE TurnInv'
<1>1. Agrees'
  BY Shape DEF TurnInv, Agrees, InPhase, Completed, NamesCalls, Working,
       LoadAsync, disk, process, past, Pause, Record, NoTurn, NewTurn,
       NoResult, NoStream, NoWork, LoopPlaces, StreamingPlaces, Cancelled,
       Missing, Open, IsNext, PlaceOf, Unnamed, ToRecover, ContinueAsync,
       CallsOf, Settled
<1>2. InPhase'
  BY Shape DEF TurnInv, Agrees, InPhase, Completed, NamesCalls, Working,
       LoadAsync, disk, process, past, Pause, Record, NoTurn, NewTurn,
       NoResult, NoStream, NoWork, LoopPlaces, StreamingPlaces, Cancelled,
       Missing, Open, IsNext, PlaceOf, Unnamed, ToRecover, ContinueAsync,
       CallsOf, Settled
<1>3. Completed'
  BY Shape DEF TurnInv, Agrees, InPhase, Completed, NamesCalls, Working,
       LoadAsync, disk, process, past, Pause, Record, NoTurn, NewTurn,
       NoResult, NoStream, NoWork, LoopPlaces, StreamingPlaces, Cancelled,
       Missing, Open, IsNext, PlaceOf, Unnamed, ToRecover, ContinueAsync,
       CallsOf, Settled
<1>4. Working'
  BY Shape DEF TurnInv, Agrees, InPhase, Completed, NamesCalls, Working,
       LoadAsync, disk, process, past, Pause, Record, NoTurn, NewTurn,
       NoResult, NoStream, NoWork, LoopPlaces, StreamingPlaces, Cancelled,
       Missing, Open, IsNext, PlaceOf, Unnamed, ToRecover, ContinueAsync,
       CallsOf, Settled
<1>5. FilesInv'
  BY KeptFiles, Shape DEF TurnInv, Agrees, InPhase, Completed, NamesCalls,
       Working, LoadAsync, disk, past, Pause, NoTurn, LoopPlaces
<1>6. (turn.pending /= Unnamed => turn.pending \in CallsOf(turn.step))'
  BY Shape DEF TurnInv, Agrees, InPhase, Completed, NamesCalls, Working,
       LoadAsync, disk, process, past, Pause, Record, NoTurn, NewTurn,
       NoResult, NoStream, NoWork, LoopPlaces, StreamingPlaces, Cancelled,
       Missing, Open, IsNext, PlaceOf, Unnamed, ToRecover, ContinueAsync,
       CallsOf, Settled
<1> QED  BY <1>1, <1>2, <1>3, <1>4, <1>5, <1>6, TLoadAsync DEF TurnInv,
     FilesInv, NamesCalls

LEMMA IRecoveredAll ==
    ASSUME TurnInv, RecoveredAll
    PROVE TurnInv'
<1>1. Agrees'
  BY Shape DEF TurnInv, Agrees, InPhase, Completed, NamesCalls, Working,
       RecoveredAll, disk, process, past, Pause, Record, NoTurn, NewTurn,
       NoResult, NoStream, NoWork, LoopPlaces, StreamingPlaces, Cancelled,
       Missing, Open, IsNext, PlaceOf, Unnamed, ToRecover, ContinueAsync,
       CallsOf, Settled
<1>2. InPhase'
  BY Shape DEF TurnInv, Agrees, InPhase, Completed, NamesCalls, Working,
       RecoveredAll, disk, process, past, Pause, Record, NoTurn, NewTurn,
       NoResult, NoStream, NoWork, LoopPlaces, StreamingPlaces, Cancelled,
       Missing, Open, IsNext, PlaceOf, Unnamed, ToRecover, ContinueAsync,
       CallsOf, Settled
<1>3. Completed'
  BY Shape DEF TurnInv, Agrees, InPhase, Completed, NamesCalls, Working,
       RecoveredAll, disk, process, past, Pause, Record, NoTurn, NewTurn,
       NoResult, NoStream, NoWork, LoopPlaces, StreamingPlaces, Cancelled,
       Missing, Open, IsNext, PlaceOf, Unnamed, ToRecover, ContinueAsync,
       CallsOf, Settled
<1>4. Working'
  BY Shape DEF TurnInv, Agrees, InPhase, Completed, NamesCalls, Working,
       RecoveredAll, disk, process, past, Pause, Record, NoTurn, NewTurn,
       NoResult, NoStream, NoWork, LoopPlaces, StreamingPlaces, Cancelled,
       Missing, Open, IsNext, PlaceOf, Unnamed, ToRecover, ContinueAsync,
       CallsOf, Settled
<1>5. FilesInv'
  BY KeptFiles, Shape DEF TurnInv, Agrees, InPhase, Completed, NamesCalls,
       Working, RecoveredAll, disk, past, Pause, NoTurn, LoopPlaces
<1>6. (turn.pending /= Unnamed => turn.pending \in CallsOf(turn.step))'
  BY Shape DEF TurnInv, Agrees, InPhase, Completed, NamesCalls, Working,
       RecoveredAll, disk, process, past, Pause, Record, NoTurn, NewTurn,
       NoResult, NoStream, NoWork, LoopPlaces, StreamingPlaces, Cancelled,
       Missing, Open, IsNext, PlaceOf, Unnamed, ToRecover, ContinueAsync,
       CallsOf, Settled
<1> QED  BY <1>1, <1>2, <1>3, <1>4, <1>5, <1>6, TRecoveredAll DEF TurnInv,
     FilesInv, NamesCalls

LEMMA IFinalizeTurn ==
    ASSUME TurnInv, FinalizeTurn
    PROVE TurnInv'
<1>1. Agrees'
  BY Shape DEF TurnInv, Agrees, InPhase, Completed, NamesCalls, Working,
       FinalizeTurn, disk, process, past, Pause, Record, NoTurn, NewTurn,
       NoResult, NoStream, NoWork, LoopPlaces, StreamingPlaces, Cancelled,
       Missing, Open, IsNext, PlaceOf, Unnamed, ToRecover, ContinueAsync,
       CallsOf, Settled
<1>2. InPhase'
  BY Shape DEF TurnInv, Agrees, InPhase, Completed, NamesCalls, Working,
       FinalizeTurn, disk, process, past, Pause, Record, NoTurn, NewTurn,
       NoResult, NoStream, NoWork, LoopPlaces, StreamingPlaces, Cancelled,
       Missing, Open, IsNext, PlaceOf, Unnamed, ToRecover, ContinueAsync,
       CallsOf, Settled
<1>3. Completed'
  BY Shape DEF TurnInv, Agrees, InPhase, Completed, NamesCalls, Working,
       FinalizeTurn, disk, process, past, Pause, Record, NoTurn, NewTurn,
       NoResult, NoStream, NoWork, LoopPlaces, StreamingPlaces, Cancelled,
       Missing, Open, IsNext, PlaceOf, Unnamed, ToRecover, ContinueAsync,
       CallsOf, Settled
<1>4. Working'
  BY Shape DEF TurnInv, Agrees, InPhase, Completed, NamesCalls, Working,
       FinalizeTurn, disk, process, past, Pause, Record, NoTurn, NewTurn,
       NoResult, NoStream, NoWork, LoopPlaces, StreamingPlaces, Cancelled,
       Missing, Open, IsNext, PlaceOf, Unnamed, ToRecover, ContinueAsync,
       CallsOf, Settled
<1>5. FilesInv'
  BY KeptFiles, Shape DEF TurnInv, Agrees, InPhase, Completed, NamesCalls,
       Working, FinalizeTurn, disk, past, Pause, NoTurn, LoopPlaces
<1>6. (turn.pending /= Unnamed => turn.pending \in CallsOf(turn.step))'
  BY Shape DEF TurnInv, Agrees, InPhase, Completed, NamesCalls, Working,
       FinalizeTurn, disk, process, past, Pause, Record, NoTurn, NewTurn,
       NoResult, NoStream, NoWork, LoopPlaces, StreamingPlaces, Cancelled,
       Missing, Open, IsNext, PlaceOf, Unnamed, ToRecover, ContinueAsync,
       CallsOf, Settled
<1> QED  BY <1>1, <1>2, <1>3, <1>4, <1>5, <1>6, TFinalizeTurn DEF TurnInv,
     FilesInv, NamesCalls

LEMMA ISubmitAnswer ==
    ASSUME TurnInv, SubmitAnswer
    PROVE TurnInv'
<1>1. Agrees'
  BY Shape DEF TurnInv, Agrees, InPhase, Completed, NamesCalls, Working,
       SubmitAnswer, disk, process, past, Pause, Record, NoTurn, NewTurn,
       NoResult, NoStream, NoWork, LoopPlaces, StreamingPlaces, Cancelled,
       Missing, Open, IsNext, PlaceOf, Unnamed, ToRecover, ContinueAsync,
       CallsOf, Settled
<1>2. InPhase'
  BY Shape DEF TurnInv, Agrees, InPhase, Completed, NamesCalls, Working,
       SubmitAnswer, disk, process, past, Pause, Record, NoTurn, NewTurn,
       NoResult, NoStream, NoWork, LoopPlaces, StreamingPlaces, Cancelled,
       Missing, Open, IsNext, PlaceOf, Unnamed, ToRecover, ContinueAsync,
       CallsOf, Settled
<1>3. Completed'
  BY Shape DEF TurnInv, Agrees, InPhase, Completed, NamesCalls, Working,
       SubmitAnswer, disk, process, past, Pause, Record, NoTurn, NewTurn,
       NoResult, NoStream, NoWork, LoopPlaces, StreamingPlaces, Cancelled,
       Missing, Open, IsNext, PlaceOf, Unnamed, ToRecover, ContinueAsync,
       CallsOf, Settled
<1>4. Working'
  BY Shape DEF TurnInv, Agrees, InPhase, Completed, NamesCalls, Working,
       SubmitAnswer, disk, process, past, Pause, Record, NoTurn, NewTurn,
       NoResult, NoStream, NoWork, LoopPlaces, StreamingPlaces, Cancelled,
       Missing, Open, IsNext, PlaceOf, Unnamed, ToRecover, ContinueAsync,
       CallsOf, Settled
<1>5. FilesInv'
  BY KeptFiles, Shape DEF TurnInv, Agrees, InPhase, Completed, NamesCalls,
       Working, SubmitAnswer, disk, past, Pause, NoTurn, LoopPlaces
<1>6. (turn.pending /= Unnamed => turn.pending \in CallsOf(turn.step))'
  BY Shape DEF TurnInv, Agrees, InPhase, Completed, NamesCalls, Working,
       SubmitAnswer, disk, process, past, Pause, Record, NoTurn, NewTurn,
       NoResult, NoStream, NoWork, LoopPlaces, StreamingPlaces, Cancelled,
       Missing, Open, IsNext, PlaceOf, Unnamed, ToRecover, ContinueAsync,
       CallsOf, Settled
<1> QED  BY <1>1, <1>2, <1>3, <1>4, <1>5, <1>6, TSubmitAnswer DEF TurnInv,
     FilesInv, NamesCalls

LEMMA ICancel ==
    ASSUME TurnInv, Cancel
    PROVE TurnInv'
<1>1. Agrees'
  BY Shape DEF TurnInv, Agrees, InPhase, Completed, NamesCalls, Working,
       Cancel, disk, process, past, Pause, Record, NoTurn, NewTurn, NoResult,
       NoStream, NoWork, LoopPlaces, StreamingPlaces, Cancelled, Missing,
       Open, IsNext, PlaceOf, Unnamed, ToRecover, ContinueAsync, CallsOf,
       Settled
<1>2. InPhase'
  BY Shape DEF TurnInv, Agrees, InPhase, Completed, NamesCalls, Working,
       Cancel, disk, process, past, Pause, Record, NoTurn, NewTurn, NoResult,
       NoStream, NoWork, LoopPlaces, StreamingPlaces, Cancelled, Missing,
       Open, IsNext, PlaceOf, Unnamed, ToRecover, ContinueAsync, CallsOf,
       Settled
<1>3. Completed'
  BY Shape DEF TurnInv, Agrees, InPhase, Completed, NamesCalls, Working,
       Cancel, disk, process, past, Pause, Record, NoTurn, NewTurn, NoResult,
       NoStream, NoWork, LoopPlaces, StreamingPlaces, Cancelled, Missing,
       Open, IsNext, PlaceOf, Unnamed, ToRecover, ContinueAsync, CallsOf,
       Settled
<1>4. Working'
  BY Shape DEF TurnInv, Agrees, InPhase, Completed, NamesCalls, Working,
       Cancel, disk, process, past, Pause, Record, NoTurn, NewTurn, NoResult,
       NoStream, NoWork, LoopPlaces, StreamingPlaces, Cancelled, Missing,
       Open, IsNext, PlaceOf, Unnamed, ToRecover, ContinueAsync, CallsOf,
       Settled
<1>5. FilesInv'
  BY KeptFiles, Shape DEF TurnInv, Agrees, InPhase, Completed, NamesCalls,
       Working, Cancel, disk, past, Pause, NoTurn, LoopPlaces
<1>6. (turn.pending /= Unnamed => turn.pending \in CallsOf(turn.step))'
  BY Shape DEF TurnInv, Agrees, InPhase, Completed, NamesCalls, Working,
       Cancel, disk, process, past, Pause, Record, NoTurn, NewTurn, NoResult,
       NoStream, NoWork, LoopPlaces, StreamingPlaces, Cancelled, Missing,
       Open, IsNext, PlaceOf, Unnamed, ToRecover, ContinueAsync, CallsOf,
       Settled
<1> QED  BY <1>1, <1>2, <1>3, <1>4, <1>5, <1>6, TCancel DEF TurnInv,
     FilesInv, NamesCalls

LEMMA ICrash ==
    ASSUME TurnInv, Crash
    PROVE TurnInv'
<1>1. Agrees'
  BY Shape DEF TurnInv, Agrees, InPhase, Completed, NamesCalls, Working,
       Crash, disk, process, past, Pause, Record, NoTurn, NewTurn, NoResult,
       NoStream, NoWork, LoopPlaces, StreamingPlaces, Cancelled, Missing,
       Open, IsNext, PlaceOf, Unnamed, ToRecover, ContinueAsync, CallsOf,
       Settled
<1>2. InPhase'
  BY Shape DEF TurnInv, Agrees, InPhase, Completed, NamesCalls, Working,
       Crash, disk, process, past, Pause, Record, NoTurn, NewTurn, NoResult,
       NoStream, NoWork, LoopPlaces, StreamingPlaces, Cancelled, Missing,
       Open, IsNext, PlaceOf, Unnamed, ToRecover, ContinueAsync, CallsOf,
       Settled
<1>3. Completed'
  BY Shape DEF TurnInv, Agrees, InPhase, Completed, NamesCalls, Working,
       Crash, disk, process, past, Pause, Record, NoTurn, NewTurn, NoResult,
       NoStream, NoWork, LoopPlaces, StreamingPlaces, Cancelled, Missing,
       Open, IsNext, PlaceOf, Unnamed, ToRecover, ContinueAsync, CallsOf,
       Settled
<1>4. Working'
  BY Shape DEF TurnInv, Agrees, InPhase, Completed, NamesCalls, Working,
       Crash, disk, process, past, Pause, Record, NoTurn, NewTurn, NoResult,
       NoStream, NoWork, LoopPlaces, StreamingPlaces, Cancelled, Missing,
       Open, IsNext, PlaceOf, Unnamed, ToRecover, ContinueAsync, CallsOf,
       Settled
<1>5. FilesInv'
  BY KeptFiles, Shape DEF TurnInv, Agrees, InPhase, Completed, NamesCalls,
       Working, Crash, disk, past, Pause, NoTurn, LoopPlaces
<1>6. (turn.pending /= Unnamed => turn.pending \in CallsOf(turn.step))'
  BY Shape DEF TurnInv, Agrees, InPhase, Completed, NamesCalls, Working,
       Crash, disk, process, past, Pause, Record, NoTurn, NewTurn, NoResult,
       NoStream, NoWork, LoopPlaces, StreamingPlaces, Cancelled, Missing,
       Open, IsNext, PlaceOf, Unnamed, ToRecover, ContinueAsync, CallsOf,
       Settled
<1> QED  BY <1>1, <1>2, <1>3, <1>4, <1>5, <1>6, TCrash DEF TurnInv, FilesInv,
     NamesCalls

LEMMA IFail ==
    ASSUME TurnInv, Fail
    PROVE TurnInv'
<1>1. Agrees'
  BY Shape DEF TurnInv, Agrees, InPhase, Completed, NamesCalls, Working,
       Fail, disk, process, past, Pause, Record, NoTurn, NewTurn, NoResult,
       NoStream, NoWork, LoopPlaces, StreamingPlaces, Cancelled, Missing,
       Open, IsNext, PlaceOf, Unnamed, ToRecover, ContinueAsync, CallsOf,
       Settled
<1>2. InPhase'
  BY Shape DEF TurnInv, Agrees, InPhase, Completed, NamesCalls, Working,
       Fail, disk, process, past, Pause, Record, NoTurn, NewTurn, NoResult,
       NoStream, NoWork, LoopPlaces, StreamingPlaces, Cancelled, Missing,
       Open, IsNext, PlaceOf, Unnamed, ToRecover, ContinueAsync, CallsOf,
       Settled
<1>3. Completed'
  BY Shape DEF TurnInv, Agrees, InPhase, Completed, NamesCalls, Working,
       Fail, disk, process, past, Pause, Record, NoTurn, NewTurn, NoResult,
       NoStream, NoWork, LoopPlaces, StreamingPlaces, Cancelled, Missing,
       Open, IsNext, PlaceOf, Unnamed, ToRecover, ContinueAsync, CallsOf,
       Settled
<1>4. Working'
  BY Shape DEF TurnInv, Agrees, InPhase, Completed, NamesCalls, Working,
       Fail, disk, process, past, Pause, Record, NoTurn, NewTurn, NoResult,
       NoStream, NoWork, LoopPlaces, StreamingPlaces, Cancelled, Missing,
       Open, IsNext, PlaceOf, Unnamed, ToRecover, ContinueAsync, CallsOf,
       Settled
<1>5. FilesInv'
  BY KeptFiles, Shape DEF TurnInv, Agrees, InPhase, Completed, NamesCalls,
       Working, Fail, disk, past, Pause, NoTurn, LoopPlaces
<1>6. (turn.pending /= Unnamed => turn.pending \in CallsOf(turn.step))'
  BY Shape DEF TurnInv, Agrees, InPhase, Completed, NamesCalls, Working,
       Fail, disk, process, past, Pause, Record, NoTurn, NewTurn, NoResult,
       NoStream, NoWork, LoopPlaces, StreamingPlaces, Cancelled, Missing,
       Open, IsNext, PlaceOf, Unnamed, ToRecover, ContinueAsync, CallsOf,
       Settled
<1> QED  BY <1>1, <1>2, <1>3, <1>4, <1>5, <1>6, TCrash DEF TurnInv, FilesInv,
     NamesCalls

LEMMA IPrepareStep ==
    ASSUME TurnInv, PrepareStep
    PROVE TurnInv'
<1>1. Agrees'
  BY Shape DEF TurnInv, Agrees, InPhase, Completed, NamesCalls, Working,
       PrepareStep, disk, process, past, Pause, Record, NoTurn, NewTurn,
       NoResult, NoStream, NoWork, LoopPlaces, StreamingPlaces, Cancelled,
       Missing, Open, IsNext, PlaceOf, Unnamed, ToRecover, ContinueAsync,
       CallsOf, Settled
<1>2. InPhase'
  BY Shape DEF TurnInv, Agrees, InPhase, Completed, NamesCalls, Working,
       PrepareStep, disk, process, past, Pause, Record, NoTurn, NewTurn,
       NoResult, NoStream, NoWork, LoopPlaces, StreamingPlaces, Cancelled,
       Missing, Open, IsNext, PlaceOf, Unnamed, ToRecover, ContinueAsync,
       CallsOf, Settled
<1>3. Completed'
  BY Shape DEF TurnInv, Agrees, InPhase, Completed, NamesCalls, Working,
       PrepareStep, disk, process, past, Pause, Record, NoTurn, NewTurn,
       NoResult, NoStream, NoWork, LoopPlaces, StreamingPlaces, Cancelled,
       Missing, Open, IsNext, PlaceOf, Unnamed, ToRecover, ContinueAsync,
       CallsOf, Settled
<1>4. Working'
  BY Shape DEF TurnInv, Agrees, InPhase, Completed, NamesCalls, Working,
       PrepareStep, disk, process, past, Pause, Record, NoTurn, NewTurn,
       NoResult, NoStream, NoWork, LoopPlaces, StreamingPlaces, Cancelled,
       Missing, Open, IsNext, PlaceOf, Unnamed, ToRecover, ContinueAsync,
       CallsOf, Settled
<1>5. FilesInv'
  BY KeptFiles, Shape DEF TurnInv, Agrees, InPhase, Completed, NamesCalls,
       Working, PrepareStep, disk, past, Pause, NoTurn, LoopPlaces
<1>6. (turn.pending /= Unnamed => turn.pending \in CallsOf(turn.step))'
  BY Shape DEF TurnInv, Agrees, InPhase, Completed, NamesCalls, Working,
       PrepareStep, disk, process, past, Pause, Record, NoTurn, NewTurn,
       NoResult, NoStream, NoWork, LoopPlaces, StreamingPlaces, Cancelled,
       Missing, Open, IsNext, PlaceOf, Unnamed, ToRecover, ContinueAsync,
       CallsOf, Settled
<1> QED  BY <1>1, <1>2, <1>3, <1>4, <1>5, <1>6, TPrepareStep DEF TurnInv,
     FilesInv, NamesCalls

LEMMA IPhaseSteps ==
    ASSUME TurnInv, DecideStep \/ FinalizeTools
    PROVE TurnInv'
<1>1. /\ mem.step = turn.step /\ mem.pending = turn.pending
      /\ turn.phase \in {"streaming", "tools"} /\ turn.pending = Unnamed
  BY DEF TurnInv, DecideStep, FinalizeTools, Agrees, InPhase, LoopPlaces,
     StreamingPlaces
<1>2. \/ turn' = turn /\ mem' = mem
      \/ turn' = mem' /\ mem' = [mem EXCEPT !.phase = "tools"]
      \/ turn' = mem' /\ mem' = [mem EXCEPT !.phase = "async"]
  BY DEF DecideStep, FinalizeTools
<1>3. \A p \in {"tools", "async"} : mem' = [mem EXCEPT !.phase = p] =>
        mem'.phase = p /\ mem'.step = mem.step /\ mem'.pending = mem.pending
  BY PhaseChange, Shape DEF Phases
<1>5. turn'.step = turn.step /\ turn'.pending = Unnamed
      /\ (turn' = mem' \/ (turn' = turn /\ mem' = mem))
  BY <1>1, <1>2, <1>3
<1>6. FilesInv' /\ CallsOf(turn.step)' = CallsOf(turn.step)
  BY <1>1, <1>5, KeptFiles DEF DecideStep, FinalizeTools, CallsOf, past
<1>7. CASE DecideStep /\ result[mem.step].calls = 0
  <2>1. turn' = turn /\ mem' = mem /\ pc' = "finish" /\ pc = "decide"
        /\ work' = work
    BY <1>7 DEF DecideStep
  <2>2. Agrees' /\ InPhase' /\ Working'
    BY <1>1, <1>6, <2>1
       DEF TurnInv, Agrees, InPhase, Working, LoopPlaces, StreamingPlaces
  <2>3. Completed'
    BY <2>1, <1>7 DEF TurnInv, Completed, DecideStep
  <2> QED  BY <1>6, <2>1, <2>2, <2>3, TFinalizeTools
           DEF TurnInv, FilesInv, NamesCalls
<1>8. CASE DecideStep /\ result[mem.step].calls /= 0
  <2>1. turn' = mem' /\ mem'.phase = "tools" /\ pc' = "loadTools" /\ pc = "decide"
        /\ work' = work
    BY <1>8, <1>3 DEF DecideStep
  <2>2. Agrees' /\ InPhase'
    BY <1>5, <2>1 DEF Agrees, InPhase, LoopPlaces, StreamingPlaces
  <2>3. Working'
    BY <1>5, <1>6, <2>1 DEF TurnInv, Working, LoopPlaces
  <2>4. Completed'
    BY <1>1, <1>5, <1>8, <2>1, Shape DEF TurnInv, Completed, DecideStep
  <2> QED  BY <1>5, <1>6, <2>2, <2>3, <2>4, TFinalizeTools
           DEF TurnInv, FilesInv, NamesCalls
<1>9. CASE FinalizeTools /\ work.handles = {}
  <2>1. turn' = turn /\ mem' = mem /\ pc' = "nextStep" /\ pc = "tools"
        /\ work' = work /\ CallsOf(turn.step) \subseteq Settled(turn.step)
    BY <1>1, <1>9 DEF FinalizeTools, Open, Missing
  <2>2. Agrees' /\ InPhase' /\ Working'
    BY <1>1, <1>6, <2>1
       DEF TurnInv, Agrees, InPhase, Working, LoopPlaces, StreamingPlaces
  <2>3. Completed'
    BY <2>1, <1>9 DEF TurnInv, Completed, FinalizeTools, CallsOf, Settled
  <2> QED  BY <1>6, <2>1, <2>2, <2>3, TFinalizeTools
           DEF TurnInv, FilesInv, NamesCalls
<1>10. CASE FinalizeTools /\ work.handles /= {}
  <2>1. turn' = mem' /\ mem'.phase = "async" /\ pc' = "loadAsync" /\ pc = "tools"
        /\ work' = work
    BY <1>10, <1>3 DEF FinalizeTools
  <2>2. Agrees' /\ InPhase'
    BY <1>5, <2>1 DEF Agrees, InPhase, LoopPlaces, StreamingPlaces
  <2>3. Working'
    BY <1>5, <1>6, <2>1 DEF TurnInv, Working, LoopPlaces
  <2>4. Completed'
    BY <1>1, <1>5, <1>10, <2>1, Shape
       DEF TurnInv, Completed, FinalizeTools, InPhase
  <2> QED  BY <1>5, <1>6, <2>2, <2>3, <2>4, TFinalizeTools
           DEF TurnInv, FilesInv, NamesCalls
<1> QED  BY <1>7, <1>8, <1>9, <1>10

LEMMA IRanToQuestion ==
    ASSUME TurnInv, RanToQuestion
    PROVE TurnInv'
<1>1. work.call \in CallsOf(turn.step) /\ turn.phase = "tools"
  BY DEF TurnInv, RanToQuestion, Working, InPhase
<1>2. CASE work.handles = {}
  BY <1>1, <1>2, PauseInv DEF RanToQuestion
<1>3. CASE work.handles /= {}
  <2>1. pc = "ran" /\ pc' = "wait" /\ UNCHANGED <<disk, mem, work, past>>
        /\ work.call /= Unnamed
    BY <1>3 DEF RanToQuestion, TurnInv, Working
  <2>2. Agrees' /\ InPhase'
    BY <1>1, <2>1 DEF TurnInv, Agrees, InPhase, LoopPlaces, StreamingPlaces,
         disk
  <2>3. Completed' /\ Working'
    BY <2>1 DEF TurnInv, Completed, Working, disk, CallsOf, LoopPlaces
  <2>4. FilesInv'
    BY <2>1, KeptFiles DEF disk, past
  <2> QED  BY <2>1, <2>2, <2>3, <2>4, TRanToQuestion
           DEF TurnInv, FilesInv, NamesCalls, disk, CallsOf
<1> QED  BY <1>2, <1>3

LEMMA IWaitOver ==
    ASSUME TurnInv, WaitOver
    PROVE TurnInv'
<1>1. /\ work.pause /= Unnamed => work.pause \in CallsOf(turn.step)
      /\ work.call /= Unnamed => work.call \in CallsOf(turn.step)
      /\ turn.phase = (IF work.call = Unnamed THEN "async" ELSE "tools")
  BY DEF TurnInv, WaitOver, Working, InPhase
<1>2. CASE work.pause /= Unnamed
  <2>1. (IF work.call = Unnamed THEN "async" ELSE "tools") \in {"tools", "async"}
    OBVIOUS
  <2> QED  BY <1>1, <1>2, <2>1, PauseInv DEF WaitOver
<1>3. CASE work.pause = Unnamed /\ work.call /= Unnamed
  BY <1>1, <1>3, PauseInv DEF WaitOver
<1>4. CASE work.pause = Unnamed /\ work.call = Unnamed
  <2>1. pc = "wait" /\ pc' = "finalizeAsync" /\ turn.phase = "async"
        /\ UNCHANGED <<disk, mem, work, past>>
    BY <1>1, <1>4 DEF WaitOver, disk
  <2>2. Agrees' /\ InPhase'
    BY <2>1 DEF TurnInv, Agrees, InPhase, LoopPlaces, StreamingPlaces, disk
  <2>3. Completed' /\ Working'
    BY <1>4, <2>1 DEF TurnInv, Completed, Working, disk, CallsOf, LoopPlaces
  <2>4. FilesInv'
    BY <2>1, KeptFiles DEF disk, past
  <2> QED  BY <2>1, <2>2, <2>3, <2>4, TWaitOver
           DEF TurnInv, FilesInv, NamesCalls, disk, CallsOf
<1> QED  BY <1>2, <1>3, <1>4

LEMMA IAnswerQuestion ==
    ASSUME TurnInv, AnswerQuestion
    PROVE TurnInv'
<1>1. mem.pending \in CallsOf(turn.step) /\ turn.phase = "answer"
  BY DEF TurnInv, AnswerQuestion, Agrees, InPhase, NamesCalls, LoopPlaces
<1>2. mem.resume \in {"tools", "async"}
  BY Shape, TurnFields
<1> QED  BY <1>1, <1>2, PauseInv DEF AnswerQuestion

LEMMA IContinue ==
    ASSUME TurnInv, NEW c \in CallsOf(turn.step),
           NEW phase \in {"tools", "async"},
           pc \in {"tools", "recoverAsync"}, ContinueAsync(c, phase)
    PROVE TurnInv'
<1>1. turn.phase \in {"tools", "async"} /\ mem.step = turn.step /\ c \in Calls
      /\ turn.step \in Steps
  BY Shape DEF TurnInv, InPhase, Agrees
<1>2. CASE Record(c) /\ UNCHANGED <<turn, stream, result, async, answered, pc,
                                    work, context, recover, past>>
  <2>1. FilesInv' /\ \A t \in Steps : Settled(t) \subseteq Settled(t)'
    BY <1>1, <1>2, RecordedFiles DEF Record, past
  <2>2. mem'.phase = mem.phase /\ mem'.step = mem.step /\ mem'.pending = mem.pending
    BY <1>1, <1>2, RecordTypes, CallNames DEF TurnInv
  <2>3. Agrees' /\ InPhase' /\ Working'
    BY <1>2, <2>2 DEF TurnInv, Agrees, InPhase, Working, CallsOf
  <2>4. Completed'
    BY <1>1, <1>2 DEF TurnInv, Completed
  <2> QED  BY <1>1, <1>2, <2>1, <2>3, <2>4, TContinue
           DEF TurnInv, FilesInv, NamesCalls, CallsOf
<1>3. CASE /\ work' = [work EXCEPT !.handles = @ \cup {c}]
           /\ UNCHANGED <<disk, pc, mem, context, recover, past>>
  <2>1. FilesInv'
    BY <1>3, KeptFiles DEF disk, past
  <2>2. /\ work'.handles = work.handles \cup {c} /\ work'.async = work.async
        /\ work'.call = work.call /\ work'.pause = work.pause
    BY <1>3 DEF TurnInv, TypeOK, Work
  <2>3. Agrees' /\ InPhase' /\ Completed' /\ Working'
    BY <1>1, <1>3, <2>2
       DEF TurnInv, Agrees, InPhase, Completed, Working, CallsOf, Settled, disk
  <2> QED  BY <1>1, <1>3, <2>1, <2>3, TContinue
           DEF TurnInv, FilesInv, NamesCalls, CallsOf, disk
<1>4. CASE /\ Pause(c, phase)
           /\ UNCHANGED <<stream, result, recorded, async, recover, past>>
  BY <1>1, <1>4, PauseInv
<1> QED  BY <1>2, <1>3, <1>4 DEF ContinueAsync

LEMMA ILeaveAnswer ==
    ASSUME TurnInv, LeaveAnswer
    PROVE TurnInv'
<1> DEFINE q == IF pc = "answered" THEN mem.resume ELSE "async"
<1>1. q \in {"tools", "async"} /\ q \in Phases /\ Unnamed \in 0..NumCalls
  BY Shape, TurnFields, NoValues DEF Phases
<1>2. mem' = [mem EXCEPT !.phase = q, !.pending = Unnamed] /\ turn' = mem'
  BY DEF LeaveAnswer
<1> HIDE DEF q
<1>3. mem'.phase = q /\ mem'.step = mem.step /\ mem'.pending = Unnamed
  BY <1>1, <1>2, Shape, PhaseAndPendingChange
<1>4. mem.step = turn.step /\ turn.phase = "answer" /\ work' = work
      /\ work.call = Unnamed
  BY DEF TurnInv, LeaveAnswer, Agrees, InPhase, LoopPlaces, Working
<1>5. pc' = IF q = "tools" THEN "loadTools" ELSE "loadAsync"
  BY <1>1, <1>3 DEF LeaveAnswer, PlaceOf
<1>6. FilesInv' /\ CallsOf(turn.step)' = CallsOf(turn.step)
  BY <1>2, <1>3, <1>4, KeptFiles DEF LeaveAnswer, past, CallsOf
<1>7. Agrees' /\ InPhase'
  BY <1>1, <1>2, <1>3, <1>5 DEF Agrees, InPhase, LoopPlaces, StreamingPlaces
<1>8. Completed'
  BY <1>1, <1>2, <1>3, <1>4, <1>5 DEF TurnInv, Completed, LeaveAnswer
<1>9. Working'
  BY <1>4, <1>5, <1>6 DEF TurnInv, Working, LoopPlaces, LeaveAnswer
<1> QED  BY <1>2, <1>3, <1>6, <1>7, <1>8, <1>9, TLeaveAnswer
         DEF TurnInv, FilesInv, NamesCalls

LEMMA IDeleteTurnState ==
    ASSUME TurnInv, DeleteTurnState
    PROVE TurnInv'
<1>1. turn'.phase = "none" /\ turn'.step = 0 /\ turn'.pending = Unnamed
      /\ pc' = "idle" /\ work' = NoWork
  BY DEF DeleteTurnState, NoTurn
<1>2. UNCHANGED <<stream, result, recorded, async>>
  BY DEF DeleteTurnState
<1>3. \A t \in Steps : ~(t < 0) /\ CallsOf(t)' = CallsOf(t)
                       /\ Settled(t)' = Settled(t)
  BY <1>2 DEF Steps, CallsOf, Settled
<1>4. Completed'
  <2>1. turn.step < LastStep => 0 < LastStep
    BY Shape, BoundsAssumption DEF Steps
  <2> QED  BY <1>1, <1>2, <2>1 DEF TurnInv, Completed
<1>5. Agrees' /\ InPhase' /\ Working'
  BY <1>1 DEF Agrees, InPhase, Working, NoWork, LoopPlaces, StreamingPlaces
<1>6. Fresh' /\ StepsSettled' /\ NamesCalls'
  BY <1>1, <1>2, <1>3 DEF TurnInv, Fresh, StepsSettled, NamesCalls
<1> QED  BY <1>4, <1>5, <1>6, TDeleteTurnState DEF TurnInv

LEMMA IStart ==
    ASSUME TurnInv, StartTurn
    PROVE TurnInv'
<1>1. turn'.phase = "streaming" /\ turn'.step = 0 /\ turn'.pending = Unnamed
      /\ mem' = turn' /\ pc' = "stream" /\ work' = NoWork
      /\ stream'.calls = 0
  BY DEF StartTurn, NewTurn, NoTurn, NoStream
<1>2. \A t \in Steps : /\ result'[t] = NoResult /\ async'[t] = {}
                       /\ \A c \in Calls : recorded'[t][c] = 0 /\ runs'[t][c] = 0
  BY CallNames DEF StartTurn
<1>3. \A t \in Steps : Settled(t)' = {} /\ ~(t < 0) /\ result'[t].calls = 0
  BY <1>2 DEF Settled, Steps, NoResult
<1>4. Fresh' /\ StepsSettled' /\ NamesCalls'
  BY <1>1, <1>2, <1>3 DEF Fresh, StepsSettled, NamesCalls
<1>5. Agrees' /\ InPhase' /\ Completed' /\ Working'
  BY <1>1, <1>3
     DEF Agrees, InPhase, Completed, Working, NoWork, LoopPlaces,
         StreamingPlaces
<1> QED  BY <1>4, <1>5, TNew DEF TurnInv

LEMMA IResume ==
    ASSUME TurnInv, NEW close \in BOOLEAN, Resume(close)
    PROVE TurnInv'
<1>1. /\ turn' = turn /\ mem' = turn /\ work' = NoWork /\ turn.phase /= "none"
      /\ turn.phase = "answer" => turn.pending /= Unnamed
      /\ pc = "idle"
      /\ UNCHANGED <<stream, recorded, async, runs>>
  BY DEF Resume
<1> DEFINE lost == /\ turn.phase = "streaming" /\ ~result[turn.step].there
                   /\ stream.state /= "none"
           r == [there |-> TRUE, calls |-> stream.calls, saved |-> FALSE,
                 listed |-> FALSE]
<1>2. CASE lost
  <2>1. result' = [result EXCEPT ![turn.step] = r]
        /\ pc' = (IF stream.state = "complete" THEN "stream" ELSE "partial")
    BY <1>2 DEF Resume
  <2>2. r \in StepResults /\ r.there /\ r.calls = stream.calls
    BY Shape DEF StepResults
  <2>3. FilesInv'
    BY <1>1, <1>2, <2>1, <2>2, CompletedFiles
  <2>4. result'[turn.step] = r
        /\ \A t \in Steps : t /= turn.step => result'[t] = result[t]
    BY <2>1, Shape
  <2>5. Completed'
    BY <1>1, <1>2, <2>1, <2>2, <2>4, Shape DEF TurnInv, Completed
  <2>6. Agrees' /\ InPhase' /\ Working'
    BY <1>1, <1>2, <2>1
       DEF TurnInv, Agrees, InPhase, Working, NoWork, LoopPlaces,
           StreamingPlaces
  <2> QED  BY <1>1, <1>2, <2>3, <2>5, <2>6, TResume
           DEF TurnInv, FilesInv, NamesCalls, InPhase
<1>3. CASE ~lost
  <2>1. result' = result /\ pc' = PlaceOf(turn.phase)
    BY <1>3 DEF Resume
  <2>2. FilesInv'
    BY <1>1, <2>1, KeptFiles
  <2>3. Agrees' /\ InPhase' /\ Working'
    BY <1>1, <2>1
       DEF TurnInv, Agrees, InPhase, Working, NoWork, LoopPlaces, PlaceOf,
           StreamingPlaces
  <2>4. Completed'
    BY <1>1, <2>1 DEF TurnInv, Completed, PlaceOf
  <2> QED  BY <1>1, <2>1, <2>2, <2>3, <2>4, TResume
           DEF TurnInv, FilesInv, NamesCalls, CallsOf
<1> HIDE DEF lost, r
<1> QED  BY <1>2, <1>3

LEMMA IFinishStream ==
    ASSUME TurnInv, NEW n \in 0..NumCalls, FinishStream(n)
    PROVE TurnInv'
<1>1. /\ pc = "streaming" /\ pc' = "saveResult" /\ stream'.calls = n
      /\ UNCHANGED <<turn, result, recorded, async, mem, work, past>>
      /\ n > 0 => mem.step < LastStep
  BY DEF FinishStream
<1>2. turn.phase = "streaming" /\ mem.step = turn.step
  BY <1>1 DEF TurnInv, InPhase, Agrees, StreamingPlaces
<1>3. FilesInv'
  BY <1>1, KeptFiles DEF past
<1>4. Agrees' /\ InPhase' /\ Working'
  BY <1>1, <1>2
     DEF TurnInv, Agrees, InPhase, Working, LoopPlaces, StreamingPlaces,
          CallsOf
<1>5. Completed'
  BY <1>1, <1>2 DEF TurnInv, Completed
<1> QED  BY <1>1, <1>3, <1>4, <1>5, TFinishStream
         DEF TurnInv, FilesInv, NamesCalls, CallsOf

\* The completion is written: by the loop, or cut short by a cancellation.
LEMMA ISaveStepResult ==
    ASSUME TurnInv, SaveStepResult \/ CancelledStream
    PROVE TurnInv'
<1>1. /\ pc \in {"streaming", "saveResult"} /\ turn.phase = "streaming"
      /\ mem.step = turn.step /\ ~result[turn.step].there
      /\ UNCHANGED <<turn, stream, recorded, async, mem, work, runs>>
  BY DEF TurnInv, SaveStepResult, CancelledStream, InPhase, Agrees, Completed,
     StreamingPlaces, past
<1>2. CASE pc' = "save"
  <2>1. PICK n \in 0..NumCalls :
          /\ result' = [result EXCEPT ![turn.step] =
                 [there |-> TRUE, calls |-> n, saved |-> FALSE, listed |-> TRUE]]
          /\ n = 0 \/ n = stream.calls
    <3>1. CASE SaveStepResult
      BY <1>1, <3>1, Shape DEF SaveStepResult
    <3>2. CASE CancelledStream
      <4>1. result' = [result EXCEPT ![turn.step] =
                 [there |-> TRUE, calls |-> 0, saved |-> FALSE, listed |-> TRUE]]
        BY <1>1, <1>2, <3>2 DEF CancelledStream
      <4>2. 0 \in 0..NumCalls
        BY BoundsAssumption
      <4> QED  BY <4>1, <4>2
    <3> QED  BY <3>1, <3>2
  <2> DEFINE r == [there |-> TRUE, calls |-> n, saved |-> FALSE, listed |-> TRUE]
  <2>2. r \in StepResults /\ r.there /\ r.calls = n
    BY DEF StepResults
  <2>3. FilesInv'
    BY <1>1, <2>1, <2>2, CompletedFiles
  <2>4. result'[turn.step] = r
        /\ \A t \in Steps : t /= turn.step => result'[t] = result[t]
    BY <2>1, Shape
  <2>5. Completed'
    BY <1>1, <1>2, <2>1, <2>2, <2>4, Shape DEF TurnInv, Completed
  <2>6. CallsOf(turn.step) = {}
    BY <1>1, Shape DEF TurnInv, Completed, CallsOf
  <2>7. Agrees' /\ InPhase' /\ Working'
    BY <1>1, <1>2, <2>6
       DEF TurnInv, Agrees, InPhase, Working, LoopPlaces, StreamingPlaces
  <2> QED  BY <1>1, <2>3, <2>5, <2>7, TSaveStepResult, TCancelledStream
           DEF TurnInv, FilesInv, NamesCalls, InPhase
<1>3. CASE pc' = "finish"
  <2>1. result' = result
    BY <1>3 DEF SaveStepResult, CancelledStream
  <2>2. FilesInv'
    BY <1>1, <2>1, KeptFiles
  <2>3. Agrees' /\ InPhase' /\ Completed' /\ Working'
    BY <1>1, <1>3, <2>1
       DEF TurnInv, Agrees, InPhase, Completed, Working, LoopPlaces,
           StreamingPlaces, CallsOf
  <2> QED  BY <1>1, <2>1, <2>2, <2>3, TSaveStepResult, TCancelledStream
           DEF TurnInv, FilesInv, NamesCalls, CallsOf
<1> QED  BY <1>2, <1>3 DEF SaveStepResult, CancelledStream

LEMMA ISaveReply ==
    ASSUME TurnInv, SaveReply
    PROVE TurnInv'
<1>1. /\ pc \in {"save", "partial"} /\ pc' \in {"decide", "finish"}
      /\ pc = "partial" => pc' = "finish"
      /\ turn.phase = "streaming"
      /\ mem.step = turn.step /\ result[turn.step].there
      /\ UNCHANGED <<turn, stream, recorded, async, work, runs>>
  BY DEF TurnInv, SaveReply, InPhase, Agrees, Completed, StreamingPlaces, past
<1>2. mem'.phase = mem.phase /\ mem'.step = mem.step /\ mem'.pending = mem.pending
  BY LeafGrows, CallNames, Shape DEF SaveReply
<1> DEFINE r == [result[turn.step] EXCEPT !.saved = TRUE]
<1>3. result' = [result EXCEPT ![turn.step] = r]
  BY <1>1 DEF SaveReply
<1>4. r \in StepResults /\ r.there /\ r.calls = result[turn.step].calls
  BY <1>1, Shape DEF StepResults
<1>5. FilesInv'
  BY <1>1, <1>3, <1>4, CompletedFiles
<1>6. result'[turn.step] = r
      /\ \A t \in Steps : t /= turn.step => result'[t] = result[t]
  BY <1>3, Shape
<1> HIDE DEF r
<1>7. Completed'
  <2>1. \A t \in Steps :
           (result'[t].there <=> result[t].there) /\ result'[t].calls = result[t].calls
    <3> TAKE t \in Steps
    <3>1. CASE t = turn.step
      BY <3>1, <1>1, <1>4, <1>6
    <3>2. CASE t /= turn.step
      BY <3>2, <1>6
    <3> QED  BY <3>1, <3>2
  <2>2. /\ pc' \in {"decide", "finish"}
        /\ UNCHANGED <<turn, stream, recorded>>
    BY <1>1
  <2>3. Completed
    BY DEF TurnInv
  <2> QED  BY <1>1, <2>1, <2>2, <2>3, Shape DEF Completed
<1>8. CallsOf(turn.step)' = CallsOf(turn.step)
  BY <1>1, <1>4, <1>6 DEF CallsOf
<1>9. Agrees' /\ InPhase' /\ Working'
  BY <1>1, <1>2, <1>8
     DEF TurnInv, Agrees, InPhase, Working, LoopPlaces, StreamingPlaces
<1> QED  BY <1>1, <1>5, <1>7, <1>8, <1>9, TSaveReply
         DEF TurnInv, FilesInv, NamesCalls

\* A result is recorded for a call of the step, or for none; the loop goes on
\* at a place of the same kind.
LEMMA RecordKeeps ==
    ASSUME TurnInv, NEW c \in CallsOf(turn.step) \cup {Unnamed}, Record(c),
           pc \in LoopPlaces,
           UNCHANGED <<turn, stream, result, async, runs>>
    PROVE  /\ FilesInv'
           /\ mem'.phase = mem.phase /\ mem'.step = mem.step
           /\ mem'.pending = mem.pending
           /\ CallsOf(turn.step)' = CallsOf(turn.step)
           /\ Settled(turn.step)' =
                Settled(turn.step) \cup (IF c = Unnamed THEN {} ELSE {c})
           /\ (turn.pending /= Unnamed => turn.pending \in CallsOf(turn.step))'
<1>1. mem.step = turn.step /\ turn.phase /= "none" /\ c \in 0..NumCalls
  BY Shape, NoValues DEF TurnInv, Agrees, LoopPlaces
<1>2. recorded' = [recorded EXCEPT ![turn.step][c] = OneMore(@)]
  BY <1>1 DEF Record
<1>3. /\ FilesInv'
      /\ Settled(turn.step)' =
           Settled(turn.step) \cup (IF c = Unnamed THEN {} ELSE {c})
  BY <1>1, <1>2, RecordedFiles
<1>4. mem'.phase = mem.phase /\ mem'.step = mem.step
      /\ mem'.pending = mem.pending
  BY <1>1, RecordTypes DEF TurnInv
<1> QED  BY <1>3, <1>4 DEF TurnInv, NamesCalls, CallsOf

LEMMA IRanToResult ==
    ASSUME TurnInv, RanToResult
    PROVE TurnInv'
<1>1. /\ pc = "ran" /\ pc' = "tools" /\ turn.phase = "tools"
      /\ work.call \in CallsOf(turn.step) /\ Record(work.call)
      /\ work'.call = Unnamed /\ work'.handles = work.handles
      /\ work'.async = work.async /\ work'.pause = work.pause
      /\ UNCHANGED <<turn, stream, result, async, runs>>
  BY DEF TurnInv, TypeOK, Work, RanToResult, InPhase, Working, past
<1>2. pc \in LoopPlaces
  BY <1>1 DEF LoopPlaces
<1>3. Agrees' /\ InPhase' /\ Working'
  BY <1>1, <1>2, RecordKeeps
     DEF TurnInv, Agrees, InPhase, Working, LoopPlaces, StreamingPlaces
<1>4. Completed'
  BY <1>1 DEF TurnInv, Completed
<1> QED  BY <1>1, <1>2, <1>3, <1>4, RecordKeeps, TRanToResult
         DEF TurnInv, FilesInv, NamesCalls

LEMMA ICancelCalls ==
    ASSUME TurnInv, CancelCalls \/ FinalizeAsync
    PROVE TurnInv'
<1>1. /\ pc \in {"tools", "finalizeAsync"} /\ pc \in LoopPlaces
      /\ turn.phase \in {"tools", "async"} /\ mem.step = turn.step
      /\ UNCHANGED <<turn, stream, result, async, runs, work>>
  BY DEF TurnInv, CancelCalls, FinalizeAsync, InPhase, Agrees, past, LoopPlaces
<1>2. CASE Missing = {}
  <2>1. /\ UNCHANGED <<recorded, mem>>
        /\ pc = "tools" => pc' = "finish"
        /\ pc = "finalizeAsync" => pc' = "nextStep"
    BY <1>2 DEF CancelCalls, FinalizeAsync
  <2>2. FilesInv' /\ CallsOf(turn.step) \subseteq Settled(turn.step)
    BY <1>1, <1>2, <2>1, KeptFiles DEF Missing
  <2>3. Agrees' /\ InPhase' /\ Working'
    BY <1>1, <2>1
       DEF TurnInv, Agrees, InPhase, Working, LoopPlaces, StreamingPlaces,
           CallsOf
  <2>4. Completed'
    BY <1>1, <2>1, <2>2 DEF TurnInv, Completed, CallsOf, Settled
  <2> QED  BY <1>1, <2>1, <2>2, <2>3, <2>4, TCancelCalls
           DEF TurnInv, FilesInv, NamesCalls, CallsOf
<1>3. CASE Missing /= {}
  <2>1. PICK c \in Calls : IsNext(c, Missing) /\ Record(c)
    BY <1>3 DEF CancelCalls, FinalizeAsync
  <2>2. pc' = pc
    BY <1>3 DEF CancelCalls, FinalizeAsync
  <2>3. c \in CallsOf(turn.step)
    BY <1>1, <2>1 DEF IsNext, Missing
  <2>4. Agrees' /\ InPhase' /\ Working'
    BY <1>1, <2>1, <2>2, <2>3, RecordKeeps
       DEF TurnInv, Agrees, InPhase, Working, LoopPlaces, StreamingPlaces
  <2>5. Completed'
    BY <1>1, <2>2 DEF TurnInv, Completed
  <2> QED  BY <1>1, <2>1, <2>3, <2>4, <2>5, RecordKeeps, TCancelCalls
           DEF TurnInv, FilesInv, NamesCalls
<1> QED  BY <1>2, <1>3

LEMMA IAwait ==
    ASSUME TurnInv, NEW c \in Calls, AwaitResult(c) \/ AwaitQuestion(c)
    PROVE TurnInv'
<1>1. /\ pc = "wait" /\ pc' = pc /\ pc \in LoopPlaces
      /\ c \in CallsOf(turn.step)
      /\ work'.handles = work.handles \ {c} /\ work'.async = work.async
      /\ work'.call = work.call /\ work'.pause \in {work.pause, c}
      /\ UNCHANGED <<turn, stream, result, async, runs>>
  BY DEF TurnInv, TypeOK, Work, AwaitResult, AwaitQuestion, Working, past,
     disk, LoopPlaces
<1>2. CASE AwaitResult(c)
  <2>1. Record(c)
    BY <1>2 DEF AwaitResult
  <2>2. Agrees' /\ InPhase' /\ Working'
    BY <1>1, <2>1, RecordKeeps
       DEF TurnInv, Agrees, InPhase, Working, LoopPlaces, StreamingPlaces
  <2>3. Completed'
    BY <1>1 DEF TurnInv, Completed
  <2> QED  BY <1>1, <2>1, <2>2, <2>3, RecordKeeps, TAwait
           DEF TurnInv, FilesInv, NamesCalls
<1>3. CASE AwaitQuestion(c)
  <2>1. UNCHANGED <<recorded, mem>>
    BY <1>3 DEF AwaitQuestion, disk
  <2>2. FilesInv'
    BY <1>1, <2>1, KeptFiles
  <2>3. Agrees' /\ InPhase' /\ Working'
    BY <1>1, <2>1
       DEF TurnInv, Agrees, InPhase, Working, LoopPlaces, StreamingPlaces,
           CallsOf
  <2>4. Completed'
    BY <1>1, <2>1 DEF TurnInv, Completed
  <2> QED  BY <1>1, <2>1, <2>2, <2>3, <2>4, TAwait
           DEF TurnInv, FilesInv, NamesCalls, CallsOf
<1> QED  BY <1>2, <1>3

LEMMA IMark ==
    ASSUME TurnInv, NEW c \in Calls, MarkInterrupted(c)
    PROVE TurnInv'
<1>1. /\ pc = "tools" /\ pc \in LoopPlaces /\ mem.step = turn.step
      /\ IsNext(c, Open) /\ Record(c)
      /\ work'.handles = work.handles /\ work'.async = work.async
      /\ work'.call = work.call /\ work'.pause = work.pause
      /\ UNCHANGED <<turn, stream, result, async, pc, runs>>
  BY DEF TurnInv, TypeOK, Work, MarkInterrupted, LoopPlaces, Agrees
<1>2. c \in CallsOf(turn.step)
  BY <1>1 DEF IsNext, Open, Missing
<1>3. Agrees' /\ InPhase' /\ Working'
  BY <1>1, <1>2, RecordKeeps
     DEF TurnInv, Agrees, InPhase, Working, LoopPlaces, StreamingPlaces
<1>4. Completed'
  BY <1>1 DEF TurnInv, Completed
<1> QED  BY <1>1, <1>2, <1>3, <1>4, RecordKeeps, TMark
         DEF TurnInv, FilesInv, NamesCalls

LEMMA IAnswerResult ==
    ASSUME TurnInv, AnswerResult
    PROVE TurnInv'
<1> DEFINE c == IF result[mem.step].listed THEN mem.pending ELSE Unnamed
<1>1. /\ pc = "answer" /\ pc' = "answered" /\ pc \in LoopPlaces
      /\ turn.phase = "answer" /\ turn.pending /= Unnamed
      /\ mem.pending = turn.pending /\ Record(c)
      /\ UNCHANGED <<turn, stream, result, async, runs, work>>
  BY DEF TurnInv, AnswerResult, InPhase, Agrees, past, LoopPlaces
<1>2. c \in CallsOf(turn.step) \cup {Unnamed}
  BY <1>1 DEF TurnInv, NamesCalls
<1> HIDE DEF c
<1>3. Agrees' /\ InPhase' /\ Working'
  BY <1>1, <1>2, RecordKeeps
     DEF TurnInv, Agrees, InPhase, Working, LoopPlaces, StreamingPlaces
<1>4. Completed'
  BY <1>1 DEF TurnInv, Completed
<1> QED  BY <1>1, <1>2, <1>3, <1>4, RecordKeeps, TAnswerResult
         DEF TurnInv, FilesInv, NamesCalls

LEMMA ICancelWaitingTurn ==
    ASSUME TurnInv, CancelWaitingTurn
    PROVE TurnInv'
<1>1. /\ pc' = "finish" /\ turn.phase = "answer" /\ turn.pending /= Unnamed
      /\ recorded' =
           [recorded EXCEPT ![turn.step][turn.pending] = OneMore(@)]
      /\ UNCHANGED <<turn, stream, result, async, runs, work>>
      /\ work = NoWork
  BY DEF TurnInv, CancelWaitingTurn, past, Working
<1>2. turn.pending \in CallsOf(turn.step)
  BY <1>1 DEF TurnInv, NamesCalls
<1>3. FilesInv'
  BY <1>1, <1>2, RecordedFiles
<1>4. mem'.phase = turn.phase /\ mem'.step = turn.step
      /\ mem'.pending = Unnamed
  BY Shape DEF CancelWaitingTurn, TurnStates
<1>5. Agrees' /\ InPhase' /\ Working'
  BY <1>1, <1>2, <1>4
     DEF TurnInv, Agrees, InPhase, Working, NoWork, LoopPlaces,
         StreamingPlaces
<1>6. Completed'
  BY <1>1 DEF TurnInv, Completed
<1> QED  BY <1>1, <1>2, <1>3, <1>5, <1>6, TCancelWaitingTurn
         DEF TurnInv, FilesInv, NamesCalls, CallsOf

LEMMA IExecute ==
    ASSUME TurnInv, NEW c \in Calls, Execute(c)
    PROVE TurnInv'
<1>1. /\ pc = "tools" /\ pc' = "ran" /\ mem.step = turn.step
      /\ turn.step \in Steps /\ turn.phase = "tools" /\ IsNext(c, Open)
      /\ work'.handles = work.handles /\ work'.async = work.async
      /\ work'.call = c /\ work'.pause = work.pause
      /\ runs' = [runs EXCEPT ![turn.step][c] = @ + 1]
      /\ UNCHANGED <<turn, stream, result, recorded, async, mem>>
  BY Shape
     DEF TurnInv, TypeOK, Work, Execute, LoopPlaces, Agrees, InPhase, disk
<1>2. c \in CallsOf(turn.step) /\ c /= Unnamed
  BY <1>1, Shape DEF IsNext, Open, Missing
<1>3. \A t \in Steps : CallsOf(t)' = CallsOf(t) /\ Settled(t)' = Settled(t)
  BY <1>1 DEF CallsOf, Settled
<1>4. \A t \in Steps : t /= turn.step => runs'[t] = runs[t]
  BY <1>1, Shape
<1>5. Fresh' /\ StepsSettled' /\ NamesCalls'
  <2>1. Fresh'
    BY <1>1, <1>4, Shape DEF TurnInv, Fresh, Steps
  <2>2. StepsSettled'
    BY <1>1, <1>3 DEF TurnInv, StepsSettled
  <2>3. NamesCalls'
    BY <1>1, <1>3 DEF TurnInv, NamesCalls
  <2> QED  BY <2>1, <2>2, <2>3
<1>6. Agrees' /\ InPhase' /\ Working'
  BY <1>1, <1>2, <1>3
     DEF TurnInv, Agrees, InPhase, Working, LoopPlaces, StreamingPlaces
<1>7. Completed'
  BY <1>1 DEF TurnInv, Completed
<1> QED  BY <1>5, <1>6, <1>7, TExecute DEF TurnInv

\* Work that a call of the step started gets a continuation of that call, and
\* of others of the step.
LEMMA AsyncFiles ==
    ASSUME TurnInv, NEW S \in SUBSET CallsOf(turn.step),
           async' = [async EXCEPT ![turn.step] = S],
           UNCHANGED <<turn, result, recorded, runs>>
    PROVE  Fresh' /\ StepsSettled' /\ NamesCalls'
<1>1. \A t \in Steps : CallsOf(t)' = CallsOf(t) /\ Settled(t)' = Settled(t)
  BY DEF CallsOf, Settled
<1>2. \A t \in Steps :
        async'[t] = (IF t = turn.step THEN S ELSE async[t])
  BY Shape
<1>3. turn.step \in Steps
  BY Shape
<1> QED  BY <1>1, <1>2, <1>3 DEF TurnInv, Fresh, StepsSettled, NamesCalls

LEMMA IRanToAsync ==
    ASSUME TurnInv, RanToAsync
    PROVE TurnInv'
<1>1. /\ pc = "ran" /\ pc' = "tools" /\ mem.step = turn.step
      /\ turn.phase = "tools"
      /\ work.call \in CallsOf(turn.step)
      /\ work.handles \cup work.async \subseteq CallsOf(turn.step)
      /\ work'.handles = work.handles \cup {work.call}
      /\ work'.async = work.async
      /\ work'.call = Unnamed /\ work'.pause = work.pause
      /\ UNCHANGED <<turn, stream, result, recorded, mem, runs>>
  BY DEF TurnInv, TypeOK, Work, RanToAsync, LoopPlaces, Agrees, InPhase,
     Working, past
<1>2. async' = [async EXCEPT ![turn.step] = work.async \cup {work.call}]
  BY <1>1 DEF RanToAsync
<1>3. Fresh' /\ StepsSettled' /\ NamesCalls'
  BY <1>1, <1>2, AsyncFiles
<1>4. Agrees' /\ InPhase' /\ Working'
  BY <1>1
     DEF TurnInv, Agrees, InPhase, Working, LoopPlaces, StreamingPlaces,
         CallsOf
<1>5. Completed'
  BY <1>1 DEF TurnInv, Completed
<1> QED  BY <1>3, <1>4, <1>5, TRanToAsync DEF TurnInv

LEMMA IAnswerAsync ==
    ASSUME TurnInv, AnswerAsync
    PROVE TurnInv'
<1>1. /\ pc = "answer" /\ pc' = "answeredAsync" /\ mem.step = turn.step
      /\ turn.phase = "answer" /\ mem.pending = turn.pending
      /\ mem.pending \in CallsOf(turn.step) /\ turn.pending /= Unnamed
      /\ UNCHANGED <<turn, stream, result, recorded, mem, runs>>
  BY DEF TurnInv, AnswerAsync, LoopPlaces, Agrees, InPhase, NamesCalls, past
<1>2. /\ work'.handles = {mem.pending} /\ work'.async = {}
      /\ work'.call = Unnamed /\ work'.pause = Unnamed
  BY DEF AnswerAsync, NoWork
<1>3. async' = [async EXCEPT ![turn.step] = async[turn.step] \cup {mem.pending}]
  BY <1>1 DEF AnswerAsync
<1>4. async[turn.step] \cup {mem.pending} \subseteq CallsOf(turn.step)
  BY <1>1, Shape DEF TurnInv, NamesCalls
<1>5. Fresh' /\ StepsSettled' /\ NamesCalls'
  BY <1>1, <1>3, <1>4, AsyncFiles
<1>6. Agrees' /\ InPhase' /\ Working'
  BY <1>1, <1>2
     DEF TurnInv, Agrees, InPhase, Working, LoopPlaces, StreamingPlaces,
         CallsOf
<1>7. Completed'
  BY <1>1 DEF TurnInv, Completed
<1> QED  BY <1>5, <1>6, <1>7, TAnswerAsync DEF TurnInv

\* The next step starts with nothing.
LEMMA AdvanceShape ==
    ASSUME TurnInv, AdvanceStep
    PROVE  /\ turn'.phase = "streaming" /\ turn'.step = turn.step + 1
           /\ turn'.pending = Unnamed /\ mem' = turn'
           /\ pc' = "stream" /\ work' = NoWork /\ stream'.calls = 0
           /\ UNCHANGED <<result, recorded, async, runs>>
           /\ turn.phase \in {"tools", "async"} /\ turn.pending = Unnamed
           /\ result[turn.step].there /\ result[turn.step].calls > 0
           /\ CallsOf(turn.step) \subseteq Settled(turn.step)
           /\ turn.step + 1 \in Steps
           /\ result[turn.step + 1] = NoResult
           /\ \A c \in Calls : /\ recorded[turn.step + 1][c] = 0
                               /\ runs[turn.step + 1][c] = 0
<1>1. /\ mem.step = turn.step /\ turn.phase \in {"tools", "async"}
      /\ CallsOf(turn.step) \subseteq Settled(turn.step)
      /\ turn.pending = Unnamed
      /\ turn.step \in Steps /\ mem \in TurnStates
  BY Shape DEF TurnInv, AdvanceStep, InPhase, Completed, Agrees
<1>2. /\ mem'.phase = "streaming" /\ mem'.step = mem.step + 1
      /\ mem'.pending = Unnamed
  BY <1>1 DEF AdvanceStep, TurnStates
<1>3. /\ result[turn.step].there /\ result[turn.step].calls > 0
      /\ turn.step < LastStep
  BY <1>1 DEF TurnInv, Completed
<1>4. turn.step + 1 \in Steps /\ turn.step + 1 > turn.step
  BY <1>1, <1>3, BoundsAssumption DEF Steps
<1>5. result[turn.step + 1] = NoResult
      /\ \A c \in Calls : /\ recorded[turn.step + 1][c] = 0
                          /\ runs[turn.step + 1][c] = 0
  BY <1>1, <1>4 DEF TurnInv, Fresh
<1>6. UNCHANGED <<result, recorded, async, runs>> /\ turn' = mem'
      /\ pc' = "stream" /\ work' = NoWork /\ stream'.calls = 0
  BY DEF AdvanceStep, past, NoStream
<1> QED  BY <1>1, <1>2, <1>3, <1>4, <1>5, <1>6

LEMMA IAdvanceStep ==
    ASSUME TurnInv, AdvanceStep
    PROVE TurnInv'
<1>1. \A t \in Steps : CallsOf(t)' = CallsOf(t) /\ Settled(t)' = Settled(t)
  BY AdvanceShape DEF CallsOf, Settled
<1>2. turn.step \in Steps
  BY Shape
<1>3. Fresh'
  BY <1>2, AdvanceShape DEF TurnInv, Fresh, Steps
<1>4. StepsSettled'
  <2>1. \A t \in Steps : t < turn.step + 1 => t < turn.step \/ t = turn.step
    BY <1>2 DEF Steps
  <2> QED  BY <1>1, <2>1, AdvanceShape DEF TurnInv, StepsSettled
<1>5. NamesCalls'
  BY <1>1, AdvanceShape DEF TurnInv, NamesCalls
<1>6. Agrees' /\ InPhase' /\ Working'
  BY AdvanceShape
     DEF Agrees, InPhase, Working, NoWork, LoopPlaces, StreamingPlaces
<1>7. Completed'
  BY AdvanceShape DEF TurnInv, Completed
<1> QED  BY <1>3, <1>4, <1>5, <1>6, <1>7, TAdvanceStep DEF TurnInv

LEMMA IInit == Init => TurnInv
<1> SUFFICES ASSUME Init PROVE TurnInv
  OBVIOUS
<1>1. turn.phase = "none" /\ turn.step = 0 /\ turn.pending = Unnamed
      /\ pc = "idle" /\ work = NoWork /\ stream.calls = 0
  BY DEF Init, NoTurn, NoStream
<1>2. \A t \in Steps : /\ result[t].calls = 0 /\ async[t] = {} /\ ~(t < 0)
                       /\ Settled(t) = {}
  <2>1. \A t \in Steps, c \in Calls : recorded[t][c] = 0
    BY CallNames DEF Init
  <2>2. \A t \in Steps : Settled(t) = {}
    BY <2>1 DEF Settled
  <2> QED  BY <2>2 DEF Init, NoResult, Steps
<1>3. TypeOK
  <2>1. result \in [Steps -> StepResults] /\ async \in [Steps -> SUBSET Calls]
        /\ marked \in [Steps -> SUBSET Calls]
    BY NoValues DEF Init
  <2>2. runs \in [Steps -> [Calls -> Nat]]
        /\ recorded \in [Steps -> [0..NumCalls -> 0..2]]
        /\ faults \in 0..MaxFaults
    BY BoundsAssumption DEF Init
  <2> QED  BY <2>1, <2>2, NoValues DEF Init, TypeOK, Places, LoopPlaces,
       Contexts
<1>4. Agrees /\ InPhase /\ Working
  BY <1>1 DEF Agrees, InPhase, Working, NoWork, LoopPlaces, StreamingPlaces
<1>5. Completed
  BY <1>1, <1>2, BoundsAssumption DEF Completed
<1>6. Fresh /\ StepsSettled /\ NamesCalls
  BY <1>1, <1>2 DEF Fresh, StepsSettled, NamesCalls
<1> QED  BY <1>3, <1>4, <1>5, <1>6 DEF TurnInv

LEMMA IStutter == ASSUME TurnInv, UNCHANGED vars PROVE TurnInv'
  BY DEF TurnInv, TypeOK, Agrees, InPhase, Completed, NamesCalls, Working,
     Fresh, StepsSettled, vars, disk, process, past, CallsOf, Settled

LEMMA INext == ASSUME TurnInv, Next PROVE TurnInv'
<1>1. \A close \in BOOLEAN : Resume(close) => TurnInv'
  BY IResume
<1>2. CASE StartTurn
  BY <1>2, IStart
<1>3. CASE ResumeTurn \/ CloseInterruptedTurn
  BY <1>1, <1>3 DEF ResumeTurn, CloseInterruptedTurn
<1>4. CASE \E c \in Calls : ContinueInTools(c)
  <2>1. PICK c \in Calls : ContinueInTools(c)
    BY <1>4
  <2>2. c \in CallsOf(turn.step) /\ pc = "tools" /\ ContinueAsync(c, "tools")
    BY <2>1 DEF ContinueInTools, TurnInv, Working
  <2> QED  BY <2>2, IContinue
<1>5. CASE \E c \in Calls : RecoverContinuation(c)
  <2>1. PICK c \in Calls : RecoverContinuation(c)
    BY <1>5
  <2>2. pc = "recoverAsync" /\ mem.step = turn.step /\ turn.step \in Steps
    BY <2>1, Shape DEF RecoverContinuation, TurnInv, Agrees
  <2>3. c \in CallsOf(turn.step) /\ ContinueAsync(c, "async")
    BY <2>1, <2>2 DEF RecoverContinuation, ToRecover, TurnInv, NamesCalls
  <2> QED  BY <2>2, <2>3, IContinue
<1>6. CASE \E c \in Calls : MarkInterrupted(c) \/ Execute(c) \/ AwaitResult(c)
                            \/ AwaitQuestion(c)
  BY <1>6, IMark, IExecute, IAwait
<1>7. CASE \E n \in 0..NumCalls : FinishStream(n)
  BY <1>7, IFinishStream
<1>8. CASE \/ PrepareStep \/ RequestCompletion \/ ReceiveChunk
           \/ SaveStepResult \/ CancelledStream \/ SaveReply \/ DecideStep
           \/ LoadTools \/ RanToResult \/ RanToAsync \/ RanToQuestion
  BY <1>8, IPrepareStep, IRequestCompletion, IReceiveChunk, ISaveStepResult,
     ISaveReply, IPhaseSteps, ILoadTools, IRanToResult, IRanToAsync,
     IRanToQuestion
<1>9. CASE \/ CancelCalls \/ FinalizeTools \/ AdvanceStep \/ LoadAsync
           \/ RecoveredAll \/ WaitOver \/ FinalizeAsync
           \/ AnswerResult \/ AnswerAsync \/ AnswerQuestion \/ LeaveAnswer
  BY <1>9, ICancelCalls, IPhaseSteps, IAdvanceStep, ILoadAsync, IRecoveredAll,
     IWaitOver, IAnswerResult, IAnswerAsync, IAnswerQuestion, ILeaveAnswer
<1>10. CASE \/ FinalizeTurn \/ DeleteTurnState \/ SubmitAnswer
            \/ CancelWaitingTurn \/ Cancel \/ Fail \/ Crash
  BY <1>10, IFinalizeTurn, IDeleteTurnState, ISubmitAnswer,
     ICancelWaitingTurn, ICancel, IFail, ICrash
<1> QED  BY <1>2, <1>3, <1>4, <1>5, <1>6, <1>7, <1>8, <1>9, <1>10
         DEF Next, LoopStep

LEMMA Inductive == Spec => []TurnInv
<1>1. TurnInv /\ [Next]_vars => TurnInv'
  BY INext, IStutter
<1> QED  BY <1>1, IInit, PTL DEF Spec

-----------------------------------------------------------------------------
(* The loop implements the contract. *)

\* What the contract sees of the disk is unchanged.
LEMMA Stutters ==
    ASSUME (turn'.phase = "none") = (turn.phase = "none"),
           turn'.step = turn.step,
           turn.phase = "none" \/
               (/\ result'[turn.step].there = result[turn.step].there
                /\ CallsOf(turn.step)' = CallsOf(turn.step)
                /\ Settled(turn.step)' = Settled(turn.step)
                /\ runs'[turn.step] = runs[turn.step]),
           (IF turn'.phase = "answer" THEN turn'.pending ELSE Unnamed) =
               (IF turn.phase = "answer" THEN turn.pending ELSE Unnamed)
    PROVE  UNCHANGED Contract!vars
  BY DEF Contract!vars

LEMMA SameDisk ==
    ASSUME UNCHANGED <<turn, result, recorded, runs>>
    PROVE  UNCHANGED Contract!vars
  BY Stutters DEF CallsOf, Settled

LEMMA RSettle ==
    ASSUME TurnInv, NEW c \in CallsOf(turn.step),
           recorded' = [recorded EXCEPT ![turn.step][c] = OneMore(@)],
           turn.phase /= "none", turn.phase = "answer" => turn.pending = c,
           UNCHANGED <<turn, result, async, runs>>
    PROVE  [Contract!Next]_(Contract!vars)
<1>1. Settled(turn.step)' = Settled(turn.step) \cup {c} /\ c /= Unnamed
      /\ c \in Calls
  BY RecordedFiles, Shape
<1>2. CallsOf(turn.step)' = CallsOf(turn.step)
  BY DEF CallsOf
<1>3. CASE c \in Settled(turn.step)
  <2>1. Settled(turn.step)' = Settled(turn.step)
    BY <1>1, <1>3
  <2> QED  BY <1>2, <2>1, Stutters
<1>4. CASE c \notin Settled(turn.step)
  <2>1. Contract!Settle(c)
    BY <1>1, <1>2, <1>4 DEF Contract!Settle, Contract!NoQuestion, Unnamed
  <2> QED  BY <2>1, <1>1 DEF Contract!Next, Contract!Calls, Calls
<1> QED  BY <1>3, <1>4

LEMMA RRecord ==
    ASSUME TurnInv, NEW c \in CallsOf(turn.step), Record(c),
           pc \in LoopPlaces, turn.phase = "answer" => turn.pending = c,
           UNCHANGED <<turn, result, async, runs>>
    PROVE  [Contract!Next]_(Contract!vars)
<1>1. mem.step = turn.step /\ turn.phase /= "none"
  BY DEF TurnInv, Agrees, LoopPlaces
<1> QED  BY <1>1, RSettle DEF Record

LEMMA RPause ==
    ASSUME TurnInv, NEW c \in CallsOf(turn.step),
           NEW phase \in {"tools", "async"}, Pause(c, phase),
           pc /= "idle",
           \/ turn.phase \in {"tools", "async"}
           \/ turn.phase = "answer" /\ turn.pending = c,
           UNCHANGED <<result, recorded, runs>>
    PROVE  [Contract!Next]_(Contract!vars)
<1>1. c \in Calls /\ c \in 0..NumCalls
  BY Shape
<1>2. turn'.phase = "answer" /\ turn'.step = turn.step /\ turn'.pending = c
  BY <1>1, PauseChange DEF TurnInv, Agrees
<1>3. CallsOf(turn.step)' = CallsOf(turn.step)
      /\ Settled(turn.step)' = Settled(turn.step)
  BY <1>2 DEF CallsOf, Settled
<1>4. CASE turn.phase \in {"tools", "async"}
  <2>1. Contract!AskUser(c)
    BY <1>2, <1>3, <1>4
       DEF Contract!AskUser, Contract!NoQuestion, Unnamed
  <2> QED  BY <1>1, <2>1 DEF Contract!Next, Contract!Calls, Calls
<1>5. CASE turn.phase = "answer" /\ turn.pending = c
  BY <1>2, <1>3, <1>5, Stutters
<1> QED  BY <1>4, <1>5

LEMMA RReply ==
    ASSUME TurnInv, NEW n \in 0..NumCalls, NEW r \in StepResults,
           r.there, r.calls = n,
           result' = [result EXCEPT ![turn.step] = r],
           turn.phase = "streaming", ~result[turn.step].there,
           UNCHANGED <<turn, recorded, runs>>
    PROVE  Contract!Next
<1>1. result'[turn.step].there /\ CallsOf(turn.step)' = 1..n
      /\ Settled(turn.step)' = Settled(turn.step)
  BY Shape DEF CallsOf, Settled
<1>2. Contract!Reply(n)
  BY <1>1 DEF Contract!Reply
<1> QED  BY <1>2 DEF Contract!Next

LEMMA RResume ==
    ASSUME TurnInv, NEW close \in BOOLEAN, Resume(close)
    PROVE  [Contract!Next]_(Contract!vars)
<1> DEFINE r == [there |-> TRUE, calls |-> stream.calls, saved |-> FALSE,
                 listed |-> FALSE]
<1>1. CASE result' = result
  BY <1>1, SameDisk DEF Resume
<1>2. CASE result' /= result
  <2>1. /\ turn.phase = "streaming" /\ ~result[turn.step].there
        /\ result' = [result EXCEPT ![turn.step] = r]
        /\ UNCHANGED <<turn, recorded, runs>>
    BY <1>2 DEF Resume
  <2>2. r \in StepResults /\ r.there /\ r.calls = stream.calls
        /\ stream.calls \in 0..NumCalls
    BY Shape DEF StepResults
  <2> HIDE DEF r
  <2> QED  BY <2>1, <2>2, RReply
<1> QED  BY <1>1, <1>2

LEMMA RSaveStepResult ==
    ASSUME TurnInv, SaveStepResult \/ CancelledStream
    PROVE  [Contract!Next]_(Contract!vars)
<1> DEFINE r(n) == [there |-> TRUE, calls |-> n, saved |-> FALSE,
                    listed |-> TRUE]
<1>1. /\ turn.phase = "streaming" /\ mem.step = turn.step
      /\ ~result[turn.step].there
      /\ UNCHANGED <<turn, recorded, runs>>
  BY DEF TurnInv, SaveStepResult, CancelledStream, InPhase, Agrees, Completed,
     StreamingPlaces, past
<1>2. \A n \in 0..NumCalls :
        r(n) \in StepResults /\ r(n).there /\ r(n).calls = n
  BY DEF StepResults
<1>3. stream.calls \in 0..NumCalls /\ 0 \in 0..NumCalls
  BY Shape, BoundsAssumption
<1>4. \/ result' = [result EXCEPT ![turn.step] = r(stream.calls)]
      \/ result' = [result EXCEPT ![turn.step] = r(0)]
      \/ result' = result
  BY <1>1 DEF SaveStepResult, CancelledStream
<1> HIDE DEF r
<1>5. CASE result' = result
  BY <1>1, <1>5, SameDisk
<1>6. CASE result' = [result EXCEPT ![turn.step] = r(stream.calls)]
  BY <1>1, <1>2, <1>3, <1>6, RReply
<1>7. CASE result' = [result EXCEPT ![turn.step] = r(0)]
  BY <1>1, <1>2, <1>3, <1>7, RReply
<1> QED  BY <1>4, <1>5, <1>6, <1>7

LEMMA RSaveReply ==
    ASSUME TurnInv, SaveReply
    PROVE  UNCHANGED Contract!vars
<1>1. mem.step = turn.step /\ UNCHANGED <<turn, recorded, runs>>
  BY DEF TurnInv, SaveReply, Agrees, past
<1>2. /\ result'[turn.step].there = result[turn.step].there
      /\ result'[turn.step].calls = result[turn.step].calls
  BY <1>1, Shape DEF SaveReply, StepResults
<1> QED  BY <1>1, <1>2, Stutters DEF CallsOf, Settled

LEMMA RExecute ==
    ASSUME TurnInv, NEW c \in Calls, Execute(c)
    PROVE  Contract!Next
<1>1. /\ turn.phase = "tools" /\ mem.step = turn.step /\ turn.step \in Steps
      /\ c \in CallsOf(turn.step) \ Settled(turn.step)
      /\ runs' = [runs EXCEPT ![turn.step][c] = @ + 1]
      /\ UNCHANGED <<turn, result, recorded>>
  BY Shape DEF TurnInv, Execute, InPhase, Agrees, IsNext, Open, Missing, disk
<1>2. CallsOf(turn.step)' = CallsOf(turn.step)
      /\ Settled(turn.step)' = Settled(turn.step)
  BY <1>1 DEF CallsOf, Settled
<1>3. runs'[turn.step] = [runs[turn.step] EXCEPT ![c] = @ + 1]
  BY <1>1, Shape
<1>4. Contract!Run(c)
  BY <1>1, <1>2, <1>3 DEF Contract!Run, Contract!NoQuestion, Unnamed
<1> QED  BY <1>4 DEF Contract!Next, Contract!Calls, Calls

LEMMA RBegin ==
    ASSUME TurnInv, StartTurn
    PROVE  Contract!Next
<1>1. turn'.phase = "streaming" /\ turn'.step = 0 /\ turn'.pending = Unnamed
  BY DEF StartTurn, NewTurn, NoTurn
<1>2. 0 \in Steps
  BY BoundsAssumption DEF Steps
<1>3. ~result'[0].there /\ CallsOf(0)' = {} /\ Settled(0)' = {}
      /\ runs'[0] = [c \in Calls |-> 0]
  <2>1. result'[0] = NoResult /\ runs'[0] = [c \in Calls |-> 0]
        /\ \A c \in Calls : recorded'[0][c] = 0
    BY <1>2, CallNames DEF StartTurn
  <2>2. Settled(0)' = {}
    BY <2>1 DEF Settled
  <2> QED  BY <2>1, <2>2 DEF NoResult, CallsOf
<1>4. Contract!FreshStep
  BY <1>1, <1>3
     DEF Contract!FreshStep, Contract!NoQuestion, Unnamed, Contract!Calls,
          Calls
<1>5. turn.phase = "none"
  BY DEF StartTurn
<1> QED  BY <1>1, <1>4, <1>5 DEF Contract!Begin, Contract!Next

LEMMA RAdvance ==
    ASSUME TurnInv, AdvanceStep
    PROVE  Contract!Next
<1>1. /\ CallsOf(turn.step) \subseteq Settled(turn.step)
      /\ CallsOf(turn.step) /= {} /\ result[turn.step].there
      /\ turn.phase /= "none" /\ turn.phase /= "answer"
  <2>1. result[turn.step].calls \in 0..NumCalls /\ result[turn.step].calls > 0
    BY AdvanceShape, Shape
  <2>2. 1 \in CallsOf(turn.step)
    BY <2>1 DEF CallsOf
  <2>3. turn.phase \in {"tools", "async"}
    BY AdvanceShape
  <2> QED  BY <2>2, <2>3, AdvanceShape
<1>2. /\ turn'.phase = "streaming" /\ turn'.step = turn.step + 1
      /\ turn.step + 1 \in Steps
  BY AdvanceShape
<1>3. /\ ~result'[turn.step + 1].there /\ CallsOf(turn.step)' = {}
      /\ Settled(turn.step)' = {}
  <2>1. result'[turn'.step] = NoResult
        /\ \A c \in Calls : recorded'[turn'.step][c] = 0
    BY AdvanceShape
  <2>2. Settled(turn.step)' = {c \in Calls : recorded'[turn'.step][c] > 0}
    BY DEF Settled
  <2>3. Settled(turn.step)' = {}
    BY <2>1, <2>2
  <2> QED  BY <1>2, <2>1, <2>3 DEF NoResult, CallsOf
<1>4. runs'[turn.step + 1] = [c \in Calls |-> 0]
  <2>1. runs'[turn.step + 1] \in [Calls -> Nat]
    BY <1>2, AdvanceShape, Shape
  <2> QED  BY <2>1, AdvanceShape
<1>5. Contract!FreshStep
  BY <1>2, <1>3, <1>4
     DEF Contract!FreshStep, Contract!NoQuestion, Unnamed, Contract!Calls,
          Calls
<1>6. Contract!Advance
  BY <1>1, <1>2, <1>5 DEF Contract!Advance, Contract!NoQuestion, Unnamed
<1> QED  BY <1>6 DEF Contract!Next

LEMMA REnd ==
    ASSUME TurnInv, DeleteTurnState
    PROVE  Contract!Next
<1>1. turn.phase /= "none" /\ turn'.phase = "none" /\ turn'.step = 0
  BY DEF TurnInv, DeleteTurnState, Agrees, NoTurn
<1>2. Contract!FreshStep
  BY <1>1 DEF Contract!FreshStep, Contract!NoQuestion, Unnamed,
       Contract!Calls, Calls
<1>3. Contract!End
  BY <1>1, <1>2 DEF Contract!End
<1> QED  BY <1>3 DEF Contract!Next

\* The phase is written: a question that was open is closed or left alone.
LEMMA RPhase ==
    ASSUME TurnInv, turn.phase /= "none", turn'.phase /= "none",
           turn'.step = turn.step, turn.phase /= "answer" => turn'.phase /= "answer",
           turn'.pending \in {turn.pending, Unnamed},
           UNCHANGED <<result, recorded, runs>>
    PROVE  [Contract!Next]_(Contract!vars)
<1>1. CallsOf(turn.step)' = CallsOf(turn.step)
      /\ Settled(turn.step)' = Settled(turn.step)
  BY DEF CallsOf, Settled
<1>2. CASE (IF turn'.phase = "answer" THEN turn'.pending ELSE Unnamed) =
             (IF turn.phase = "answer" THEN turn.pending ELSE Unnamed)
  BY <1>1, <1>2, Stutters
<1>3. CASE ~ (IF turn'.phase = "answer" THEN turn'.pending ELSE Unnamed) =
             (IF turn.phase = "answer" THEN turn.pending ELSE Unnamed)
  <2>1. /\ turn.phase = "answer" /\ turn.pending /= Unnamed
        /\ turn'.phase /= "answer" \/ turn'.pending = Unnamed
    BY <1>3
  <2>2. Contract!CloseQuestion
    BY <1>1, <2>1 DEF Contract!CloseQuestion, Contract!NoQuestion, Unnamed
  <2> QED  BY <2>2 DEF Contract!Next
<1> QED  BY <1>2, <1>3

LEMMA RContinue ==
    ASSUME TurnInv, NEW c \in CallsOf(turn.step),
           NEW phase \in {"tools", "async"},
           pc \in {"tools", "recoverAsync"}, ContinueAsync(c, phase)
    PROVE  [Contract!Next]_(Contract!vars)
<1>1. turn.phase \in {"tools", "async"} /\ pc \in LoopPlaces
      /\ pc /= "idle"
  BY DEF TurnInv, InPhase, LoopPlaces
<1>2. CASE Record(c) /\ UNCHANGED <<turn, stream, result, async, answered, pc,
                                    work, context, recover, past>>
  BY <1>1, <1>2, RRecord DEF past
<1>3. CASE /\ work' = [work EXCEPT !.handles = @ \cup {c}]
           /\ UNCHANGED <<disk, pc, mem, context, recover, past>>
  BY <1>3, SameDisk DEF disk, past
<1>4. CASE /\ Pause(c, phase)
           /\ UNCHANGED <<stream, result, recorded, async, recover, past>>
  BY <1>1, <1>4, RPause DEF past
<1> QED  BY <1>2, <1>3, <1>4 DEF ContinueAsync

LEMMA RCancelCalls ==
    ASSUME TurnInv, CancelCalls \/ FinalizeAsync
    PROVE  [Contract!Next]_(Contract!vars)
<1>1. /\ pc \in LoopPlaces /\ turn.phase \in {"tools", "async"}
      /\ mem.step = turn.step /\ UNCHANGED <<turn, result, async, runs>>
  BY DEF TurnInv, CancelCalls, FinalizeAsync, InPhase, Agrees, past, LoopPlaces
<1>2. CASE Missing = {}
  BY <1>1, <1>2, SameDisk DEF CancelCalls, FinalizeAsync
<1>3. CASE Missing /= {}
  <2>1. PICK c \in Calls : IsNext(c, Missing) /\ Record(c)
    BY <1>3 DEF CancelCalls, FinalizeAsync
  <2>2. c \in CallsOf(turn.step)
    BY <1>1, <2>1 DEF IsNext, Missing
  <2> QED  BY <1>1, <2>1, <2>2, RRecord
<1> QED  BY <1>2, <1>3

LEMMA RAwait ==
    ASSUME TurnInv, NEW c \in Calls, AwaitResult(c) \/ AwaitQuestion(c)
    PROVE  [Contract!Next]_(Contract!vars)
<1>1. pc \in LoopPlaces /\ c \in CallsOf(turn.step) /\ turn.phase /= "answer"
  BY DEF TurnInv, AwaitResult, AwaitQuestion, LoopPlaces, Working, InPhase
<1>2. CASE AwaitResult(c)
  BY <1>1, <1>2, RRecord DEF AwaitResult, past
<1>3. CASE AwaitQuestion(c)
  BY <1>3, SameDisk DEF AwaitQuestion, disk, past
<1> QED  BY <1>2, <1>3

LEMMA RMark ==
    ASSUME TurnInv, NEW c \in Calls, MarkInterrupted(c)
    PROVE  [Contract!Next]_(Contract!vars)
<1>1. pc \in LoopPlaces /\ c \in CallsOf(turn.step) /\ turn.phase /= "answer"
  BY DEF TurnInv, MarkInterrupted, LoopPlaces, InPhase, Agrees, IsNext, Open,
     Missing
<1> QED  BY <1>1, RRecord DEF MarkInterrupted

LEMMA RRanTo ==
    ASSUME TurnInv, RanToResult \/ RanToAsync \/ RanToQuestion
    PROVE  [Contract!Next]_(Contract!vars)
<1>1. /\ pc \in LoopPlaces /\ turn.phase = "tools"
      /\ pc /= "idle" /\ work.call \in CallsOf(turn.step)
  BY DEF TurnInv, RanToResult, RanToAsync, RanToQuestion, LoopPlaces, InPhase,
     Working
<1>2. CASE RanToResult
  BY <1>1, <1>2, RRecord DEF RanToResult, past
<1>3. CASE RanToAsync
  BY <1>3, SameDisk DEF RanToAsync, past
<1>4. CASE RanToQuestion /\ work.handles = {}
  BY <1>1, <1>4, RPause DEF RanToQuestion, past
<1>5. CASE RanToQuestion /\ work.handles /= {}
  BY <1>5, SameDisk DEF RanToQuestion, disk, past
<1> QED  BY <1>2, <1>3, <1>4, <1>5

LEMMA RWaitOver ==
    ASSUME TurnInv, WaitOver
    PROVE  [Contract!Next]_(Contract!vars)
<1>1. /\ work.pause /= Unnamed => work.pause \in CallsOf(turn.step)
      /\ work.call /= Unnamed => work.call \in CallsOf(turn.step)
      /\ turn.phase \in {"tools", "async"} /\ pc /= "idle"
  BY DEF TurnInv, WaitOver, Working, InPhase
<1>2. CASE work.pause /= Unnamed
  <2>1. (IF work.call = Unnamed THEN "async" ELSE "tools") \in {"tools", "async"}
    OBVIOUS
  <2> QED  BY <1>1, <1>2, <2>1, RPause DEF WaitOver, past
<1>3. CASE work.pause = Unnamed /\ work.call /= Unnamed
  BY <1>1, <1>3, RPause DEF WaitOver, past
<1>4. CASE work.pause = Unnamed /\ work.call = Unnamed
  BY <1>4, SameDisk DEF WaitOver, past
<1> QED  BY <1>2, <1>3, <1>4

LEMMA RAnswer ==
    ASSUME TurnInv, AnswerResult \/ AnswerAsync \/ AnswerQuestion
    PROVE  [Contract!Next]_(Contract!vars)
<1>1. /\ pc \in LoopPlaces /\ turn.phase = "answer"
      /\ pc /= "idle"
      /\ mem.pending = turn.pending /\ mem.pending \in CallsOf(turn.step)
      /\ mem.step = turn.step
  BY DEF TurnInv, AnswerResult, AnswerAsync, AnswerQuestion, LoopPlaces,
     InPhase, Agrees, NamesCalls
<1>2. CASE AnswerAsync
  BY <1>2, SameDisk DEF AnswerAsync, past
<1>3. CASE AnswerQuestion
  <2>1. mem.resume \in {"tools", "async"}
    BY Shape, TurnFields
  <2> QED  BY <1>1, <1>3, <2>1, RPause DEF AnswerQuestion, past
<1>4. CASE AnswerResult /\ result[mem.step].listed
  BY <1>1, <1>4, RRecord DEF AnswerResult, past
<1>5. CASE AnswerResult /\ ~result[mem.step].listed
  <2>1. Record(Unnamed) /\ UNCHANGED <<turn, stream, result, async, runs>>
    BY <1>5 DEF AnswerResult, past
  <2>2. Settled(turn.step)' = Settled(turn.step)
        /\ CallsOf(turn.step)' = CallsOf(turn.step)
    BY <1>1, <2>1, RecordKeeps
  <2> QED  BY <2>1, <2>2, Stutters
<1> QED  BY <1>2, <1>3, <1>4, <1>5

LEMMA RLeave ==
    ASSUME TurnInv, LeaveAnswer \/ FinalizeTurn \/ DecideStep \/ FinalizeTools
                    \/ PrepareStep
    PROVE  [Contract!Next]_(Contract!vars)
<1>1. turn.phase /= "none" /\ mem.phase = turn.phase /\ mem.step = turn.step
      /\ mem.pending \in {turn.pending, Unnamed} /\ mem \in TurnStates
      /\ UNCHANGED <<result, recorded, runs>>
  BY Shape
     DEF TurnInv, Agrees, LeaveAnswer, FinalizeTurn, DecideStep, FinalizeTools,
         PrepareStep, past
<1>2. CASE FinalizeTurn
  BY <1>1, <1>2, RPhase DEF FinalizeTurn
<1>3. CASE LeaveAnswer
  <2>1. mem.resume \in {"tools", "async"}
    BY <1>1, TurnFields
  <2>2. turn'.phase \in {"tools", "async"} /\ turn'.step = turn.step
        /\ turn'.pending = Unnamed
    BY <1>1, <1>3, <2>1 DEF LeaveAnswer, TurnStates
  <2>3. turn'.phase /= "none" /\ turn'.phase /= "answer"
    BY <2>2
  <2> QED  BY <1>1, <2>2, <2>3, RPhase
<1>4. CASE DecideStep \/ FinalizeTools
  <2>1. \A p \in {"tools", "async"} : mem' = [mem EXCEPT !.phase = p] =>
          mem'.phase = p /\ mem'.step = mem.step /\ mem'.pending = mem.pending
    BY <1>1, PhaseChange DEF Phases
  <2>2. \/ turn' = turn
        \/ turn' = mem' /\ mem' = [mem EXCEPT !.phase = "tools"]
        \/ turn' = mem' /\ mem' = [mem EXCEPT !.phase = "async"]
    BY <1>4 DEF DecideStep, FinalizeTools
  <2>3. CASE turn' = turn
    BY <1>1, <2>3, SameDisk
  <2>4. CASE turn' /= turn
    <3>1. /\ turn'.phase \in {"tools", "async"} /\ turn'.step = turn.step
          /\ turn'.pending \in {turn.pending, Unnamed}
      BY <1>1, <2>1, <2>2, <2>4
    <3>2. turn'.phase /= "none" /\ turn'.phase /= "answer"
      BY <3>1
    <3> QED  BY <1>1, <3>1, <3>2, RPhase
  <2> QED  BY <2>3, <2>4
<1>5. CASE PrepareStep
  <2>1. mem'.phase = mem.phase /\ mem'.step = mem.step
        /\ mem'.pending = mem.pending /\ turn' = mem'
    BY <1>1, <1>5 DEF PrepareStep, TurnStates
  <2> QED  BY <1>1, <2>1, RPhase
<1> QED  BY <1>2, <1>3, <1>4, <1>5

LEMMA RNext == ASSUME TurnInv, Next PROVE [Contract!Next]_(Contract!vars)
<1>1. CASE StartTurn
  BY <1>1, RBegin
<1>2. CASE ResumeTurn \/ CloseInterruptedTurn
  <2>1. \A close \in BOOLEAN :
          Resume(close) => [Contract!Next]_(Contract!vars)
    BY RResume
  <2> QED  BY <1>2, <2>1 DEF ResumeTurn, CloseInterruptedTurn
<1>3. CASE \E c \in Calls : ContinueInTools(c)
  <2>1. PICK c \in Calls : ContinueInTools(c)
    BY <1>3
  <2>2. c \in CallsOf(turn.step) /\ pc = "tools" /\ ContinueAsync(c, "tools")
    BY <2>1 DEF ContinueInTools, TurnInv, Working
  <2> QED  BY <2>2, RContinue
<1>4. CASE \E c \in Calls : RecoverContinuation(c)
  <2>1. PICK c \in Calls : RecoverContinuation(c)
    BY <1>4
  <2>2. pc = "recoverAsync" /\ mem.step = turn.step /\ turn.step \in Steps
    BY <2>1, Shape DEF RecoverContinuation, TurnInv, Agrees
  <2>3. c \in CallsOf(turn.step) /\ ContinueAsync(c, "async")
    BY <2>1, <2>2 DEF RecoverContinuation, ToRecover, TurnInv, NamesCalls
  <2> QED  BY <2>2, <2>3, RContinue
<1>5. CASE \E c \in Calls : MarkInterrupted(c) \/ Execute(c) \/ AwaitResult(c)
                            \/ AwaitQuestion(c)
  BY <1>5, RMark, RExecute, RAwait
<1>6. CASE \/ \E n \in 0..NumCalls : FinishStream(n)
           \/ RequestCompletion \/ ReceiveChunk \/ LoadTools \/ LoadAsync
           \/ RecoveredAll \/ SubmitAnswer \/ Cancel \/ Fail \/ Crash
  <2>1. UNCHANGED <<turn, result, recorded, runs>>
    BY <1>6
       DEF FinishStream, RequestCompletion, ReceiveChunk, LoadTools, LoadAsync,
           RecoveredAll, SubmitAnswer, Cancel, Fail, Crash, disk, past
  <2> QED  BY <2>1, SameDisk
<1>7. CASE SaveStepResult \/ CancelledStream \/ SaveReply
  BY <1>7, RSaveStepResult, RSaveReply
<1>8. CASE \/ RanToResult \/ RanToAsync \/ RanToQuestion \/ CancelCalls
           \/ FinalizeAsync \/ WaitOver
           \/ AnswerResult \/ AnswerAsync \/ AnswerQuestion
  BY <1>8, RRanTo, RCancelCalls, RWaitOver, RAnswer
<1>9. CASE \/ LeaveAnswer \/ FinalizeTurn \/ DecideStep \/ FinalizeTools
           \/ PrepareStep
  BY <1>9, RLeave
<1>10. CASE AdvanceStep \/ DeleteTurnState
  BY <1>10, RAdvance, REnd
<1>11. CASE CancelWaitingTurn
  <2>1. turn.pending \in CallsOf(turn.step) /\ turn.phase = "answer"
    BY <1>11 DEF CancelWaitingTurn, TurnInv, NamesCalls
  <2> QED  BY <1>11, <2>1, RSettle DEF CancelWaitingTurn, past
<1> QED  BY <1>1, <1>2, <1>3, <1>4, <1>5, <1>6, <1>7, <1>8, <1>9, <1>10, <1>11
         DEF Next, LoopStep

LEMMA RInit == Init => Contract!Init
<1>1. Init => turn.phase = "none" /\ turn.step = 0
  BY DEF Init, NoTurn
<1> QED  BY <1>1
         DEF Contract!Init, Contract!NoQuestion, Unnamed, Contract!Calls, Calls

-----------------------------------------------------------------------------
(* Each call once. *)

StepPlaces ==
    {"stream", "request", "streaming", "saveResult", "save", "decide",
     "loadTools"}

LEMMA SameCalls ==
    ASSUME UNCHANGED <<recorded, result>>, turn'.step = turn.step
    PROVE  /\ Settled(turn.step)' = Settled(turn.step)
           /\ CallsOf(turn.step)' = CallsOf(turn.step)
  BY DEF Settled, CallsOf

\* A first result stays the only one.
LEMMA FirstResult ==
    ASSUME TurnInv, NEW c \in CallsOf(turn.step),
           recorded' = [recorded EXCEPT ![turn.step][c] = OneMore(@)]
    PROVE  /\ \A t \in Steps : recorded'[t][Unnamed] = recorded[t][Unnamed]
           /\ (/\ c \notin Settled(turn.step)
               /\ \A t \in Steps, d \in Calls : recorded[t][d] <= 1) =>
                 \A t \in Steps, d \in Calls : recorded'[t][d] <= 1
<1>1. turn.step \in Steps /\ c \in Calls /\ c /= Unnamed
      /\ recorded[turn.step] \in [0..NumCalls -> 0..2]
      /\ recorded \in [Steps -> [0..NumCalls -> 0..2]]
      /\ Calls \subseteq 0..NumCalls /\ Unnamed \in 0..NumCalls
  BY Shape, NoValues
<1>2. \A t \in Steps : recorded'[t] =
        IF t = turn.step
        THEN [recorded[turn.step] EXCEPT ![c] = OneMore(recorded[turn.step][c])]
        ELSE recorded[t]
  BY <1>1
<1>3. \A t \in Steps : recorded'[t][Unnamed] = recorded[t][Unnamed]
  BY <1>1, <1>2
<1>4. ASSUME c \notin Settled(turn.step),
             \A t \in Steps, d \in Calls : recorded[t][d] <= 1,
             NEW t \in Steps, NEW d \in Calls
      PROVE  recorded'[t][d] <= 1
  <2>1. recorded[turn.step][c] = 0
    <3>1. c \in 0..NumCalls /\ recorded[turn.step][c] \in 0..2
      BY <1>1
    <3>2. ~(recorded[turn.step][c] > 0)
      BY <1>1, <1>4 DEF Settled
    <3> QED  BY <3>1, <3>2
  <2>2. OneMore(recorded[turn.step][c]) = 1
    BY <2>1 DEF OneMore
  <2>3. CASE t = turn.step /\ d = c
    <3>1. recorded'[t] =
            [recorded[turn.step] EXCEPT ![c] = OneMore(recorded[turn.step][c])]
      BY <1>2, <2>3
    <3>2. c \in DOMAIN recorded[turn.step]
      BY <1>1
    <3>3. recorded'[t][c] = OneMore(recorded[turn.step][c])
      BY <3>1, <3>2
    <3> QED  BY <3>3, <2>2, <2>3
  <2>4. CASE t /= turn.step \/ d /= c
    <3>1. recorded'[t][d] = recorded[t][d]
      BY <1>1, <1>2, <2>4
    <3> QED  BY <3>1, <1>4
  <2> QED  BY <2>3, <2>4
<1> QED  BY <1>3, <1>4

\* Steps of the loop that neither run a call nor record a result.
LEMMA CMoves ==
    ASSUME TurnInv, CallInv,
           \/ RequestCompletion \/ ReceiveChunk \/ SaveStepResult
           \/ \E n \in 0..NumCalls : FinishStream(n)
           \/ CancelledStream \/ SaveReply \/ DecideStep \/ PrepareStep
    PROVE  CallInv'
<1>1. /\ pc \in StepPlaces \cup {"partial"}
      /\ pc' \in StepPlaces \cup {"finish"}
      /\ pc = "partial" => pc' = "finish"
      /\ UNCHANGED <<recorded, work, runs, marked, resumed, faults>>
  BY DEF RequestCompletion, ReceiveChunk, SaveStepResult, FinishStream,
     CancelledStream, SaveReply, DecideStep, PrepareStep, StepPlaces, past,
     process
<1>2. turn'.step = turn.step
  <2>1. CASE UNCHANGED turn
    BY <2>1
  <2>2. CASE turn' /= turn
    <3>1. mem.step = turn.step
      BY <1>1 DEF TurnInv, Agrees, StepPlaces
    <3>2. mem'.step = mem.step /\ turn' = mem'
      BY <2>2, Shape
         DEF RequestCompletion, ReceiveChunk, SaveStepResult, FinishStream,
             CancelledStream, SaveReply, DecideStep, PrepareStep, TurnStates
    <3> QED  BY <3>1, <3>2
  <2> QED  BY <2>1, <2>2
<1>3. Settled(turn.step)' = Settled(turn.step)
  BY <1>1, <1>2 DEF Settled
<1>5. ASSUME faults' = 0 PROVE RecordedOnce'
  <2>1. RecordedOnce /\ work.pause = Unnamed
    BY <1>1, <1>5 DEF CallInv, RecordedOnce, StepPlaces
  <2> QED  BY <2>1, <1>1, <1>2, <1>3 DEF RecordedOnce, Awaiting, StepPlaces
<1>6. ASSUME ~resumed' PROVE GoesThroughOnce'
  <2>1. GoesThroughOnce /\ pc \in StepPlaces
    BY <1>1, <1>6 DEF CallInv, GoesThroughOnce
  <2> QED  BY <2>1, <1>1, <1>2 DEF GoesThroughOnce, StepPlaces
<1> QED  BY <1>5, <1>6 DEF CallInv

\* The ends of a turn and the ways back into it touch no call.
LEMMA CEnds ==
    ASSUME TurnInv, CallInv,
           \/ FinalizeTurn \/ DeleteTurnState \/ SubmitAnswer
           \/ Cancel \/ Fail \/ Crash
           \/ \E close \in BOOLEAN : Resume(close)
    PROVE  CallInv'
<1>1. CASE FinalizeTurn \/ DeleteTurnState
  <2>1. /\ pc \in {"finish", "delete"} /\ pc' \in {"delete", "idle"}
        /\ work' \in {work, NoWork}
        /\ pc' = "idle" => turn' = NoTurn
        /\ UNCHANGED <<recorded, runs, marked, resumed, faults>>
    BY <1>1 DEF FinalizeTurn, DeleteTurnState, past
  <2>2. ASSUME faults' = 0 PROVE RecordedOnce'
    <3>1. RecordedOnce /\ work'.pause = Unnamed
      BY <2>1, <2>2 DEF CallInv, RecordedOnce, NoWork
    <3> QED  BY <2>1, <3>1 DEF RecordedOnce, Awaiting, NoTurn
  <2>3. ASSUME ~resumed' PROVE GoesThroughOnce'
    BY <2>1, <2>3 DEF CallInv, GoesThroughOnce, NoWork
  <2> QED  BY <2>2, <2>3 DEF CallInv
<1>2. CASE SubmitAnswer \/ Cancel
  <2>1. /\ UNCHANGED <<turn, result, recorded, pc, work, runs, marked, resumed,
                       faults>>
        /\ Awaiting' => Awaiting
    BY <1>2 DEF SubmitAnswer, Cancel, disk, process, past, Awaiting, Cancelled
  <2>2. Settled(turn.step)' = Settled(turn.step)
        /\ CallsOf(turn.step)' = CallsOf(turn.step)
    BY <2>1, SameCalls
  <2>3. RecordedOnce => RecordedOnce'
    BY <2>1, <2>2 DEF RecordedOnce
  <2>4. GoesThroughOnce => GoesThroughOnce'
    BY <2>1, <2>2 DEF GoesThroughOnce
  <2> QED  BY <2>1, <2>3, <2>4 DEF CallInv
<1>3. CASE Fail \/ Crash
  <2>1. /\ faults' /= 0 /\ pc' \in {"idle", "finish"}
        /\ work' \in {work, NoWork}
        /\ UNCHANGED <<recorded, runs, marked, resumed>>
    BY <1>3 DEF Fail, Crash, disk, TurnInv, TypeOK
  <2>2. ASSUME ~resumed' PROVE GoesThroughOnce'
    BY <2>1, <2>2 DEF CallInv, GoesThroughOnce, NoWork
  <2> QED  BY <2>1, <2>2 DEF CallInv
<1>4. CASE \E close \in BOOLEAN : Resume(close)
  <2>1. /\ pc = "idle" /\ resumed' /\ work' = NoWork
        /\ UNCHANGED <<turn, recorded, faults>>
    BY <1>4 DEF Resume
  <2>2. Settled(turn.step)' = Settled(turn.step)
    BY <2>1 DEF Settled
  <2>3. RecordedOnce => RecordedOnce'
    BY <2>1, <2>2 DEF RecordedOnce, NoWork
  <2> QED  BY <2>1, <2>3 DEF CallInv
<1> QED  BY <1>1, <1>2, <1>3, <1>4

\* A new turn has run no call.
LEMMA CStart ==
    ASSUME TurnInv, StartTurn
    PROVE  CallInv'
<1>1. /\ \A t \in Steps, c \in Calls : recorded'[t][c] = 0 /\ runs'[t][c] = 0
      /\ \A t \in Steps : marked'[t] = {} /\ recorded'[t][Unnamed] = 0
      /\ turn'.step \in Steps /\ turn'.pending = Unnamed
      /\ pc' = "stream" /\ work' = NoWork
  BY Shape, NoValues DEF StartTurn, NewTurn, NoTurn
<1>2. Settled(turn.step)' = {}
  BY <1>1 DEF Settled
<1>3. RecordedOnce'
  BY <1>1, <1>2 DEF RecordedOnce, NoWork
<1>4. GoesThroughOnce'
  BY <1>1 DEF GoesThroughOnce, NoWork
<1> QED  BY <1>3, <1>4 DEF CallInv

\* The tools phase begins with what it finds.
LEMMA CLoadTools ==
    ASSUME TurnInv, CallInv, LoadTools
    PROVE  CallInv'
<1>1. /\ pc = "loadTools" /\ pc' = "tools" /\ mem.step = turn.step
      /\ work'.handles = {} /\ work'.call = Unnamed /\ work'.pause = Unnamed
      /\ work'.had = (\E c \in 0..NumCalls : recorded[turn.step][c] > 0)
      /\ UNCHANGED <<turn, result, recorded, runs, marked, resumed, faults>>
  BY DEF LoadTools, NoWork, TurnInv, Agrees, disk, past
<1>2. Settled(turn.step)' = Settled(turn.step)
  BY <1>1 DEF Settled
<1>3. RecordedOnce => RecordedOnce'
  BY <1>1, <1>2 DEF RecordedOnce
<1>4. ASSUME GoesThroughOnce PROVE GoesThroughOnce'
  <2>1. \A c \in 0..NumCalls : recorded[turn.step][c] = 0
    <3>1. \A c \in Calls : recorded[turn.step][c] = 0
      BY <1>1, <1>4 DEF GoesThroughOnce
    <3>2. turn.step \in Steps /\ recorded[turn.step][Unnamed] = 0
      BY <1>4, Shape DEF GoesThroughOnce
    <3>3. \A c \in 0..NumCalls : c \in Calls \/ c = Unnamed
      BY BoundsAssumption DEF Calls, Unnamed
    <3> QED  BY <3>1, <3>2, <3>3
  <2>2. ~work'.had
    BY <1>1, <2>1
  <2>3. \A c \in Calls : runs[turn.step][c] = 0
    BY <1>1, <1>4 DEF GoesThroughOnce
  <2> QED  BY <1>1, <1>4, <2>2, <2>3 DEF GoesThroughOnce
<1> QED  BY <1>1, <1>3, <1>4 DEF CallInv

\* A call that is executed has no result, and in a first pass was not run.
LEMMA CExecute ==
    ASSUME TurnInv, CallInv, NEW c \in Calls, Execute(c)
    PROVE  CallInv'
<1>1. /\ pc = "tools" /\ pc' = "ran" /\ mem.step = turn.step
      /\ turn.step \in Steps /\ ~Cancelled /\ c \in Open
      /\ work'.handles = work.handles /\ work'.call = c
      /\ work'.pause = work.pause /\ work'.had = work.had
      /\ runs' = [runs EXCEPT ![turn.step][c] = @ + 1]
      /\ UNCHANGED <<turn, result, recorded, marked, resumed, faults>>
  BY Shape
     DEF TurnInv, TypeOK, Work, Execute, LoopPlaces, Agrees, InPhase, disk,
         IsNext
<1>2. /\ c \in CallsOf(turn.step) /\ c \notin Settled(turn.step)
      /\ c \notin work.handles /\ work.call = Unnamed /\ c /= Unnamed
  BY <1>1, Shape DEF Open, Missing, TurnInv, Working, LoopPlaces
<1>3. Settled(turn.step)' = Settled(turn.step)
  BY <1>1 DEF Settled
<1>4. RecordedOnce => RecordedOnce'
  BY <1>1, <1>2, <1>3 DEF RecordedOnce, Awaiting
<1>5. ASSUME GoesThroughOnce PROVE GoesThroughOnce'
  <2>1. runs[turn.step][c] = 0
    <3>1. ~(runs[turn.step][c] > 0)
      BY <1>1, <1>2, <1>5 DEF GoesThroughOnce
    <3>2. runs[turn.step][c] \in Nat
      BY <1>1, Shape
    <3> QED  BY <3>1, <3>2
  <2>2. \A t \in Steps, d \in Calls :
          runs'[t][d] = IF t = turn.step /\ d = c THEN 1 ELSE runs[t][d]
    <3>1. \A t \in Steps : runs[t] \in [Calls -> Nat]
      BY Shape
    <3> QED  BY <1>1, <2>1, <3>1, Shape
  <2>3. \A t \in Steps, d \in Calls : runs'[t][d] <= 1
    BY <1>5, <2>2 DEF GoesThroughOnce
  <2>4. \A d \in Calls : runs'[turn.step][d] > 0 =>
          d \in Settled(turn.step) \cup work.handles \cup {c}
    <3>1. \A d \in Calls : runs[turn.step][d] > 0 =>
            d \in Settled(turn.step) \cup work.handles \cup {work.call}
      BY <1>1, <1>5 DEF GoesThroughOnce
    <3>2. \A d \in Calls : d /= Unnamed
      BY Shape
    <3> QED  BY <1>1, <1>2, <2>2, <3>1, <3>2
  <2> QED  BY <1>1, <1>3, <1>5, <2>3, <2>4 DEF GoesThroughOnce
<1> QED  BY <1>1, <1>4, <1>5 DEF CallInv

\* What a first result of a call of the step changes.
LEMMA CRecord ==
    ASSUME TurnInv, NEW c \in CallsOf(turn.step), Record(c),
           pc \in LoopPlaces,
           UNCHANGED <<turn, stream, result, async, runs>>
    PROVE  /\ Settled(turn.step)' = Settled(turn.step) \cup {c}
           /\ CallsOf(turn.step)' = CallsOf(turn.step)
           /\ \A t \in Steps : recorded'[t][Unnamed] = recorded[t][Unnamed]
           /\ (/\ c \notin Settled(turn.step)
               /\ \A t \in Steps, d \in Calls : recorded[t][d] <= 1) =>
                 \A t \in Steps, d \in Calls : recorded'[t][d] <= 1
           /\ c \in Calls /\ c /= Unnamed
<1>1. c \in Calls /\ c /= Unnamed /\ mem.step = turn.step
  BY Shape DEF TurnInv, Agrees, LoopPlaces
<1>2. recorded' = [recorded EXCEPT ![turn.step][c] = OneMore(@)]
  BY <1>1 DEF Record
<1> QED  BY <1>1, <1>2, RecordKeeps, FirstResult

\* A turn pauses for a call that has no result.
LEMMA CPause ==
    ASSUME TurnInv, CallInv, NEW c \in CallsOf(turn.step),
           NEW phase \in {"tools", "async"}, Pause(c, phase), pc /= "idle",
           faults = 0 => c \notin Settled(turn.step),
           UNCHANGED <<result, recorded, past>>
    PROVE  CallInv'
<1>1. /\ turn'.step = turn.step /\ turn'.pending = c /\ pc' = "idle"
      /\ work' = NoWork /\ UNCHANGED <<runs, marked, resumed, faults>>
  BY Shape, PauseChange DEF Pause, TurnInv, Agrees, past
<1>2. Settled(turn.step)' = Settled(turn.step)
  BY <1>1 DEF Settled
<1>3. faults' = 0 => RecordedOnce'
  BY <1>1, <1>2 DEF CallInv, RecordedOnce, Awaiting, NoWork
<1>4. ~resumed' => GoesThroughOnce'
  BY <1>1 DEF CallInv, GoesThroughOnce, NoWork
<1> QED  BY <1>3, <1>4 DEF CallInv

LEMMA CContinue ==
    ASSUME TurnInv, CallInv, NEW c \in CallsOf(turn.step),
           NEW phase \in {"tools", "async"},
           pc \in {"tools", "recoverAsync"}, pc = "tools" => ~Cancelled,
           c \notin Settled(turn.step), c \notin work.handles,
           ContinueAsync(c, phase)
    PROVE  CallInv'
<1>1. /\ pc \in LoopPlaces /\ work.call = Unnamed /\ Awaiting
      /\ c /= Unnamed
  BY Shape DEF TurnInv, Working, LoopPlaces, Awaiting
<1>2. CASE Record(c) /\ UNCHANGED <<turn, stream, result, async, answered, pc,
                                    work, context, recover, past>>
  <2>1. UNCHANGED <<runs, marked, resumed, faults>>
    BY <1>2 DEF past
  <2>2. /\ Settled(turn.step)' = Settled(turn.step) \cup {c}
        /\ \A t \in Steps : recorded'[t][Unnamed] = recorded[t][Unnamed]
        /\ (\A t \in Steps, d \in Calls : recorded[t][d] <= 1) =>
              \A t \in Steps, d \in Calls : recorded'[t][d] <= 1
    BY <1>1, <1>2, <2>1, CRecord
  <2>3. RecordedOnce => RecordedOnce'
    BY <1>1, <1>2, <2>1, <2>2 DEF RecordedOnce
  <2>4. GoesThroughOnce => GoesThroughOnce'
    BY <1>1, <1>2, <2>1, <2>2 DEF GoesThroughOnce
  <2> QED  BY <2>1, <2>3, <2>4 DEF CallInv
<1>3. CASE /\ work' = [work EXCEPT !.handles = @ \cup {c}]
           /\ UNCHANGED <<disk, pc, mem, context, recover, past>>
  <2>1. /\ work'.handles = work.handles \cup {c} /\ work'.had = work.had
        /\ work'.call = work.call /\ work'.pause = work.pause
        /\ UNCHANGED <<turn, result, recorded, pc, runs, marked, resumed,
                       faults>>
    BY <1>3 DEF TurnInv, TypeOK, Work, disk, past
  <2>2. Settled(turn.step)' = Settled(turn.step)
    BY <2>1 DEF Settled
  <2>3. RecordedOnce => RecordedOnce'
    BY <1>1, <2>1, <2>2 DEF RecordedOnce
  <2>4. GoesThroughOnce => GoesThroughOnce'
    BY <1>1, <2>1, <2>2 DEF GoesThroughOnce
  <2> QED  BY <2>1, <2>3, <2>4 DEF CallInv
<1>4. CASE /\ Pause(c, phase)
           /\ UNCHANGED <<stream, result, recorded, async, recover, past>>
  BY <1>4, CPause
<1> QED  BY <1>2, <1>3, <1>4 DEF ContinueAsync

\* Only a resumed turn finds results on entry, and marks a call.
LEMMA CMark ==
    ASSUME TurnInv, CallInv, NEW c \in Calls, MarkInterrupted(c)
    PROVE  CallInv'
<1>1. /\ pc = "tools" /\ pc' = "tools" /\ pc \in LoopPlaces /\ ~Cancelled
      /\ c \in Open /\ mem.step = turn.step /\ Record(c) /\ work.had
      /\ work'.handles = work.handles /\ work'.call = work.call
      /\ work'.pause = work.pause
      /\ UNCHANGED <<turn, stream, result, async, runs, resumed, faults>>
  BY DEF TurnInv, TypeOK, Work, MarkInterrupted, LoopPlaces, Agrees, IsNext
<1>2. /\ c \in CallsOf(turn.step) /\ c \notin Settled(turn.step)
      /\ c \notin work.handles /\ work.call = Unnamed
  BY <1>1 DEF Open, Missing, TurnInv, Working, LoopPlaces
<1>3. RecordedOnce => RecordedOnce'
  <2>1. /\ Settled(turn.step)' = Settled(turn.step) \cup {c}
        /\ (\A t \in Steps, d \in Calls : recorded[t][d] <= 1) =>
              \A t \in Steps, d \in Calls : recorded'[t][d] <= 1
    BY <1>1, <1>2, CRecord
  <2> QED  BY <1>1, <1>2, <2>1 DEF RecordedOnce, Awaiting
<1>4. resumed
  BY <1>1 DEF CallInv, GoesThroughOnce
<1> QED  BY <1>1, <1>3, <1>4 DEF CallInv

\* What the executor returns: a result, work in progress or a question.
LEMMA CRanTo ==
    ASSUME TurnInv, CallInv, RanToResult \/ RanToAsync \/ RanToQuestion
    PROVE  CallInv'
<1>1. /\ pc = "ran" /\ pc \in LoopPlaces /\ mem.step = turn.step /\ Awaiting
      /\ work.call \in CallsOf(turn.step) /\ work.call /= Unnamed
      /\ faults = 0 => work.pause = Unnamed
  BY DEF TurnInv, Working, Agrees, LoopPlaces, Awaiting, RanToResult,
     RanToAsync, RanToQuestion, CallInv, RecordedOnce
<1>2. CASE RanToResult
  <2>1. /\ pc' = "tools" /\ Record(work.call)
        /\ work'.handles = work.handles /\ work'.call = Unnamed
        /\ work'.pause = work.pause /\ work'.had = work.had
        /\ UNCHANGED <<turn, stream, result, async, runs, marked, resumed,
                       faults>>
    BY <1>2 DEF TurnInv, TypeOK, Work, RanToResult, past
  <2>2. /\ Settled(turn.step)' = Settled(turn.step) \cup {work.call}
        /\ \A t \in Steps : recorded'[t][Unnamed] = recorded[t][Unnamed]
        /\ (/\ work.call \notin Settled(turn.step)
            /\ \A t \in Steps, d \in Calls : recorded[t][d] <= 1) =>
              \A t \in Steps, d \in Calls : recorded'[t][d] <= 1
    BY <1>1, <2>1, CRecord
  <2>3. ASSUME faults = 0 PROVE RecordedOnce'
    BY <1>1, <2>1, <2>2, <2>3 DEF CallInv, RecordedOnce, Awaiting
  <2>4. GoesThroughOnce => GoesThroughOnce'
    BY <1>1, <2>1, <2>2 DEF GoesThroughOnce
  <2> QED  BY <2>1, <2>3, <2>4 DEF CallInv
<1>3. CASE RanToAsync
  <2>1. /\ pc' = "tools" /\ work'.handles = work.handles \cup {work.call}
        /\ work'.call = Unnamed
        /\ work'.pause = work.pause /\ work'.had = work.had
        /\ UNCHANGED <<turn, result, recorded, runs, marked, resumed, faults>>
    BY <1>3 DEF TurnInv, TypeOK, Work, RanToAsync, past
  <2>2. Settled(turn.step)' = Settled(turn.step)
    BY <2>1 DEF Settled
  <2>3. ASSUME faults = 0 PROVE RecordedOnce'
    BY <1>1, <2>1, <2>2, <2>3 DEF CallInv, RecordedOnce, Awaiting
  <2>4. GoesThroughOnce => GoesThroughOnce'
    BY <1>1, <2>1, <2>2 DEF GoesThroughOnce
  <2> QED  BY <2>1, <2>3, <2>4 DEF CallInv
<1>4. CASE RanToQuestion
  <2>1. CASE work.handles = {}
    <3>1. Pause(work.call, "tools") /\ UNCHANGED <<result, recorded, past>>
      BY <1>4, <2>1 DEF RanToQuestion
    <3>2. faults = 0 => work.call \notin Settled(turn.step)
      BY <1>1 DEF CallInv, RecordedOnce
    <3> QED  BY <1>1, <3>1, <3>2, CPause
  <2>2. CASE work.handles /= {}
    <3>1. pc' = "wait"
          /\ UNCHANGED <<turn, result, recorded, work, runs, marked, resumed,
                         faults>>
      BY <1>4, <2>2 DEF RanToQuestion, disk, past
    <3>2. Settled(turn.step)' = Settled(turn.step)
      BY <3>1 DEF Settled
    <3>3. ASSUME faults = 0 PROVE RecordedOnce'
      BY <1>1, <3>1, <3>2, <3>3 DEF CallInv, RecordedOnce, Awaiting
    <3>4. GoesThroughOnce => GoesThroughOnce'
      BY <1>1, <3>1 DEF GoesThroughOnce
    <3> QED  BY <3>1, <3>3, <3>4 DEF CallInv
  <2> QED  BY <2>1, <2>2
<1> QED  BY <1>2, <1>3, <1>4

\* A cancelled turn gives each call that has none a result, also over work in
\* progress, which it looks at no more.
LEMMA CCancelCalls ==
    ASSUME TurnInv, CallInv, CancelCalls
    PROVE  CallInv'
<1>1. /\ pc = "tools" /\ pc \in LoopPlaces /\ Cancelled /\ Cancelled'
      /\ mem.step = turn.step /\ work.call = Unnamed
      /\ UNCHANGED <<turn, stream, result, async, work, runs, marked, resumed,
                     faults>>
  BY DEF TurnInv, Working, Agrees, CancelCalls, LoopPlaces, past, Cancelled
<1>2. CASE Missing = {}
  <2>1. pc' = "finish" /\ UNCHANGED recorded
    BY <1>2 DEF CancelCalls
  <2>2. faults = 0 => RecordedOnce'
    BY <1>1, <2>1 DEF CallInv, RecordedOnce, Awaiting
  <2>3. GoesThroughOnce => GoesThroughOnce'
    BY <1>1, <2>1 DEF GoesThroughOnce
  <2> QED  BY <1>1, <2>2, <2>3 DEF CallInv
<1>3. CASE Missing /= {}
  <2>1. PICK c \in Calls : pc' = pc /\ c \in Missing /\ Record(c)
    BY <1>3 DEF CancelCalls, IsNext
  <2>2. c \in CallsOf(turn.step) /\ c \notin Settled(turn.step)
    BY <1>1, <2>1 DEF Missing
  <2>3. /\ Settled(turn.step)' = Settled(turn.step) \cup {c}
        /\ \A t \in Steps : recorded'[t][Unnamed] = recorded[t][Unnamed]
        /\ (\A t \in Steps, d \in Calls : recorded[t][d] <= 1) =>
              \A t \in Steps, d \in Calls : recorded'[t][d] <= 1
    BY <1>1, <2>1, <2>2, CRecord
  <2>4. faults = 0 => RecordedOnce'
    BY <1>1, <2>1, <2>3 DEF CallInv, RecordedOnce, Awaiting
  <2>5. GoesThroughOnce => GoesThroughOnce'
    BY <1>1, <2>1, <2>3 DEF GoesThroughOnce
  <2> QED  BY <1>1, <2>4, <2>5 DEF CallInv
<1> QED  BY <1>2, <1>3

\* The wait is over: in a first pass nothing is missing.
LEMMA CFinalizeAsync ==
    ASSUME TurnInv, CallInv, FinalizeAsync
    PROVE  CallInv'
<1>1. /\ pc = "finalizeAsync" /\ pc \in LoopPlaces
      /\ mem.step = turn.step /\ work.call = Unnamed
      /\ UNCHANGED <<turn, stream, result, async, work, runs, resumed, faults>>
  BY DEF TurnInv, Working, Agrees, FinalizeAsync, LoopPlaces
<1>2. CASE Missing = {}
  <2>1. pc' = "nextStep" /\ UNCHANGED <<recorded, marked>>
    BY <1>2 DEF FinalizeAsync
  <2>2. faults = 0 => RecordedOnce'
    BY <1>1, <2>1 DEF CallInv, RecordedOnce, Awaiting
  <2>3. GoesThroughOnce => GoesThroughOnce'
    BY <1>1, <2>1 DEF GoesThroughOnce
  <2> QED  BY <1>1, <2>2, <2>3 DEF CallInv
<1>3. CASE Missing /= {}
  <2>1. PICK c \in Calls : pc' = pc /\ c \in Missing /\ Record(c)
    BY <1>3 DEF FinalizeAsync, IsNext
  <2>2. c \in CallsOf(turn.step) /\ c \notin Settled(turn.step)
    BY <1>1, <2>1 DEF Missing
  <2>3. /\ Settled(turn.step)' = Settled(turn.step) \cup {c}
        /\ (\A t \in Steps, d \in Calls : recorded[t][d] <= 1) =>
              \A t \in Steps, d \in Calls : recorded'[t][d] <= 1
    BY <1>1, <2>1, <2>2, CRecord
  <2>4. faults = 0 => RecordedOnce'
    BY <1>1, <2>1, <2>3 DEF CallInv, RecordedOnce, Awaiting
  <2>5. ~GoesThroughOnce
    BY <1>1, <2>2 DEF GoesThroughOnce
  <2> QED  BY <1>1, <2>4, <2>5 DEF CallInv
<1> QED  BY <1>2, <1>3

\* From one phase to the next: what is awaited is passed on.
LEMMA CPhases ==
    ASSUME TurnInv, CallInv, FinalizeTools \/ LoadAsync \/ RecoveredAll
    PROVE  CallInv'
<1>1. /\ pc \in {"tools", "loadAsync", "recoverAsync"} /\ pc \in LoopPlaces
      /\ mem.step = turn.step /\ work.call = Unnamed /\ Awaiting
      /\ UNCHANGED <<result, recorded, work, runs, marked, resumed, faults>>
  BY DEF TurnInv, Working, Agrees, FinalizeTools, LoadAsync, RecoveredAll,
     LoopPlaces, past, disk, Awaiting
<1>2. turn'.step = turn.step /\ turn'.pending = turn.pending
      /\ pc' \in {"nextStep", "loadAsync", "recoverAsync", "wait",
                  "finalizeAsync"}
  <2>1. CASE UNCHANGED turn
    BY <2>1 DEF FinalizeTools, LoadAsync, RecoveredAll
  <2>2. CASE turn' /= turn
    <3>1. turn' = [mem EXCEPT !.phase = "async"] /\ FinalizeTools
      BY <2>2 DEF FinalizeTools, LoadAsync, RecoveredAll, disk
    <3>2. mem.pending = turn.pending
      BY <1>1 DEF TurnInv, Agrees
    <3>3. turn'.step = mem.step /\ turn'.pending = mem.pending
      BY <3>1, Shape, PhaseChange DEF Phases
    <3> QED  BY <1>1, <3>1, <3>2, <3>3 DEF FinalizeTools
  <2> QED  BY <2>1, <2>2
<1>3. /\ Settled(turn.step)' = Settled(turn.step)
      /\ CallsOf(turn.step)' = CallsOf(turn.step)
  BY <1>1, <1>2, SameCalls
<1>4. ASSUME faults = 0 PROVE RecordedOnce'
  <2>1. RecordedOnce /\ work.pause = Unnamed
    BY <1>1, <1>4 DEF CallInv, RecordedOnce
  <2> QED  BY <1>1, <1>2, <1>3, <2>1 DEF RecordedOnce
<1>5. ASSUME GoesThroughOnce PROVE GoesThroughOnce'
  <2>1. CASE FinalizeTools
    <3>1. CallsOf(turn.step) \subseteq Settled(turn.step) \cup work.handles
      BY <1>1, <2>1 DEF FinalizeTools, Open, Missing
    <3>2. pc' = IF work.handles = {} THEN "nextStep" ELSE "loadAsync"
      BY <2>1 DEF FinalizeTools
    <3> QED  BY <1>1, <1>3, <1>5, <3>1, <3>2 DEF GoesThroughOnce
  <2>2. CASE LoadAsync
    <3>1. pc = "loadAsync" /\ pc' = "wait"
      BY <2>2, <1>5 DEF LoadAsync, GoesThroughOnce
    <3> QED  BY <1>1, <1>3, <1>5, <3>1 DEF GoesThroughOnce
  <2>3. CASE RecoveredAll
    BY <1>5, <2>3 DEF RecoveredAll, GoesThroughOnce
  <2> QED  BY <2>1, <2>2, <2>3
<1> QED  BY <1>1, <1>4, <1>5 DEF CallInv

\* The next step has run no call.
LEMMA CAdvance ==
    ASSUME TurnInv, CallInv, AdvanceStep
    PROVE  CallInv'
<1>1. /\ turn'.step = turn.step + 1 /\ turn'.pending = Unnamed
      /\ turn'.step \in Steps /\ turn.phase /= "none"
      /\ pc' = "stream" /\ work' = NoWork
      /\ UNCHANGED <<recorded, runs, marked, resumed, faults>>
  <2>1. TurnInv'
    BY IAdvanceStep
  <2>2. turn'.step \in Steps
    BY <2>1, TurnFields DEF TurnInv, TypeOK
  <2>3. turn.phase /= "none"
    BY DEF TurnInv, Agrees, AdvanceStep
  <2> QED  BY <2>2, <2>3, AdvanceShape DEF AdvanceStep, past
<1>2. faults = 0 => RecordedOnce'
  BY <1>1 DEF CallInv, RecordedOnce, Awaiting, NoWork
<1>3. \A c \in Calls :
        recorded[turn'.step][c] = 0 /\ runs[turn'.step][c] = 0
  <2>1. turn'.step > turn.step
    BY <1>1, Shape DEF Steps
  <2> QED  BY <1>1, <2>1 DEF TurnInv, Fresh
<1>4. GoesThroughOnce => GoesThroughOnce'
  BY <1>1, <1>3 DEF GoesThroughOnce, NoWork
<1> QED  BY <1>1, <1>2, <1>4 DEF CallInv

\* What is awaited reports.
LEMMA CAwait ==
    ASSUME TurnInv, CallInv, NEW c \in Calls, AwaitResult(c) \/ AwaitQuestion(c)
    PROVE  CallInv'
<1>1. /\ pc = "wait" /\ pc' = "wait" /\ pc \in LoopPlaces /\ Awaiting
      /\ c \in work.handles /\ c \in CallsOf(turn.step) /\ c /= Unnamed
      /\ work'.handles = work.handles \ {c}
      /\ work'.call = work.call /\ work'.had = work.had
      /\ UNCHANGED <<turn, stream, result, async, runs, marked, resumed,
                     faults>>
  BY Shape
     DEF TurnInv, TypeOK, Work, AwaitResult, AwaitQuestion, Working, past,
         disk, LoopPlaces, Awaiting
<1>2. CASE AwaitResult(c)
  <2>1. Record(c) /\ work'.pause = work.pause
    BY <1>2 DEF AwaitResult, TurnInv, TypeOK, Work
  <2>2. /\ Settled(turn.step)' = Settled(turn.step) \cup {c}
        /\ CallsOf(turn.step)' = CallsOf(turn.step)
        /\ \A t \in Steps : recorded'[t][Unnamed] = recorded[t][Unnamed]
        /\ (/\ c \notin Settled(turn.step)
            /\ \A t \in Steps, d \in Calls : recorded[t][d] <= 1) =>
              \A t \in Steps, d \in Calls : recorded'[t][d] <= 1
    BY <1>1, <2>1, CRecord
  <2>3. RecordedOnce => RecordedOnce'
    <3>1. RecordedOnce => c \notin Settled(turn.step)
      BY <1>1 DEF RecordedOnce
    <3> QED  BY <1>1, <2>1, <2>2, <3>1 DEF RecordedOnce
  <2>4. GoesThroughOnce => GoesThroughOnce'
    BY <1>1, <2>1, <2>2 DEF GoesThroughOnce
  <2> QED  BY <1>1, <2>3, <2>4 DEF CallInv
<1>3. CASE AwaitQuestion(c)
  <2>1. /\ UNCHANGED recorded
        /\ work'.pause = IF work.pause = Unnamed THEN c ELSE work.pause
    BY <1>3 DEF AwaitQuestion, disk, TurnInv, TypeOK, Work
  <2>2. Settled(turn.step)' = Settled(turn.step)
    BY <1>1, <2>1 DEF Settled
  <2>3. RecordedOnce => RecordedOnce'
    BY <1>1, <2>1, <2>2 DEF RecordedOnce
  <2>4. GoesThroughOnce => GoesThroughOnce'
    BY <1>1, <2>1 DEF GoesThroughOnce
  <2> QED  BY <1>1, <2>3, <2>4 DEF CallInv
<1> QED  BY <1>2, <1>3

LEMMA CWaitOver ==
    ASSUME TurnInv, CallInv, WaitOver
    PROVE  CallInv'
<1>1. /\ pc = "wait" /\ pc /= "idle" /\ work.handles = {} /\ Awaiting
      /\ UNCHANGED <<result, recorded, past>>
  BY DEF WaitOver, Awaiting
<1>2. CASE work.pause /= Unnamed \/ work.call /= Unnamed
  <2>1. PICK c \in {work.pause, work.call}, phase \in {"tools", "async"} :
          c /= Unnamed /\ Pause(c, phase)
    BY <1>2 DEF WaitOver
  <2>2. c \in CallsOf(turn.step)
    BY <2>1 DEF TurnInv, Working
  <2>3. faults = 0 => c \notin Settled(turn.step)
    BY <1>1, <2>1 DEF CallInv, RecordedOnce
  <2> QED  BY <1>1, <2>1, <2>2, <2>3, CPause
<1>3. CASE work.pause = Unnamed /\ work.call = Unnamed
  <2>1. /\ pc' = "finalizeAsync"
        /\ UNCHANGED <<turn, work, runs, marked, resumed, faults>>
    BY <1>3 DEF WaitOver, past
  <2>2. /\ Settled(turn.step)' = Settled(turn.step)
        /\ CallsOf(turn.step)' = CallsOf(turn.step)
    BY <1>1, <2>1, SameCalls
  <2>3. RecordedOnce => RecordedOnce'
    BY <1>1, <1>3, <2>1, <2>2 DEF RecordedOnce, Awaiting
  <2>4. GoesThroughOnce => GoesThroughOnce'
    BY <1>1, <1>3, <2>1, <2>2 DEF GoesThroughOnce
  <2> QED  BY <2>1, <2>3, <2>4 DEF CallInv
<1> QED  BY <1>2, <1>3

\* Only a resumed turn answers; the answered call has no result before.
LEMMA CAnswer ==
    ASSUME TurnInv, CallInv,
           AnswerResult \/ AnswerAsync \/ AnswerQuestion \/ LeaveAnswer
    PROVE  CallInv'
<1>1. /\ pc \in {"answer", "answered", "answeredAsync"} /\ pc \in LoopPlaces
      /\ pc /= "idle" /\ mem.step = turn.step /\ work.call = Unnamed
      /\ mem.pending = turn.pending /\ turn.pending /= Unnamed
      /\ turn.pending \in CallsOf(turn.step)
      /\ UNCHANGED <<runs, marked, resumed, faults>>
  BY DEF TurnInv, Working, Agrees, NamesCalls, InPhase, LoopPlaces, past,
     AnswerResult, AnswerAsync, AnswerQuestion, LeaveAnswer
<1>2. resumed
  BY <1>1 DEF CallInv, GoesThroughOnce
<1>3. CASE AnswerResult
  <2> DEFINE c == IF result[mem.step].listed THEN mem.pending ELSE Unnamed
  <2>1. /\ pc = "answer" /\ pc' = "answered" /\ Record(c)
        /\ UNCHANGED <<turn, stream, result, async, work>>
    BY <1>3 DEF AnswerResult
  <2>2. ASSUME faults = 0 PROVE RecordedOnce'
    <3>1. /\ turn.pending \notin Settled(turn.step) /\ work.handles = {}
          /\ work.pause = Unnamed
          /\ \A t \in Steps, d \in Calls : recorded[t][d] <= 1
      BY <1>1, <2>1, <2>2 DEF CallInv, RecordedOnce
    <3>2. \A t \in Steps, d \in Calls : recorded'[t][d] <= 1
      <4>1. CASE c = Unnamed
        <5>1. recorded' = [recorded EXCEPT ![mem.step][Unnamed] = OneMore(@)]
          BY <2>1, <4>1 DEF Record
        <5>2. \A t \in Steps, d \in Calls : recorded'[t][d] = recorded[t][d]
          BY <5>1, Shape
        <5> QED  BY <5>2, <3>1
      <4>2. CASE c = turn.pending
        BY <1>1, <2>1, <3>1, <4>2, CRecord
      <4> QED  BY <1>1, <4>1, <4>2
    <3> QED  BY <1>1, <2>1, <3>1, <3>2 DEF RecordedOnce, Awaiting
  <2> QED  BY <1>1, <1>2, <2>2 DEF CallInv
<1>4. CASE AnswerAsync
  <2>1. /\ pc = "answer" /\ pc' = "answeredAsync"
        /\ work' = [NoWork EXCEPT !.handles = {turn.pending}]
        /\ UNCHANGED <<turn, result, recorded>>
    BY <1>1, <1>4 DEF AnswerAsync
  <2>2. work'.handles = {turn.pending} /\ work'.call = Unnamed
        /\ work'.pause = Unnamed
    BY <2>1 DEF NoWork
  <2>3. Settled(turn.step)' = Settled(turn.step)
    BY <2>1 DEF Settled
  <2>4. RecordedOnce => RecordedOnce'
    BY <1>1, <2>1, <2>2, <2>3 DEF RecordedOnce
  <2> QED  BY <1>1, <1>2, <2>4 DEF CallInv
<1>5. CASE AnswerQuestion
  <2>1. /\ pc = "answer" /\ Pause(turn.pending, mem.resume)
        /\ UNCHANGED <<result, recorded, past>>
    BY <1>1, <1>5 DEF AnswerQuestion
  <2>2. mem.resume \in {"tools", "async"}
    BY Shape, TurnFields
  <2>3. faults = 0 => turn.pending \notin Settled(turn.step)
    BY <1>1, <2>1 DEF CallInv, RecordedOnce
  <2> QED  BY <1>1, <2>1, <2>2, <2>3, CPause
<1>6. CASE LeaveAnswer
  <2> DEFINE q == IF pc = "answered" THEN mem.resume ELSE "async"
  <2>1. q \in {"tools", "async"} /\ q \in Phases /\ Unnamed \in 0..NumCalls
    BY Shape, TurnFields, NoValues DEF Phases
  <2>2. mem' = [mem EXCEPT !.phase = q, !.pending = Unnamed] /\ turn' = mem'
    BY <1>6 DEF LeaveAnswer
  <2>3. turn'.phase = q /\ turn'.step = turn.step /\ turn'.pending = Unnamed
    BY <1>1, <2>1, <2>2, Shape, PhaseAndPendingChange
  <2>4. /\ pc \in {"answered", "answeredAsync"}
        /\ pc' \in {"loadTools", "loadAsync"}
        /\ UNCHANGED <<result, recorded, work>>
    BY <1>6, <2>1, <2>2, <2>3 DEF LeaveAnswer, PlaceOf
  <2>5. Settled(turn.step)' = Settled(turn.step)
    BY <2>3, <2>4 DEF Settled
  <2>6. RecordedOnce => RecordedOnce'
    BY <1>1, <2>3, <2>4, <2>5 DEF RecordedOnce, Awaiting
  <2> QED  BY <1>1, <1>2, <2>6 DEF CallInv
<1> QED  BY <1>3, <1>4, <1>5, <1>6

\* A turn that is cancelled while it waits denies a call without a result.
LEMMA CCancelWaiting ==
    ASSUME TurnInv, CallInv, CancelWaitingTurn
    PROVE  CallInv'
<1>1. /\ pc = "idle" /\ pc' = "finish" /\ turn.pending /= Unnamed
      /\ turn.pending \in CallsOf(turn.step) /\ work = NoWork
      /\ recorded' =
           [recorded EXCEPT ![turn.step][turn.pending] = OneMore(@)]
      /\ UNCHANGED <<turn, result, async, work, runs, marked, resumed, faults>>
  BY DEF TurnInv, CancelWaitingTurn, past, Working, NamesCalls
<1>2. /\ \A t \in Steps : recorded'[t][Unnamed] = recorded[t][Unnamed]
      /\ (/\ turn.pending \notin Settled(turn.step)
          /\ \A t \in Steps, d \in Calls : recorded[t][d] <= 1) =>
            \A t \in Steps, d \in Calls : recorded'[t][d] <= 1
  BY <1>1, FirstResult
<1>3. RecordedOnce => RecordedOnce'
  BY <1>1, <1>2 DEF RecordedOnce, Awaiting, NoWork
<1>4. GoesThroughOnce => GoesThroughOnce'
  BY <1>1, <1>2 DEF GoesThroughOnce
<1> QED  BY <1>1, <1>3, <1>4 DEF CallInv

LEMMA CInit == Init => CallInv
<1> SUFFICES ASSUME Init PROVE CallInv
  OBVIOUS
<1>1. /\ \A t \in Steps, c \in Calls : recorded[t][c] = 0 /\ runs[t][c] = 0
      /\ \A t \in Steps : marked[t] = {} /\ recorded[t][Unnamed] = 0
      /\ turn.pending = Unnamed /\ pc = "idle" /\ work = NoWork
  BY NoValues, CallNames DEF Init, NoTurn
<1>2. RecordedOnce
  BY <1>1 DEF RecordedOnce, Awaiting, NoWork
<1>3. GoesThroughOnce
  BY <1>1 DEF GoesThroughOnce, NoWork
<1> QED  BY <1>2, <1>3 DEF CallInv

LEMMA CStutter == ASSUME CallInv, UNCHANGED vars PROVE CallInv'
<1>1. Awaiting' = Awaiting
  BY DEF vars, disk, process, past, Awaiting, Cancelled
<1>2. Settled(turn.step)' = Settled(turn.step)
      /\ CallsOf(turn.step)' = CallsOf(turn.step)
  BY SameCalls DEF vars, disk
<1>3. RecordedOnce => RecordedOnce'
  BY <1>1, <1>2 DEF vars, disk, process, past, RecordedOnce
<1>4. GoesThroughOnce => GoesThroughOnce'
  BY <1>2 DEF vars, disk, process, past, GoesThroughOnce
<1> QED  BY <1>3, <1>4 DEF vars, past, CallInv

LEMMA CNext == ASSUME TurnInv, CallInv, Next PROVE CallInv'
<1>1. CASE StartTurn
  BY <1>1, CStart
<1>2. CASE ResumeTurn \/ CloseInterruptedTurn
  <2>1. \E close \in BOOLEAN : Resume(close)
    BY <1>2 DEF ResumeTurn, CloseInterruptedTurn
  <2> QED  BY <2>1, CEnds
<1>3. CASE \E c \in Calls : ContinueInTools(c)
  <2>1. PICK c \in Calls : ContinueInTools(c)
    BY <1>3
  <2>2. pc = "tools" /\ ~Cancelled /\ c \in Open /\ ContinueAsync(c, "tools")
        /\ mem.step = turn.step
    BY <2>1 DEF ContinueInTools, IsNext, TurnInv, Agrees
  <2>3. /\ c \in CallsOf(turn.step) /\ c \notin Settled(turn.step)
        /\ c \notin work.handles
    BY <2>2 DEF Open, Missing
  <2> QED  BY <2>2, <2>3, CContinue
<1>4. CASE \E c \in Calls : RecoverContinuation(c)
  <2>1. PICK c \in Calls : RecoverContinuation(c)
    BY <1>4
  <2>2. pc = "recoverAsync" /\ mem.step = turn.step /\ turn.step \in Steps
    BY <2>1, Shape DEF RecoverContinuation, TurnInv, Agrees
  <2>3. /\ c \in CallsOf(turn.step) /\ ContinueAsync(c, "async")
        /\ c \notin Settled(turn.step) /\ c \notin work.handles
    BY <2>1, <2>2 DEF RecoverContinuation, ToRecover, TurnInv, NamesCalls
  <2> QED  BY <2>2, <2>3, CContinue
<1>5. CASE \E c \in Calls : MarkInterrupted(c) \/ Execute(c) \/ AwaitResult(c)
                            \/ AwaitQuestion(c)
  BY <1>5, CMark, CExecute, CAwait
<1>6. CASE \/ \E n \in 0..NumCalls : FinishStream(n)
           \/ PrepareStep \/ RequestCompletion \/ ReceiveChunk
           \/ SaveStepResult \/ CancelledStream \/ SaveReply \/ DecideStep
  BY <1>6, CMoves
<1>7. CASE LoadTools \/ RanToResult \/ RanToAsync \/ RanToQuestion
  BY <1>7, CLoadTools, CRanTo
<1>8. CASE \/ CancelCalls \/ FinalizeTools \/ AdvanceStep \/ LoadAsync
           \/ RecoveredAll \/ WaitOver \/ FinalizeAsync
           \/ AnswerResult \/ AnswerAsync \/ AnswerQuestion \/ LeaveAnswer
  BY <1>8, CCancelCalls, CPhases, CAdvance, CWaitOver, CFinalizeAsync, CAnswer
<1>9. CASE \/ FinalizeTurn \/ DeleteTurnState \/ SubmitAnswer
           \/ CancelWaitingTurn \/ Cancel \/ Fail \/ Crash
  BY <1>9, CEnds, CCancelWaiting
<1> QED  BY <1>1, <1>2, <1>3, <1>4, <1>5, <1>6, <1>7, <1>8, <1>9
         DEF Next, LoopStep

LEMMA CallsInductive == Spec => []CallInv
<1>1. TurnInv /\ CallInv /\ [Next]_vars => CallInv'
  BY CNext, CStutter
<1> QED  BY <1>1, CInit, Inductive, PTL DEF Spec

-----------------------------------------------------------------------------
(* The chain of messages. *)

AfterReply == pc = "decide" \/ turn.phase \in {"tools", "async", "answer"}

\* A step of the loop that writes no message keeps the chain.
LEMMA HMove ==
    ASSUME ChainKept, UNCHANGED recorded,
           turn'.step = turn.step, Chain \subseteq Chain',
           \A t \in Steps : result'[t].there => result'[t].listed,
           pc' = "idle" => turn'.phase = "answer",
           pc' /= "stream",
           AfterReply' => AfterReply
    PROVE  ChainKept'
  BY DEF ChainKept, AfterReply, Settled

\* A result that is recorded becomes the leaf.
LEMMA HRecord ==
    ASSUME TurnInv, ChainKept, NEW c \in CallsOf(turn.step),
           recorded' = [recorded EXCEPT ![turn.step][c] = OneMore(@)],
           Chain' = Chain \cup {<<turn.step, c>>},
           UNCHANGED <<turn, result, async, runs>>, turn.phase /= "none",
           pc' \notin {"idle", "stream", "decide"}
    PROVE  ChainKept'
<1>1. Settled(turn.step)' = Settled(turn.step) \cup {c}
  BY RecordedFiles, Shape
<1>2. \A t \in Steps : t /= turn.step => Settled(t)' = Settled(t)
  <2>1. \A t \in Steps : t /= turn.step => recorded'[t] = recorded[t]
    BY Shape
  <2> QED  BY <2>1 DEF Settled
<1>3. \A t \in Steps : \A d \in Settled(t)' : <<t, d>> \in Chain'
  BY <1>1, <1>2 DEF ChainKept
<1> QED  BY <1>3 DEF ChainKept

\* Recorded by the loop.
LEMMA HLoopRecord ==
    ASSUME TurnInv, ChainKept, NEW c \in CallsOf(turn.step), Record(c),
           pc \in LoopPlaces, pc' \notin {"idle", "stream", "decide"},
           UNCHANGED <<turn, result, async, runs>>
    PROVE  ChainKept'
<1>1. mem.step = turn.step /\ turn.phase /= "none" /\ pc /= "idle"
  BY DEF TurnInv, Agrees, LoopPlaces
<1>2. mem'.leaf = mem.leaf \cup {<<turn.step, c>>}
  BY <1>1, Shape DEF Record, TurnStates
<1>3. Chain' = Chain \cup {<<turn.step, c>>}
  BY <1>1, <1>2 DEF Chain
<1> QED  BY <1>1, <1>3, HRecord DEF Record

\* A question takes the chain to disk.
LEMMA HPause ==
    ASSUME TurnInv, ChainKept, NEW c \in CallsOf(turn.step),
           NEW phase \in {"tools", "async"}, Pause(c, phase), pc /= "idle",
           turn.phase \in {"tools", "async", "answer"},
           UNCHANGED <<result, recorded>>
    PROVE  ChainKept'
<1>1. /\ turn'.step = turn.step /\ turn'.phase = "answer" /\ pc' = "idle"
  BY Shape, PauseChange DEF Pause, TurnInv, Agrees
<1>2. turn'.leaf = mem.leaf
  BY Shape DEF Pause, TurnStates
<1>3. Chain' = Chain
  BY <1>1, <1>2 DEF Chain
<1> QED  BY <1>1, <1>3, HMove DEF AfterReply, ChainKept

\* The streaming phase.
LEMMA HStreaming ==
    ASSUME TurnInv, ChainKept, turn.phase /= "none",
           \/ RequestCompletion \/ ReceiveChunk
           \/ \E n \in 0..NumCalls : FinishStream(n)
           \/ PrepareStep \/ DecideStep
    PROVE  ChainKept'
<1>1. /\ UNCHANGED <<result, recorded>> /\ pc /= "idle"
      /\ mem.step = turn.step /\ mem.phase = turn.phase
  BY DEF RequestCompletion, ReceiveChunk, FinishStream, PrepareStep,
     DecideStep, TurnInv, Agrees
<1>2. mem'.leaf = mem.leaf /\ mem'.step = mem.step
      /\ \/ UNCHANGED turn
         \/ PrepareStep /\ turn'.step = turn.step /\ turn'.phase = turn.phase
         \/ DecideStep /\ turn'.step = turn.step
  BY <1>1, Shape
     DEF RequestCompletion, ReceiveChunk, FinishStream, PrepareStep,
         DecideStep, TurnStates, process
<1>3. /\ pc' \notin {"idle", "stream"}
      /\ pc' = "decide" => pc = "decide"
  BY <1>1
     DEF RequestCompletion, ReceiveChunk, FinishStream, PrepareStep,
         DecideStep, process, ChainKept
<1>4. Chain' = Chain
  BY <1>1, <1>2, <1>3 DEF Chain
<1>5. AfterReply' => AfterReply
  BY <1>2, <1>3 DEF AfterReply, DecideStep
<1> QED  BY <1>1, <1>2, <1>3, <1>4, <1>5, HMove DEF ChainKept

\* A completion is written with the list of its calls; then its reply
\* becomes the leaf.
LEMMA HReply ==
    ASSUME TurnInv, ChainKept, turn.phase /= "none",
           SaveStepResult \/ CancelledStream \/ SaveReply
    PROVE  ChainKept'
<1>1. /\ UNCHANGED <<turn, recorded>> /\ pc /= "idle" /\ turn.step \in Steps
      /\ mem.step = turn.step /\ pc' \notin {"idle", "stream"}
  BY Shape
     DEF SaveStepResult, CancelledStream, SaveReply, TurnInv, Agrees
<1>2. CASE SaveStepResult \/ CancelledStream
  <2>1. UNCHANGED mem /\ pc' /= "decide"
    BY <1>2 DEF SaveStepResult, CancelledStream
  <2>2. \A t \in Steps : result'[t].there => result'[t].listed
    <3> DEFINE r(n) == [there |-> TRUE, calls |-> n,
                        saved |-> FALSE, listed |-> TRUE]
    <3>1. SaveStepResult =>
            result' = [result EXCEPT ![turn.step] = r(stream.calls)]
      BY <1>1 DEF SaveStepResult
    <3>2. CancelledStream =>
            UNCHANGED result \/ result' = [result EXCEPT ![turn.step] = r(0)]
      BY <1>1 DEF CancelledStream
    <3>3. ASSUME NEW q, q.listed, result' = [result EXCEPT ![turn.step] = q]
          PROVE  \A t \in Steps : result'[t].there => result'[t].listed
      <4>1. \A t \in Steps :
              result'[t] = IF t = turn.step THEN q ELSE result[t]
        BY <3>3, Shape
      <4> QED  BY <3>3, <4>1 DEF ChainKept
    <3>4. r(stream.calls).listed /\ r(0).listed
      OBVIOUS
    <3>5. UNCHANGED result =>
            \A t \in Steps : result'[t].there => result'[t].listed
      BY DEF ChainKept
    <3> HIDE DEF r
    <3> QED  BY <1>2, <3>1, <3>2, <3>3, <3>4, <3>5
  <2>3. Chain' = Chain
    BY <1>1, <2>1 DEF Chain
  <2>4. AfterReply' => AfterReply
    BY <1>1, <2>1 DEF AfterReply
  <2> QED  BY <1>1, <2>2, <2>3, <2>4, HMove
<1>3. CASE SaveReply
  <2>1. mem'.leaf = mem.leaf \cup {<<turn.step, Reply>>}
    BY <1>1, <1>3, Shape DEF SaveReply, TurnStates
  <2>2. Chain' = Chain \cup {<<turn.step, Reply>>}
    BY <1>1, <2>1 DEF Chain
  <2>3. \A t \in Steps : result'[t].there = result[t].there
                         /\ result'[t].listed = result[t].listed
    <3>1. \A t \in Steps : result'[t] =
            IF t = turn.step THEN [result[turn.step] EXCEPT !.saved = TRUE]
            ELSE result[t]
      BY <1>1, <1>3, Shape DEF SaveReply
    <3>2. result[turn.step] \in StepResults
      BY Shape
    <3> QED  BY <3>1, <3>2 DEF StepResults
  <2> QED  BY <1>1, <2>2, <2>3 DEF ChainKept, Settled
<1> QED  BY <1>2, <1>3

\* The other steps of the loop that write no message.
LEMMA HQuiet ==
    ASSUME TurnInv, ChainKept, turn.phase /= "none",
           \/ LoadTools \/ LoadAsync \/ RecoveredAll \/ Cancel
           \/ RanToAsync \/ FinalizeTools \/ AnswerAsync \/ LeaveAnswer
           \/ FinalizeTurn
           \/ \E c \in Calls : Execute(c) \/ AwaitQuestion(c)
    PROVE  ChainKept'
<1>1. /\ UNCHANGED <<result, recorded>> /\ pc /= "idle" /\ pc' /= "idle"
      /\ mem.step = turn.step /\ mem.phase = turn.phase
      /\ Cancel => (pc' = pc /\ UNCHANGED turn)
      /\ ~Cancel => (pc' /= "stream" /\ pc' /= "decide")
  <2>1. pc /= "idle" /\ UNCHANGED <<result, recorded>>
    BY DEF LoadTools, LoadAsync, RecoveredAll, Cancel, RanToAsync,
       FinalizeTools, AnswerAsync, LeaveAnswer, FinalizeTurn, Execute,
       AwaitQuestion, disk, LoopPlaces
  <2>2. CASE LeaveAnswer
    <3>1. mem.resume \in {"tools", "async"}
      BY Shape, TurnFields
    <3>2. mem'.phase \in {"tools", "async"}
      BY <2>2, <3>1, Shape DEF LeaveAnswer, TurnStates
    <3> QED  BY <2>1, <2>2, <3>2
             DEF LeaveAnswer, PlaceOf, TurnInv, Agrees, Cancel
  <2>3. CASE ~LeaveAnswer
    BY <2>1, <2>3
       DEF LoadTools, LoadAsync, RecoveredAll, Cancel, RanToAsync,
           FinalizeTools, AnswerAsync, FinalizeTurn, Execute, AwaitQuestion,
           disk, TurnInv, Agrees
  <2> QED  BY <2>2, <2>3
<1>2. mem'.leaf = mem.leaf /\ mem'.step = mem.step
  BY Shape
     DEF LoadTools, LoadAsync, RecoveredAll, Cancel, RanToAsync,
         FinalizeTools, AnswerAsync, LeaveAnswer, FinalizeTurn, Execute,
         AwaitQuestion, TurnStates
<1>3. /\ turn'.step = turn.step
      /\ turn'.phase /= turn.phase => (FinalizeTools \/ LeaveAnswer)
  BY <1>1, <1>2
     DEF LoadTools, LoadAsync, RecoveredAll, Cancel, RanToAsync,
         FinalizeTools, AnswerAsync, LeaveAnswer, FinalizeTurn, Execute,
         AwaitQuestion, disk
<1>4. Chain' = Chain
  BY <1>1, <1>2 DEF Chain
<1>5. AfterReply' => AfterReply
  BY <1>1, <1>3
     DEF AfterReply, FinalizeTools, LeaveAnswer, TurnInv, InPhase
<1>6. CASE Cancel
  BY <1>1, <1>4, <1>6 DEF ChainKept, Settled
<1>7. CASE ~Cancel
  BY <1>1, <1>3, <1>4, <1>5, <1>7, HMove DEF ChainKept
<1> QED  BY <1>6, <1>7

\* Results of calls, and questions.
LEMMA HCalls ==
    ASSUME TurnInv, ChainKept, turn.phase /= "none",
           \/ \E c \in Calls : \/ ContinueInTools(c) \/ RecoverContinuation(c)
                               \/ MarkInterrupted(c) \/ AwaitResult(c)
           \/ RanToResult \/ RanToQuestion
    PROVE  ChainKept'
<1>1. \A c \in CallsOf(turn.step), phase \in {"tools", "async"} :
        (pc \in {"tools", "recoverAsync"} /\ ContinueAsync(c, phase)) =>
            ChainKept'
  <2> SUFFICES ASSUME NEW c \in CallsOf(turn.step),
                      NEW phase \in {"tools", "async"},
                      pc \in {"tools", "recoverAsync"}, ContinueAsync(c, phase)
               PROVE  ChainKept'
    OBVIOUS
  <2>1. pc \in LoopPlaces /\ pc /= "idle"
    BY DEF LoopPlaces
  <2>2. CASE Record(c) /\ UNCHANGED <<turn, stream, result, async, answered,
                              pc, work, context, recover, past>>
    BY <2>1, <2>2, HLoopRecord DEF past
  <2>3. CASE UNCHANGED <<disk, pc, mem, context, recover, past>>
    BY <2>3 DEF disk, ChainKept, Chain, Settled
  <2>4. CASE /\ Pause(c, phase)
             /\ UNCHANGED <<stream, result, recorded, async, recover, past>>
    <3>1. turn.phase \in {"tools", "async"}
      BY DEF TurnInv, InPhase
    <3> QED  BY <2>1, <2>4, <3>1, HPause
  <2> QED  BY <2>2, <2>3, <2>4 DEF ContinueAsync
<1>2. CASE \E c \in Calls : ContinueInTools(c)
  <2>1. PICK c \in Calls : ContinueInTools(c)
    BY <1>2
  <2>2. c \in CallsOf(turn.step) /\ pc = "tools" /\ ContinueAsync(c, "tools")
    BY <2>1 DEF ContinueInTools, TurnInv, Working
  <2> QED  BY <1>1, <2>2
<1>3. CASE \E c \in Calls : RecoverContinuation(c)
  <2>1. PICK c \in Calls : RecoverContinuation(c)
    BY <1>3
  <2>2. pc = "recoverAsync" /\ mem.step = turn.step /\ turn.step \in Steps
    BY <2>1, Shape DEF RecoverContinuation, TurnInv, Agrees
  <2>3. c \in CallsOf(turn.step) /\ ContinueAsync(c, "async")
    BY <2>1, <2>2 DEF RecoverContinuation, ToRecover, TurnInv, NamesCalls
  <2> QED  BY <1>1, <2>2, <2>3
<1>4. CASE \E c \in Calls : MarkInterrupted(c) \/ AwaitResult(c)
  <2>1. PICK c \in Calls : MarkInterrupted(c) \/ AwaitResult(c)
    BY <1>4
  <2>2. /\ pc \in {"tools", "wait"} /\ pc' = pc /\ Record(c)
        /\ pc \in LoopPlaces /\ mem.step = turn.step
        /\ UNCHANGED <<turn, result, async, runs>>
    BY <2>1 DEF MarkInterrupted, AwaitResult, past, LoopPlaces, TurnInv, Agrees
  <2>3. c \in CallsOf(turn.step)
    BY <2>1, <2>2
       DEF MarkInterrupted, AwaitResult, IsNext, Open, Missing, TurnInv,
           Working
  <2> QED  BY <2>2, <2>3, HLoopRecord
<1>5. CASE RanToResult \/ RanToQuestion
  <2>1. /\ pc = "ran" /\ pc \in LoopPlaces /\ pc /= "idle"
        /\ work.call \in CallsOf(turn.step) /\ turn.phase = "tools"
    BY <1>5 DEF RanToResult, RanToQuestion, LoopPlaces, TurnInv, Working,
       InPhase
  <2>2. CASE RanToResult
    BY <2>1, <2>2, HLoopRecord DEF RanToResult, past
  <2>3. CASE RanToQuestion /\ work.handles = {}
    BY <2>1, <2>3, HPause DEF RanToQuestion
  <2>4. CASE RanToQuestion /\ work.handles /= {}
    BY <2>1, <2>4 DEF RanToQuestion, disk, ChainKept, Chain, Settled
  <2> QED  BY <1>5, <2>2, <2>3, <2>4
<1> QED  BY <1>2, <1>3, <1>4, <1>5

LEMMA HPhaseEnds ==
    ASSUME TurnInv, ChainKept, turn.phase /= "none",
           CancelCalls \/ FinalizeAsync \/ WaitOver
    PROVE  ChainKept'
<1>1. CASE CancelCalls \/ FinalizeAsync
  <2>1. /\ pc \in {"tools", "finalizeAsync"} /\ pc \in LoopPlaces
        /\ pc' \in {"tools", "finalizeAsync", "finish", "nextStep"}
        /\ mem.step = turn.step
        /\ UNCHANGED <<turn, result, async, runs>>
    BY <1>1 DEF CancelCalls, FinalizeAsync, LoopPlaces, past, TurnInv, Agrees
  <2>2. CASE Missing = {}
    <3>1. UNCHANGED <<recorded, mem>>
      BY <1>1, <2>2 DEF CancelCalls, FinalizeAsync
    <3>2. Chain' = Chain
      BY <2>1, <3>1 DEF Chain
    <3> QED  BY <2>1, <3>1, <3>2, HMove DEF AfterReply, ChainKept
  <2>3. CASE Missing /= {}
    <3>1. PICK c \in Calls : IsNext(c, Missing) /\ Record(c)
      BY <1>1, <2>3 DEF CancelCalls, FinalizeAsync
    <3>2. c \in CallsOf(turn.step)
      BY <2>1, <3>1 DEF IsNext, Missing
    <3> QED  BY <2>1, <3>1, <3>2, HLoopRecord
  <2> QED  BY <2>2, <2>3
<1>2. CASE WaitOver
  <2>1. /\ pc = "wait" /\ pc /= "idle" /\ UNCHANGED <<result, recorded>>
        /\ turn.phase \in {"tools", "async"}
    BY <1>2 DEF WaitOver, TurnInv, InPhase
  <2>2. CASE work.pause /= Unnamed \/ work.call /= Unnamed
    <3>1. PICK c \in {work.pause, work.call}, phase \in {"tools", "async"} :
            c /= Unnamed /\ Pause(c, phase)
      BY <1>2, <2>2 DEF WaitOver
    <3>2. c \in CallsOf(turn.step)
      BY <3>1 DEF TurnInv, Working
    <3> QED  BY <2>1, <3>1, <3>2, HPause
  <2>3. CASE work.pause = Unnamed /\ work.call = Unnamed
    <3>1. pc' = "finalizeAsync" /\ UNCHANGED <<turn, mem>>
      BY <1>2, <2>3 DEF WaitOver
    <3>2. Chain' = Chain
      BY <2>1, <3>1 DEF Chain
    <3> QED  BY <2>1, <3>1, <3>2, HMove DEF AfterReply, ChainKept
  <2> QED  BY <2>2, <2>3
<1> QED  BY <1>1, <1>2

\* The next step is written with a chain that holds the step that is left.
LEMMA HAdvance ==
    ASSUME TurnInv, ChainKept, AdvanceStep
    PROVE  ChainKept'
<1>1. /\ pc = "nextStep" /\ pc' = "stream" /\ turn'.step = turn.step + 1
      /\ turn'.phase = "streaming" /\ turn'.step \in Steps
      /\ turn.phase \in {"tools", "async"}
      /\ UNCHANGED <<result, recorded>>
  <2>1. TurnInv'
    BY IAdvanceStep
  <2> QED  BY <2>1, AdvanceShape, TurnFields
           DEF TurnInv, TypeOK, InPhase, AdvanceStep
<1>2. mem'.leaf = mem.leaf
  BY Shape DEF AdvanceStep, TurnStates
<1>3. Chain' = Chain
  BY <1>1, <1>2 DEF Chain
<1>4. ~result[turn'.step].there
  <2>1. turn'.step > turn.step
    BY <1>1, Shape DEF Steps
  <2> QED  BY <1>1, <2>1 DEF TurnInv, Fresh, NoResult
<1>5. \A t \in Steps : t < turn'.step => t < turn.step \/ t = turn.step
  BY <1>1, Shape DEF Steps
<1>6. <<turn.step, Reply>> \in Chain
  BY <1>1 DEF ChainKept
<1> QED  BY <1>1, <1>3, <1>4, <1>5, <1>6 DEF ChainKept, Settled

\* The answer's result joins the chain that the question took to disk.
LEMMA HAnswer ==
    ASSUME TurnInv, ChainKept,
           AnswerResult \/ AnswerQuestion \/ CancelWaitingTurn
    PROVE  ChainKept'
<1>1. turn.phase = "answer" /\ turn.pending \in CallsOf(turn.step)
  BY DEF AnswerResult, AnswerQuestion, CancelWaitingTurn, TurnInv, InPhase,
     NamesCalls
<1>2. CASE AnswerResult \/ AnswerQuestion
  <2>1. /\ pc = "answer" /\ pc \in LoopPlaces /\ pc /= "idle"
        /\ mem.step = turn.step /\ mem.pending = turn.pending
        /\ turn.step \in Steps
    BY <1>2, Shape
       DEF AnswerResult, AnswerQuestion, LoopPlaces, TurnInv, Agrees
  <2>2. CASE AnswerQuestion
    <3>1. mem.resume \in {"tools", "async"}
      BY Shape, TurnFields
    <3> QED  BY <1>1, <2>1, <2>2, <3>1, HPause DEF AnswerQuestion
  <2>3. CASE AnswerResult
    <3>1. result[turn.step].listed
      BY <1>1, <2>1 DEF ChainKept, TurnInv, Completed
    <3>2. /\ Record(turn.pending) /\ pc' = "answered"
          /\ UNCHANGED <<turn, result, async, runs>>
      BY <2>1, <2>3, <3>1 DEF AnswerResult, past
    <3> QED  BY <1>1, <2>1, <3>2, HLoopRecord
  <2> QED  BY <1>2, <2>2, <2>3
<1>3. CASE CancelWaitingTurn
  <2>1. /\ pc = "idle" /\ pc' = "finish"
        /\ recorded' =
             [recorded EXCEPT ![turn.step][turn.pending] = OneMore(@)]
        /\ UNCHANGED <<turn, result, async, runs>>
    BY <1>3 DEF CancelWaitingTurn, past
  <2>2. mem'.leaf = turn.leaf \cup {<<turn.step, turn.pending>>}
    BY <1>3, Shape DEF CancelWaitingTurn, TurnStates
  <2>3. Chain' = Chain \cup {<<turn.step, turn.pending>>}
    BY <2>1, <2>2 DEF Chain
  <2> QED  BY <1>1, <2>1, <2>3, HRecord
<1> QED  BY <1>2, <1>3

\* Into a turn and out of it.
LEMMA HEnds ==
    ASSUME TurnInv, ChainInv,
           \/ StartTurn \/ SubmitAnswer \/ DeleteTurnState \/ Fail \/ Crash
           \/ \E close \in BOOLEAN : Resume(close)
    PROVE  ChainInv'
<1>1. CASE StartTurn
  <2>1. /\ turn'.step = 0 /\ turn'.phase = "streaming" /\ pc' = "stream"
        /\ \A t \in Steps : ~result'[t].there
        /\ \A t \in Steps, c \in Calls : recorded'[t][c] = 0
    BY <1>1, CallNames DEF StartTurn, NewTurn, NoTurn, NoResult
  <2>2. \A t \in Steps : Settled(t)' = {}
    BY <2>1 DEF Settled
  <2>3. turn'.step \in Steps /\ \A t \in Steps : ~(t < 0)
    BY <2>1, NoValues DEF Steps
  <2> QED  BY <2>1, <2>2, <2>3 DEF ChainInv, ChainKept
<1>2. CASE SubmitAnswer
  BY <1>2 DEF SubmitAnswer, process, past, ChainInv, ChainKept, Chain, Settled
<1>3. CASE DeleteTurnState
  BY <1>3 DEF DeleteTurnState, NoTurn, ChainInv
<1>4. CASE Fail \/ Crash
  <2>1. faults' /= 0
    BY <1>4, BoundsAssumption DEF Fail, Crash, TurnInv, TypeOK
  <2> QED  BY <2>1 DEF ChainInv
<1>5. CASE \E close \in BOOLEAN : Resume(close)
  <2> SUFFICES ASSUME faults' = 0, NEW close \in BOOLEAN, Resume(close)
               PROVE  ChainKept'
    BY <1>5 DEF ChainInv
  <2>1. ChainKept /\ turn.phase = "answer"
    BY DEF Resume, ChainInv, ChainKept
  <2>2. /\ pc = "idle" /\ pc' = "answer" /\ mem' = turn
        /\ UNCHANGED <<turn, recorded, result>>
    BY <2>1 DEF Resume, PlaceOf
  <2>3. Chain' = Chain
    BY <2>2 DEF Chain
  <2> QED  BY <2>1, <2>2, <2>3, HMove DEF AfterReply, ChainKept
<1> QED  BY <1>1, <1>2, <1>3, <1>4, <1>5

LEMMA HNext == ASSUME TurnInv, ChainInv, Next PROVE ChainInv'
<1>1. CASE \/ StartTurn \/ SubmitAnswer \/ DeleteTurnState \/ Fail \/ Crash
           \/ ResumeTurn \/ CloseInterruptedTurn
  <2>1. ResumeTurn \/ CloseInterruptedTurn =>
          \E close \in BOOLEAN : Resume(close)
    BY DEF ResumeTurn, CloseInterruptedTurn
  <2> QED  BY <1>1, <2>1, HEnds
<1> DEFINE A == \/ RequestCompletion \/ ReceiveChunk
                \/ \E n \in 0..NumCalls : FinishStream(n)
                \/ PrepareStep \/ DecideStep
           B == SaveStepResult \/ CancelledStream \/ SaveReply
           C == \/ LoadTools \/ LoadAsync \/ RecoveredAll \/ Cancel
                \/ RanToAsync \/ FinalizeTools \/ AnswerAsync \/ LeaveAnswer
                \/ FinalizeTurn
                \/ \E c \in Calls : Execute(c) \/ AwaitQuestion(c)
           D == \/ \E c \in Calls : \/ ContinueInTools(c)
                                    \/ RecoverContinuation(c)
                                    \/ MarkInterrupted(c) \/ AwaitResult(c)
                \/ RanToResult \/ RanToQuestion
           E == CancelCalls \/ FinalizeAsync \/ WaitOver
           F == AnswerResult \/ AnswerQuestion \/ CancelWaitingTurn
<1>2. ASSUME A \/ B \/ C \/ D \/ E \/ F \/ AdvanceStep, faults' = 0
      PROVE  ChainKept'
  <2>1. UNCHANGED faults
    BY <1>2
       DEF RequestCompletion, ReceiveChunk, FinishStream, PrepareStep,
           DecideStep, SaveStepResult, CancelledStream, SaveReply, LoadTools,
           LoadAsync, RecoveredAll, Cancel, RanToAsync, FinalizeTools,
           AnswerAsync, LeaveAnswer, FinalizeTurn, Execute, AwaitQuestion,
           ContinueInTools, RecoverContinuation, ContinueAsync,
           MarkInterrupted, AwaitResult, RanToResult, RanToQuestion,
           CancelCalls, FinalizeAsync, WaitOver, AnswerResult, AnswerQuestion,
           CancelWaitingTurn, AdvanceStep, past
  <2>2. turn.phase /= "none"
    <3>1. pc /= "idle" \/ turn.phase = "answer"
      BY <1>2
         DEF RequestCompletion, ReceiveChunk, FinishStream, PrepareStep,
             DecideStep, SaveStepResult, CancelledStream, SaveReply, LoadTools,
             LoadAsync, RecoveredAll, Cancel, RanToAsync, FinalizeTools,
             AnswerAsync, LeaveAnswer, FinalizeTurn, Execute, AwaitQuestion,
             ContinueInTools, RecoverContinuation, MarkInterrupted,
             AwaitResult, RanToResult, RanToQuestion, CancelCalls,
             FinalizeAsync, WaitOver, AnswerResult, AnswerQuestion,
             CancelWaitingTurn, AdvanceStep, LoopPlaces
    <3> QED  BY <3>1 DEF TurnInv, Agrees
  <2>3. ChainKept
    BY <1>2, <2>1, <2>2 DEF ChainInv
  <2>4. A => ChainKept'
    BY <2>2, <2>3, HStreaming
  <2>5. B => ChainKept'
    BY <2>2, <2>3, HReply
  <2>6. C => ChainKept'
    BY <2>2, <2>3, HQuiet
  <2>7. D => ChainKept'
    BY <2>2, <2>3, HCalls
  <2>8. E => ChainKept'
    BY <2>2, <2>3, HPhaseEnds
  <2>9. F => ChainKept'
    BY <2>3, HAnswer
  <2>10. AdvanceStep => ChainKept'
    BY <2>3, HAdvance
  <2> HIDE DEF A, B, C, D, E, F
  <2> QED  BY <1>2, <2>4, <2>5, <2>6, <2>7, <2>8, <2>9, <2>10
<1>3. A \/ B \/ C \/ D \/ E \/ F \/ AdvanceStep => ChainInv'
  <2> HIDE DEF A, B, C, D, E, F
  <2> QED  BY <1>2 DEF ChainInv
<1> QED  BY <1>1, <1>3 DEF Next, LoopStep

LEMMA ChainsInductive == Spec => []ChainInv
<1>1. Init => ChainInv
  BY DEF Init, NoTurn, ChainInv
<1>2. ChainInv /\ UNCHANGED vars => ChainInv'
  BY DEF ChainInv, ChainKept, Chain, Settled, vars, disk, process, past
<1>3. TurnInv /\ ChainInv /\ [Next]_vars => ChainInv'
  BY <1>2, HNext
<1> QED  BY <1>1, <1>3, Inductive, PTL DEF Spec

-----------------------------------------------------------------------------
(* The results. *)

\* Every file and every local of the loop keeps to its type, for any number
\* of calls, steps and failures.
THEOREM TurnTypes == Spec => []TypeOK
<1>1. TurnInv => TypeOK
  BY DEF TurnInv
<1> QED  BY <1>1, Inductive, PTL

\* A step is left only with its completion and a result for each of its calls
\* on disk, whatever crashed, was cancelled, asked or resumed on the way.
THEOREM StepsAreSettled == Spec => []StepsSettled
<1>1. TurnInv => StepsSettled
  BY DEF TurnInv
<1> QED  BY <1>1, Inductive, PTL

\* However async work, questions, answers and cancellation mix: a call gets a
\* second result only after a failure in the turn, and is executed a second
\* time only by a turn that was picked up from disk.
THEOREM CallsHappenOnce == Spec => []OncePerCall
<1>1. TurnInv /\ CallInv => OncePerCall
  <2> SUFFICES ASSUME TurnInv, CallInv, NEW t \in Steps, NEW c \in Calls
               PROVE  /\ recorded[t][c] > 1 => faults > 0
                      /\ runs[t][c] > 1 => resumed
    BY DEF OncePerCall
  <2>1. faults \in Nat /\ recorded[t][c] \in 0..2 /\ runs[t][c] \in Nat
    <3>1. /\ recorded[t] \in [0..NumCalls -> 0..2] /\ c \in 0..NumCalls
          /\ runs[t] \in [Calls -> Nat]
      BY Shape
    <3>2. faults \in Nat
      BY BoundsAssumption DEF TurnInv, TypeOK
    <3> QED  BY <3>1, <3>2
  <2>2. faults = 0 => recorded[t][c] <= 1
    BY DEF CallInv, RecordedOnce
  <2>3. ~resumed => runs[t][c] <= 1
    BY DEF CallInv, GoesThroughOnce
  <2> QED  BY <2>1, <2>2, <2>3
<1> QED  BY <1>1, Inductive, CallsInductive, PTL

\* A call is reported to the model as interrupted only in a turn that was
\* picked up from disk: a wait that ends in the pass that began it has a
\* result for everything it awaited.
THEOREM InterruptionsNeedResume == Spec => []MarkedNeedsResume
<1>1. CallInv => MarkedNeedsResume
  BY DEF CallInv, GoesThroughOnce, MarkedNeedsResume
<1> QED  BY <1>1, CallsInductive, PTL

\* Until something fails in a turn, the history that is sent to the provider
\* holds every reply and every result of the steps before.
THEOREM HistoriesAreWhole == Spec => []GapNeedsFault
<1>1. TurnInv /\ ChainInv => GapNeedsFault
  <2> SUFFICES ASSUME TurnInv, ChainInv, pc = "streaming", faults = 0
               PROVE  HistoryHolds(mem.leaf, mem.step)
    BY BoundsAssumption DEF GapNeedsFault, TurnInv, TypeOK
  <2>1. turn.phase /= "none" /\ mem.step = turn.step
    BY DEF TurnInv, Agrees
  <2>2. ChainKept /\ Chain = mem.leaf
    BY <2>1 DEF ChainInv, Chain
  <2>3. \A u \in Steps : u < turn.step => CallsOf(u) \subseteq Settled(u)
    BY DEF TurnInv, StepsSettled
  <2> QED  BY <2>1, <2>2, <2>3 DEF ChainKept, HistoryHolds
<1> QED  BY <1>1, Inductive, ChainsInductive, PTL

\* The step loop implements its contract: executeLoop on disk and memory,
\* with crashes and resumes, goes through the steps and settles the calls in
\* the order TurnContract allows.
THEOREM TurnRefinesContract == Spec => ImplementsContract
<1>1. UNCHANGED vars => UNCHANGED Contract!vars
  BY SameDisk DEF vars, disk, past
<1>2. TurnInv /\ [Next]_vars => [Contract!Next]_(Contract!vars)
  BY <1>1, RNext
<1> QED  BY <1>2, RInit, Inductive, PTL DEF Spec, ImplementsContract,
     Contract!Spec

-----------------------------------------------------------------------------
(* What the contract promises, and so every turn keeps.                    *)

LEMMA ContractBegins == Contract!Init => Contract!Promises
<1> SUFFICES ASSUME Contract!Init PROVE Contract!Promises
  OBVIOUS
<1> DEFINE ran == IF turn.phase = "none" THEN [c \in Calls |-> 0]
                  ELSE runs[turn.step]
<1>1. ran = [c \in 1..NumCalls |-> 0]
  BY DEF Contract!Init, Contract!Calls
<1> HIDE DEF ran
<1>2. ran \in [1..NumCalls -> Nat] /\ \A c \in 1..NumCalls : ~(ran[c] > 0)
  BY <1>1
<1> QED  BY <1>2
         DEF ran, Contract!Init, Contract!Promises, Contract!TypeOK,
             Contract!AskedFirst, Contract!Calls, Contract!NoQuestion

(* A turn or a step that begins has kept everything: there is nothing yet. *)
LEMMA FreshKeeps ==
    ASSUME Contract!FreshStep, (turn.step)' \in Nat
    PROVE  Contract!Promises'
<1> DEFINE ran == (IF turn.phase = "none" THEN [c \in Calls |-> 0]
                   ELSE runs[turn.step])'
<1>1. ran = [c \in 1..NumCalls |-> 0]
  BY DEF Contract!FreshStep, Contract!Calls
<1> HIDE DEF ran
<1>2. ran \in [1..NumCalls -> Nat] /\ \A c \in 1..NumCalls : ~(ran[c] > 0)
  BY <1>1
<1> QED  BY <1>2
         DEF ran, Contract!FreshStep, Contract!Promises, Contract!TypeOK,
             Contract!AskedFirst, Contract!Calls, Contract!NoQuestion

LEMMA ContractRuns ==
    ASSUME NEW c \in 1..NumCalls, Contract!Promises, Contract!Run(c)
    PROVE  Contract!Promises' /\ Contract!Onward /\ Contract!WaitsForAnswer
<1> DEFINE Ran == IF turn.phase = "none" THEN [d \in Calls |-> 0]
                  ELSE runs[turn.step]
           After == Ran'
<1>1. Ran \in [1..NumCalls -> Nat] /\ After = [Ran EXCEPT ![c] = @ + 1]
  BY DEF Contract!Run, Contract!Promises, Contract!TypeOK, Contract!Calls
<1> HIDE DEF Ran, After
<1>2. /\ After \in [1..NumCalls -> Nat]
      /\ \A d \in 1..NumCalls : After[d] >= Ran[d] /\ (d /= c => After[d] = Ran[d])
  BY <1>1
<1> QED  BY <1>1, <1>2
         DEF Ran, After, Contract!Run, Contract!Promises, Contract!TypeOK,
             Contract!AskedFirst, Contract!Onward, Contract!WaitsForAnswer,
             Contract!Calls, Contract!NoQuestion

LEMMA ContractStep ==
    ASSUME Contract!Promises, [Contract!Next]_(Contract!vars)
    PROVE  /\ Contract!Promises'
           /\ [Contract!Onward /\ Contract!WaitsForAnswer]_(Contract!vars)
<1> USE DEF Contract!Promises, Contract!Calls, Contract!NoQuestion
<1> DEFINE Kept == /\ Contract!Promises'
                   /\ Contract!Onward /\ Contract!WaitsForAnswer
<1>1. NumCalls \in Nat
  BY BoundsAssumption
<1>2. CASE UNCHANGED Contract!vars
  BY <1>2 DEF Contract!vars, Contract!TypeOK, Contract!AskedFirst
<1>3. ASSUME Contract!Begin \/ Contract!End \/ Contract!Advance PROVE Kept
  <2>1. Contract!FreshStep /\ (turn.step)' \in Nat
    BY <1>3 DEF Contract!Begin, Contract!End, Contract!Advance, Contract!TypeOK
  <2>2. Contract!Promises'
    BY <2>1, FreshKeeps
  <2>3. Contract!Onward /\ Contract!WaitsForAnswer
    BY <1>3 DEF Contract!Begin, Contract!End, Contract!Advance,
                Contract!FreshStep, Contract!Onward, Contract!WaitsForAnswer,
                Contract!AskedFirst
  <2> QED  BY <2>2, <2>3
<1>4. ASSUME NEW n \in 0..NumCalls, Contract!Reply(n) PROVE Kept
  <2>1. Contract!TypeOK'
    BY <1>1, <1>4 DEF Contract!Reply, Contract!TypeOK, Contract!AskedFirst
  <2>2. Contract!AskedFirst'
    BY <1>1, <1>4 DEF Contract!Reply, Contract!TypeOK, Contract!AskedFirst
  <2>3. Contract!Onward
    BY <1>1, <1>4
       DEF Contract!Reply, Contract!TypeOK, Contract!AskedFirst, Contract!Onward
  <2>4. Contract!WaitsForAnswer
    BY <1>1, <1>4
       DEF Contract!Reply, Contract!TypeOK, Contract!AskedFirst,
           Contract!WaitsForAnswer
  <2> QED  BY <2>1, <2>2, <2>3, <2>4
<1>5. ASSUME NEW c \in 1..NumCalls, Contract!Run(c) PROVE Kept
  BY <1>5, ContractRuns
<1>6. ASSUME NEW c \in 1..NumCalls, Contract!Settle(c) PROVE Kept
  <2>1. Contract!TypeOK'
    BY <1>1, <1>6 DEF Contract!Settle, Contract!TypeOK, Contract!AskedFirst
  <2>2. Contract!AskedFirst'
    BY <1>1, <1>6 DEF Contract!Settle, Contract!TypeOK, Contract!AskedFirst
  <2>3. Contract!Onward
    BY <1>1, <1>6
       DEF Contract!Settle, Contract!TypeOK, Contract!AskedFirst, Contract!Onward
  <2>4. Contract!WaitsForAnswer
    BY <1>1, <1>6
       DEF Contract!Settle, Contract!TypeOK, Contract!AskedFirst,
           Contract!WaitsForAnswer
  <2> QED  BY <2>1, <2>2, <2>3, <2>4
<1>7. ASSUME NEW c \in 1..NumCalls, Contract!AskUser(c) PROVE Kept
  <2>1. Contract!TypeOK' /\ Contract!AskedFirst'
    BY <1>1, <1>7 DEF Contract!AskUser, Contract!TypeOK, Contract!AskedFirst
  <2>2. Contract!Onward
    BY <1>1, <1>7
       DEF Contract!AskUser, Contract!TypeOK, Contract!AskedFirst, Contract!Onward
  <2>3. Contract!WaitsForAnswer
    BY <1>1, <1>7
       DEF Contract!AskUser, Contract!TypeOK, Contract!AskedFirst,
           Contract!WaitsForAnswer
  <2> QED  BY <2>1, <2>2, <2>3
<1>8. ASSUME Contract!CloseQuestion PROVE Kept
  <2>1. Contract!TypeOK'
    BY <1>1, <1>8 DEF Contract!CloseQuestion, Contract!TypeOK, Contract!AskedFirst
  <2>2. Contract!AskedFirst'
    BY <1>1, <1>8 DEF Contract!CloseQuestion, Contract!TypeOK, Contract!AskedFirst
  <2>3. Contract!Onward
    BY <1>1, <1>8
       DEF Contract!CloseQuestion, Contract!TypeOK, Contract!AskedFirst, Contract!Onward
  <2>4. Contract!WaitsForAnswer
    BY <1>1, <1>8
       DEF Contract!CloseQuestion, Contract!TypeOK, Contract!AskedFirst,
           Contract!WaitsForAnswer
  <2> QED  BY <2>1, <2>2, <2>3, <2>4
<1> QED  BY <1>2, <1>3, <1>4, <1>5, <1>6, <1>7, <1>8 DEF Contract!Next

(* Of the contract itself: only what a completion asked for is executed,   *)
(* settled or put to the user; nothing of a turn is forgotten or done again*)
(* once it is settled; and a turn that asks waits for the answer.          *)
THEOREM TurnPromises ==
    Contract!Spec => []Contract!Promises /\ Contract!NeverSetBack
<1>1. Contract!Promises /\ [Contract!Next]_(Contract!vars) =>
        /\ Contract!Promises'
        /\ [Contract!Onward /\ Contract!WaitsForAnswer]_(Contract!vars)
  BY ContractStep
<1> QED  BY <1>1, ContractBegins, PTL DEF Contract!Spec, Contract!NeverSetBack

(* So too for every turn that executeLoop runs, over any crashes, resumes  *)
(* and failed writes: resuming it from its files never takes back a result *)
(* or a completion, executes a settled call again or leaves a question     *)
(* before its answer.                                                      *)
THEOREM TurnsAreNeverSetBack == Spec => []Contract!Promises /\ Contract!NeverSetBack
  BY TurnRefinesContract, TurnPromises, PTL DEF ImplementsContract
=============================================================================
