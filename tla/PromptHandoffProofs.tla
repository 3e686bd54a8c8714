------------------------ MODULE PromptHandoffProofs ------------------------
(***************************************************************************)
(* Proofs about PromptHandoff, for any servers, prompts, request lanes and *)
(* bounds: types, that an accepted prompt was taken, that a prompt has one *)
(* dispatcher at a time unless it is overruled, that without a fault the   *)
(* agent then takes it at most once, that without a fault a prompt is      *)
(* stranded only if it was put back while its job was ending, and that the *)
(* handoff keeps the ledger of PromptLedger.                               *)
(***************************************************************************)
EXTENDS PromptHandoff, TLAPS

CallType == [Servers -> [Lanes -> [Prompts -> Step]]]
CopyType == [Servers -> [Lanes -> [Prompts -> BOOLEAN]]]

(* Where a call goes next is a step of a call.                             *)
LEMMA GotoTypes ==
    ASSUME NEW s \in Servers, NEW k \in Lanes, NEW p \in Prompts,
           NEW step \in Step, TypeOK, Goto(s, k, p, step)
    PROVE  call' \in CallType /\ copy' \in CopyType
  BY DEF TypeOK, Goto, CallType, CopyType

LEMMA ReturnTypes ==
    ASSUME NEW s \in Servers, NEW k \in Lanes, NEW p \in Prompts,
           NEW result \in Returned, TypeOK, Return(s, k, p, result)
    PROVE  call' \in CallType /\ copy' \in CopyType
<1>1. (IF k = Job THEN result ELSE "idle") \in Step
  BY DEF Step, Returned
<1> QED  BY <1>1 DEF TypeOK, Return, CallType, CopyType

LEMMA WriteTypes ==
    ASSUME NEW p \in Prompts, NEW st \in Status, TypeOK, WriteStatus(p, st)
    PROVE  status' \in [Prompts -> Status]
  BY DEF TypeOK, WriteStatus

LEMMA OverruleTypes ==
    ASSUME NEW p \in Prompts, TypeOK, Overrule(p) \/ UNCHANGED overruled
    PROVE  overruled' \in SUBSET Prompts
  BY DEF TypeOK, Overrule

LEMMA RowTypes ==
    ASSUME NEW p \in Prompts, TypeOK,
           ReleaseToPending(p) \/ MarkFailed(p) \/ MarkAccepted(p)
    PROVE  status' \in [Prompts -> Status] /\ payload' \in [Prompts -> BOOLEAN]
<1>1. CASE ReleaseToPending(p)
  BY <1>1, WriteTypes DEF ReleaseToPending, TypeOK, Status
<1>2. CASE MarkFailed(p)
  BY <1>2, WriteTypes DEF MarkFailed, TypeOK, Status
<1>3. CASE MarkAccepted(p)
  <2>1. status' \in [Prompts -> Status]
    BY <1>3, WriteTypes DEF MarkAccepted, Status
  <2> QED  BY <1>3, <2>1 DEF MarkAccepted, TypeOK
<1> QED  BY <1>1, <1>2, <1>3

LEMMA PutBackTypes ==
    ASSUME NEW p \in Prompts, TypeOK, PutBack(p)
    PROVE  /\ status' \in [Prompts -> Status] /\ payload' \in [Prompts -> BOOLEAN]
           /\ overruled' \in SUBSET Prompts /\ reopened' \in SUBSET Prompts
<1>1. reopened' \in SUBSET Prompts
  BY DEF PutBack, TypeOK
<1> QED  BY <1>1, RowTypes, OverruleTypes DEF PutBack

LEMMA EnqueueTypes ==
    ASSUME NEW p \in Prompts, TypeOK, EnqueueDispatch(p)
    PROVE  /\ job' \in [Prompts -> {"none", "pending", "running"}]
           /\ tries' \in [Prompts -> 0 .. MaxTries]
<1>1. 0 \in 0 .. MaxTries
  BY HandoffAssumption
<1>2. CASE job[p] = "none"
  BY <1>1, <1>2 DEF EnqueueDispatch, TypeOK
<1>3. CASE job[p] # "none"
  BY <1>3 DEF EnqueueDispatch, TypeOK, jobVars
<1> QED  BY <1>2, <1>3

LEMMA FaultTypes == ASSUME TypeOK, Fault PROVE faults' \in 0 .. MaxFaults
  BY HandoffAssumption DEF TypeOK, Fault

LEMMA TryEnqueueTypes ==
    ASSUME NEW p \in Prompts, TypeOK, TryEnqueueDispatch(p)
    PROVE  /\ job' \in [Prompts -> {"none", "pending", "running"}]
           /\ tries' \in [Prompts -> 0 .. MaxTries]
           /\ faults' \in 0 .. MaxFaults
<1>1. CASE EnqueueDispatch(p) /\ UNCHANGED faults
  BY <1>1, EnqueueTypes DEF TypeOK
<1>2. CASE Fault /\ UNCHANGED jobVars
  BY <1>2, FaultTypes DEF TypeOK, jobVars
<1> QED  BY <1>1, <1>2 DEF TryEnqueueDispatch

(* The declared types, with the two of a call folded.                      *)
LEMMA FoldTypes ==
    ASSUME /\ status' \in [Prompts -> Status]
           /\ payload' \in [Prompts -> BOOLEAN]
           /\ job' \in [Prompts -> {"none", "pending", "running"}]
           /\ tries' \in [Prompts -> 0 .. MaxTries]
           /\ session' \in {"initializing", "ready", "removing", "removed"}
           /\ proc' \in [Servers -> Proc]
           /\ todo' \in [Servers -> [Prompts -> {"none", "release", "enqueue"}]]
           /\ call' \in CallType /\ copy' \in CopyType
           /\ taken' \in [Prompts -> Nat]
           /\ conflicted' \in SUBSET Prompts
           /\ overruled' \in SUBSET Prompts /\ reopened' \in SUBSET Prompts
           /\ faults' \in 0 .. MaxFaults
    PROVE  TypeOK'
  BY DEF TypeOK, CallType, CopyType

LEMMA SubmitTypes ==
    ASSUME NEW s \in Servers, NEW r \in Requests, NEW p \in Prompts, TypeOK,
           SubmitPrompt(s, r, p) \/ SubmitStep(s, r, p)
    PROVE  TypeOK'
<1> USE DEF jobVars, agentVars, historyVars, rowVars, callVars
<1>0. r \in Lanes
  BY DEF Lanes
<1>1. CASE SubmitPrompt(s, r, p)
  <2>1. call' \in CallType /\ copy' \in CopyType
    BY <1>0, <1>1, GotoTypes DEF SubmitPrompt, Step
  <2>2. status' \in [Prompts -> Status] /\ payload' \in [Prompts -> BOOLEAN]
    BY <1>1 DEF SubmitPrompt, TypeOK, Status
  <2> QED  BY <1>1, <2>1, <2>2, FoldTypes DEF SubmitPrompt, TypeOK
<1>2. CASE ReleaseFailed(s, r, p)
  <2>1. call' \in CallType /\ copy' \in CopyType
    <3>1. (IF status[p] = "deleted" THEN "idle" ELSE "enqueueing") \in Step
      BY DEF Step
    <3> QED  BY <1>0, <1>2, <3>1, GotoTypes DEF ReleaseFailed
  <2> QED  BY <1>2, <2>1, PutBackTypes, FoldTypes DEF ReleaseFailed, TypeOK
<1>3. CASE SubmitEnqueue(s, r, p)
  <2>1. call' \in CallType /\ copy' \in CopyType
    BY <1>0, <1>3, GotoTypes DEF SubmitEnqueue, Step
  <2> QED  BY <1>3, <2>1, TryEnqueueTypes, FoldTypes DEF SubmitEnqueue, TypeOK
<1>4. CASE RouteSubmission(s, r, p)
  <2>1. call' \in CallType /\ copy' \in CopyType
    <3>1. (IF session = "initializing" THEN "idle" ELSE "reading") \in Step
      BY DEF Step
    <3> QED  BY <1>0, <1>4, <3>1, GotoTypes DEF RouteSubmission
  <2> QED  BY <1>4, <2>1, FoldTypes DEF RouteSubmission, TypeOK
<1> QED  BY <1>1, <1>2, <1>3, <1>4 DEF SubmitStep

LEMMA DispatchTypes ==
    ASSUME NEW s \in Servers, NEW k \in Lanes, NEW p \in Prompts, TypeOK,
           DispatchStep(s, k, p) \/ PostFails(s, k, p) \/ OutcomeLost(s, k, p)
    PROVE  TypeOK'
<1> USE DEF jobVars, agentVars, historyVars, rowVars, callVars
<1>0. "ok" \in Returned /\ "error" \in Returned
  BY DEF Returned
<1>1. CASE ReadSubmission(s, k, p)
  <2>1. call' \in CallType /\ copy' \in CopyType
    <3>1. CASE status[p] = "pending"
      <4>1. "checking" \in Step
        BY DEF Step
      <4>2. /\ call' = [call EXCEPT ![s][k][p] = "checking"]
            /\ copy' = [copy EXCEPT ![s][k][p] = payload[p]]
        BY <1>1, <3>1 DEF ReadSubmission
      <4>3. call' \in CallType
        BY <4>1, <4>2 DEF TypeOK, CallType
      <4>4. copy' \in CopyType
        <5>1. payload[p] \in BOOLEAN
          BY DEF TypeOK
        <5>2. copy[s][k] \in [Prompts -> BOOLEAN]
          BY DEF TypeOK
        <5> QED  BY <4>2, <5>1, <5>2, Zenon DEF TypeOK, CopyType
      <4> QED  BY <4>3, <4>4
    <3>2. CASE status[p] # "pending"
      BY <1>0, <1>1, <3>2, ReturnTypes DEF ReadSubmission
    <3> QED  BY <3>1, <3>2
  <2>2. UNCHANGED <<rowVars, jobVars, session, proc, todo, agentVars, historyVars,
                    faults>>
    BY <1>1 DEF ReadSubmission
  <2> QED  BY <2>1, <2>2, FoldTypes DEF TypeOK
<1>2. CASE CheckSession(s, k, p)
  <2>1. call' \in CallType /\ copy' \in CopyType
    <3>1. CASE session \in {"removing", "removed"}
      BY <1>0, <1>2, <3>1, ReturnTypes DEF CheckSession
    <3>2. CASE session \notin {"removing", "removed"}
      BY <1>2, <3>2, GotoTypes DEF CheckSession, Step
    <3> QED  BY <3>1, <3>2
  <2>2. /\ status' \in [Prompts -> Status] /\ payload' \in [Prompts -> BOOLEAN]
        /\ overruled' \in SUBSET Prompts
    BY <1>2, RowTypes, OverruleTypes DEF CheckSession, TypeOK
  <2> QED  BY <1>2, <2>1, <2>2, FoldTypes DEF CheckSession, TypeOK
<1>3. CASE ClaimForDispatch(s, k, p)
  <2>1. call' \in CallType /\ copy' \in CopyType
    <3>1. CASE status[p] = "pending"
      BY <1>3, <3>1, GotoTypes DEF ClaimForDispatch, Step, Dispatching
    <3>2. CASE status[p] # "pending"
      BY <1>0, <1>3, <3>2, ReturnTypes DEF ClaimForDispatch
    <3> QED  BY <3>1, <3>2
  <2>2. status' \in [Prompts -> Status]
    BY <1>3, WriteTypes DEF ClaimForDispatch, TypeOK, Status
  <2> QED  BY <1>3, <2>1, <2>2, FoldTypes DEF ClaimForDispatch, TypeOK
<1>4. CASE PrepareRequest(s, k, p)
  <2>1. call' \in CallType /\ copy' \in CopyType
    BY <1>0, <1>4, GotoTypes, ReturnTypes DEF PrepareRequest, Step, Dispatching
  <2>2. status' \in [Prompts -> Status] /\ payload' \in [Prompts -> BOOLEAN]
    BY <1>4, RowTypes DEF PrepareRequest, TypeOK
  <2>3. faults' \in 0 .. MaxFaults
    BY <1>4, FaultTypes DEF PrepareRequest, TypeOK
  <2>4. UNCHANGED <<jobVars, session, proc, todo, agentVars, historyVars>>
    BY <1>4 DEF PrepareRequest
  <2> QED  BY <2>1, <2>2, <2>3, <2>4, FoldTypes DEF TypeOK
<1>5. CASE StartChat(s, k, p)
  <2>1. call' \in CallType /\ copy' \in CopyType
    BY <1>5, GotoTypes DEF StartChat, Step, Dispatching
  <2>2. taken' \in [Prompts -> Nat] /\ conflicted' \in SUBSET Prompts
    <3>1. CASE taken' = [taken EXCEPT ![p] = @ + 1] /\ UNCHANGED conflicted
      BY <3>1 DEF TypeOK
    <3>2. CASE UNCHANGED taken
      BY <1>5, <3>2 DEF StartChat, TypeOK
    <3> QED  BY <1>5, <3>1, <3>2 DEF StartChat
  <2> QED  BY <1>5, <2>1, <2>2, FoldTypes DEF StartChat, TypeOK
<1>6. CASE AcceptStarted(s, k, p)
  <2>1. call' \in CallType /\ copy' \in CopyType
    BY <1>0, <1>6, ReturnTypes DEF AcceptStarted
  <2> QED  BY <1>6, <2>1, RowTypes, FoldTypes DEF AcceptStarted, TypeOK
<1>7. CASE HandleDispatchError(s, k, p)
  <2>1. call' \in CallType /\ copy' \in CopyType
    BY <1>0, <1>7, ReturnTypes DEF HandleDispatchError
  <2> QED  BY <1>7, <2>1, RowTypes, FoldTypes DEF HandleDispatchError, TypeOK
<1>8. CASE PostFails(s, k, p)
  <2>1. call' \in CallType /\ copy' \in CopyType
    <3>1. CASE UNCHANGED callVars
      BY <3>1 DEF TypeOK, CallType, CopyType
    <3>2. CASE Goto(s, k, p, "unreached")
      BY <3>2, GotoTypes DEF Step, Dispatching
    <3> QED  BY <1>8, <3>1, <3>2 DEF PostFails
  <2>2. taken' \in [Prompts -> Nat] /\ faults' \in 0 .. MaxFaults
    BY <1>8, FaultTypes DEF PostFails, TypeOK
  <2> QED  BY <1>8, <2>1, <2>2, FoldTypes DEF PostFails, TypeOK
<1>9. CASE OutcomeLost(s, k, p)
  <2>1. call' \in CallType /\ copy' \in CopyType
    BY <1>0, <1>9, ReturnTypes DEF OutcomeLost
  <2> QED  BY <1>9, <2>1, FaultTypes, FoldTypes DEF OutcomeLost, TypeOK
<1> QED  BY <1>1, <1>2, <1>3, <1>4, <1>5, <1>6, <1>7, <1>8, <1>9
         DEF DispatchStep

LEMMA JobTypes ==
    ASSUME NEW p \in Prompts, TypeOK,
           ResetJob(p) \/ \E s \in Servers : JobStep(s, p)
    PROVE  TypeOK'
<1> USE DEF jobVars, agentVars, historyVars, rowVars, callVars
<1>0. Job \in Lanes
  BY DEF Lanes
<1>1. ASSUME NEW s \in Servers, StartJob(s, p) PROVE TypeOK'
  <2>1. call' \in CallType /\ copy' \in CopyType
    BY <1>0, <1>1, GotoTypes DEF StartJob, Step
  <2>2. job' \in [Prompts -> {"none", "pending", "running"}]
        /\ tries' \in [Prompts -> 0 .. MaxTries]
    BY <1>1, HandoffAssumption DEF StartJob, TypeOK
  <2> QED  BY <1>1, <2>1, <2>2, FoldTypes DEF StartJob, TypeOK
<1>2. ASSUME NEW s \in Servers, JobReturns(s, p) PROVE TypeOK'
  <2>1. call' \in CallType /\ copy' \in CopyType
    BY <1>0, <1>2, GotoTypes DEF JobReturns, Step
  <2>2. job' \in [Prompts -> {"none", "pending", "running"}]
    BY <1>2 DEF JobReturns, TypeOK
  <2> QED  BY <1>2, <2>1, <2>2, FoldTypes DEF JobReturns, TypeOK
<1>3. CASE ResetJob(p)
  BY <1>3 DEF ResetJob, TypeOK
<1> QED  BY <1>1, <1>2, <1>3 DEF JobStep

LEMMA ServerTypes ==
    ASSUME NEW s \in Servers, TypeOK,
           Start(s) \/ ReconcileStep(s) \/ ReconcileFails(s) \/ Crash(s)
    PROVE  TypeOK'
<1> USE DEF jobVars, agentVars, historyVars, rowVars, callVars
<1>1. CASE Start(s)
  BY <1>1 DEF Start, TypeOK, Proc
<1>2. CASE Reconcile(s)
  <2>1. todo' \in [Servers -> [Prompts -> {"none", "release", "enqueue"}]]
    BY <1>2 DEF Reconcile, TypeOK
  <2> QED  BY <1>2, <2>1 DEF Reconcile, TypeOK, Proc
<1>3. ASSUME NEW p \in Prompts, ReconcileRelease(s, p) PROVE TypeOK'
  <2>1. call' \in CallType /\ copy' \in CopyType
    BY <1>3 DEF ReconcileRelease, TypeOK, CallType, CopyType
  <2>2. todo' \in [Servers -> [Prompts -> {"none", "release", "enqueue"}]]
    BY <1>3 DEF ReconcileRelease, TypeOK
  <2> QED  BY <1>3, <2>1, <2>2, PutBackTypes, FoldTypes DEF ReconcileRelease, TypeOK
<1>4. ASSUME NEW p \in Prompts, ReconcileEnqueue(s, p) PROVE TypeOK'
  <2>1. call' \in CallType /\ copy' \in CopyType
    BY <1>4 DEF ReconcileEnqueue, TypeOK, CallType, CopyType
  <2>2. todo' \in [Servers -> [Prompts -> {"none", "release", "enqueue"}]]
    BY <1>4 DEF ReconcileEnqueue, TypeOK
  <2> QED  BY <1>4, <2>1, <2>2, TryEnqueueTypes, FoldTypes DEF ReconcileEnqueue, TypeOK
<1>5. CASE ReconcileFails(s)
  BY <1>5, FaultTypes DEF ReconcileFails, TypeOK, Proc, NothingToDo
<1>6. CASE Crash(s)
  <2>1. call' \in CallType /\ copy' \in CopyType
    BY <1>6 DEF Crash, TypeOK, CallType, CopyType, NoCalls, NoCopies, Step
  <2>2. proc' \in [Servers -> Proc]
        /\ todo' \in [Servers -> [Prompts -> {"none", "release", "enqueue"}]]
    BY <1>6 DEF Crash, TypeOK, Proc, NothingToDo
  <2> QED  BY <1>6, <2>1, <2>2, FaultTypes, FoldTypes DEF Crash, TypeOK
<1> QED  BY <1>1, <1>2, <1>3, <1>4, <1>5, <1>6 DEF ReconcileStep

LEMMA SessionTypes ==
    ASSUME TypeOK, SessionChanges \/ DeleteSession
    PROVE  TypeOK'
<1> USE DEF jobVars, agentVars, historyVars, rowVars, callVars
<1>1. CASE SessionChanges
  <2>1. session' \in {"initializing", "ready", "removing", "removed"}
    BY <1>1 DEF SessionChanges
  <2> QED  BY <1>1, <2>1 DEF SessionChanges, TypeOK
<1>2. CASE DeleteSession
  BY <1>2 DEF DeleteSession, TypeOK, Status
<1> QED  BY <1>1, <1>2

LEMMA InitTypes == Init => TypeOK
<1> SUFFICES ASSUME Init PROVE TypeOK
  OBVIOUS
<1>1. call \in CallType /\ copy \in CopyType
  BY DEF Init, NoCalls, NoCopies, CallType, CopyType, Step
<1>2. proc \in [Servers -> Proc]
      /\ todo \in [Servers -> [Prompts -> {"none", "release", "enqueue"}]]
  BY DEF Init, NothingToDo, Proc
<1>3. faults \in 0 .. MaxFaults /\ tries \in [Prompts -> 0 .. MaxTries]
  BY HandoffAssumption DEF Init
<1> QED  BY <1>1, <1>2, <1>3 DEF Init, TypeOK, Status, CallType, CopyType

(* Every reachable state of the handoff has the declared types.            *)
THEOREM HandoffTypes == Spec => []TypeOK
<1>1. TypeOK /\ [Next]_vars => TypeOK'
  <2> SUFFICES ASSUME TypeOK, [Next]_vars PROVE TypeOK'
    OBVIOUS
  <2>1. CASE UNCHANGED vars
    BY <2>1 DEF vars, rowVars, jobVars, callVars, agentVars, historyVars, TypeOK
  <2>2. CASE Next
    BY <2>2, SubmitTypes, DispatchTypes, JobTypes, ServerTypes, SessionTypes
       DEF Next
  <2> QED  BY <2>1, <2>2
<1> QED  BY InitTypes, <1>1, PTL DEF Spec

-----------------------------------------------------------------------------
(* An accepted prompt was taken.  The inductive invariant adds the calls    *)
(* that know it and have not written it yet.                                *)

AcceptedInv ==
    /\ AcceptedWasTaken
    /\ \A s \in Servers, k \in Lanes, p \in Prompts :
          /\ call[s][k][p] = "started" => taken[p] > 0
          /\ call[s][k][p] = "conflict" => p \in conflicted

(* What the agent did for a prompt is never undone.                         *)
LEMMA AgentRemembers ==
    ASSUME TypeOK, [Next]_vars
    PROVE  /\ \A p \in Prompts : taken[p] > 0 => taken'[p] > 0
           /\ conflicted \subseteq conflicted'
<1> USE DEF agentVars
<1>1. ASSUME NEW s \in Servers, NEW k \in Lanes, NEW p \in Prompts,
             StartChat(s, k, p) \/ PostFails(s, k, p)
      PROVE  /\ \A q \in Prompts : taken[q] > 0 => taken'[q] > 0
             /\ conflicted \subseteq conflicted'
  <2>1. conflicted \subseteq conflicted'
    BY <1>1 DEF StartChat, PostFails
  <2>2. UNCHANGED taken \/ taken' = [taken EXCEPT ![p] = @ + 1]
    BY <1>1 DEF StartChat, PostFails
  <2>3. CASE UNCHANGED taken
    BY <2>1, <2>3
  <2>4. CASE taken' = [taken EXCEPT ![p] = @ + 1]
    BY <2>1, <2>4 DEF TypeOK
  <2> QED  BY <2>2, <2>3, <2>4
<1>2. CASE UNCHANGED agentVars
  BY <1>2
<1>3. \/ UNCHANGED agentVars
      \/ \E s \in Servers, k \in Lanes, p \in Prompts :
            StartChat(s, k, p) \/ PostFails(s, k, p)
  BY DEF Next, SubmitStep, DispatchStep, JobStep, ReconcileStep, SubmitPrompt,
         ReleaseFailed, SubmitEnqueue, RouteSubmission, ReadSubmission,
         CheckSession, ClaimForDispatch, PrepareRequest, AcceptStarted,
         HandleDispatchError, OutcomeLost, StartJob, JobReturns, ResetJob,
         Start, Reconcile, ReconcileRelease, ReconcileEnqueue, ReconcileFails,
         Crash, SessionChanges, DeleteSession, vars
<1> QED  BY <1>1, <1>2, <1>3

(* A row comes to say "accepted" by AcceptStarted only.                     *)
LEMMA OnlyAcceptStarted ==
    ASSUME TypeOK, [Next]_vars, NEW p \in Prompts,
           status[p] # "accepted", status'[p] = "accepted"
    PROVE  \E s \in Servers, k \in Lanes : AcceptStarted(s, k, p)
<1> USE DEF rowVars
<1>1. ASSUME NEW q \in Prompts,
             ReleaseToPending(q) \/ PutBack(q) \/ MarkFailed(q)
                \/ WriteStatus(q, "dispatching")
      PROVE  FALSE
  BY <1>1 DEF ReleaseToPending, PutBack, MarkFailed, WriteStatus, TypeOK
<1>2. ASSUME NEW s \in Servers, NEW k \in Lanes, NEW q \in Prompts,
             AcceptStarted(s, k, q)
      PROVE  q = p
  BY <1>2 DEF AcceptStarted, MarkAccepted, WriteStatus, TypeOK
<1>3. ASSUME NEW s \in Servers, NEW r \in Requests, NEW q \in Prompts,
             SubmitPrompt(s, r, q) \/ SubmitStep(s, r, q)
      PROVE  FALSE
  BY <1>1, <1>3 DEF SubmitPrompt, SubmitStep, ReleaseFailed, SubmitEnqueue,
                    RouteSubmission, TypeOK
<1>4. ASSUME NEW s \in Servers, NEW k \in Lanes, NEW q \in Prompts,
             DispatchStep(s, k, q) \/ PostFails(s, k, q) \/ OutcomeLost(s, k, q)
      PROVE  AcceptStarted(s, k, q)
  BY <1>1, <1>4 DEF DispatchStep, ReadSubmission, CheckSession, ClaimForDispatch,
         PrepareRequest, StartChat, HandleDispatchError, PostFails, OutcomeLost
<1>5. ASSUME NEW s \in Servers, ReconcileStep(s)
      PROVE  FALSE
  BY <1>1, <1>5 DEF ReconcileStep, Reconcile, ReconcileRelease, ReconcileEnqueue
<1>6. ASSUME DeleteSession
      PROVE  FALSE
  BY <1>6 DEF DeleteSession
<1>7. CASE \/ UNCHANGED vars
           \/ \E q \in Prompts : ResetJob(q) \/ \E s \in Servers : JobStep(s, q)
           \/ \E s \in Servers : Start(s) \/ ReconcileFails(s) \/ Crash(s)
           \/ SessionChanges
  BY <1>7 DEF vars, ResetJob, JobStep, StartJob, JobReturns, Start,
              ReconcileFails, Crash, SessionChanges
<1> QED  BY <1>2, <1>3, <1>4, <1>5, <1>6, <1>7 DEF Next

(* A call reaches "started" and "conflict" by its post only.                *)
LEMMA OnlyStartChat ==
    ASSUME TypeOK, [Next]_vars,
           NEW s \in Servers, NEW k \in Lanes, NEW p \in Prompts,
           NEW step \in {"started", "conflict"},
           call[s][k][p] # step, call'[s][k][p] = step
    PROVE  StartChat(s, k, p)
<1> USE DEF callVars
<1>1. ASSUME NEW t \in Servers, NEW l \in Lanes, NEW q \in Prompts, NEW to,
             call' = [call EXCEPT ![t][l][q] = to]
      PROVE  t = s /\ l = k /\ q = p /\ to = step
  BY <1>1 DEF TypeOK
<1>2. ASSUME NEW t \in Servers, NEW l \in Lanes, NEW q \in Prompts, NEW to,
             Goto(t, l, q, to) \/ Return(t, l, q, to)
      PROVE  t = s /\ l = k /\ q = p /\ to = step
  <2>1. CASE Goto(t, l, q, to)
    BY <1>1, <2>1 DEF Goto
  <2>2. CASE Return(t, l, q, to)
    BY <1>1, <2>2 DEF Return
  <2> QED  BY <1>2, <2>1, <2>2
<1>3. ASSUME NEW t \in Servers, NEW r \in Requests, NEW q \in Prompts,
             SubmitPrompt(t, r, q) \/ SubmitStep(t, r, q)
      PROVE  FALSE
  BY <1>2, <1>3 DEF SubmitPrompt, SubmitStep, ReleaseFailed, SubmitEnqueue,
                    RouteSubmission, Lanes
<1>4. ASSUME NEW t \in Servers, NEW l \in Lanes, NEW q \in Prompts,
             DispatchStep(t, l, q) \/ PostFails(t, l, q) \/ OutcomeLost(t, l, q)
      PROVE  StartChat(s, k, p)
  <2>1. CASE ReadSubmission(t, l, q)
    <3>1. CASE call' = [call EXCEPT ![t][l][q] = "checking"]
      <4>1. "checking" = step
        BY <1>1, <3>1
      <4> QED  BY <4>1
    <3>2. CASE Return(t, l, q, "ok")
      <4>1. "ok" = step
        BY <1>2, <3>2
      <4> QED  BY <4>1
    <3> QED  BY <2>1, <3>1, <3>2 DEF ReadSubmission
  <2>2. CASE CheckSession(t, l, q) \/ ClaimForDispatch(t, l, q)
                \/ PrepareRequest(t, l, q)
    BY <1>2, <2>2 DEF CheckSession, ClaimForDispatch, PrepareRequest
  <2>3. CASE AcceptStarted(t, l, q) \/ HandleDispatchError(t, l, q)
                \/ OutcomeLost(t, l, q)
    BY <1>2, <2>3 DEF AcceptStarted, HandleDispatchError, OutcomeLost
  <2>4. CASE PostFails(t, l, q)
    BY <1>2, <2>4 DEF PostFails
  <2>5. CASE StartChat(t, l, q)
    BY <1>2, <2>5 DEF StartChat
  <2> QED  BY <1>4, <2>1, <2>2, <2>3, <2>4, <2>5 DEF DispatchStep
<1>5. ASSUME NEW t \in Servers, NEW q \in Prompts, JobStep(t, q)
      PROVE  FALSE
  BY <1>2, <1>5 DEF JobStep, StartJob, JobReturns, Lanes
<1>6. ASSUME NEW t \in Servers, Crash(t)
      PROVE  FALSE
  BY <1>6 DEF Crash, NoCalls, TypeOK
<1>7. CASE \/ UNCHANGED vars
           \/ \E q \in Prompts : ResetJob(q)
           \/ \E t \in Servers : Start(t) \/ ReconcileStep(t) \/ ReconcileFails(t)
           \/ SessionChanges \/ DeleteSession
  BY <1>7 DEF vars, ResetJob, Start, ReconcileStep, Reconcile, ReconcileRelease,
              ReconcileEnqueue, ReconcileFails, SessionChanges, DeleteSession
<1> QED  BY <1>3, <1>4, <1>5, <1>6, <1>7 DEF Next

LEMMA AcceptedInvariant == Spec => []AcceptedInv
<1>1. Init => AcceptedInv
  BY DEF Init, AcceptedInv, AcceptedWasTaken, NoCalls
<1>2. TypeOK /\ AcceptedInv /\ [Next]_vars => AcceptedInv'
  <2> SUFFICES ASSUME TypeOK, AcceptedInv, [Next]_vars PROVE AcceptedInv'
    OBVIOUS
  <2>1. ASSUME NEW p \in Prompts, status'[p] = "accepted"
        PROVE  taken'[p] > 0 \/ p \in conflicted'
    <3>1. CASE status[p] = "accepted"
      BY <3>1, AgentRemembers DEF AcceptedInv, AcceptedWasTaken
    <3>2. CASE status[p] # "accepted"
      <4>1. PICK s \in Servers, k \in Lanes : AcceptStarted(s, k, p)
        BY <2>1, <3>2, OnlyAcceptStarted
      <4>2. taken[p] > 0 \/ p \in conflicted
        BY <4>1 DEF AcceptStarted, At, AcceptedInv
      <4> QED  BY <4>2, AgentRemembers
    <3> QED  BY <3>1, <3>2
  <2>2. ASSUME NEW s \in Servers, NEW k \in Lanes, NEW p \in Prompts
        PROVE  /\ call'[s][k][p] = "started" => taken'[p] > 0
               /\ call'[s][k][p] = "conflict" => p \in conflicted'
    <3>1. CASE StartChat(s, k, p)
      <4>1. CASE taken' = [taken EXCEPT ![p] = @ + 1] /\ Goto(s, k, p, "started")
        BY <4>1 DEF Goto, TypeOK
      <4>2. CASE conflicted' = conflicted \cup {p} /\ Goto(s, k, p, "conflict")
        BY <4>2 DEF Goto, TypeOK
      <4>3. CASE Goto(s, k, p, "refused")
        BY <4>3 DEF Goto, TypeOK
      <4> QED  BY <3>1, <4>1, <4>2, <4>3 DEF StartChat
    <3>2. CASE ~StartChat(s, k, p)
      BY <3>2, OnlyStartChat, AgentRemembers DEF AcceptedInv
    <3> QED  BY <3>1, <3>2
  <2> QED  BY <2>1, <2>2 DEF AcceptedInv, AcceptedWasTaken
<1> QED  BY <1>1, <1>2, HandoffTypes, PTL DEF Spec

(* For every constant: a submission is reported as accepted only if the     *)
(* agent took the prompt or a post of it met another completion.            *)
THEOREM AcceptedPromptsWereTaken == Spec => []AcceptedWasTaken
<1>1. AcceptedInv => AcceptedWasTaken
  BY DEF AcceptedInv
<1> QED  BY <1>1, AcceptedInvariant, PTL

-----------------------------------------------------------------------------
(* One dispatcher at a time, and one taking.  What is inductive, prompt by  *)
(* prompt: who is dispatching is alone and its row says so; and as long as  *)
(* nothing failed the agent has the prompt only if its dispatcher knows it, *)
(* or has written it.                                                       *)

Busy(s, k, p) == call[s][k][p] \in Dispatching
Quiet(p) == \A s \in Servers, k \in Lanes : ~Busy(s, k, p)
Alone(s, k, p) == \A t \in Servers, l \in Lanes : Busy(t, l, p) => t = s /\ l = k

SoleAt(p) ==
    p \notin overruled =>
        \A s \in Servers, k \in Lanes :
            Busy(s, k, p) => /\ Alone(s, k, p)
                             /\ status[p] \in {"dispatching", "deleted"}

TakenAt(p) ==
    faults = 0 /\ p \notin overruled =>
        /\ taken[p] <= 1
        /\ \A s \in Servers, k \in Lanes :
              Busy(s, k, p) /\ call[s][k][p] # "started" => taken[p] = 0
        /\ Quiet(p) => /\ status[p] # "dispatching"
                       /\ taken[p] = 0 \/ status[p] \in {"accepted", "deleted"}

DispatchInv == \A p \in Prompts : SoleAt(p) /\ TakenAt(p)

LEMMA QuietIsNoDispatcher ==
    ASSUME NEW p \in Prompts PROVE Dispatchers(p) = {} <=> Quiet(p)
<1>1. ASSUME NEW s \in Servers, NEW k \in Lanes, Busy(s, k, p)
      PROVE  <<s, k>> \in Dispatchers(p)
  BY <1>1 DEF Dispatchers, Busy
<1>2. ASSUME NEW c \in Dispatchers(p)
      PROVE  c[1] \in Servers /\ c[2] \in Lanes /\ Busy(c[1], c[2], p)
  BY DEF Dispatchers, Busy
<1> QED  BY <1>1, <1>2 DEF Quiet

LEMMA SoleAtIsSole == (\A p \in Prompts : SoleAt(p)) => SoleDispatcher
<1> SUFFICES ASSUME NEW p \in Prompts, SoleAt(p), p \notin overruled,
                    NEW c \in Dispatchers(p), NEW d \in Dispatchers(p)
             PROVE  c = d /\ status[p] \in {"dispatching", "deleted"}
  BY DEF SoleDispatcher
<1>1. PICK s \in Servers, k \in Lanes : c = <<s, k>> /\ Busy(s, k, p)
  BY DEF Dispatchers, Busy
<1>2. PICK t \in Servers, l \in Lanes : d = <<t, l>> /\ Busy(t, l, p)
  BY DEF Dispatchers, Busy
<1> QED  BY <1>1, <1>2 DEF SoleAt, Alone

(* A prompt that a step does not concern.                                   *)
LEMMA Undisturbed ==
    ASSUME NEW p \in Prompts, SoleAt(p), TakenAt(p),
           overruled \subseteq overruled', faults' = 0 => faults = 0,
           status'[p] = status[p], taken'[p] = taken[p],
           \A s \in Servers, k \in Lanes :
              \/ call'[s][k][p] = call[s][k][p]
              \/ ~Busy(s, k, p) /\ ~Busy(s, k, p)'
    PROVE  SoleAt(p)' /\ TakenAt(p)'
<1>1. \A s \in Servers, k \in Lanes : Busy(s, k, p)' <=> Busy(s, k, p)
  BY DEF Busy
<1>2. \A s \in Servers, k \in Lanes :
          Busy(s, k, p) => call'[s][k][p] = call[s][k][p]
  OBVIOUS
<1>3. SoleAt(p)'
  BY <1>1 DEF SoleAt, Alone
<1>4. TakenAt(p)'
  BY <1>1, <1>2 DEF TakenAt, Quiet
<1> QED  BY <1>3, <1>4

(* A step of one call, for the other prompts.                               *)
LEMMA OtherPrompt ==
    ASSUME TypeOK,
           NEW s \in Servers, NEW k \in Lanes, NEW p \in Prompts, NEW to,
           call' = [call EXCEPT ![s][k][p] = to],
           NEW q \in Prompts, q # p, SoleAt(q), TakenAt(q),
           status'[q] = status[q], taken'[q] = taken[q],
           overruled \subseteq overruled', faults' = 0 => faults = 0
    PROVE  SoleAt(q)' /\ TakenAt(q)'
<1>1. \A t \in Servers, l \in Lanes : call'[t][l][q] = call[t][l][q]
  BY DEF TypeOK
<1> QED  BY <1>1, Undisturbed

\* Nobody who is not overruled is written over.
LEMMA NotOverruled ==
    ASSUME NEW p \in Prompts, Overrule(p)
    PROVE  /\ overruled \subseteq overruled'
           /\ p \notin overruled' =>
                 /\ p \notin overruled /\ status[p] # "accepted"
                 /\ status[p] = "deleted" \/ Quiet(p)
  BY QuietIsNoDispatcher DEF Overrule

(* The row is written by somebody who is not dispatching the prompt.        *)
LEMMA WrittenFromOutside ==
    ASSUME TypeOK, NEW p \in Prompts, SoleAt(p), TakenAt(p),
           NEW st \in {"pending", "failed"}, WriteStatus(p, st), Overrule(p),
           taken'[p] = taken[p], faults' = faults,
           \A s \in Servers, k \in Lanes :
              \/ call'[s][k][p] = call[s][k][p]
              \/ ~Busy(s, k, p) /\ ~Busy(s, k, p)'
    PROVE  SoleAt(p)' /\ TakenAt(p)'
<1>1. CASE p \in overruled'
  BY <1>1 DEF SoleAt, TakenAt
<1>2. CASE status[p] = "deleted"
  <2>1. status'[p] = status[p] /\ overruled \subseteq overruled'
    BY <1>2, NotOverruled DEF WriteStatus
  <2> QED  BY <2>1, Undisturbed
<1>3. CASE p \notin overruled' /\ status[p] # "deleted"
  <2>1. Quiet(p) /\ p \notin overruled
    BY <1>3, NotOverruled
  <2>2. Quiet(p)'
    BY <2>1 DEF Quiet, Busy
  <2>3. status'[p] = st
    BY <1>3 DEF WriteStatus, TypeOK
  <2>4. SoleAt(p)'
    BY <2>2 DEF SoleAt, Quiet
  <2>5. TakenAt(p)'
    BY <1>3, <2>1, <2>2, <2>3, NotOverruled DEF TakenAt, Quiet
  <2> QED  BY <2>4, <2>5
<1> QED  BY <1>1, <1>2, <1>3

(* The outcome is written by a dispatcher, which then is none any more.  It *)
(* was alone, because it was not overruled.                                 *)
LEMMA WrittenByDispatcher ==
    ASSUME TypeOK,
           NEW s \in Servers, NEW k \in Lanes, NEW p \in Prompts,
           SoleAt(p), TakenAt(p), Busy(s, k, p),
           NEW st \in {"pending", "failed", "accepted"},
           st # "accepted" => call[s][k][p] # "started",
           WriteStatus(p, st), overruled' = overruled,
           NEW to, to \notin Dispatching, call' = [call EXCEPT ![s][k][p] = to],
           taken'[p] = taken[p], faults' = 0 => faults = 0
    PROVE  SoleAt(p)' /\ TakenAt(p)'
<1>1. CASE p \in overruled
  BY <1>1 DEF SoleAt, TakenAt
<1>2. CASE p \notin overruled
  <2>1. Alone(s, k, p)
    BY <1>2 DEF SoleAt
  <2>2. Quiet(p)'
    BY <2>1 DEF Quiet, Alone, Busy, TypeOK
  <2>3. status'[p] = IF status[p] = "deleted" THEN "deleted" ELSE st
    BY DEF WriteStatus, TypeOK
  <2>4. SoleAt(p)'
    BY <2>2 DEF SoleAt, Quiet
  <2>5. TakenAt(p)'
    BY <1>2, <2>1, <2>2, <2>3 DEF TakenAt, Quiet
  <2> QED  BY <2>4, <2>5
<1> QED  BY <1>1, <1>2

(* A step that counts as a fault: no dispatcher is added.                   *)
LEMMA FaultyStep ==
    ASSUME NEW p \in Prompts, SoleAt(p), TypeOK, Fault,
           overruled' = overruled, status'[p] = status[p],
           \A s \in Servers, k \in Lanes : Busy(s, k, p)' => Busy(s, k, p)
    PROVE  SoleAt(p)' /\ TakenAt(p)'
<1>1. faults' # 0
  BY HandoffAssumption DEF Fault, TypeOK
<1>2. SoleAt(p)'
  BY DEF SoleAt, Alone
<1> QED  BY <1>1, <1>2 DEF TakenAt

LEMMA SubmitDispatch ==
    ASSUME TypeOK, DispatchInv,
           NEW s \in Servers, NEW r \in Requests, NEW p \in Prompts,
           SubmitPrompt(s, r, p) \/ SubmitStep(s, r, p),
           NEW q \in Prompts
    PROVE  SoleAt(q)' /\ TakenAt(q)'
<1> USE DEF rowVars, agentVars, historyVars, DispatchInv
<1>0. r \in Lanes
  BY DEF Lanes
<1>1. PICK to : to \notin Dispatching /\ call' = [call EXCEPT ![s][r][p] = to]
  <2>1. CASE SubmitPrompt(s, r, p)
    BY <2>1 DEF SubmitPrompt, Goto, Dispatching
  <2>2. CASE ReleaseFailed(s, r, p)
    <3>1. (IF status[p] = "deleted" THEN "idle" ELSE "enqueueing") \notin Dispatching
      BY DEF Dispatching
    <3> QED  BY <2>2, <3>1 DEF ReleaseFailed, Goto
  <2>3. CASE SubmitEnqueue(s, r, p)
    BY <2>3 DEF SubmitEnqueue, Goto, Dispatching
  <2>4. CASE RouteSubmission(s, r, p)
    <3>1. (IF session = "initializing" THEN "idle" ELSE "reading") \notin Dispatching
      BY DEF Dispatching
    <3> QED  BY <2>4, <3>1 DEF RouteSubmission, Goto
  <2> QED  BY <2>1, <2>2, <2>3, <2>4 DEF SubmitStep
<1>2. taken' = taken /\ (faults' = 0 => faults = 0)
  BY HandoffAssumption
     DEF SubmitPrompt, SubmitStep, ReleaseFailed, SubmitEnqueue, RouteSubmission,
         TryEnqueueDispatch, Fault, TypeOK
<1>3. ~Busy(s, r, p)
  BY DEF SubmitPrompt, SubmitStep, ReleaseFailed, SubmitEnqueue, RouteSubmission,
         At, Busy, Dispatching
<1>4. \A t \in Servers, l \in Lanes :
         \/ call'[t][l][q] = call[t][l][q]
         \/ ~Busy(t, l, q) /\ ~Busy(t, l, q)'
  BY <1>0, <1>1, <1>3 DEF Busy, TypeOK
<1>5. CASE UNCHANGED <<status, overruled>>
  BY <1>2, <1>4, <1>5, Undisturbed
<1>6. CASE /\ status[p] = "absent" /\ UNCHANGED overruled
           /\ status' = [status EXCEPT ![p] = "pending"]
  <2>1. CASE q # p
    BY <1>2, <1>4, <1>6, <2>1, Undisturbed DEF TypeOK
  <2>2. CASE q = p /\ p \in overruled
    BY <1>6, <2>2 DEF SoleAt, TakenAt
  <2>3. CASE q = p /\ p \notin overruled
    <3>1. Quiet(p)
      BY <1>6, <2>3 DEF SoleAt, Quiet
    <3>2. Quiet(p)'
      BY <1>4, <2>3, <3>1 DEF Quiet, Busy
    <3>3. status'[p] = "pending"
      BY <1>6 DEF TypeOK
    <3> QED  BY <1>2, <1>6, <2>3, <3>1, <3>2, <3>3 DEF SoleAt, TakenAt, Quiet
  <2> QED  BY <2>1, <2>2, <2>3
<1>7. CASE WriteStatus(p, "pending") /\ Overrule(p) /\ UNCHANGED faults
  <2>1. CASE q # p
    BY <1>2, <1>4, <1>7, <2>1, NotOverruled, Undisturbed DEF WriteStatus, TypeOK
  <2>2. CASE q = p
    BY <1>2, <1>4, <1>7, <2>2, WrittenFromOutside
  <2> QED  BY <2>1, <2>2
<1> QED  BY <1>5, <1>6, <1>7
         DEF SubmitPrompt, SubmitStep, ReleaseFailed, SubmitEnqueue,
             RouteSubmission, PutBack, ReleaseToPending

(* A row that is claimed was pending, so that nobody was dispatching it.     *)
LEMMA ClaimDispatch ==
    ASSUME TypeOK, DispatchInv,
           NEW s \in Servers, NEW k \in Lanes, NEW p \in Prompts,
           status[p] = "pending", WriteStatus(p, "dispatching"),
           call' = [call EXCEPT ![s][k][p] = "claimed"],
           UNCHANGED <<taken, overruled, faults>>,
           NEW q \in Prompts
    PROVE  SoleAt(q)' /\ TakenAt(q)'
<1> USE DEF DispatchInv
<1>1. CASE q # p
  BY <1>1, OtherPrompt DEF WriteStatus, TypeOK
<1>2. CASE q = p /\ p \in overruled
  BY <1>2 DEF SoleAt, TakenAt
<1>3. CASE q = p /\ p \notin overruled
  <2>1. Quiet(p)
    BY <1>3 DEF SoleAt, Quiet
  <2>2. /\ Busy(s, k, p)' /\ call'[s][k][p] = "claimed"
        /\ \A t \in Servers, l \in Lanes : Busy(t, l, p)' => t = s /\ l = k
    BY <2>1 DEF Quiet, Busy, Dispatching, TypeOK
  <2>3. status'[p] = "dispatching"
    BY DEF WriteStatus, TypeOK
  <2>4. SoleAt(p)'
    BY <2>2, <2>3 DEF SoleAt, Alone
  <2>5. TakenAt(p)'
    BY <1>3, <2>1, <2>2, <2>3 DEF TakenAt, Quiet
  <2> QED  BY <1>3, <2>4, <2>5
<1> QED  BY <1>1, <1>2, <1>3

LEMMA StartDispatch ==
    ASSUME TypeOK, DispatchInv,
           NEW s \in Servers, NEW k \in Lanes, NEW p \in Prompts,
           StartChat(s, k, p), NEW q \in Prompts
    PROVE  SoleAt(q)' /\ TakenAt(q)'
<1> USE DEF rowVars, agentVars, historyVars, DispatchInv
<1>1. PICK to \in {"started", "conflict", "refused"} :
         /\ call' = [call EXCEPT ![s][k][p] = to]
         /\ taken' = IF to = "started" THEN [taken EXCEPT ![p] = @ + 1] ELSE taken
  BY DEF StartChat, Goto
<1>2. UNCHANGED <<status, overruled, faults>>
  BY DEF StartChat
<1>3. CASE q # p
  <2>1. taken'[q] = taken[q] /\ status'[q] = status[q]
    BY <1>1, <1>2, <1>3 DEF TypeOK
  <2> QED  BY <1>1, <1>2, <1>3, <2>1, OtherPrompt
<1>4. CASE q = p /\ p \in overruled
  BY <1>2, <1>4 DEF SoleAt, TakenAt
<1>5. CASE q = p /\ p \notin overruled
  <2>1. Busy(s, k, p) /\ call[s][k][p] = "posting"
    BY DEF StartChat, At, Busy, Dispatching
  <2>2. Alone(s, k, p) /\ status[p] \in {"dispatching", "deleted"}
    BY <1>5, <2>1 DEF SoleAt
  <2>3. /\ Busy(s, k, p)' /\ call'[s][k][p] = to
        /\ \A t \in Servers, l \in Lanes : Busy(t, l, p)' => t = s /\ l = k
    BY <1>1, <2>2 DEF Alone, Busy, Dispatching, TypeOK
  <2>4. SoleAt(p)'
    BY <1>2, <2>2, <2>3 DEF SoleAt, Alone
  <2>5. faults = 0 => taken[p] = 0
    BY <1>5, <2>1 DEF TakenAt
  <2>6. taken'[p] = IF to = "started" THEN taken[p] + 1 ELSE taken[p]
    BY <1>1 DEF TypeOK
  <2>7. TakenAt(p)'
    BY <1>2, <2>3, <2>5, <2>6 DEF TakenAt, Quiet
  <2> QED  BY <1>5, <2>4, <2>7
<1> QED  BY <1>3, <1>4, <1>5

\* Where DispatchPromptSubmission returns to.
LEMMA ReturnLeaves ==
    ASSUME NEW s \in Servers, NEW k \in Lanes, NEW p \in Prompts,
           NEW result \in Returned, Return(s, k, p, result)
    PROVE  \E to : /\ to \notin Dispatching
                   /\ call' = [call EXCEPT ![s][k][p] = to]
<1>1. (IF k = Job THEN result ELSE "idle") \notin Dispatching
  BY DEF Returned, Dispatching
<1> QED  BY <1>1 DEF Return

(* Steps of a call that is not dispatching yet, the claim excepted.         *)
LEMMA BeforeClaim ==
    ASSUME TypeOK, DispatchInv,
           NEW s \in Servers, NEW k \in Lanes, NEW p \in Prompts, ~Busy(s, k, p),
           NEW to, to \notin Dispatching, call' = [call EXCEPT ![s][k][p] = to],
           taken' = taken, faults' = faults,
           \/ UNCHANGED <<status, overruled>>
           \/ WriteStatus(p, "failed") /\ Overrule(p),
           NEW q \in Prompts
    PROVE  SoleAt(q)' /\ TakenAt(q)'
<1> USE DEF DispatchInv
<1>1. \A t \in Servers, l \in Lanes :
         \/ call'[t][l][q] = call[t][l][q]
         \/ ~Busy(t, l, q) /\ ~Busy(t, l, q)'
  BY DEF Busy, TypeOK
<1>2. CASE UNCHANGED <<status, overruled>>
  BY <1>1, <1>2, Undisturbed
<1>3. CASE WriteStatus(p, "failed") /\ Overrule(p) /\ q # p
  BY <1>1, <1>3, NotOverruled, Undisturbed DEF WriteStatus, TypeOK
<1>4. CASE WriteStatus(p, "failed") /\ Overrule(p) /\ q = p
  BY <1>1, <1>4, WrittenFromOutside
<1> QED  BY <1>2, <1>3, <1>4

(* Steps of a dispatcher that write its outcome.                            *)
LEMMA OutcomeWritten ==
    ASSUME TypeOK, DispatchInv,
           NEW s \in Servers, NEW k \in Lanes, NEW p \in Prompts, Busy(s, k, p),
           NEW st \in {"pending", "failed", "accepted"},
           st # "accepted" => call[s][k][p] # "started",
           WriteStatus(p, st),
           NEW to, to \notin Dispatching, call' = [call EXCEPT ![s][k][p] = to],
           UNCHANGED <<taken, overruled>>, faults' = 0 => faults = 0,
           NEW q \in Prompts
    PROVE  SoleAt(q)' /\ TakenAt(q)'
<1> USE DEF DispatchInv
<1>1. CASE q # p
  BY <1>1, OtherPrompt DEF WriteStatus, TypeOK
<1>2. CASE q = p
  BY <1>2, WrittenByDispatcher
<1> QED  BY <1>1, <1>2

LEMMA PrepareDispatch ==
    ASSUME TypeOK, DispatchInv,
           NEW s \in Servers, NEW k \in Lanes, NEW p \in Prompts,
           PrepareRequest(s, k, p), NEW q \in Prompts
    PROVE  SoleAt(q)' /\ TakenAt(q)'
<1> USE DEF rowVars, agentVars, historyVars
<1>1. /\ Busy(s, k, p) /\ call[s][k][p] = "claimed"
      /\ UNCHANGED <<taken, overruled>>
  BY DEF PrepareRequest, At, Busy, Dispatching
<1>2. faults' = 0 => faults = 0
  BY HandoffAssumption DEF PrepareRequest, Fault, TypeOK
<1>3. "error" \in Returned
  BY DEF Returned
<1>4. CASE \E st \in {"pending", "failed"} :
              WriteStatus(p, st) /\ Return(s, k, p, "error")
  <2>1. PICK st \in {"pending", "failed"} :
           WriteStatus(p, st) /\ Return(s, k, p, "error")
    BY <1>4
  <2>2. PICK to : to \notin Dispatching /\ call' = [call EXCEPT ![s][k][p] = to]
    BY <1>3, <2>1, ReturnLeaves
  <2> QED  BY <1>1, <1>2, <2>1, <2>2, OutcomeWritten
<1>5. CASE UNCHANGED <<status, faults>> /\ Goto(s, k, p, "posting")
  <2>1. call' = [call EXCEPT ![s][k][p] = "posting"]
    BY <1>5 DEF Goto
  <2>2. CASE q # p
    BY <1>1, <1>5, <2>1, <2>2, OtherPrompt DEF DispatchInv
  <2>3. CASE q = p
    <3>1. /\ Busy(s, k, p)' /\ call'[s][k][p] = "posting"
          /\ \A t \in Servers, l \in Lanes : Busy(t, l, p)' <=> Busy(t, l, p)
          /\ \A t \in Servers, l \in Lanes :
                call'[t][l][p] = call[t][l][p] \/ (t = s /\ l = k)
      BY <1>1, <2>1 DEF Busy, Dispatching, TypeOK
    <3>2. SoleAt(p)'
      BY <1>1, <1>5, <3>1 DEF SoleAt, Alone, DispatchInv
    <3>3. TakenAt(p)'
      BY <1>1, <1>5, <3>1 DEF TakenAt, Quiet, DispatchInv
    <3> QED  BY <2>3, <3>2, <3>3
  <2> QED  BY <2>2, <2>3
<1> QED  BY <1>4, <1>5 DEF PrepareRequest, ReleaseToPending, MarkFailed

LEMMA DispatchDispatch ==
    ASSUME TypeOK, DispatchInv,
           NEW s \in Servers, NEW k \in Lanes, NEW p \in Prompts,
           DispatchStep(s, k, p), NEW q \in Prompts
    PROVE  SoleAt(q)' /\ TakenAt(q)'
<1> USE DEF rowVars, agentVars, historyVars
<1>0. "ok" \in Returned /\ "error" \in Returned
  BY DEF Returned
<1>1. CASE ReadSubmission(s, k, p)
  <2>1. PICK to : to \notin Dispatching /\ call' = [call EXCEPT ![s][k][p] = to]
    <3>1. CASE call' = [call EXCEPT ![s][k][p] = "checking"]
      BY <3>1 DEF Dispatching
    <3>2. CASE Return(s, k, p, "ok")
      BY <1>0, <3>2, ReturnLeaves
    <3> QED  BY <1>1, <3>1, <3>2 DEF ReadSubmission
  <2>2. ~Busy(s, k, p)
    BY <1>1 DEF ReadSubmission, At, Busy, Dispatching
  <2>3. UNCHANGED <<status, overruled, taken, faults>>
    BY <1>1 DEF ReadSubmission
  <2> QED  BY <2>1, <2>2, <2>3, BeforeClaim
<1>2. CASE CheckSession(s, k, p)
  <2>1. PICK to : to \notin Dispatching /\ call' = [call EXCEPT ![s][k][p] = to]
    <3>1. CASE Goto(s, k, p, "claiming")
      BY <3>1 DEF Goto, Dispatching
    <3>2. CASE Return(s, k, p, "ok")
      BY <1>0, <3>2, ReturnLeaves
    <3> QED  BY <1>2, <3>1, <3>2 DEF CheckSession
  <2>2. ~Busy(s, k, p)
    BY <1>2 DEF CheckSession, At, Busy, Dispatching
  <2>3. /\ UNCHANGED <<taken, faults>>
        /\ \/ UNCHANGED <<status, overruled>>
           \/ WriteStatus(p, "failed") /\ Overrule(p)
    BY <1>2 DEF CheckSession, MarkFailed
  <2> QED  BY <2>1, <2>2, <2>3, BeforeClaim
<1>3. CASE ClaimForDispatch(s, k, p)
  <2>1. CASE status[p] = "pending"
    BY <1>3, <2>1, ClaimDispatch DEF ClaimForDispatch, Goto
  <2>2. CASE status[p] # "pending"
    <3>1. PICK to : to \notin Dispatching /\ call' = [call EXCEPT ![s][k][p] = to]
      BY <1>0, <1>3, <2>2, ReturnLeaves DEF ClaimForDispatch
    <3>2. ~Busy(s, k, p)
      BY <1>3 DEF ClaimForDispatch, At, Busy, Dispatching
    <3>3. UNCHANGED <<status, overruled, taken, faults>>
      BY <1>3, <2>2 DEF ClaimForDispatch
    <3> QED  BY <3>1, <3>2, <3>3, BeforeClaim
  <2> QED  BY <2>1, <2>2
<1>4. CASE PrepareRequest(s, k, p)
  BY <1>4, PrepareDispatch
<1>5. CASE StartChat(s, k, p)
  BY <1>5, StartDispatch
<1>6. CASE AcceptStarted(s, k, p)
  <2>1. PICK to : to \notin Dispatching /\ call' = [call EXCEPT ![s][k][p] = to]
    BY <1>0, <1>6, ReturnLeaves DEF AcceptStarted
  <2>2. Busy(s, k, p)
    BY <1>6 DEF AcceptStarted, At, Busy, Dispatching
  <2>3. WriteStatus(p, "accepted") /\ UNCHANGED <<taken, overruled, faults>>
    BY <1>6 DEF AcceptStarted, MarkAccepted
  <2> QED  BY <2>1, <2>2, <2>3, OutcomeWritten
<1>7. CASE HandleDispatchError(s, k, p)
  <2>1. PICK to : to \notin Dispatching /\ call' = [call EXCEPT ![s][k][p] = to]
    BY <1>0, <1>7, ReturnLeaves DEF HandleDispatchError
  <2>2. Busy(s, k, p) /\ call[s][k][p] # "started"
    BY <1>7 DEF HandleDispatchError, At, Busy, Dispatching
  <2>3. PICK st \in {"failed", "pending"} : WriteStatus(p, st)
    BY <1>7 DEF HandleDispatchError, MarkFailed, ReleaseToPending
  <2>4. UNCHANGED <<taken, overruled, faults>>
    BY <1>7 DEF HandleDispatchError
  <2> QED  BY <2>1, <2>2, <2>3, <2>4, OutcomeWritten
<1> QED  BY <1>1, <1>2, <1>3, <1>4, <1>5, <1>6, <1>7 DEF DispatchStep

(* Faults add no dispatcher.                                                *)
LEMMA FaultDispatch ==
    ASSUME TypeOK, DispatchInv,
           \/ \E s \in Servers, k \in Lanes, p \in Prompts :
                 PostFails(s, k, p) \/ OutcomeLost(s, k, p)
           \/ \E s \in Servers : ReconcileFails(s) \/ Crash(s),
           NEW q \in Prompts
    PROVE  SoleAt(q)' /\ TakenAt(q)'
<1> USE DEF rowVars, historyVars, callVars
<1>1. Fault /\ UNCHANGED <<status, overruled>>
  BY DEF PostFails, OutcomeLost, ReconcileFails, Crash
<1>2. \A t \in Servers, l \in Lanes : Busy(t, l, q)' => Busy(t, l, q)
  <2>1. ASSUME NEW s \in Servers, NEW k \in Lanes, NEW p \in Prompts, Busy(s, k, p),
               NEW to, call' = [call EXCEPT ![s][k][p] = to],
               NEW t \in Servers, NEW l \in Lanes, Busy(t, l, q)'
        PROVE  Busy(t, l, q)
    BY <2>1 DEF Busy, TypeOK
  <2>2. ASSUME NEW s \in Servers, NEW k \in Lanes, NEW p \in Prompts,
               PostFails(s, k, p) \/ OutcomeLost(s, k, p)
        PROVE  Busy(s, k, p)
    BY <2>2 DEF PostFails, OutcomeLost, At, Busy, Dispatching
  <2>3. ASSUME NEW s \in Servers, NEW k \in Lanes, NEW p \in Prompts,
               PostFails(s, k, p) \/ OutcomeLost(s, k, p)
        PROVE  UNCHANGED call \/ \E to : call' = [call EXCEPT ![s][k][p] = to]
    BY <2>3 DEF PostFails, OutcomeLost, Goto, Return
  <2>4. ASSUME NEW s \in Servers, Crash(s),
               NEW t \in Servers, NEW l \in Lanes, Busy(t, l, q)'
        PROVE  Busy(t, l, q)
    BY <2>4 DEF Crash, NoCalls, Busy, Dispatching, TypeOK
  <2>5. ASSUME NEW s \in Servers, ReconcileFails(s) PROVE UNCHANGED call
    BY <2>5 DEF ReconcileFails
  <2>6. ASSUME UNCHANGED call, NEW t \in Servers, NEW l \in Lanes, Busy(t, l, q)'
        PROVE  Busy(t, l, q)
    BY <2>6 DEF Busy
  <2>7. ASSUME NEW s \in Servers, NEW k \in Lanes, NEW p \in Prompts,
               PostFails(s, k, p) \/ OutcomeLost(s, k, p)
        PROVE  \A t \in Servers, l \in Lanes : Busy(t, l, q)' => Busy(t, l, q)
    <3>1. CASE UNCHANGED call
      BY <2>6, <3>1
    <3>2. CASE \E to : call' = [call EXCEPT ![s][k][p] = to]
      BY <2>1, <2>2, <2>7, <3>2
    <3> QED  BY <2>3, <2>7, <3>1, <3>2
  <2> QED  BY <2>4, <2>5, <2>6, <2>7
<1> QED  BY <1>1, <1>2, FaultyStep DEF DispatchInv

(* The job, the process and the session.                                    *)
LEMMA SurroundingDispatch ==
    ASSUME TypeOK, DispatchInv,
           \/ \E p \in Prompts : ResetJob(p) \/ \E s \in Servers : JobStep(s, p)
           \/ \E s \in Servers : Start(s) \/ ReconcileStep(s)
           \/ SessionChanges \/ DeleteSession \/ UNCHANGED vars,
           NEW q \in Prompts
    PROVE  SoleAt(q)' /\ TakenAt(q)'
<1> USE DEF rowVars, agentVars, historyVars, callVars, DispatchInv
<1>1. ASSUME NEW s \in Servers, NEW p \in Prompts, JobStep(s, p)
      PROVE  SoleAt(q)' /\ TakenAt(q)'
  <2>1. UNCHANGED <<status, overruled, taken, faults>>
    BY <1>1 DEF JobStep, StartJob, JobReturns
  <2>2. PICK to \in {"reading", "idle"} : call' = [call EXCEPT ![s][Job][p] = to]
    BY <1>1 DEF JobStep, StartJob, JobReturns, Goto
  <2>3. ~Busy(s, Job, p) /\ Job \in Lanes /\ to \notin Dispatching
    BY <1>1 DEF JobStep, StartJob, JobReturns, At, Busy, Dispatching, Returned, Lanes
  <2> QED  BY <2>1, <2>2, <2>3, BeforeClaim
<1>2. ASSUME NEW s \in Servers, NEW p \in Prompts, ReconcileRelease(s, p)
      PROVE  SoleAt(q)' /\ TakenAt(q)'
  <2>1. /\ WriteStatus(p, "pending") /\ Overrule(p)
        /\ UNCHANGED <<call, taken, faults>>
    BY <1>2 DEF ReconcileRelease, PutBack, ReleaseToPending
  <2>2. CASE q = p
    BY <2>1, <2>2, WrittenFromOutside
  <2>3. CASE q # p
    BY <2>1, <2>3, NotOverruled, Undisturbed DEF WriteStatus, TypeOK
  <2> QED  BY <2>2, <2>3
<1>3. CASE DeleteSession
  <2>1. UNCHANGED <<call, taken, overruled, faults>>
    BY <1>3 DEF DeleteSession
  <2>2. status'[q] = IF status[q] = "absent" THEN "absent" ELSE "deleted"
    BY <1>3 DEF DeleteSession
  <2>3. \A s \in Servers, k \in Lanes : Busy(s, k, q)' <=> Busy(s, k, q)
    BY <2>1 DEF Busy
  <2>4. SoleAt(q)'
    BY <2>1, <2>2, <2>3 DEF SoleAt, Alone
  <2>5. TakenAt(q)'
    BY <2>1, <2>2, <2>3 DEF TakenAt, Quiet
  <2> QED  BY <2>4, <2>5
<1>4. CASE /\ UNCHANGED <<call, status, taken, overruled>>
           /\ faults' = 0 => faults = 0
  BY <1>4, Undisturbed
<1>5. ASSUME NEW p \in Prompts, ResetJob(p)
      PROVE  UNCHANGED <<call, status, taken, overruled, faults>>
  BY <1>5 DEF ResetJob
<1>6. ASSUME NEW s \in Servers, ReconcileStep(s),
             ~ \E p \in Prompts : ReconcileRelease(s, p)
      PROVE  /\ UNCHANGED <<call, status, taken, overruled>>
             /\ faults' = 0 => faults = 0
  BY <1>6, HandoffAssumption
     DEF ReconcileStep, Reconcile, ReconcileEnqueue, TryEnqueueDispatch, Fault,
         TypeOK
<1>7. CASE (\E s \in Servers : Start(s)) \/ SessionChanges \/ UNCHANGED vars
  BY <1>4, <1>7 DEF Start, SessionChanges, vars
<1> QED  BY <1>1, <1>2, <1>3, <1>4, <1>5, <1>6, <1>7

(* For every constant DispatchInv is an inductive invariant, given types.   *)
THEOREM DispatchInvariant == Spec => []DispatchInv
<1>1. Init => DispatchInv
  BY DEF Init, DispatchInv, SoleAt, TakenAt, Busy, NoCalls, Dispatching
<1>2. TypeOK /\ DispatchInv /\ [Next]_vars => DispatchInv'
  <2> SUFFICES ASSUME TypeOK, DispatchInv, [Next]_vars, NEW q \in Prompts
               PROVE  SoleAt(q)' /\ TakenAt(q)'
    BY DEF DispatchInv
  <2>1. ASSUME NEW s \in Servers, NEW r \in Requests, NEW p \in Prompts,
               SubmitPrompt(s, r, p) \/ SubmitStep(s, r, p)
        PROVE  SoleAt(q)' /\ TakenAt(q)'
    BY <2>1, SubmitDispatch
  <2>2. ASSUME NEW s \in Servers, NEW k \in Lanes, NEW p \in Prompts,
               DispatchStep(s, k, p)
        PROVE  SoleAt(q)' /\ TakenAt(q)'
    BY <2>2, DispatchDispatch
  <2> QED  BY <2>1, <2>2, FaultDispatch, SurroundingDispatch DEF Next
<1> QED  BY <1>1, <1>2, HandoffTypes, PTL DEF Spec

(* For any number of servers and requests, and whatever fails, a prompt is  *)
(* dispatched by one call at a time, unless its row was put back, or failed *)
(* for a closed session, under a dispatcher or after it was accepted.       *)
THEOREM OneDispatcherUnlessOverruled == Spec => []SoleDispatcher
<1>1. DispatchInv => SoleDispatcher
  BY SoleAtIsSole DEF DispatchInv
<1> QED  BY <1>1, DispatchInvariant, PTL

(* And without a fault the agent then takes it at most once, however many   *)
(* requests and jobs claim it.                                              *)
THEOREM PromptTakenOnce == Spec => []TakenOnce
<1>1. DispatchInv => TakenOnce
  BY DEF DispatchInv, TakenAt, TakenOnce
<1> QED  BY <1>1, DispatchInvariant, PTL

-----------------------------------------------------------------------------
(* HandInv is inductive.  It is stated prompt by prompt, and only as long   *)
(* as nothing failed: a step with a fault has nothing to preserve.          *)

HandAt(p) == Existing(p) /\ JobRunsOnce(p) /\ InHand(p)

(* A prompt that the step is not about.                                     *)
LEMMA UntouchedHand ==
    ASSUME NEW q \in Prompts, HandAt(q),
           proc' = proc, session' = session,
           status'[q] = status[q], job'[q] = job[q], reopened \subseteq reopened',
           \A s \in Servers : todo'[s][q] = todo[s][q],
           \A s \in Servers, k \in Lanes : call'[s][k][q] = call[s][k][q]
    PROVE  HandAt(q)'
<1> USE DEF Lanes
<1>1. Existing(q)'
  BY DEF HandAt, Existing
<1>2. JobRunsOnce(q)'
  BY DEF HandAt, JobRunsOnce
<1>3. Expected(q) => Expected(q)'
  BY DEF Expected
<1>4. InHand(q)'
  BY <1>3 DEF HandAt, InHand
<1> QED  BY <1>1, <1>2, <1>4 DEF HandAt

(* A call goes on, and the row is not written.                              *)
LEMMA CallGoesOn ==
    ASSUME TypeOK, NEW s \in Servers, NEW k \in Lanes, NEW p \in Prompts,
           HandAt(p), NEW to, call[s][k][p] # "idle",
           call' = [call EXCEPT ![s][k][p] = to],
           to # "unreached", call[s][k][p] # "enqueueing",
           status[p] = "dispatching" =>
               call[s][k][p] \notin Dispatching \/ to \in Dispatching,
           k = Job /\ to \in Returned => status[p] # "pending",
           UNCHANGED <<job, todo, proc, session, reopened>>, status'[p] = status[p]
    PROVE  HandAt(p)'
<1> USE DEF Lanes
<1>1. \A t \in Servers, l \in Lanes :
         call'[t][l][p] = IF t = s /\ l = k THEN to ELSE call[t][l][p]
  BY DEF TypeOK
<1>2. Existing(p)'
  BY <1>1 DEF HandAt, Existing
<1>3. JobRunsOnce(p)'
  BY <1>1 DEF HandAt, JobRunsOnce
<1>4. Expected(p) => Expected(p)'
  BY <1>1 DEF Expected
<1>5. status[p] = "dispatching" =>
        \E t \in Servers, l \in Lanes : call'[t][l][p] \in Dispatching
  BY <1>1 DEF HandAt, InHand
<1>6. InHand(p)'
  BY <1>1, <1>4, <1>5 DEF HandAt, InHand
<1> QED  BY <1>2, <1>3, <1>6 DEF HandAt

(* A call goes on, and has settled the row unless that was deleted.         *)
LEMMA CallSettles ==
    ASSUME TypeOK, NEW s \in Servers, NEW k \in Lanes, NEW p \in Prompts,
           HandAt(p), NEW to, call[s][k][p] # "idle",
           call' = [call EXCEPT ![s][k][p] = to], to # "unreached",
           NEW st \in {"failed", "accepted"}, WriteStatus(p, st),
           UNCHANGED <<job, todo, proc, session, reopened>>
    PROVE  HandAt(p)'
<1> USE DEF Lanes
<1>1. \A t \in Servers, l \in Lanes :
         call'[t][l][p] = IF t = s /\ l = k THEN to ELSE call[t][l][p]
  BY DEF TypeOK
<1>2. /\ status[p] # "absent"
      /\ status'[p] = IF status[p] = "deleted" THEN "deleted" ELSE st
  BY DEF HandAt, Existing, WriteStatus, TypeOK
<1>3. Existing(p)'
  BY <1>2 DEF HandAt, Existing
<1>4. JobRunsOnce(p)'
  BY <1>1 DEF HandAt, JobRunsOnce
<1>5. InHand(p)'
  BY <1>1, <1>2 DEF HandAt, InHand
<1> QED  BY <1>3, <1>4, <1>5 DEF HandAt

(* The steps of a request before it dispatches.                             *)
LEMMA SubmitHand ==
    ASSUME TypeOK, NEW s \in Servers, NEW r \in Requests, NEW p \in Prompts,
           SubmitPrompt(s, r, p) \/ SubmitStep(s, r, p), ~Fault,
           NEW q \in Prompts, HandAt(q), HandAt(p)
    PROVE  HandAt(q)'
<1> USE DEF jobVars, historyVars, rowVars, callVars
<1>0. r \in Lanes /\ r # Job
  BY HandoffAssumption DEF Lanes
<1>1. UNCHANGED <<todo, proc, session>>
  BY DEF SubmitPrompt, SubmitStep, ReleaseFailed, SubmitEnqueue, RouteSubmission
<1>2. PICK to \in {"idle", "releasing", "enqueueing", "routing", "reading"} :
        call' = [call EXCEPT ![s][r][p] = to]
  BY DEF SubmitPrompt, SubmitStep, ReleaseFailed, SubmitEnqueue, RouteSubmission, Goto
<1>3. \A t \in Servers, l \in Lanes, x \in Prompts :
         call'[t][l][x] = IF t = s /\ l = r /\ x = p THEN to ELSE call[t][l][x]
  BY <1>0, <1>2 DEF TypeOK
<1>4. CASE q # p
  <2>1. /\ status'[q] = status[q] /\ job'[q] = job[q] /\ reopened \subseteq reopened'
    BY <1>4 DEF SubmitPrompt, SubmitStep, ReleaseFailed, SubmitEnqueue,
                RouteSubmission, TryEnqueueDispatch, EnqueueDispatch, PutBack,
                ReleaseToPending, WriteStatus, TypeOK
  <2> QED  BY <1>1, <1>3, <1>4, <2>1, UntouchedHand
<1>5. ASSUME SubmitPrompt(s, r, p) PROVE HandAt(p)'
  <2>1. /\ call[s][r][p] = "idle" /\ session # "removed" /\ UNCHANGED <<job, reopened>>
        /\ call' = [call EXCEPT ![s][r][p] = IF status[p] = "failed"
                                             THEN "releasing" ELSE "enqueueing"]
        /\ status'[p] = IF status[p] = "absent" THEN "pending" ELSE status[p]
        /\ status[p] # "deleted"
    BY <1>5 DEF SubmitPrompt, At, Goto, TypeOK, Unsettled
  <2>2. \A t \in Servers, l \in Lanes :
           call'[t][l][p] = IF t = s /\ l = r
                            THEN IF status[p] = "failed" THEN "releasing" ELSE "enqueueing"
                            ELSE call[t][l][p]
    BY <1>0, <2>1 DEF TypeOK
  <2>3. Existing(p)'
    BY <1>1, <2>1 DEF HandAt, Existing
  <2>4. JobRunsOnce(p)'
    BY <1>0, <2>1, <2>2 DEF HandAt, JobRunsOnce, Lanes
  <2>5. status'[p] = "pending" => Expected(p)'
    BY <1>0, <2>1, <2>2 DEF Expected
  <2>6. \A t \in Servers : call'[t][Job][p] = call[t][Job][p]
    BY <1>0, <2>2 DEF Lanes
  <2>7. (p \notin reopened /\ status'[p] = "pending") =>
            \A t \in Servers : call'[t][Job][p] \notin Returned
    <3>1. CASE status[p] = "absent"
      BY <2>6, <3>1 DEF HandAt, Existing, Lanes, Returned
    <3>2. CASE status[p] # "absent"
      BY <2>1, <2>6, <3>2 DEF HandAt, InHand
    <3> QED  BY <3>1, <3>2
  <2>8. status'[p] = "dispatching" =>
          \E t \in Servers, l \in Lanes : call'[t][l][p] \in Dispatching
    <3> SUFFICES ASSUME status'[p] = "dispatching"
                 PROVE  \E t \in Servers, l \in Lanes : call'[t][l][p] \in Dispatching
      OBVIOUS
    <3>1. PICK t \in Servers, l \in Lanes : call[t][l][p] \in Dispatching
      BY <2>1 DEF HandAt, InHand
    <3>2. ~(t = s /\ l = r)
      BY <2>1, <3>1 DEF Dispatching
    <3> QED  BY <2>2, <3>1, <3>2
  <2>9. InHand(p)'
    BY <2>1, <2>2, <2>5, <2>7, <2>8 DEF HandAt, InHand
  <2> QED  BY <2>3, <2>4, <2>9 DEF HandAt
<1>6. ASSUME ReleaseFailed(s, r, p) PROVE HandAt(p)'
  <2>1. /\ call[s][r][p] = "releasing" /\ job' = job
        /\ call' = [call EXCEPT ![s][r][p] = IF status[p] = "deleted"
                                             THEN "idle" ELSE "enqueueing"]
        /\ status'[p] = IF status[p] = "deleted" THEN "deleted" ELSE "pending"
        /\ reopened' = IF job[p] = "none" THEN reopened ELSE reopened \cup {p}
    BY <1>6 DEF ReleaseFailed, PutBack, ReleaseToPending, WriteStatus, At, Goto,
                TypeOK
  <2>2. \A t \in Servers, l \in Lanes :
           call'[t][l][p] = IF t = s /\ l = r
                            THEN IF status[p] = "deleted" THEN "idle" ELSE "enqueueing"
                            ELSE call[t][l][p]
    BY <1>0, <2>1 DEF TypeOK
  <2>3. Existing(p)'
    BY <1>0, <1>1, <2>1 DEF HandAt, Existing
  <2>4. JobRunsOnce(p)'
    BY <1>0, <2>1, <2>2 DEF HandAt, JobRunsOnce, Lanes
  <2>5. status'[p] = "pending" => Expected(p)'
    BY <1>0, <2>1, <2>2 DEF Expected
  <2>6. p \notin reopened' => \A t \in Servers : call'[t][Job][p] \notin Returned
    <3>1. p \notin reopened' => job[p] # "running"
      BY <2>1
    <3>2. \A t \in Servers : call'[t][Job][p] = call[t][Job][p]
      BY <1>0, <2>2 DEF Lanes
    <3> QED  BY <3>1, <3>2 DEF HandAt, JobRunsOnce, Returned
  <2>7. InHand(p)'
    BY <2>1, <2>2, <2>5, <2>6 DEF HandAt, InHand
  <2> QED  BY <2>3, <2>4, <2>7 DEF HandAt
<1>7. ASSUME SubmitEnqueue(s, r, p) PROVE HandAt(p)'
  <2>1. /\ call[s][r][p] = "enqueueing" /\ UNCHANGED <<status, reopened>>
        /\ call' = [call EXCEPT ![s][r][p] = "routing"]
        /\ job'[p] = IF job[p] = "none" THEN "pending" ELSE job[p]
    BY <1>7 DEF SubmitEnqueue, TryEnqueueDispatch, EnqueueDispatch, At, Goto, TypeOK
  <2>2. \A t \in Servers, l \in Lanes :
           call'[t][l][p] = IF t = s /\ l = r THEN "routing" ELSE call[t][l][p]
    BY <1>0, <2>1 DEF TypeOK
  <2>3. Existing(p)'
    BY <1>0, <1>1, <2>1 DEF HandAt, Existing
  <2>4. JobRunsOnce(p)'
    BY <1>0, <2>1, <2>2 DEF HandAt, JobRunsOnce, Lanes
  <2>5. Expected(p)'
    BY <2>1 DEF Expected
  <2>6. status[p] = "dispatching" =>
          \E t \in Servers, l \in Lanes : call'[t][l][p] \in Dispatching
    BY <2>1, <2>2 DEF HandAt, InHand, Dispatching
  <2>7. \A t \in Servers : call'[t][Job][p] = call[t][Job][p]
    BY <1>0, <2>2 DEF Lanes
  <2>8. InHand(p)'
    BY <2>1, <2>2, <2>5, <2>6, <2>7 DEF HandAt, InHand
  <2> QED  BY <2>3, <2>4, <2>8 DEF HandAt
<1>8. ASSUME RouteSubmission(s, r, p) PROVE HandAt(p)'
  <2>1. PICK d \in {"idle", "reading"} : call' = [call EXCEPT ![s][r][p] = d]
    BY <1>8 DEF RouteSubmission, Goto
  <2>2. call[s][r][p] = "routing" /\ UNCHANGED <<status, job, reopened>>
    BY <1>8 DEF RouteSubmission, At
  <2>3. /\ call[s][r][p] # "idle" /\ call[s][r][p] # "enqueueing"
        /\ call[s][r][p] \notin Dispatching /\ d # "unreached" /\ d \notin Returned
    BY <2>2 DEF Dispatching, Returned
  <2> QED  BY <1>0, <1>1, <2>1, <2>2, <2>3, CallGoesOn
<1> QED  BY <1>4, <1>5, <1>6, <1>7, <1>8 DEF SubmitStep

(* The steps of a dispatch, none of which fails.                            *)
LEMMA DispatchHand ==
    ASSUME TypeOK, NEW s \in Servers, NEW k \in Lanes, NEW p \in Prompts,
           DispatchStep(s, k, p), faults = 0, faults' = 0,
           NEW q \in Prompts, HandAt(q), HandAt(p)
    PROVE  HandAt(q)'
<1> USE DEF jobVars, historyVars, rowVars, callVars
<1>1. UNCHANGED <<job, todo, proc, session, reopened>>
  BY DEF DispatchStep, ReadSubmission, CheckSession, ClaimForDispatch, PrepareRequest,
         StartChat, AcceptStarted, HandleDispatchError, MarkFailed, MarkAccepted,
         ReleaseToPending
<1>2. /\ \E to : call' = [call EXCEPT ![s][k][p] = to]
      /\ call[s][k][p] # "idle"
  BY DEF DispatchStep, ReadSubmission, CheckSession, ClaimForDispatch, PrepareRequest,
         StartChat, AcceptStarted, HandleDispatchError, Goto, Return, At
<1>3. CASE q # p
  <2>1. status'[q] = status[q]
    BY <1>3 DEF DispatchStep, ReadSubmission, CheckSession, ClaimForDispatch,
                PrepareRequest, StartChat, AcceptStarted, HandleDispatchError,
                MarkFailed, MarkAccepted, ReleaseToPending, WriteStatus, TypeOK
  <2>2. \A t \in Servers, l \in Lanes : call'[t][l][q] = call[t][l][q]
    BY <1>2, <1>3 DEF TypeOK
  <2> QED  BY <1>1, <2>1, <2>2, UntouchedHand
<1>4. \A result \in Returned : Return(s, k, p, result) =>
        \E to \in {"idle"} \cup Returned : call' = [call EXCEPT ![s][k][p] = to]
  BY DEF Return
<1>5. ASSUME ReadSubmission(s, k, p) PROVE HandAt(p)'
  <2>1. /\ call[s][k][p] = "reading" /\ UNCHANGED status
        /\ \/ call' = [call EXCEPT ![s][k][p] = "checking"]
           \/ status[p] # "pending"
              /\ \E to \in {"idle"} \cup Returned : call' = [call EXCEPT ![s][k][p] = to]
    BY <1>4, <1>5 DEF ReadSubmission, At, Returned
  <2> QED  BY <1>1, <2>1, CallGoesOn DEF Dispatching, Returned
<1>6. ASSUME CheckSession(s, k, p) PROVE HandAt(p)'
  <2>0. call[s][k][p] = "checking"
    BY <1>6 DEF CheckSession, At
  <2>1. CASE session \in {"removing", "removed"}
    <3>1. /\ WriteStatus(p, "failed")
          /\ \E to \in {"idle"} \cup Returned : call' = [call EXCEPT ![s][k][p] = to]
      BY <1>4, <1>6, <2>1 DEF CheckSession, MarkFailed, Returned
    <3> QED  BY <1>1, <1>2, <3>1, CallSettles DEF Returned
  <2>2. CASE session \notin {"removing", "removed"}
    <3>1. UNCHANGED status /\ call' = [call EXCEPT ![s][k][p] = "claiming"]
      BY <1>6, <2>2 DEF CheckSession, Goto
    <3> QED  BY <1>1, <2>0, <3>1, CallGoesOn DEF Dispatching, Returned
  <2> QED  BY <2>1, <2>2
<1>7. ASSUME ClaimForDispatch(s, k, p) PROVE HandAt(p)'
  <2>0. call[s][k][p] = "claiming"
    BY <1>7 DEF ClaimForDispatch, At
  <2>1. CASE status[p] = "pending"
    <3>1. status'[p] = "dispatching" /\ call' = [call EXCEPT ![s][k][p] = "claimed"]
      BY <1>7, <2>1 DEF ClaimForDispatch, WriteStatus, Goto, TypeOK
    <3>2. \A t \in Servers, l \in Lanes :
             call'[t][l][p] = IF t = s /\ l = k THEN "claimed" ELSE call[t][l][p]
      BY <3>1 DEF TypeOK
    <3>3. Existing(p)'
      BY <1>1, <2>1, <3>1 DEF HandAt, Existing
    <3>4. JobRunsOnce(p)'
      BY <1>1, <2>0, <3>2 DEF HandAt, JobRunsOnce, Lanes
    <3>5. InHand(p)'
      BY <3>1, <3>2 DEF HandAt, InHand, Dispatching
    <3> QED  BY <3>3, <3>4, <3>5 DEF HandAt
  <2>2. CASE status[p] # "pending"
    <3>1. PICK to \in {"idle"} \cup Returned :
             UNCHANGED status /\ call' = [call EXCEPT ![s][k][p] = to]
      BY <1>4, <1>7, <2>2 DEF ClaimForDispatch, Returned
    <3>2. call[s][k][p] \notin Dispatching /\ to # "unreached"
      BY <2>0 DEF Dispatching, Returned
    <3> QED  BY <1>1, <2>0, <2>2, <3>1, <3>2, CallGoesOn
  <2> QED  BY <2>1, <2>2
<1>8. ASSUME PrepareRequest(s, k, p) PROVE HandAt(p)'
  <2>0. call[s][k][p] = "claimed"
    BY <1>8 DEF PrepareRequest, At
  <2>1. CASE session = "removed" /\ ReleaseToPending(p)
             /\ Return(s, k, p, "error")
    <3>1. status[p] = "deleted"
      BY <1>2, <2>1 DEF HandAt, Existing
    <3>2. status'[p] = status[p]
      BY <2>1, <3>1 DEF ReleaseToPending, WriteStatus
    <3>3. \E to \in {"idle"} \cup Returned : call' = [call EXCEPT ![s][k][p] = to]
      BY <1>4, <2>1 DEF Returned
    <3> QED  BY <1>1, <2>0, <3>1, <3>2, <3>3, CallGoesOn DEF Returned
  <2>2. CASE MarkFailed(p) /\ Return(s, k, p, "error")
    <3>1. \E to \in {"idle"} \cup Returned : call' = [call EXCEPT ![s][k][p] = to]
      BY <1>4, <2>2 DEF Returned
    <3> QED  BY <1>1, <1>2, <2>2, <3>1, CallSettles DEF MarkFailed, Returned
  <2>3. CASE Goto(s, k, p, "posting") /\ UNCHANGED rowVars
    BY <1>1, <2>0, <2>3, CallGoesOn DEF Goto, Dispatching, Returned
  <2>4. ~Fault
    BY DEF Fault
  <2> QED  BY <1>8, <2>1, <2>2, <2>3, <2>4 DEF PrepareRequest
<1>9. ASSUME StartChat(s, k, p) PROVE HandAt(p)'
  <2>1. /\ call[s][k][p] = "posting" /\ UNCHANGED status
        /\ \E to \in {"started", "conflict", "refused"} :
              call' = [call EXCEPT ![s][k][p] = to]
    BY <1>9 DEF StartChat, At, Goto
  <2> QED  BY <1>1, <2>1, CallGoesOn DEF Dispatching, Returned
<1>10. ASSUME AcceptStarted(s, k, p) PROVE HandAt(p)'
  <2>1. /\ WriteStatus(p, "accepted")
        /\ \E to \in {"idle"} \cup Returned : call' = [call EXCEPT ![s][k][p] = to]
    BY <1>4, <1>10 DEF AcceptStarted, MarkAccepted, Returned
  <2> QED  BY <1>1, <1>2, <2>1, CallSettles DEF Returned
<1>11. ASSUME HandleDispatchError(s, k, p) PROVE HandAt(p)'
  <2>1. call[s][k][p] # "unreached"
    BY DEF HandAt, InHand
  <2>2. /\ WriteStatus(p, "failed")
        /\ \E to \in {"idle"} \cup Returned : call' = [call EXCEPT ![s][k][p] = to]
    BY <1>4, <1>11, <2>1 DEF HandleDispatchError, MarkFailed, At, Returned
  <2> QED  BY <1>1, <1>2, <2>2, CallSettles DEF Returned
<1> QED  BY <1>3, <1>5, <1>6, <1>7, <1>8, <1>9, <1>10, <1>11 DEF DispatchStep

(* The dispatch job: when it ends, what it looked at is not pending.        *)
LEMMA JobHand ==
    ASSUME TypeOK, NEW p \in Prompts,
           ResetJob(p) \/ \E s \in Servers : JobStep(s, p),
           NEW q \in Prompts, HandAt(q), HandAt(p)
    PROVE  HandAt(q)'
<1> USE DEF jobVars, historyVars, rowVars, callVars
<1>0. Job \in Lanes
  BY DEF Lanes
<1>1. /\ UNCHANGED <<status, todo, proc, session, reopened>>
      /\ \A x \in Prompts : x # p => job'[x] = job[x]
  BY DEF JobStep, StartJob, JobReturns, ResetJob, TypeOK
<1>2. ASSUME ResetJob(p) PROVE HandAt(q)'
  <2>1. call' = call /\ job' = [job EXCEPT ![p] = "pending"] /\ job[p] = "running"
        /\ \A s \in Servers : call[s][Job][p] = "idle"
    BY <1>2 DEF ResetJob
  <2>2. CASE q # p
    BY <1>1, <2>1, <2>2, UntouchedHand
  <2>3. CASE q = p
    <3>1. job'[p] = "pending"
      BY <2>1 DEF TypeOK
    <3>2. Existing(p)'
      BY <1>1, <2>1 DEF HandAt, Existing
    <3>3. JobRunsOnce(p)'
      BY <2>1 DEF JobRunsOnce
    <3>4. InHand(p)'
      BY <1>1, <2>1, <3>1 DEF HandAt, InHand, Expected
    <3> QED  BY <2>3, <3>2, <3>3, <3>4 DEF HandAt
  <2> QED  BY <2>2, <2>3
<1>3. ASSUME NEW s \in Servers, JobStep(s, p) PROVE HandAt(q)'
  <2>1. PICK to \in {"reading", "idle"} : call' = [call EXCEPT ![s][Job][p] = to]
    BY <1>3 DEF JobStep, StartJob, JobReturns, Goto
  <2>2. \A t \in Servers, l \in Lanes, x \in Prompts :
           call'[t][l][x] = IF t = s /\ l = Job /\ x = p THEN to ELSE call[t][l][x]
    BY <1>0, <2>1 DEF TypeOK
  <2>3. CASE q # p
    BY <1>1, <2>2, <2>3, UntouchedHand
  <2>4. call[s][Job][p] \notin Dispatching
    BY <1>3 DEF JobStep, StartJob, JobReturns, At, Dispatching, Returned
  <2>5. status[p] = "dispatching" =>
          \E t \in Servers, l \in Lanes : call'[t][l][p] \in Dispatching
    BY <2>2, <2>4 DEF HandAt, InHand
  <2>6. CASE StartJob(s, p)
    <3>1. /\ call[s][Job][p] = "idle" /\ job[p] = "pending" /\ job'[p] = "running"
          /\ call' = [call EXCEPT ![s][Job][p] = "reading"]
      BY <2>6 DEF StartJob, At, Goto, TypeOK
    <3>2. \A t \in Servers : call[t][Job][p] = "idle"
      BY <3>1 DEF HandAt, JobRunsOnce
    <3>3. \A t \in Servers, l \in Lanes :
             call'[t][l][p] = IF t = s /\ l = Job THEN "reading" ELSE call[t][l][p]
      BY <1>0, <3>1 DEF TypeOK
    <3>4. Existing(p)'
      BY <1>1, <3>1 DEF HandAt, Existing
    <3>5. JobRunsOnce(p)'
      BY <1>0, <3>1, <3>2, <3>3 DEF JobRunsOnce
    <3>6. InHand(p)'
      BY <1>0, <1>1, <2>5, <3>1, <3>2, <3>3 DEF HandAt, InHand, Expected, Returned
    <3> QED  BY <2>3, <3>4, <3>5, <3>6 DEF HandAt
  <2>7. CASE JobReturns(s, p)
    <3>1. /\ call[s][Job][p] \in Returned
          /\ call' = [call EXCEPT ![s][Job][p] = "idle"]
      BY <2>7 DEF JobReturns, At, Goto
    <3>2. \A t \in Servers, l \in Lanes :
             call'[t][l][p] = IF t = s /\ l = Job THEN "idle" ELSE call[t][l][p]
      BY <1>0, <3>1 DEF TypeOK
    <3>3. \A t \in Servers : call'[t][Job][p] = "idle"
      <4>1. call[s][Job][p] # "idle"
        BY <3>1 DEF Returned
      <4> QED  BY <1>0, <3>2, <4>1 DEF HandAt, JobRunsOnce
    <3>4. Existing(p)'
      <4>1. status[p] # "absent"
        BY <1>0, <3>1 DEF HandAt, Existing, Returned
      <4> QED  BY <1>1, <4>1 DEF HandAt, Existing
    <3>5. JobRunsOnce(p)'
      BY <3>3 DEF JobRunsOnce
    <3>6. p \notin reopened => status[p] # "pending"
      BY <3>1 DEF HandAt, InHand
    <3>7. InHand(p)'
      BY <1>1, <2>5, <3>2, <3>6 DEF HandAt, InHand
    <3> QED  BY <2>3, <3>4, <3>5, <3>7 DEF HandAt
  <2> QED  BY <1>3, <2>6, <2>7 DEF JobStep
<1> QED  BY <1>2, <1>3

(* A process starts and reconciles.                                         *)
LEMMA ReconcileHand ==
    ASSUME TypeOK, NEW s \in Servers, Start(s) \/ ReconcileStep(s), ~Fault,
           \A p \in Prompts : HandAt(p), NEW q \in Prompts
    PROVE  HandAt(q)'
<1> USE DEF jobVars, historyVars, rowVars, callVars
<1>0. call' = call /\ session' = session
  BY DEF Start, ReconcileStep, Reconcile, ReconcileRelease, ReconcileEnqueue
<1>1. HandAt(q)
  OBVIOUS
<1>2. CASE Start(s)
  <2>1. /\ UNCHANGED <<status, job, todo, reopened>>
        /\ \A t \in Servers : proc'[t] = "up" => proc[t] = "up"
    BY <1>2 DEF Start, TypeOK
  <2>2. Expected(q) => Expected(q)'
    BY <1>0, <2>1 DEF Expected
  <2>3. Existing(q)' /\ JobRunsOnce(q)'
    BY <1>0, <1>1, <2>1 DEF HandAt, Existing, JobRunsOnce
  <2>4. InHand(q)'
    BY <1>0, <1>1, <2>1, <2>2 DEF HandAt, InHand
  <2> QED  BY <2>3, <2>4 DEF HandAt
<1>3. CASE Reconcile(s)
  <2>1. /\ UNCHANGED <<status, job, reopened>>
        /\ \A t \in Servers : t # s => proc'[t] = proc[t] /\ todo'[t] = todo[t]
        /\ todo'[s][q] = CASE status[q] = "dispatching" -> "release"
                           [] status[q] = "pending" -> "enqueue"
                           [] OTHER -> "none"
    BY <1>3 DEF Reconcile, TypeOK
  <2>2. status[q] = "pending" => Expected(q)'
    BY <2>1 DEF Expected
  <2>3. Existing(q)'
    BY <1>0, <1>1, <2>1 DEF HandAt, Existing
  <2>4. JobRunsOnce(q)'
    BY <1>0, <1>1, <2>1 DEF HandAt, JobRunsOnce
  <2>5. InHand(q)'
    BY <1>0, <1>1, <2>1, <2>2 DEF HandAt, InHand
  <2> QED  BY <2>3, <2>4, <2>5 DEF HandAt
<1>4. ASSUME NEW p \in Prompts, ReconcileRelease(s, p) PROVE HandAt(q)'
  <2>1. /\ UNCHANGED <<job, proc>> /\ todo[s][p] = "release"
        /\ todo' = [todo EXCEPT ![s][p] = "enqueue"]
        /\ status' = IF status[p] = "deleted" THEN status
                     ELSE [status EXCEPT ![p] = "pending"]
        /\ reopened' = IF job[p] = "none" THEN reopened ELSE reopened \cup {p}
    BY <1>4 DEF ReconcileRelease, PutBack, ReleaseToPending, WriteStatus
  <2>2. CASE q # p
    <3>1. /\ status'[q] = status[q] /\ reopened \subseteq reopened'
          /\ \A t \in Servers : todo'[t][q] = todo[t][q]
      BY <2>1, <2>2 DEF TypeOK
    <3> QED  BY <1>0, <1>1, <2>1, <3>1, UntouchedHand
  <2>3. CASE q = p
    <3>1. /\ status[p] # "absent" /\ todo'[s][p] = "enqueue"
          /\ status'[p] = IF status[p] = "deleted" THEN "deleted" ELSE "pending"
      BY <1>1, <2>1, <2>3 DEF HandAt, Existing, TypeOK
    <3>2. Existing(p)'
      BY <1>0, <1>1, <2>3, <3>1 DEF HandAt, Existing
    <3>3. JobRunsOnce(p)'
      BY <1>0, <1>1, <2>1, <2>3 DEF HandAt, JobRunsOnce
    <3>4. Expected(p)'
      BY <3>1 DEF Expected
    <3>5. p \notin reopened' => \A t \in Servers : call[t][Job][p] \notin Returned
      BY <1>1, <2>1, <2>3 DEF HandAt, JobRunsOnce, Returned
    <3>6. InHand(p)'
      BY <1>0, <1>1, <2>3, <3>1, <3>4, <3>5 DEF HandAt, InHand
    <3> QED  BY <2>3, <3>2, <3>3, <3>6 DEF HandAt
  <2> QED  BY <2>2, <2>3
<1>5. ASSUME NEW p \in Prompts, ReconcileEnqueue(s, p) PROVE HandAt(q)'
  <2>1. /\ UNCHANGED <<status, proc, reopened>> /\ todo[s][p] = "enqueue"
        /\ todo' = [todo EXCEPT ![s][p] = "none"]
        /\ job' = IF job[p] = "none" THEN [job EXCEPT ![p] = "pending"] ELSE job
    BY <1>5 DEF ReconcileEnqueue, TryEnqueueDispatch, EnqueueDispatch
  <2>2. CASE q # p
    <3>1. /\ job'[q] = job[q]
          /\ \A t \in Servers : todo'[t][q] = todo[t][q]
      BY <2>1, <2>2 DEF TypeOK
    <3> QED  BY <1>0, <1>1, <2>1, <3>1, UntouchedHand
  <2>3. CASE q = p
    <3>1. /\ status[p] # "absent" /\ job'[p] # "none"
          /\ job[p] = "running" => job'[p] = "running"
      BY <1>1, <2>1, <2>3 DEF HandAt, Existing, TypeOK
    <3>2. Existing(p)'
      BY <1>0, <1>1, <2>1, <2>3, <3>1 DEF HandAt, Existing
    <3>3. JobRunsOnce(p)'
      BY <1>0, <1>1, <2>3, <3>1 DEF HandAt, JobRunsOnce
    <3>4. Expected(p)'
      BY <3>1 DEF Expected
    <3>5. InHand(p)'
      BY <1>0, <1>1, <2>1, <2>3, <3>4 DEF HandAt, InHand
    <3> QED  BY <2>3, <3>2, <3>3, <3>5 DEF HandAt
  <2> QED  BY <2>2, <2>3
<1> QED  BY <1>2, <1>3, <1>4, <1>5 DEF ReconcileStep

LEMMA SessionHand ==
    ASSUME TypeOK, SessionChanges \/ DeleteSession \/ UNCHANGED vars,
           NEW q \in Prompts, HandAt(q)
    PROVE  HandAt(q)'
<1> USE DEF jobVars, historyVars, rowVars, callVars
<1>1. UNCHANGED <<job, todo, proc, call, reopened>>
  BY DEF SessionChanges, DeleteSession, vars
<1>2. Expected(q)' <=> Expected(q)
  BY <1>1 DEF Expected
<1>3. JobRunsOnce(q)'
  BY <1>1 DEF HandAt, JobRunsOnce
<1>4. CASE DeleteSession
  <2>1. status'[q] = IF status[q] = "absent" THEN "absent" ELSE "deleted"
    BY <1>4 DEF DeleteSession
  <2>2. Existing(q)'
    BY <1>1, <2>1 DEF HandAt, Existing
  <2>3. InHand(q)'
    BY <1>1, <2>1 DEF HandAt, InHand
  <2> QED  BY <1>3, <2>2, <2>3 DEF HandAt
<1>5. CASE SessionChanges \/ UNCHANGED vars
  <2>1. status' = status /\ (session' = "removed" => session = "removed")
    BY <1>5 DEF SessionChanges, vars, TypeOK
  <2>2. Existing(q)'
    BY <1>1, <2>1 DEF HandAt, Existing
  <2>3. InHand(q)'
    BY <1>1, <1>2, <2>1 DEF HandAt, InHand
  <2> QED  BY <1>3, <2>2, <2>3 DEF HandAt
<1> QED  BY <1>4, <1>5

(* HandInv holds in every reachable state.                                  *)
THEOREM HandInvariant == Spec => []HandInv
<1>1. Init => HandInv
  BY DEF Init, HandInv, Existing, JobRunsOnce, InHand, NoCalls, NothingToDo, Lanes
<1>2. TypeOK /\ HandInv /\ [Next]_vars => HandInv'
  <2> SUFFICES ASSUME TypeOK, HandInv, [Next]_vars, faults' = 0, NEW q \in Prompts
               PROVE  HandAt(q)'
    BY DEF HandInv, HandAt
  <2>1. ~Fault
    BY DEF Fault, TypeOK
  <2>2. faults = 0
    BY <2>1 DEF Next, vars, SubmitPrompt, SubmitStep, ReleaseFailed, SubmitEnqueue,
                RouteSubmission, DispatchStep, ReadSubmission, CheckSession,
                ClaimForDispatch, PrepareRequest, StartChat, AcceptStarted,
                HandleDispatchError, PostFails, OutcomeLost, JobStep, StartJob,
                JobReturns, Start, ReconcileStep, Reconcile, ReconcileRelease,
                ReconcileEnqueue, TryEnqueueDispatch, ReconcileFails, Crash,
                ResetJob, SessionChanges, DeleteSession
  <2>3. \A p \in Prompts : HandAt(p)
    BY <2>2 DEF HandInv, HandAt
  <2>4. ASSUME NEW s \in Servers, NEW r \in Requests, NEW p \in Prompts,
               SubmitPrompt(s, r, p) \/ SubmitStep(s, r, p)
        PROVE  HandAt(q)'
    BY <2>1, <2>3, <2>4, SubmitHand
  <2>5. ASSUME NEW s \in Servers, NEW k \in Lanes, NEW p \in Prompts,
               DispatchStep(s, k, p) \/ PostFails(s, k, p) \/ OutcomeLost(s, k, p)
        PROVE  HandAt(q)'
    BY <2>1, <2>2, <2>3, <2>5, DispatchHand DEF PostFails, OutcomeLost
  <2>6. ASSUME NEW p \in Prompts, ResetJob(p) \/ \E s \in Servers : JobStep(s, p)
        PROVE  HandAt(q)'
    BY <2>3, <2>6, JobHand
  <2>7. ASSUME NEW s \in Servers,
               Start(s) \/ ReconcileStep(s) \/ ReconcileFails(s) \/ Crash(s)
        PROVE  HandAt(q)'
    BY <2>1, <2>3, <2>7, ReconcileHand DEF ReconcileFails, Crash
  <2>8. CASE SessionChanges \/ DeleteSession \/ UNCHANGED vars
    BY <2>3, <2>8, SessionHand
  <2> QED  BY <2>4, <2>5, <2>6, <2>7, <2>8 DEF Next
<1> QED  BY <1>1, <1>2, HandoffTypes, PTL DEF Spec

(* For any number of servers, prompts and requests: without a fault a       *)
(* prompt is stranded only if it was put back while its job was ending.     *)
THEOREM StrandingNeedsFault == Spec => []StrandedNeedsFault
<1>1. HandInv => StrandedNeedsFault
  <2> SUFFICES ASSUME HandInv, faults = 0, NEW p \in Prompts, p \notin reopened,
                      Stranded(p)
               PROVE  FALSE
    BY DEF StrandedNeedsFault
  <2>1. InHand(p)
    BY DEF HandInv
  <2>2. CASE status[p] = "pending"
    <3>1. Expected(p)
      BY <2>1, <2>2 DEF InHand
    <3> QED  BY <2>2, <3>1 DEF Stranded, Expected, Lanes
  <2>3. CASE status[p] = "dispatching"
    BY <2>1, <2>3 DEF InHand, Stranded
  <2> QED  BY <2>2, <2>3 DEF Stranded
<1> QED  BY <1>1, HandInvariant, PTL

-----------------------------------------------------------------------------
(* The ledger.  Nobody is busy with a prompt that was never submitted, and  *)
(* rows are deleted with their session only, for good.                      *)

KnownAt(p) == Existing(p) /\ (status[p] = "deleted" => session = "removed")
Known == \A p \in Prompts : KnownAt(p)

(* What a step does to the status of a row.                                 *)
LEMMA RowMoves ==
    ASSUME TypeOK, Known, [Next]_vars, NEW p \in Prompts
    PROVE  \/ /\ status'[p] = status[p]
              /\ session # "removed" /\ session' # "removed"
           \/ status'[p] = status[p] /\ session' = session
           \/ /\ status[p] = "absent" /\ status'[p] = "pending"
              /\ session # "removed" /\ session' = session
           \/ /\ status[p] \notin {"absent", "deleted"}
              /\ status'[p] \notin {"absent", "deleted"}
              /\ session' = session
           \/ DeleteSession
<1> USE DEF rowVars
<1> DEFINE Moved == /\ session' = session
                    /\ \/ status'[p] = status[p]
                       \/ /\ status[p] \notin {"absent", "deleted"}
                          /\ status'[p] \notin {"absent", "deleted"}
<1>1. ASSUME NEW q \in Prompts, status[q] # "absent", session' = session,
             ReleaseToPending(q) \/ PutBack(q) \/ MarkFailed(q)
                \/ WriteStatus(q, "dispatching") \/ MarkAccepted(q)
      PROVE  Moved
  BY <1>1 DEF ReleaseToPending, PutBack, MarkFailed, MarkAccepted, WriteStatus, TypeOK
<1>2. ASSUME NEW s \in Servers, NEW k \in Lanes, NEW q \in Prompts,
             call[s][k][q] # "idle"
      PROVE  status[q] # "absent"
  BY <1>2 DEF Known, KnownAt, Existing
<1>3. ASSUME NEW s \in Servers, NEW k \in Lanes, NEW q \in Prompts,
             DispatchStep(s, k, q) \/ PostFails(s, k, q) \/ OutcomeLost(s, k, q)
      PROVE  Moved
  <2>1. call[s][k][q] # "idle" /\ session' = session
    BY <1>3 DEF DispatchStep, ReadSubmission, CheckSession, ClaimForDispatch,
         PrepareRequest, StartChat, AcceptStarted, HandleDispatchError, PostFails,
         OutcomeLost, At, Dispatching
  <2>2. status[q] # "absent"
    BY <1>2, <2>1
  <2> QED
    BY <1>1, <1>3, <2>1, <2>2 DEF DispatchStep, ReadSubmission, CheckSession,
       ClaimForDispatch, PrepareRequest, StartChat, AcceptStarted,
       HandleDispatchError, PostFails, OutcomeLost
<1>4. ASSUME NEW s \in Servers, NEW r \in Requests, NEW q \in Prompts,
             SubmitStep(s, r, q)
      PROVE  Moved
  <2>1. r \in Lanes /\ call[s][r][q] # "idle" /\ session' = session
    BY <1>4 DEF SubmitStep, ReleaseFailed, SubmitEnqueue, RouteSubmission, At, Lanes
  <2>2. status[q] # "absent"
    BY <1>2, <2>1
  <2> QED  BY <1>1, <1>4, <2>1, <2>2
           DEF SubmitStep, ReleaseFailed, SubmitEnqueue, RouteSubmission
<1>5. ASSUME NEW s \in Servers, NEW r \in Requests, NEW q \in Prompts,
             SubmitPrompt(s, r, q)
      PROVE  \/ Moved
             \/ /\ status[p] = "absent" /\ status'[p] = "pending"
                /\ session # "removed" /\ session' = session
  BY <1>5 DEF SubmitPrompt, TypeOK
<1>6. ASSUME NEW s \in Servers, ReconcileStep(s)
      PROVE  Moved
  <2>1. ASSUME NEW q \in Prompts, ReconcileRelease(s, q)
        PROVE  Moved
    <3>1. status[q] # "absent" /\ session' = session
      BY <2>1 DEF ReconcileRelease, Known, KnownAt, Existing
    <3> QED  BY <1>1, <2>1, <3>1 DEF ReconcileRelease
  <2> QED  BY <1>6, <2>1 DEF ReconcileStep, Reconcile, ReconcileEnqueue
<1>7. ASSUME \/ UNCHANGED vars
             \/ \E q \in Prompts : ResetJob(q) \/ \E s \in Servers : JobStep(s, q)
             \/ \E s \in Servers : Start(s) \/ ReconcileFails(s) \/ Crash(s)
      PROVE  Moved
  BY <1>7 DEF vars, ResetJob, JobStep, StartJob, JobReturns, Start,
              ReconcileFails, Crash
<1>8. ASSUME SessionChanges
      PROVE  /\ status'[p] = status[p]
             /\ session # "removed" /\ session' # "removed"
  BY <1>8 DEF SessionChanges, TypeOK
<1> QED  BY <1>3, <1>4, <1>5, <1>6, <1>7, <1>8 DEF Next

(* Steps leave a prompt alone that was never submitted, its submission      *)
(* excepted.                                                                *)
LEMMA AbsentUntouched ==
    ASSUME TypeOK, Known, [Next]_vars, NEW p \in Prompts,
           status[p] = "absent", status'[p] = "absent"
    PROVE  /\ job'[p] = "none"
           /\ \A s \in Servers : todo'[s][p] = "none"
           /\ \A s \in Servers, k \in Lanes : call'[s][k][p] = "idle"
<1> DEFINE Untouched == /\ job'[p] = "none"
                        /\ \A s \in Servers : todo'[s][p] = "none"
                        /\ \A s \in Servers, k \in Lanes : call'[s][k][p] = "idle"
<1> USE DEF jobVars, callVars
<1>0. /\ job[p] = "none"
      /\ \A s \in Servers : todo[s][p] = "none"
      /\ \A s \in Servers, k \in Lanes : call[s][k][p] = "idle"
  BY DEF Known, KnownAt, Existing
<1>1. ASSUME NEW s \in Servers, NEW k \in Lanes, NEW q \in Prompts, q # p,
             UNCHANGED call \/ \E to : call' = [call EXCEPT ![s][k][q] = to],
             UNCHANGED todo, job'[p] = job[p]
      PROVE  Untouched
  <2>1. ASSUME NEW to, call' = [call EXCEPT ![s][k][q] = to],
               NEW t \in Servers, NEW l \in Lanes
        PROVE  call'[t][l][p] = call[t][l][p]
    BY <1>1, <2>1 DEF TypeOK
  <2>2. \A t \in Servers, l \in Lanes : call'[t][l][p] = call[t][l][p]
    BY <1>1, <2>1
  <2> QED  BY <1>0, <1>1, <2>2
<1>2. ASSUME NEW s \in Servers, NEW k \in Lanes, NEW q \in Prompts,
             DispatchStep(s, k, q) \/ PostFails(s, k, q) \/ OutcomeLost(s, k, q)
      PROVE  Untouched
  <2>1. call[s][k][q] # "idle" /\ UNCHANGED <<todo, job>>
    BY <1>2 DEF DispatchStep, ReadSubmission, CheckSession, ClaimForDispatch,
         PrepareRequest, StartChat, AcceptStarted, HandleDispatchError, PostFails,
         OutcomeLost, At, Dispatching
  <2>2. UNCHANGED call \/ \E to : call' = [call EXCEPT ![s][k][q] = to]
    BY <1>2 DEF DispatchStep, ReadSubmission, CheckSession, ClaimForDispatch,
         PrepareRequest, StartChat, AcceptStarted, HandleDispatchError, PostFails,
         OutcomeLost, Goto, Return
  <2>3. q # p
    BY <1>0, <2>1
  <2> QED  BY <1>1, <2>1, <2>2, <2>3
<1>3. ASSUME NEW s \in Servers, NEW r \in Requests, NEW q \in Prompts,
             SubmitPrompt(s, r, q) \/ SubmitStep(s, r, q)
      PROVE  Untouched
  <2>1. r \in Lanes /\ UNCHANGED todo
    BY <1>3 DEF SubmitPrompt, SubmitStep, ReleaseFailed, SubmitEnqueue,
                RouteSubmission, Lanes
  <2>2. q # p
    BY <1>0, <1>3, <2>1 DEF SubmitPrompt, SubmitStep, ReleaseFailed, SubmitEnqueue,
                       RouteSubmission, At, Unsettled, TypeOK
  <2>3. \E to : call' = [call EXCEPT ![s][r][q] = to]
    BY <1>3 DEF SubmitPrompt, SubmitStep, ReleaseFailed, SubmitEnqueue,
                RouteSubmission, Goto
  <2>4. job'[p] = job[p]
    BY <1>3, <2>2 DEF SubmitPrompt, SubmitStep, ReleaseFailed, SubmitEnqueue,
                      RouteSubmission, TryEnqueueDispatch, EnqueueDispatch, TypeOK
  <2> QED  BY <1>1, <2>1, <2>2, <2>3, <2>4
<1>4. ASSUME NEW s \in Servers, NEW q \in Prompts, JobStep(s, q)
      PROVE  Untouched
  <2>1. Job \in Lanes /\ UNCHANGED todo
    BY <1>4 DEF JobStep, StartJob, JobReturns, Lanes
  <2>2. q # p
    BY <1>0, <1>4, <2>1 DEF JobStep, StartJob, JobReturns, At, Returned
  <2>3. \E to : call' = [call EXCEPT ![s][Job][q] = to]
    BY <1>4 DEF JobStep, StartJob, JobReturns, Goto
  <2>4. job'[p] = job[p]
    BY <1>4, <2>2 DEF JobStep, StartJob, JobReturns, TypeOK
  <2> QED  BY <1>1, <2>1, <2>2, <2>3, <2>4
<1>5. ASSUME NEW s \in Servers, ReconcileStep(s) \/ ReconcileFails(s)
      PROVE  Untouched
  <2>1. CASE Reconcile(s)
    BY <1>0, <2>1 DEF Reconcile, TypeOK
  <2>2. CASE \E q \in Prompts : ReconcileRelease(s, q)
    <3>1. PICK q \in Prompts : ReconcileRelease(s, q)
      BY <2>2
    <3>2. q # p
      BY <1>0, <3>1 DEF ReconcileRelease
    <3> QED  BY <1>0, <3>1, <3>2 DEF ReconcileRelease, TypeOK
  <2>3. CASE \E q \in Prompts : ReconcileEnqueue(s, q)
    <3>1. PICK q \in Prompts : ReconcileEnqueue(s, q)
      BY <2>3
    <3>2. q # p
      BY <1>0, <3>1 DEF ReconcileEnqueue
    <3> QED  BY <1>0, <3>1, <3>2 DEF ReconcileEnqueue, TryEnqueueDispatch,
                                      EnqueueDispatch, TypeOK
  <2>4. CASE ReconcileFails(s)
    BY <1>0, <2>4 DEF ReconcileFails, NothingToDo, TypeOK
  <2> QED  BY <1>5, <2>1, <2>2, <2>3, <2>4 DEF ReconcileStep
<1>6. ASSUME NEW s \in Servers, Crash(s)
      PROVE  Untouched
  BY <1>0, <1>6 DEF Crash, NoCalls, NothingToDo, TypeOK
<1>7. ASSUME NEW q \in Prompts, ResetJob(q)
      PROVE  Untouched
  BY <1>0, <1>7 DEF ResetJob, TypeOK
<1>8. CASE \/ UNCHANGED vars \/ \E s \in Servers : Start(s)
           \/ SessionChanges \/ DeleteSession
  BY <1>0, <1>8 DEF vars, Start, SessionChanges, DeleteSession
<1> QED  BY <1>2, <1>3, <1>4, <1>5, <1>6, <1>7, <1>8 DEF Next

LEMMA KnownInvariant == Spec => []Known
<1>1. Init => Known
  BY DEF Init, Known, KnownAt, Existing, NoCalls, NothingToDo
<1>2. TypeOK /\ Known /\ [Next]_vars => Known'
  <2> SUFFICES ASSUME TypeOK, Known, [Next]_vars, NEW p \in Prompts
               PROVE  KnownAt(p)'
    BY DEF Known
  <2>1. CASE DeleteSession
    <3>1. /\ status'[p] = IF status[p] = "absent" THEN "absent" ELSE "deleted"
          /\ session' = "removed"
      BY <2>1 DEF DeleteSession
    <3> QED  BY <3>1, AbsentUntouched DEF KnownAt, Existing
  <2>2. CASE ~DeleteSession
    <3>1. status'[p] = "absent" => status[p] = "absent"
      BY <2>2, RowMoves
    <3>2. session' = "removed" => session = "removed"
      BY <2>2, RowMoves
    <3>3. session' = "removed" => status'[p] \in {"absent", "deleted"}
      BY <2>2, <3>2, RowMoves DEF Known, KnownAt, Existing
    <3>4. status'[p] = "deleted" => session' = "removed"
      BY <2>2, RowMoves DEF Known, KnownAt, TypeOK
    <3> QED  BY <3>1, <3>3, <3>4, AbsentUntouched DEF KnownAt, Existing
  <2> QED  BY <2>1, <2>2
<1> QED  BY <1>1, <1>2, HandoffTypes, PTL DEF Spec

(* The ledger's steps, as writes to the row.  A prompt stands where it      *)
(* stood, or where the written status says.                                 *)

Stands == [p \in Prompts |-> Standing(status[p])]
LedgerStep == [Ledger!Next]_(Ledger!vars)
\* The history of disturbances goes on.
Onward == overruled \subseteq overruled' /\ (faults > 0 => faults' > 0)

LEMMA DisturbedGrows ==
    ASSUME TypeOK, TypeOK', Onward PROVE Ledger!Disturb
  BY DEF Onward, Ledger!Disturb, Disturbed, TypeOK

LEMMA StandsWritten ==
    ASSUME TypeOK, NEW p \in Prompts, NEW st \in Status,
           status' = [status EXCEPT ![p] = st]
    PROVE  /\ Stands' = [Stands EXCEPT ![p] = Standing(st)]
           /\ Standing(st) = Standing(status[p]) => Stands' = Stands
<1>1. \A q \in Prompts : status'[q] = IF q = p THEN st ELSE status[q]
  BY DEF TypeOK
<1>2. \A q \in Prompts :
        Standing(status'[q]) = IF q = p THEN Standing(st) ELSE Standing(status[q])
  BY <1>1
<1>3. Stands' = [q \in Prompts |-> IF q = p THEN Standing(st) ELSE Standing(status[q])]
  BY <1>2 DEF Stands
<1> QED  BY <1>3 DEF Stands

LEMMA StandsKept == ASSUME status' = status PROVE Stands' = Stands
  BY DEF Stands

(* Nothing that the ledger shows has changed, disturbances excepted.        *)
LEMMA LedgerStays ==
    ASSUME TypeOK, TypeOK', Onward, Stands' = Stands, UNCHANGED agentVars
    PROVE  LedgerStep
<1>1. Ledger!Disturb
  BY DisturbedGrows
<1>2. Ledger!Next
  BY <1>1 DEF Ledger!Next, Stands, agentVars
<1> QED  BY <1>2 DEF LedgerStep

(* What a write to a row does to its prompt's standing.                     *)
LEMMA RowWritten ==
    ASSUME TypeOK, NEW p \in Prompts, NEW st \in Status, WriteStatus(p, st)
    PROVE  \/ status[p] = "deleted" /\ Stands' = Stands
           \/ /\ status[p] # "deleted"
              /\ Stands' = [Stands EXCEPT ![p] = Standing(st)]
              /\ Standing(st) = Standing(status[p]) => Stands' = Stands
<1>1. CASE status[p] = "deleted"
  BY <1>1, StandsKept DEF WriteStatus
<1>2. CASE status[p] # "deleted"
  BY <1>2, StandsWritten DEF WriteStatus
<1> QED  BY <1>1, <1>2

LEMMA PutBackInLedger ==
    ASSUME TypeOK, TypeOK', Onward, NEW p \in Prompts, status[p] # "absent",
           NEW st \in Unsettled, WriteStatus(p, st), UNCHANGED agentVars,
           status[p] = "accepted" => p \in Disturbed'
    PROVE  LedgerStep
<1>1. st \in Status /\ Standing(st) = "open"
  BY DEF Unsettled, Status, Standing
<1>2. CASE Stands' = Stands
  BY <1>2, LedgerStays
<1>3. CASE Stands' # Stands
  <2>1. /\ status[p] # "deleted" /\ Standing(status[p]) # "open"
        /\ Stands' = [Stands EXCEPT ![p] = "open"]
    BY <1>1, <1>3, RowWritten
  <2>2. status[p] \in {"accepted", "failed"} /\ Stands[p] = status[p]
    BY <2>1 DEF Standing, Stands, Unsettled, Status, TypeOK
  <2>3. Ledger!Reopen(p)
    BY <2>1, <2>2, DisturbedGrows
       DEF Ledger!Reopen, Ledger!Becomes, Ledger!Excused, Stands, agentVars
  <2> QED  BY <2>3 DEF LedgerStep, Ledger!Next
<1> QED  BY <1>2, <1>3

LEMMA FailedInLedger ==
    ASSUME TypeOK, TypeOK', Onward, NEW p \in Prompts, status[p] # "absent",
           WriteStatus(p, "failed"), UNCHANGED agentVars,
           status[p] = "accepted" => p \in Disturbed',
           status[p] \in Unsettled /\ p \notin Disturbed' => taken[p] = 0
    PROVE  LedgerStep
<1>1. "failed" \in Status /\ Standing("failed") = "failed"
  BY DEF Unsettled, Status, Standing
<1>2. CASE Stands' = Stands
  BY <1>2, LedgerStays
<1>3. CASE Stands' # Stands
  <2>1. /\ status[p] # "deleted" /\ Standing(status[p]) # "failed"
        /\ Stands' = [Stands EXCEPT ![p] = "failed"]
    BY <1>1, <1>3, RowWritten
  <2>2. \/ status[p] \in Unsettled /\ Stands[p] = "open"
        \/ status[p] = "accepted" /\ Stands[p] = "accepted"
    BY <2>1 DEF Standing, Stands, Unsettled, Status, TypeOK
  <2>3. Ledger!Fail(p)
    BY <2>1, <2>2, DisturbedGrows
       DEF Ledger!Fail, Ledger!Becomes, Ledger!Excused, Stands, agentVars
  <2> QED  BY <2>3 DEF LedgerStep, Ledger!Next
<1> QED  BY <1>2, <1>3

LEMMA AcceptedInLedger ==
    ASSUME TypeOK, TypeOK', Onward, NEW p \in Prompts, status[p] # "absent",
           WriteStatus(p, "accepted"), UNCHANGED agentVars,
           taken[p] > 0 \/ p \in conflicted,
           status[p] = "failed" => p \in Disturbed'
    PROVE  LedgerStep
<1>1. "accepted" \in Status /\ Standing("accepted") = "accepted"
  BY DEF Unsettled, Status, Standing
<1>2. CASE Stands' = Stands
  BY <1>2, LedgerStays
<1>3. CASE Stands' # Stands
  <2>1. /\ status[p] # "deleted" /\ Standing(status[p]) # "accepted"
        /\ Stands' = [Stands EXCEPT ![p] = "accepted"]
    BY <1>1, <1>3, RowWritten
  <2>2. \/ Stands[p] = "open"
        \/ status[p] = "failed" /\ Stands[p] = "failed"
    BY <2>1 DEF Standing, Stands, Unsettled, Status, TypeOK
  <2>3. Ledger!Accept(p)
    BY <2>1, <2>2, DisturbedGrows
       DEF Ledger!Accept, Ledger!Becomes, Ledger!Excused, Stands, agentVars
  <2> QED  BY <2>3 DEF LedgerStep, Ledger!Next
<1> QED  BY <1>2, <1>3

(* What an undisturbed row tells its dispatcher and who looks at it.        *)
LEMMA DispatcherKnows ==
    ASSUME TypeOK, DispatchInv,
           NEW s \in Servers, NEW k \in Lanes, NEW p \in Prompts,
           Busy(s, k, p), p \notin Disturbed
    PROVE  /\ status[p] \in {"dispatching", "deleted"}
           /\ call[s][k][p] # "started" => taken[p] = 0
<1>1. p \notin overruled /\ faults = 0
  BY HandoffAssumption DEF Disturbed, TypeOK
<1> QED  BY <1>1 DEF DispatchInv, SoleAt, TakenAt

\* So that it does not write over an acceptance, unless it was overruled.
LEMMA DispatcherSpares ==
    ASSUME TypeOK, DispatchInv, Onward,
           NEW s \in Servers, NEW k \in Lanes, NEW p \in Prompts,
           Busy(s, k, p), status[p] = "accepted"
    PROVE  p \in Disturbed'
<1>1. p \in overruled
  BY DEF DispatchInv, SoleAt
<1> QED  BY <1>1 DEF Onward, Disturbed

\* And who writes from outside overrules it.
LEMMA OutsiderOverrules ==
    ASSUME NEW p \in Prompts, Overrule(p), status[p] = "accepted"
    PROVE  p \in Disturbed'
  BY DEF Overrule, Disturbed

LEMMA OnlookerKnows ==
    ASSUME TypeOK, DispatchInv, NEW p \in Prompts, Quiet(p),
           p \notin Disturbed, status[p] \in Unsettled
    PROVE  taken[p] = 0
<1>1. p \notin overruled /\ faults = 0
  BY HandoffAssumption DEF Disturbed, TypeOK
<1> QED  BY <1>1 DEF DispatchInv, TakenAt, Unsettled

(* Histories only grow.                                                     *)
LEMMA GoesOnward ==
    ASSUME TypeOK, [Next]_vars PROVE Onward
<1> USE DEF rowVars, historyVars
<1>1. ASSUME NEW q \in Prompts, PutBack(q) \/ Overrule(q)
      PROVE  overruled \subseteq overruled'
  BY <1>1 DEF PutBack, Overrule
<1>2. overruled \subseteq overruled'
  <2>1. ASSUME NEW s \in Servers, NEW r \in Requests, NEW q \in Prompts,
               SubmitPrompt(s, r, q) \/ SubmitStep(s, r, q)
        PROVE  overruled \subseteq overruled'
    BY <1>1, <2>1 DEF SubmitPrompt, SubmitStep, ReleaseFailed, SubmitEnqueue,
                      RouteSubmission
  <2>2. ASSUME NEW s \in Servers, NEW k \in Lanes, NEW q \in Prompts,
               DispatchStep(s, k, q) \/ PostFails(s, k, q) \/ OutcomeLost(s, k, q)
        PROVE  overruled \subseteq overruled'
    BY <1>1, <2>2 DEF DispatchStep, ReadSubmission, CheckSession, ClaimForDispatch,
         PrepareRequest, StartChat, AcceptStarted, HandleDispatchError, PostFails,
         OutcomeLost
  <2>3. ASSUME NEW s \in Servers, ReconcileStep(s)
        PROVE  overruled \subseteq overruled'
    BY <1>1, <2>3 DEF ReconcileStep, Reconcile, ReconcileRelease, ReconcileEnqueue
  <2>4. CASE \/ UNCHANGED vars
             \/ \E q \in Prompts : ResetJob(q) \/ \E s \in Servers : JobStep(s, q)
             \/ \E s \in Servers : Start(s) \/ ReconcileFails(s) \/ Crash(s)
             \/ SessionChanges \/ DeleteSession
    BY <2>4 DEF vars, ResetJob, JobStep, StartJob, JobReturns, Start,
                ReconcileFails, Crash, SessionChanges, DeleteSession
  <2> QED  BY <2>1, <2>2, <2>3, <2>4 DEF Next
<1>3. faults' = faults \/ Fault
  BY DEF Next, SubmitStep, DispatchStep, JobStep, ReconcileStep, SubmitPrompt,
         ReleaseFailed, SubmitEnqueue, RouteSubmission, ReadSubmission,
         CheckSession, ClaimForDispatch, PrepareRequest, StartChat, PostFails,
         AcceptStarted, HandleDispatchError, OutcomeLost, StartJob, JobReturns,
         ResetJob, Start, Reconcile, ReconcileRelease, ReconcileEnqueue,
         ReconcileFails, Crash, SessionChanges, DeleteSession, vars,
         TryEnqueueDispatch
<1>4. faults > 0 => faults' > 0
  BY <1>3, HandoffAssumption DEF Fault, TypeOK
<1> QED  BY <1>2, <1>4 DEF Onward

LEMMA DispatchInLedger ==
    ASSUME TypeOK, TypeOK', Onward, Known, AcceptedInv, DispatchInv,
           NEW s \in Servers, NEW k \in Lanes, NEW p \in Prompts,
           DispatchStep(s, k, p)
    PROVE  LedgerStep
<1> USE DEF rowVars, historyVars
<1>0. call[s][k][p] # "idle" /\ status[p] # "absent"
  <2>1. call[s][k][p] # "idle"
    BY DEF DispatchStep, ReadSubmission, CheckSession, ClaimForDispatch,
           PrepareRequest, StartChat, AcceptStarted, HandleDispatchError, At
  <2> QED  BY <2>1 DEF Known, KnownAt, Existing
<1>1. CASE ReadSubmission(s, k, p)
  BY <1>1, StandsKept, LedgerStays DEF ReadSubmission
<1>2. CASE CheckSession(s, k, p)
  <2>1. CASE MarkFailed(p) /\ Overrule(p)
    <3>1. WriteStatus(p, "failed") /\ UNCHANGED <<faults, agentVars>>
      BY <1>2, <2>1 DEF CheckSession, MarkFailed
    <3>2. status[p] \in Unsettled /\ p \notin Disturbed' => taken[p] = 0
      <4>1. status[p] # "deleted" /\ p \notin Disturbed' =>
              Quiet(p) /\ p \notin Disturbed
        BY <2>1, <3>1, NotOverruled DEF Disturbed
      <4> QED  BY <4>1, OnlookerKnows DEF Unsettled
    <3> QED  BY <1>0, <2>1, <3>1, <3>2, OutsiderOverrules, FailedInLedger
  <2>2. CASE UNCHANGED status
    BY <1>2, <2>2, StandsKept, LedgerStays DEF CheckSession
  <2> QED  BY <1>2, <2>1, <2>2 DEF CheckSession
<1>3. CASE ClaimForDispatch(s, k, p)
  <2>1. CASE status[p] = "pending"
    BY <1>0, <1>3, <2>1, PutBackInLedger DEF ClaimForDispatch, Unsettled
  <2>2. CASE status[p] # "pending"
    BY <1>3, <2>2, StandsKept, LedgerStays DEF ClaimForDispatch
  <2> QED  BY <2>1, <2>2
<1>4. CASE PrepareRequest(s, k, p)
  <2>1. Busy(s, k, p) /\ call[s][k][p] = "claimed" /\ UNCHANGED agentVars
    BY <1>4 DEF PrepareRequest, At, Busy, Dispatching
  <2>2. CASE ReleaseToPending(p)
    BY <1>0, <2>1, <2>2, DispatcherSpares, PutBackInLedger
       DEF ReleaseToPending, Unsettled
  <2>3. CASE MarkFailed(p) /\ UNCHANGED faults
    <3>1. p \notin Disturbed' => p \notin Disturbed
      BY <2>3 DEF Onward, Disturbed
    <3>2. p \notin Disturbed' => taken[p] = 0
      BY <2>1, <3>1, DispatcherKnows
    <3> QED  BY <1>0, <2>1, <2>3, <3>1, <3>2, DispatcherSpares, FailedInLedger
             DEF MarkFailed
  <2>4. CASE UNCHANGED rowVars
    BY <2>1, <2>4, StandsKept, LedgerStays
  <2> QED  BY <1>4, <2>2, <2>3, <2>4 DEF PrepareRequest
<1>5. CASE StartChat(s, k, p)
  <2>1. Busy(s, k, p) /\ call[s][k][p] = "posting"
    BY <1>5 DEF StartChat, At, Busy, Dispatching
  <2>2. UNCHANGED <<status, overruled, faults>>
    BY <1>5 DEF StartChat
  <2>3. Stands' = Stands /\ Disturbed' = Disturbed /\ Ledger!Disturb
    BY <2>2, StandsKept, DisturbedGrows DEF Disturbed
  <2>4. p \in Disturbed \/ (taken[p] = 0 /\ Stands[p] \in {"open", "gone"})
    BY <2>1, DispatcherKnows DEF Stands, Standing, Unsettled
  <2>5. Stands[p] # "absent"
    BY <1>0 DEF Stands, Standing, Unsettled, TypeOK
  <2>6. CASE taken' = [taken EXCEPT ![p] = @ + 1] /\ UNCHANGED conflicted
    <3>1. Ledger!Take(p)
      BY <2>3, <2>4, <2>5, <2>6 DEF Ledger!Take, Ledger!Excused, Stands
    <3> QED  BY <3>1 DEF LedgerStep, Ledger!Next
  <2>7. CASE conflicted' = conflicted \cup {p} /\ UNCHANGED taken
    <3>1. Ledger!Meet(p)
      BY <2>3, <2>4, <2>5, <2>7 DEF Ledger!Meet, Ledger!Excused, Stands
    <3> QED  BY <3>1 DEF LedgerStep, Ledger!Next
  <2>8. CASE UNCHANGED agentVars
    BY <2>3, <2>8, LedgerStays
  <2> QED  BY <1>5, <2>6, <2>7, <2>8 DEF StartChat
<1>6. CASE AcceptStarted(s, k, p)
  <2>1. /\ WriteStatus(p, "accepted") /\ UNCHANGED <<faults, agentVars>>
        /\ Busy(s, k, p) /\ call[s][k][p] \in {"started", "conflict"}
    BY <1>6 DEF AcceptStarted, MarkAccepted, At, Busy, Dispatching
  <2>2. taken[p] > 0 \/ p \in conflicted
    BY <2>1 DEF AcceptedInv
  <2>3. p \notin Disturbed' => p \notin Disturbed
    BY <2>1 DEF Onward, Disturbed
  <2>4. status[p] = "failed" => p \in Disturbed'
    BY <2>1, <2>3, DispatcherKnows
  <2> QED  BY <1>0, <2>1, <2>2, <2>4, AcceptedInLedger
<1>7. CASE HandleDispatchError(s, k, p)
  <2>1. /\ Busy(s, k, p) /\ call[s][k][p] # "started" /\ UNCHANGED <<faults, agentVars>>
    BY <1>7 DEF HandleDispatchError, At, Busy, Dispatching
  <2>2. p \notin Disturbed' => p \notin Disturbed
    BY <2>1 DEF Onward, Disturbed
  <2>3. CASE WriteStatus(p, "failed")
    <3>1. p \notin Disturbed' => taken[p] = 0
      BY <2>1, <2>2, DispatcherKnows
    <3> QED  BY <1>0, <2>1, <2>3, <3>1, DispatcherSpares, FailedInLedger
  <2>4. CASE WriteStatus(p, "pending")
    BY <1>0, <2>1, <2>4, DispatcherSpares, PutBackInLedger DEF Unsettled
  <2> QED  BY <1>7, <2>3, <2>4
           DEF HandleDispatchError, MarkFailed, ReleaseToPending
<1> QED  BY <1>1, <1>2, <1>3, <1>4, <1>5, <1>6, <1>7 DEF DispatchStep

LEMMA SubmitInLedger ==
    ASSUME TypeOK, TypeOK', Onward, Known,
           NEW s \in Servers, NEW r \in Requests, NEW p \in Prompts,
           SubmitPrompt(s, r, p) \/ SubmitStep(s, r, p)
    PROVE  LedgerStep
<1> USE DEF rowVars, historyVars
<1>1. UNCHANGED agentVars
  BY DEF SubmitPrompt, SubmitStep, ReleaseFailed, SubmitEnqueue, RouteSubmission
<1>2. CASE UNCHANGED status
  BY <1>1, <1>2, StandsKept, LedgerStays
<1>3. CASE ReleaseFailed(s, r, p)
  <2>1. /\ r \in Lanes /\ call[s][r][p] # "idle"
        /\ WriteStatus(p, "pending") /\ Overrule(p)
    BY <1>3 DEF ReleaseFailed, PutBack, ReleaseToPending, At, Lanes
  <2>2. status[p] # "absent"
    BY <2>1 DEF Known, KnownAt, Existing
  <2> QED  BY <1>1, <2>1, <2>2, OutsiderOverrules, PutBackInLedger DEF Unsettled
<1>4. CASE SubmitPrompt(s, r, p) /\ status[p] = "absent"
  <2>1. /\ session # "removed" /\ status' = [status EXCEPT ![p] = "pending"]
    BY <1>4 DEF SubmitPrompt, Unsettled
  <2>2. \A q \in Prompts : Stands[q] # "gone"
    BY <2>1 DEF Known, KnownAt, Stands, Standing, Unsettled, TypeOK, Status
  <2>3. Stands[p] = "absent" /\ Stands' = [Stands EXCEPT ![p] = "open"]
    BY <1>4, <2>1, StandsWritten DEF Stands, Standing, Unsettled, Status
  <2>4. Ledger!Submit(p)
    BY <1>1, <2>2, <2>3, DisturbedGrows DEF Ledger!Submit, Ledger!Becomes, Stands, agentVars
  <2> QED  BY <2>4 DEF LedgerStep, Ledger!Next
<1> QED  BY <1>2, <1>3, <1>4
         DEF SubmitPrompt, SubmitStep, SubmitEnqueue, RouteSubmission

LEMMA FaultInLedger ==
    ASSUME TypeOK, TypeOK', Onward, Known,
           \/ \E s \in Servers, k \in Lanes, p \in Prompts :
                 PostFails(s, k, p) \/ OutcomeLost(s, k, p)
           \/ \E s \in Servers : ReconcileFails(s) \/ Crash(s)
    PROVE  LedgerStep
<1> USE DEF rowVars
<1>1. UNCHANGED status /\ Fault
  BY DEF PostFails, OutcomeLost, ReconcileFails, Crash
<1>2. Stands' = Stands /\ Disturbed' = Prompts /\ Ledger!Disturb
  BY <1>1, StandsKept, DisturbedGrows, HandoffAssumption DEF Fault, Disturbed, TypeOK
<1>3. CASE UNCHANGED agentVars
  BY <1>2, <1>3, LedgerStays
<1>4. ASSUME NEW s \in Servers, NEW k \in Lanes, NEW p \in Prompts,
             PostFails(s, k, p), taken' = [taken EXCEPT ![p] = @ + 1]
      PROVE  LedgerStep
  <2>1. call[s][k][p] # "idle" /\ UNCHANGED conflicted
    BY <1>4 DEF PostFails, At
  <2>2. Stands[p] # "absent"
    BY <2>1 DEF Known, KnownAt, Existing, Stands, Standing, Unsettled, TypeOK
  <2>3. Ledger!Take(p)
    BY <1>2, <1>4, <2>1, <2>2 DEF Ledger!Take, Ledger!Excused, Stands
  <2> QED  BY <2>3 DEF LedgerStep, Ledger!Next
<1> QED  BY <1>3, <1>4 DEF PostFails, OutcomeLost, ReconcileFails, Crash, agentVars

LEMMA SurroundingInLedger ==
    ASSUME TypeOK, TypeOK', Onward, Known,
           \/ \E p \in Prompts : ResetJob(p) \/ \E s \in Servers : JobStep(s, p)
           \/ \E s \in Servers : Start(s) \/ ReconcileStep(s)
           \/ SessionChanges \/ DeleteSession \/ UNCHANGED vars
    PROVE  LedgerStep
<1> USE DEF rowVars
<1>1. UNCHANGED agentVars
  BY DEF ResetJob, JobStep, StartJob, JobReturns, Start, ReconcileStep, Reconcile,
         ReconcileRelease, ReconcileEnqueue, SessionChanges, DeleteSession, vars
<1>2. CASE UNCHANGED status
  BY <1>1, <1>2, StandsKept, LedgerStays
<1>3. ASSUME NEW s \in Servers, NEW p \in Prompts, ReconcileRelease(s, p)
      PROVE  LedgerStep
  <2>1. status[p] # "absent" /\ WriteStatus(p, "pending") /\ Overrule(p)
    BY <1>3 DEF ReconcileRelease, PutBack, ReleaseToPending, Known, KnownAt, Existing
  <2> QED  BY <1>1, <2>1, OutsiderOverrules, PutBackInLedger DEF Unsettled
<1>4. CASE DeleteSession
  <2>1. status' = [p \in Prompts |->
                      IF status[p] = "absent" THEN "absent" ELSE "deleted"]
    BY <1>4 DEF DeleteSession
  <2>2. Stands' = [p \in Prompts |->
                      IF Stands[p] = "absent" THEN "absent" ELSE "gone"]
    BY <2>1 DEF Stands, Standing, Unsettled, TypeOK, Status
  <2>3. Ledger!Delete
    BY <1>1, <2>2, DisturbedGrows DEF Ledger!Delete, Stands, agentVars
  <2> QED  BY <2>3 DEF LedgerStep, Ledger!Next
<1> QED  BY <1>2, <1>3, <1>4
         DEF ResetJob, JobStep, StartJob, JobReturns, Start, ReconcileStep,
             Reconcile, ReconcileEnqueue, SessionChanges, vars

(* For any servers, prompts and requests, and whatever fails: what the      *)
(* table of submissions says about the prompts, the agent's takings and     *)
(* the deletion of the session go together as the ledger says.              *)
THEOREM HandoffKeepsLedger == Spec => KeepsLedger
<1>1. Init => Ledger!Init
  <2> SUFFICES ASSUME Init PROVE Ledger!Init
    OBVIOUS
  <2>1. Disturbed = {}
    BY DEF Init, Disturbed
  <2>2. Stands = [p \in Prompts |-> "absent"]
    BY DEF Init, Stands, Standing, Unsettled
  <2> QED  BY <2>1, <2>2 DEF Init, Ledger!Init, Stands
<1>2. /\ TypeOK /\ TypeOK' /\ Known /\ AcceptedInv /\ DispatchInv
      /\ [Next]_vars
      => LedgerStep
  <2> SUFFICES ASSUME TypeOK, TypeOK', Known, AcceptedInv, DispatchInv, [Next]_vars
               PROVE  LedgerStep
    OBVIOUS
  <2>0. Onward
    BY GoesOnward
  <2>1. ASSUME NEW s \in Servers, NEW k \in Lanes, NEW p \in Prompts,
               DispatchStep(s, k, p)
        PROVE  LedgerStep
    BY <2>0, <2>1, DispatchInLedger
  <2>2. ASSUME NEW s \in Servers, NEW r \in Requests, NEW p \in Prompts,
               SubmitPrompt(s, r, p) \/ SubmitStep(s, r, p)
        PROVE  LedgerStep
    BY <2>0, <2>2, SubmitInLedger
  <2> QED  BY <2>0, <2>1, <2>2, FaultInLedger, SurroundingInLedger DEF Next
<1> QED  BY <1>1, <1>2, HandoffTypes, KnownInvariant, AcceptedInvariant,
            DispatchInvariant, PTL DEF Spec, KeepsLedger, Ledger!Spec, LedgerStep

(* What the ledger's steps preserve, and never do.                          *)
LEMMA LedgerStepKeeps ==
    ASSUME Ledger!Promises, [Ledger!Next]_(Ledger!vars)
    PROVE  Ledger!Promises' /\ [Ledger!Keeps]_(Ledger!vars)
<1> DEFINE S == Stands
           D == Disturbed
           FineAt(q) == /\ S[q] = "accepted" => taken[q] > 0 \/ q \in conflicted
                        /\ S[q] = "absent" => taken[q] = 0
                        /\ q \notin D =>
                              taken[q] <= 1 /\ (S[q] = "failed" => taken[q] = 0)
           Fine == \A q \in Prompts : FineAt(q)
           Typed == /\ S \in [Prompts -> Ledger!State] /\ taken \in [Prompts -> Nat]
                    /\ conflicted \in SUBSET Prompts /\ D \in SUBSET Prompts
           Kept == \A q \in Prompts :
                      /\ S[q] = "gone" => S'[q] = "gone"
                      /\ S'[q] = "absent" => S[q] = "absent"
                      /\ taken[q] <= taken'[q]
                      /\ q \notin D' /\ S[q] = "accepted" =>
                            S'[q] \in {"accepted", "gone"} /\ taken'[q] = taken[q]
<1>1. Typed /\ Fine
  BY DEF Ledger!Promises, Ledger!TypeOK, Ledger!Truthful, Stands
<1>2. CASE UNCHANGED Ledger!vars
  BY <1>2 DEF Ledger!vars, Ledger!Promises, Ledger!TypeOK, Ledger!Truthful
<1>3. CASE Ledger!Next
  <2>1. SUFFICES Typed' /\ Fine' /\ Kept
    BY <2>1 DEF Ledger!Promises, Ledger!TypeOK, Ledger!Truthful, Ledger!Keeps, Stands
  <2>2. D \subseteq D' /\ D' \subseteq Prompts
    <3>1. CASE Ledger!Disturb
      BY <3>1 DEF Ledger!Disturb
    <3> QED  BY <1>3, <3>1
             DEF Ledger!Next, Ledger!Submit, Ledger!Reopen, Ledger!Take, Ledger!Meet,
                 Ledger!Accept, Ledger!Fail, Ledger!Delete, Ledger!Becomes
  <2> HIDE DEF D
  <2>3. ASSUME NEW p \in Prompts, NEW st \in Ledger!State \ {"absent"},
               S' = [S EXCEPT ![p] = st], UNCHANGED <<taken, conflicted>>,
               S[p] # "gone",
               st = "accepted" => taken[p] > 0 \/ p \in conflicted,
               st = "failed" /\ p \notin D' => taken[p] = 0,
               p \notin D' => S[p] # "accepted"
        PROVE  Typed' /\ Fine' /\ Kept
    <3>1. \A q \in Prompts : S'[q] = IF q = p THEN st ELSE S[q]
      BY <1>1, <2>3
    <3>2. Typed'
      BY <1>1, <2>2, <2>3
    <3> QED  BY <1>1, <2>2, <2>3, <3>1, <3>2
  <2>4. ASSUME NEW p \in Prompts, Ledger!Take(p)
        PROVE  Typed' /\ Fine' /\ Kept
    <3>1. /\ S' = S /\ conflicted' = conflicted /\ S[p] # "absent"
          /\ p \in D' \/ (taken[p] = 0 /\ S[p] \in {"open", "gone"})
          /\ taken' = [taken EXCEPT ![p] = @ + 1]
      BY <2>4 DEF Ledger!Take, Ledger!Excused, Stands, D
    <3>2. \A q \in Prompts : taken'[q] = IF q = p THEN taken[q] + 1 ELSE taken[q]
      BY <1>1, <3>1
    <3>3. Typed'
      BY <1>1, <2>2, <3>1
    <3> QED  BY <1>1, <2>2, <3>1, <3>2, <3>3
  <2>5. ASSUME NEW p \in Prompts, Ledger!Meet(p)
        PROVE  Typed' /\ Fine' /\ Kept
    <3>1. S' = S /\ taken' = taken /\ conflicted' = conflicted \cup {p}
      BY <2>5 DEF Ledger!Meet, Stands
    <3> QED  BY <1>1, <2>2, <3>1
  <2>6. ASSUME NEW p \in Prompts,
               Ledger!Submit(p) \/ Ledger!Reopen(p) \/ Ledger!Accept(p) \/ Ledger!Fail(p)
        PROVE  Typed' /\ Fine' /\ Kept
    <3>1. CASE Ledger!Submit(p)
      BY <2>3, <3>1 DEF Ledger!Submit, Ledger!Becomes, Ledger!State, Stands
    <3>2. CASE Ledger!Reopen(p)
      BY <2>3, <3>2
         DEF Ledger!Reopen, Ledger!Becomes, Ledger!Excused, Ledger!State, Stands, D
    <3>3. CASE Ledger!Accept(p)
      BY <2>3, <3>3 DEF Ledger!Accept, Ledger!Becomes, Ledger!State, Stands
    <3>4. CASE Ledger!Fail(p)
      BY <2>3, <3>4
         DEF Ledger!Fail, Ledger!Becomes, Ledger!Excused, Ledger!State, Stands, D
    <3> QED  BY <2>6, <3>1, <3>2, <3>3, <3>4
  <2>7. CASE Ledger!Delete
    <3>1. /\ taken' = taken /\ conflicted' = conflicted
          /\ S' = [q \in Prompts |-> IF S[q] = "absent" THEN "absent" ELSE "gone"]
      BY <2>7 DEF Ledger!Delete, Stands
    <3> QED  BY <1>1, <2>2, <3>1 DEF Ledger!State
  <2>8. CASE UNCHANGED <<Stands, taken, conflicted>>
    BY <1>1, <2>2, <2>8
  <2> QED  BY <1>3, <2>4, <2>5, <2>6, <2>7, <2>8 DEF Ledger!Next, Stands
<1> QED  BY <1>2, <1>3

LEMMA LedgerBegins == ASSUME Ledger!Init PROVE Ledger!Promises
  BY DEF Ledger!Init, Ledger!Promises, Ledger!TypeOK, Ledger!Truthful, Ledger!State

(* Whoever keeps the ledger tells the truth: accepted prompts were taken or *)
(* met another completion, undisturbed ones that failed were not taken, no  *)
(* undisturbed one is taken twice, and its acceptance is not taken back.    *)
THEOREM LedgerPromises == Ledger!Spec => []Ledger!Promises /\ Ledger!Lasting
<1>1. Ledger!Init => Ledger!Promises
  BY LedgerBegins
<1>2. Ledger!Promises /\ [Ledger!Next]_(Ledger!vars) =>
        Ledger!Promises' /\ [Ledger!Keeps]_(Ledger!vars)
  BY LedgerStepKeeps
<1> QED  BY <1>1, <1>2, PTL DEF Ledger!Spec, Ledger!Lasting

(* A prompt that is reported as failed can be submitted again: unless       *)
(* something failed or its row was overruled, the agent does not have it.   *)
THEOREM FailedPromptsWereNotTaken == Spec => []FailedWasNotTaken
<1>1. Ledger!Promises => FailedWasNotTaken
  <2> SUFFICES ASSUME Ledger!Promises, NEW p \in Prompts, faults = 0,
                      p \notin overruled, status[p] = "failed"
               PROVE  taken[p] = 0
    BY DEF FailedWasNotTaken
  <2>1. p \notin Disturbed /\ Standing(status[p]) = "failed"
    BY DEF Disturbed, Standing, Unsettled
  <2> QED  BY <2>1 DEF Ledger!Promises, Ledger!Truthful
<1> QED  BY <1>1, HandoffKeepsLedger, LedgerPromises, PTL DEF KeepsLedger

\* What an accepted row has to fear.
LEMMA AcceptedIsQuiet ==
    ASSUME NEW p \in Prompts, SoleAt(p), p \notin overruled, status[p] = "accepted"
    PROVE  Quiet(p)
  BY DEF SoleAt, Quiet

LEMMA AcceptanceKept ==
    ASSUME TypeOK, [Next]_vars, NEW p \in Prompts, Quiet(p),
           status[p] = "accepted"
    PROVE  /\ taken'[p] = taken[p]
           /\ status'[p] \in {"accepted", "deleted"} \/ StaleReader(p)
<1> DEFINE Kept == /\ taken'[p] = taken[p]
                   /\ status'[p] \in {"accepted", "deleted"} \/ StaleReader(p)
<1> USE DEF rowVars, agentVars
<1>1. ASSUME NEW s \in Servers, NEW k \in Lanes, NEW q \in Prompts,
             DispatchStep(s, k, q) \/ PostFails(s, k, q) \/ OutcomeLost(s, k, q)
      PROVE  Kept
  <2>1. CASE q = p
    <3>1. ~Busy(s, k, p)
      BY DEF Quiet
    <3>2. CASE ReadSubmission(s, k, p)
      BY <3>2 DEF ReadSubmission
    <3>3. CASE CheckSession(s, k, p)
      BY <3>3 DEF CheckSession, At, StaleReader
    <3>4. CASE ClaimForDispatch(s, k, p)
      BY <3>4 DEF ClaimForDispatch
    <3> QED  BY <1>1, <2>1, <3>1, <3>2, <3>3, <3>4
             DEF DispatchStep, PrepareRequest, StartChat, AcceptStarted,
                 HandleDispatchError, PostFails, OutcomeLost, At, Busy, Dispatching
  <2>2. CASE q # p
    <3>1. status'[p] = status[p]
      BY <1>1, <2>2 DEF DispatchStep, ReadSubmission, CheckSession, ClaimForDispatch,
         PrepareRequest, StartChat, AcceptStarted, HandleDispatchError, PostFails,
         OutcomeLost, MarkFailed, MarkAccepted, ReleaseToPending, WriteStatus, TypeOK
    <3>2. UNCHANGED taken \/ taken' = [taken EXCEPT ![q] = @ + 1]
      BY <1>1 DEF DispatchStep, ReadSubmission, CheckSession, ClaimForDispatch,
         PrepareRequest, StartChat, AcceptStarted, HandleDispatchError, PostFails,
         OutcomeLost
    <3>3. taken'[p] = taken[p]
      BY <2>2, <3>2 DEF TypeOK
    <3> QED  BY <3>1, <3>3
  <2> QED  BY <2>1, <2>2
<1>2. ASSUME NEW s \in Servers, NEW r \in Requests, NEW q \in Prompts,
             SubmitPrompt(s, r, q) \/ SubmitStep(s, r, q)
      PROVE  Kept
  <2>1. CASE ReleaseFailed(s, r, q)
    <3>1. UNCHANGED taken /\ call[s][r][q] = "releasing" /\ WriteStatus(q, "pending")
      BY <2>1 DEF ReleaseFailed, PutBack, ReleaseToPending, At
    <3> QED  BY <3>1 DEF WriteStatus, StaleReader, TypeOK
  <2>2. CASE SubmitPrompt(s, r, q)
    BY <2>2 DEF SubmitPrompt, TypeOK
  <2> QED  BY <1>2, <2>1, <2>2 DEF SubmitStep, SubmitEnqueue, RouteSubmission
<1>3. ASSUME NEW s \in Servers, ReconcileStep(s)
      PROVE  Kept
  <2>1. ASSUME NEW q \in Prompts, ReconcileRelease(s, q)
        PROVE  Kept
    <3>1. UNCHANGED taken /\ todo[s][q] = "release" /\ WriteStatus(q, "pending")
      BY <2>1 DEF ReconcileRelease, PutBack, ReleaseToPending
    <3> QED  BY <3>1 DEF WriteStatus, StaleReader, TypeOK
  <2> QED  BY <1>3, <2>1 DEF ReconcileStep, Reconcile, ReconcileEnqueue
<1>4. CASE DeleteSession
  BY <1>4 DEF DeleteSession
<1>5. CASE \/ UNCHANGED vars
           \/ \E q \in Prompts : ResetJob(q) \/ \E s \in Servers : JobStep(s, q)
           \/ \E s \in Servers : Start(s) \/ ReconcileFails(s) \/ Crash(s)
           \/ SessionChanges
  BY <1>5 DEF vars, ResetJob, JobStep, StartJob, JobReturns, Start,
              ReconcileFails, Crash, SessionChanges
<1> QED  BY <1>1, <1>2, <1>3, <1>4, <1>5 DEF Next

(* And an acceptance is final, whatever fails: a row that says so and was   *)
(* not overruled has no dispatcher, so that no claim, post or retry gives   *)
(* the agent the prompt once more, and only its deletion, or a writer that  *)
(* goes by an earlier look at the row, changes what it says.                *)
THEOREM AcceptanceStands == Spec => AcceptanceIsFinal
<1>1. TypeOK /\ DispatchInv /\ [Next]_vars => [KeepsAcceptance]_vars
  <2> SUFFICES ASSUME TypeOK, DispatchInv, [Next]_vars, NEW p \in Prompts,
                      status[p] = "accepted", p \notin overruled
               PROVE  /\ taken'[p] = taken[p]
                      /\ status'[p] \in {"accepted", "deleted"} \/ StaleReader(p)
    BY DEF KeepsAcceptance
  <2>1. Quiet(p)
    BY AcceptedIsQuiet DEF DispatchInv
  <2> QED  BY <2>1, AcceptanceKept
<1> QED  BY <1>1, HandoffTypes, DispatchInvariant, PTL DEF Spec, AcceptanceIsFinal

=============================================================================
