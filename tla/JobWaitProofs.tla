--------------------------- MODULE JobWaitProofs ---------------------------
(***************************************************************************)
(* Proofs about JobWait, for any number of waiters, jobs, attempts and     *)
(* events: WaitInv is inductive, so that a waiter is told "completed" only *)
(* of a job that succeeded, and is misled by an older job's completion     *)
(* only if that was still to be delivered when it asked.                   *)
(***************************************************************************)
EXTENDS JobWait, EventDeliveryProofs

JobRow == [status: {"pending", "running"} \union Settled, attempts: 0 .. MaxClaims]

LEMMA JobFacts ==
    ASSUME TypeOK
    PROVE  /\ DOMAIN jobs = 1 .. Len(jobs) /\ Len(jobs) \in 0 .. MaxJobs
           /\ DOMAIN jobs \subseteq Jobs /\ MaxJobs \in Nat /\ MaxClaims \in Nat
           /\ None \notin DOMAIN jobs
           /\ \A j \in DOMAIN jobs : jobs[j] \in JobRow
<1>1. /\ jobs \in Seq(JobRow) /\ Len(jobs) <= MaxJobs /\ MaxJobs \in Nat
  BY JobWaitBounds DEF TypeOK, JobRow
<1>2. DOMAIN jobs = 1 .. Len(jobs) /\ Len(jobs) \in Nat
  BY <1>1
<1>3. MaxClaims \in Nat
  BY JobWaitBounds
<1> QED  BY <1>1, <1>2, <1>3 DEF Jobs, None

LEMMA AddedJob ==
    ASSUME TypeOK, Len(jobs) < MaxJobs, jobs' = Append(jobs, Pending)
    PROVE  /\ jobs' \in Seq(JobRow) /\ Len(jobs') = Len(jobs) + 1
           /\ Len(jobs') <= MaxJobs
           /\ DOMAIN jobs' = DOMAIN jobs \union {Len(jobs')}
           /\ \A j \in DOMAIN jobs : jobs'[j] = jobs[j]
           /\ jobs'[Len(jobs')].status = "pending"
<1>1. Pending \in JobRow /\ Pending.status = "pending"
  BY JobWaitBounds DEF Pending, JobRow
<1>2. jobs \in Seq(JobRow)
  BY DEF TypeOK, JobRow
<1>3. /\ jobs' \in Seq(JobRow) /\ Len(jobs') = Len(jobs) + 1
      /\ DOMAIN jobs' = 1 .. (Len(jobs) + 1)
      /\ \A j \in DOMAIN jobs : jobs'[j] = jobs[j]
      /\ jobs'[Len(jobs) + 1] = Pending
  BY <1>1, <1>2
<1> QED  BY <1>1, <1>3, JobFacts

LEMMA WrittenJob ==
    ASSUME TypeOK, NEW k \in DOMAIN jobs, NEW r \in JobRow,
           jobs' = [jobs EXCEPT ![k] = r]
    PROVE  /\ jobs' \in Seq(JobRow) /\ Len(jobs') = Len(jobs)
           /\ Len(jobs') <= MaxJobs /\ DOMAIN jobs' = DOMAIN jobs
           /\ jobs'[k] = r /\ \A j \in DOMAIN jobs : j /= k => jobs'[j] = jobs[j]
<1>1. jobs \in Seq(JobRow)
  BY DEF TypeOK, JobRow
<1> QED  BY <1>1, JobFacts

-----------------------------------------------------------------------------
(* A step of the queue: no settled row changes, what is announced is about *)
(* a job that was running, and an event begins with an announcement.       *)
QueueMoved ==
    /\ jobs' \in Seq(JobRow) /\ Len(jobs') <= MaxJobs
    /\ DOMAIN jobs \subseteq DOMAIN jobs'
    /\ \A j \in DOMAIN jobs : jobs[j].status \in Settled => jobs'[j] = jobs[j]
    /\ executing' \in DOMAIN jobs' \union {None}
    /\ executing' /= None => jobs'[executing'].status = "running"
    /\ succeeded \subseteq succeeded' /\ succeeded' \subseteq DOMAIN jobs'
    /\ \A j \in DOMAIN jobs' : jobs'[j].status = "completed" => j \in succeeded'
    /\ announcing' \subseteq Said
    /\ \A e \in announcing' \ announcing :
          /\ e.job \in DOMAIN jobs /\ jobs[e.job].status = "running"
          /\ e.status = "completed" => e.job \in succeeded'
    /\ UNCHANGED waitVars
    /\ UNCHANGED deliveryVars \/ \E e \in announcing : Begin(e)

LEMMA EnqueueMoves ==
    ASSUME TypeOK, JobsFounded, EnqueueOther
    PROVE  QueueMoved
<1>1. /\ jobs' \in Seq(JobRow) /\ Len(jobs') <= MaxJobs
      /\ DOMAIN jobs' = DOMAIN jobs \union {Len(jobs')}
      /\ \A j \in DOMAIN jobs : jobs'[j] = jobs[j]
      /\ jobs'[Len(jobs')].status = "pending"
  BY AddedJob DEF EnqueueOther
<1>2. UNCHANGED <<deliveryVars, executing, announcing, succeeded, waitVars>>
  BY DEF EnqueueOther
<1>3. /\ executing \in DOMAIN jobs \union {None} /\ announcing \subseteq Said
      /\ succeeded \subseteq DOMAIN jobs
      /\ executing /= None => jobs[executing].status = "running"
      /\ \A j \in DOMAIN jobs : jobs[j].status = "completed" => j \in succeeded
  BY DEF TypeOK, JobsFounded
<1> QED  BY <1>1, <1>2, <1>3 DEF QueueMoved

\* The steps that write the row of a job that is not settled, or none.
LEMMA WriteMoves ==
    ASSUME TypeOK, JobsFounded, NEW k \in DOMAIN jobs, NEW r \in JobRow,
           jobs[k].status \notin Settled,
           jobs' = [jobs EXCEPT ![k] = r] \/ (jobs' = jobs /\ r = jobs[k]),
           executing' = None \/ (executing' = k /\ r.status = "running")
              \/ (executing' = executing /\ executing /= k),
           succeeded' \in {succeeded, succeeded \union {k}},
           r.status = "completed" => k \in succeeded',
           announcing' = announcing \/
             (/\ jobs[k].status = "running"
              /\ \E g \in Settled :
                   /\ announcing' = announcing \union {[job |-> k, status |-> g]}
                   /\ g = "completed" => k \in succeeded'),
           UNCHANGED <<deliveryVars, waitVars>>
    PROVE  QueueMoved
<1>1. /\ jobs' \in Seq(JobRow) /\ Len(jobs') <= MaxJobs /\ DOMAIN jobs' = DOMAIN jobs
      /\ jobs'[k] = r /\ \A j \in DOMAIN jobs : j /= k => jobs'[j] = jobs[j]
  <2>1. CASE jobs' = [jobs EXCEPT ![k] = r]
    BY <2>1, WrittenJob
  <2>2. CASE jobs' = jobs /\ r = jobs[k]
    BY <2>2 DEF TypeOK, JobRow
  <2> QED  BY <2>1, <2>2
<1>2. /\ executing \in DOMAIN jobs \union {None} /\ announcing \subseteq Said
      /\ succeeded \subseteq DOMAIN jobs
      /\ executing /= None => jobs[executing].status = "running"
      /\ \A j \in DOMAIN jobs : jobs[j].status = "completed" => j \in succeeded
  BY DEF TypeOK, JobsFounded
<1>3. /\ executing' \in DOMAIN jobs' \union {None}
      /\ executing' /= None => jobs'[executing'].status = "running"
  BY <1>1, <1>2
<1>4. /\ succeeded \subseteq succeeded' /\ succeeded' \subseteq DOMAIN jobs'
      /\ \A j \in DOMAIN jobs' : jobs'[j].status = "completed" => j \in succeeded'
  BY <1>1, <1>2
<1>5. /\ announcing' \subseteq Said
      /\ \A e \in announcing' \ announcing :
            /\ e.job \in DOMAIN jobs /\ jobs[e.job].status = "running"
            /\ e.status = "completed" => e.job \in succeeded'
  <2>1. CASE announcing' = announcing
    BY <1>2, <2>1
  <2>2. ASSUME jobs[k].status = "running", NEW g \in Settled,
               announcing' = announcing \union {[job |-> k, status |-> g]},
               g = "completed" => k \in succeeded'
        PROVE  /\ announcing' \subseteq Said
               /\ \A e \in announcing' \ announcing :
                     /\ e.job \in DOMAIN jobs /\ jobs[e.job].status = "running"
                     /\ e.status = "completed" => e.job \in succeeded'
    <3>1. k \in Jobs
      BY JobFacts
    <3>2. [job |-> k, status |-> g] \in Said
      BY <3>1 DEF Said
    <3> QED  BY <1>2, <2>2, <3>2
  <2> QED  BY <2>1, <2>2
<1>6. \A j \in DOMAIN jobs : jobs[j].status \in Settled => jobs'[j] = jobs[j]
  BY <1>1
<1> QED  BY <1>1, <1>3, <1>4, <1>5, <1>6 DEF QueueMoved

LEMMA ClaimMoves ==
    ASSUME TypeOK, JobsFounded, NEW j \in DOMAIN jobs, Claim(j)
    PROVE  QueueMoved
<1> DEFINE r == [status |-> "running", attempts |-> jobs[j].attempts + 1]
<1>1. jobs[j] \in JobRow /\ MaxClaims \in Nat
  BY JobFacts
<1>2. r \in JobRow
  BY <1>1 DEF Claim, JobRow
<1>3. jobs' = [jobs EXCEPT ![j] = r]
  BY DEF Claim
<1>4. jobs[j].status \notin Settled /\ r.status = "running"
  BY DEF Claim, Settled
<1> HIDE DEF r
<1> QED  BY <1>2, <1>3, <1>4, WriteMoves DEF Claim

LEMMA EndMoves ==
    ASSUME TypeOK, JobsFounded, Succeed \/ FailAttempt
    PROVE  QueueMoved
<1>1. /\ executing \in DOMAIN jobs /\ jobs[executing].status = "running"
      /\ jobs[executing] \in JobRow
  BY JobFacts DEF Succeed, FailAttempt, TypeOK, JobsFounded
<1> DEFINE R(g) == [status |-> g, attempts |-> jobs[executing].attempts]
<1>2. \A g \in {"pending", "running", "completed", "failed"} :
        /\ R(g) \in JobRow /\ R(g).status = g
        /\ [jobs EXCEPT ![executing].status = g] = [jobs EXCEPT ![executing] = R(g)]
  <2> SUFFICES ASSUME NEW g \in {"pending", "running", "completed", "failed"}
               PROVE  /\ R(g) \in JobRow /\ R(g).status = g
                      /\ [jobs EXCEPT ![executing].status = g] =
                            [jobs EXCEPT ![executing] = R(g)]
    OBVIOUS
  <2>1. [jobs[executing] EXCEPT !.status = g] = R(g)
    BY <1>1 DEF JobRow
  <2>2. [jobs EXCEPT ![executing].status = g] =
          [jobs EXCEPT ![executing] = [jobs[executing] EXCEPT !.status = g]]
    OBVIOUS
  <2>3. R(g) \in JobRow /\ R(g).status = g
    BY <1>1 DEF JobRow, Settled
  <2> HIDE DEF R
  <2> QED  BY <2>1, <2>2, <2>3
<1>3. R("running") = jobs[executing]
  BY <1>1 DEF JobRow
<1>4. jobs[executing].status \notin Settled /\ "completed" \in Settled
      /\ "failed" \in Settled /\ "failed" /= "completed"
  BY <1>1 DEF Settled
<1>5. CASE Succeed
  <2>1. /\ succeeded' = succeeded \union {executing} /\ executing' = None
        /\ announcing' = announcing \union
                            {[job |-> executing, status |-> "completed"]}
        /\ UNCHANGED <<deliveryVars, waitVars>>
        /\ jobs' = jobs \/ jobs' = [jobs EXCEPT ![executing].status = "completed"]
    BY <1>5 DEF Succeed
  <2>2. CASE jobs' = jobs
    <3> HIDE DEF R
    <3> QED  BY <1>1, <1>2, <1>3, <1>4, <2>1, <2>2, WriteMoves
  <2>3. CASE jobs' = [jobs EXCEPT ![executing].status = "completed"]
    <3>1. jobs' = [jobs EXCEPT ![executing] = R("completed")]
      BY <1>2, <2>3
    <3> HIDE DEF R
    <3> QED  BY <1>1, <1>2, <1>4, <2>1, <3>1, WriteMoves
  <2> QED  BY <2>1, <2>2, <2>3
<1>6. CASE FailAttempt
  <2>1. PICK g \in {"pending", "failed", "running"} :
          jobs' = [jobs EXCEPT ![executing] = R(g)]
             \/ (jobs' = jobs /\ R(g) = jobs[executing])
    BY <1>2, <1>3, <1>6 DEF FailAttempt
  <2>2. /\ executing' = None /\ succeeded' = succeeded
        /\ announcing' = announcing \union {[job |-> executing, status |-> "failed"]}
        /\ UNCHANGED <<deliveryVars, waitVars>>
    BY <1>6 DEF FailAttempt
  <2>3. R(g) \in JobRow /\ R(g).status /= "completed"
    BY <1>2
  <2> HIDE DEF R
  <2> QED  BY <1>1, <1>4, <2>1, <2>2, <2>3, WriteMoves
<1> QED  BY <1>5, <1>6

LEMMA DieMoves ==
    ASSUME TypeOK, JobsFounded, Die
    PROVE  QueueMoved
  BY DEF Die, QueueMoved, TypeOK, JobsFounded, JobRow

LEMMA CleanupMoves ==
    ASSUME TypeOK, JobsFounded, NEW j \in DOMAIN jobs, Cleanup(j)
    PROVE  QueueMoved
<1> DEFINE r == [status |-> "pending", attempts |-> jobs[j].attempts]
<1>1. jobs[j] \in JobRow
  BY JobFacts
<1>2. r \in JobRow /\ jobs' = [jobs EXCEPT ![j] = r]
  <2>1. r \in JobRow /\ [jobs[j] EXCEPT !.status = "pending"] = r
    BY <1>1 DEF JobRow
  <2>2. jobs' = [jobs EXCEPT ![j] = [jobs[j] EXCEPT !.status = "pending"]]
    BY DEF Cleanup
  <2> HIDE DEF r
  <2> QED  BY <2>1, <2>2
<1>3. jobs[j].status \notin Settled /\ r.status = "pending"
  BY DEF Cleanup, Settled
<1> HIDE DEF r
<1> QED  BY <1>2, <1>3, WriteMoves DEF Cleanup

LEMMA AnnounceMoves ==
    ASSUME TypeOK, JobsFounded, NEW e \in announcing, Announce(e)
    PROVE  QueueMoved
<1>1. /\ announcing' = announcing \ {e}
      /\ Begin(e) \/ UNCHANGED deliveryVars
      /\ UNCHANGED <<jobs, executing, succeeded, waitVars>>
  BY DEF Announce
<1> QED  BY <1>1 DEF QueueMoved, TypeOK, JobsFounded, JobRow

LEMMA QueueMoves ==
    ASSUME TypeOK, JobsFounded, QueueStep
    PROVE  QueueMoved
  BY EnqueueMoves, EndMoves, DieMoves, ClaimMoves, CleanupMoves, AnnounceMoves
  DEF QueueStep

-----------------------------------------------------------------------------
(* What every step has in common: nothing about a job that was done and    *)
(* delivered comes back.                                                   *)
Onward ==
    /\ DOMAIN jobs \subseteq DOMAIN jobs' /\ succeeded \subseteq succeeded'
    /\ \A j \in DOMAIN jobs : jobs[j].status \in Settled => jobs'[j] = jobs[j]
    /\ \A e \in announcing' \ announcing : jobs[e.job].status \notin Settled
    /\ DOMAIN log \subseteq DOMAIN log'
    /\ \A i \in DOMAIN log :
        /\ log'[i].what = log[i].what
        /\ (Open(i) \/ log'[i] = log[i])
    /\ \A i \in DOMAIN log' \ DOMAIN log : log'[i].what \in announcing
    /\ lastSeq <= lastSeq'
    /\ \A i \in batch' \ batch : Visible(i) /\ log[i].seq > lastSeq
    /\ batch' \subseteq DOMAIN log
    /\ \A w \in Subs : InChannel(w)' \subseteq InChannel(w) \union batch

LEMMA DoneStays ==
    ASSUME TypeOK, DeliveryTypeOK', Onward, NEW j \in DOMAIN jobs, ~Undelivered(j)
    PROVE  ~Undelivered(j)'
<1>1. /\ jobs[j].status \in Settled
      /\ \A e \in announcing : e.job /= j
      /\ \A i \in DOMAIN log : log[i].what.job = j =>
            /\ ~Open(i) /\ i \notin batch
            /\ ~(Visible(i) /\ log[i].seq > lastSeq)
  BY DEF Undelivered
<1>2. jobs'[j].status \in Settled
  BY <1>1 DEF Onward
<1>3. \A e \in announcing' : e.job /= j
  BY <1>1 DEF Onward
<1>4. ASSUME NEW i \in DOMAIN log', log'[i].what.job = j
      PROVE  /\ ~Open(i)' /\ i \notin batch'
             /\ ~(Visible(i)' /\ log'[i].seq > lastSeq')
  <2>1. i \in DOMAIN log /\ log[i].what.job = j
    BY <1>1, <1>4 DEF Onward
  <2>2. /\ ~Open(i) /\ i \notin batch /\ ~(Visible(i) /\ log[i].seq > lastSeq)
    BY <1>1, <2>1
  <2>3. log'[i] = log[i]
    BY <2>1, <2>2 DEF Onward
  <2>4. i \notin batch'
    BY <2>1, <2>2 DEF Onward
  <2>5. ~Open(i)' /\ (Visible(i)' <=> Visible(i))
    BY <2>2, <2>3 DEF Open, Visible
  <2>6. log[i].seq \in Nat /\ lastSeq \in Nat /\ lastSeq' \in Nat /\ lastSeq <= lastSeq'
    BY <2>1, LogFacts DEF TypeOK, DeliveryTypeOK, Onward
  <2> QED  BY <2>2, <2>3, <2>4, <2>5, <2>6
<1> QED  BY <1>2, <1>3, <1>4 DEF Undelivered

LEMMA EventsFounded ==
    ASSUME TypeOK, JobsFounded, Onward
    PROVE  (\A i \in DOMAIN log : Founded(log[i].what))'
<1>1. \A e : Founded(e) => Founded(e)'
  BY DEF Founded, Onward
<1>2. ASSUME NEW i \in DOMAIN log' PROVE Founded(log'[i].what)
  <2>1. CASE i \in DOMAIN log
    BY <2>1 DEF JobsFounded, Onward
  <2>2. CASE i \notin DOMAIN log
    BY <2>2 DEF JobsFounded, Onward
  <2> QED  BY <2>1, <2>2
<1>3. \A e : Founded(e)' <=> (/\ e.job \in DOMAIN jobs'
                              /\ e.status = "completed" => e.job \in succeeded')
  BY DEF Founded
<1>4. \A i \in DOMAIN log' : /\ log'[i].what.job \in DOMAIN jobs'
                             /\ log'[i].what.status = "completed" =>
                                   log'[i].what.job \in succeeded'
  BY <1>1, <1>2, <1>3
<1> QED  BY <1>4 DEF Founded

(* A waiter that a step does not concern.                                  *)
WaiterOK(w) ==
    /\ NotMisled(w)
    /\ answer[w] = "completed" => IF source[w] /= None THEN source[w] \in succeeded
                                  ELSE \E j \in succeeded : j >= mine[w]
    /\ (source[w] /= None /\ source[w] < mine[w]) => behind[w]

LEMMA ChannelHeld ==
    ASSUME DeliveryTypeOK, NEW w \in Subs
    PROVE  InChannel(w) \subseteq DOMAIN log
<1>1. chan[w] \in Seq(DOMAIN log)
  BY DEF DeliveryTypeOK
<1> QED  BY <1>1 DEF InChannel

LEMMA NotMisledStays ==
    ASSUME TypeOK, TypeOK', Onward, NEW w \in Subs, NotMisled(w),
           at'[w] = at[w], mine'[w] = mine[w], behind'[w] = behind[w]
    PROVE  NotMisled(w)'
<1> SUFFICES ASSUME at[w] \in {"asking", "missing", "waiting"}, ~behind[w],
                    NEW j \in DOMAIN jobs', j < mine[w]
             PROVE  /\ ~Undelivered(j)'
                    /\ at[w] = "waiting" =>
                          \A i \in InChannel(w)' : log'[i].what.job /= j
  BY DEF NotMisled
<1>1. j \in DOMAIN jobs
  <2>1. mine[w] \in DOMAIN jobs \union {None} /\ DOMAIN jobs = 1 .. Len(jobs)
        /\ Len(jobs) \in Nat
    BY JobFacts DEF TypeOK
  <2>2. jobs' \in Seq(JobRow)
    BY DEF TypeOK, JobRow
  <2>3. j \in Nat \ {0}
    BY <2>2
  <2> QED  BY <2>1, <2>3 DEF None
<1>2. /\ ~Undelivered(j)
      /\ at[w] = "waiting" => \A i \in InChannel(w) : log[i].what.job /= j
  BY <1>1 DEF NotMisled
<1>3. ~Undelivered(j)'
  BY <1>1, <1>2, DoneStays DEF TypeOK
<1>4. ASSUME at[w] = "waiting", NEW i \in InChannel(w)' PROVE log'[i].what.job /= j
  <2>1. i \in InChannel(w) \union batch /\ i \in DOMAIN log
    BY ChannelHeld DEF Onward, TypeOK, DeliveryTypeOK
  <2>2. log[i].what.job /= j
    BY <1>2, <1>4, <2>1 DEF Undelivered
  <2> QED  BY <2>1, <2>2 DEF Onward
<1> QED  BY <1>3, <1>4

LEMMA OtherWaiter ==
    ASSUME TypeOK, TypeOK', Onward, NEW w \in Subs, WaiterOK(w),
           at'[w] = at[w], mine'[w] = mine[w], behind'[w] = behind[w],
           answer'[w] = answer[w], source'[w] = source[w]
    PROVE  WaiterOK(w)'
<1>1. NotMisled(w)'
  BY NotMisledStays DEF WaiterOK
<1>2. succeeded \subseteq succeeded'
  BY DEF Onward
<1> QED  BY <1>1, <1>2 DEF WaiterOK

-----------------------------------------------------------------------------
(* Every step goes on like that.                                           *)

LEMMA PublishOnward ==
    ASSUME TypeOK, RowsOK, DeliveredOnce, Publish
    PROVE  Onward /\ DeliveryTypeOK' /\ RowsOK' /\ DeliveredOnce'
<1>1. /\ DOMAIN log' = DOMAIN log
      /\ \A i \in DOMAIN log : /\ log'[i].what = log[i].what
                               /\ Open(i) \/ log'[i] = log[i]
  BY RowsChange DEF Publish, TypeOK, RowsOK
<1>2. Published /\ DeliveryTypeOK' /\ RowsOK' /\ DeliveredOnce'
  BY PublishStepKeeps DEF Publish, TypeOK
<1>3. UNCHANGED <<jobs, announcing, succeeded, lastSeq, batch, chan>>
  BY <1>2 DEF Publish, Published, jobVars
<1>4. lastSeq \in Nat /\ batch \subseteq DOMAIN log
  BY LogFacts DEF TypeOK, DeliveryTypeOK
<1> QED  BY <1>1, <1>2, <1>3, <1>4 DEF Onward, InChannel

LEMMA DeliverOnward ==
    ASSUME TypeOK, RowsOK, DeliveredOnce, Deliver
    PROVE  Onward /\ DeliveryTypeOK' /\ RowsOK' /\ DeliveredOnce'
<1>1. DeliveryTypeOK' /\ RowsOK' /\ DeliveredOnce' /\ log' = log
  BY PollerStepKeeps DEF Deliver, TypeOK
<1>2. UNCHANGED <<jobs, announcing, succeeded>>
  BY DEF Deliver, jobVars
<1>3. lastSeq \in Nat /\ batch \subseteq DOMAIN log
  BY LogFacts DEF TypeOK, DeliveryTypeOK
<1>4. /\ lastSeq <= lastSeq' /\ batch' \subseteq DOMAIN log
      /\ \A i \in batch' \ batch : Visible(i) /\ log[i].seq > lastSeq
      /\ \A w \in Subs : InChannel(w)' \subseteq InChannel(w) \union batch
  <2>1. CASE Poll
    <3>1. /\ lastSeq' \in 0 .. MaxEvents /\ lastSeq < lastSeq'
          /\ batch' \subseteq DOMAIN log /\ chan' = chan
          /\ \A i \in batch' : Visible(i) /\ lastSeq < log[i].seq
      BY <2>1, PollEffect DEF TypeOK
    <3>2. \A i \in DOMAIN log : log[i].seq \in Nat
      BY LogFacts DEF TypeOK
    <3> QED  BY <1>3, <3>1, <3>2, EventBounds DEF InChannel
  <2>2. CASE NotifiedForNothing
    BY <1>3, <2>2 DEF NotifiedForNothing, subscriberVars, InChannel
  <2>3. CASE Broadcast
    <3>1. PICK i \in batch :
            /\ batch' = batch \ {i} /\ lastSeq' = lastSeq
            /\ chan' \in [Subs -> Seq(DOMAIN log)]
            /\ \A w \in Subs :
                 \/ /\ Len(chan'[w]) = Len(chan[w]) + 1
                    /\ chan'[w][Len(chan[w]) + 1] = i
                    /\ \A k \in DOMAIN chan[w] : chan'[w][k] = chan[w][k]
                 \/ chan'[w] = chan[w]
      BY <2>3, BroadcastEffect DEF TypeOK
    <3>2. ASSUME NEW w \in Subs PROVE InChannel(w)' \subseteq InChannel(w) \union batch
      <4>1. CASE chan'[w] = chan[w]
        BY <4>1 DEF InChannel
      <4>2. CASE /\ Len(chan'[w]) = Len(chan[w]) + 1
                 /\ chan'[w][Len(chan[w]) + 1] = i
                 /\ \A k \in DOMAIN chan[w] : chan'[w][k] = chan[w][k]
        <5>1. chan[w] \in Seq(DOMAIN log) /\ chan'[w] \in Seq(DOMAIN log)
          BY <3>1 DEF TypeOK, DeliveryTypeOK
        <5>2. \A k \in DOMAIN chan'[w] : k \in DOMAIN chan[w] \/ k = Len(chan[w]) + 1
          BY <4>2, <5>1
        <5> QED  BY <4>2, <5>2 DEF InChannel
      <4> QED  BY <3>1, <4>1, <4>2
    <3> QED  BY <1>3, <3>1, <3>2
  <2> QED  BY <2>1, <2>2, <2>3 DEF Deliver, PollerStep, PollOnTick, PollOnNotify
<1> QED  BY <1>1, <1>2, <1>4 DEF Onward

LEMMA QueueOnward ==
    ASSUME TypeOK, RowsOK, DeliveredOnce, JobsFounded, QueueStep
    PROVE  Onward /\ DeliveryTypeOK' /\ RowsOK' /\ DeliveredOnce'
<1>1. QueueMoved
  BY QueueMoves
<1>2. DeliveryTypeOK /\ lastSeq \in Nat /\ batch \subseteq DOMAIN log
      /\ announcing \subseteq Contents
  BY LogFacts, JobWaitContents DEF TypeOK, DeliveryTypeOK
<1>3. /\ DeliveryTypeOK' /\ RowsOK' /\ DeliveredOnce'
      /\ UNCHANGED <<lastSeq, batch, chan>>
      /\ DOMAIN log \subseteq DOMAIN log' /\ \A i \in DOMAIN log : log'[i] = log[i]
      /\ \A i \in DOMAIN log' \ DOMAIN log : log'[i].what \in announcing
  <2>1. CASE UNCHANGED deliveryVars
    BY <1>2, <2>1, SameDeliveryKeeps DEF deliveryVars
  <2>2. ASSUME NEW e \in announcing, Begin(e)
        PROVE  /\ DeliveryTypeOK' /\ RowsOK' /\ DeliveredOnce'
               /\ UNCHANGED <<lastSeq, batch, chan>>
               /\ DOMAIN log \subseteq DOMAIN log'
               /\ \A i \in DOMAIN log : log'[i] = log[i]
               /\ \A i \in DOMAIN log' \ DOMAIN log : log'[i].what \in announcing
    <3>1. e \in Contents
      BY <1>2
    <3>2. DeliveryTypeOK' /\ RowsOK' /\ DeliveredOnce'
      BY <1>2, <2>2, <3>1, PublishStepKeeps
    <3>3. /\ DOMAIN log \subseteq DOMAIN log' /\ \A i \in DOMAIN log : log'[i] = log[i]
          /\ \A i \in DOMAIN log' \ DOMAIN log : log'[i].what = e
      BY <1>2, <2>2, <3>1, RowBegun
    <3> QED  BY <2>2, <3>2, <3>3 DEF Begin, pollerVars, subscriberVars
  <2> QED  BY <1>1, <2>1, <2>2 DEF QueueMoved
<1>4. /\ DOMAIN jobs \subseteq DOMAIN jobs' /\ succeeded \subseteq succeeded'
      /\ \A j \in DOMAIN jobs : jobs[j].status \in Settled => jobs'[j] = jobs[j]
      /\ \A e \in announcing' \ announcing : jobs[e.job].status \notin Settled
  BY <1>1 DEF QueueMoved, Settled
<1> QED  BY <1>2, <1>3, <1>4 DEF Onward, InChannel

LEMMA WaiterOnward ==
    ASSUME TypeOK, RowsOK, DeliveredOnce, NEW w \in Subs, WaiterStep(w)
    PROVE  /\ Onward /\ DeliveryTypeOK' /\ RowsOK' /\ DeliveredOnce'
           /\ log' = log /\ UNCHANGED <<executing, announcing, succeeded>>
           /\ jobs' \in Seq(JobRow) /\ Len(jobs') <= MaxJobs
           /\ \A j \in DOMAIN jobs : jobs'[j] = jobs[j]
           /\ \A j \in DOMAIN jobs' \ DOMAIN jobs : jobs'[j].status = "pending"
<1>0. DeliveryTypeOK /\ lastSeq \in Nat /\ batch \subseteq DOMAIN log
  BY LogFacts DEF TypeOK, DeliveryTypeOK
<1>1. /\ UNCHANGED <<executing, announcing, succeeded>>
      /\ jobs' \in Seq(JobRow) /\ Len(jobs') <= MaxJobs
      /\ DOMAIN jobs \subseteq DOMAIN jobs'
      /\ \A j \in DOMAIN jobs : jobs'[j] = jobs[j]
      /\ \A j \in DOMAIN jobs' \ DOMAIN jobs : jobs'[j].status = "pending"
  <2>1. CASE Ask(w)
    <3>1. CASE UNCHANGED jobs
      BY <2>1, <3>1 DEF Ask, TypeOK, JobRow
    <3>2. CASE Len(jobs) < MaxJobs /\ jobs' = Append(jobs, Pending)
      BY <2>1, <3>2, AddedJob DEF Ask
    <3> QED  BY <2>1, <3>1, <3>2 DEF Ask
  <2>2. CASE UNCHANGED jobVars
    BY <2>2 DEF jobVars, TypeOK, JobRow
  <2> QED  BY <2>1, <2>2 DEF WaiterStep, FoundSettled, FoundActive, StartWaiting,
                             Hear, Look, GiveUp, Leave
<1>2. /\ DeliveryTypeOK' /\ RowsOK' /\ DeliveredOnce' /\ UNCHANGED <<log, lastSeq, batch>>
      /\ \A v \in Subs : InChannel(v)' \subseteq InChannel(v)
  <2>1. CASE Subscribe(w) \/ Unsubscribe(w)
    <3>1. /\ UNCHANGED <<log, lastSeq, batch>> /\ chan'[w] = <<>>
          /\ \A v \in Subs : v /= w => chan'[v] = chan[v]
      BY <1>0, <2>1, SubscribeTypes
    <3>2. \A v \in Subs : InChannel(v)' \subseteq InChannel(v)
      BY <3>1, EmptyChannel DEF InChannel
    <3> QED  BY <1>0, <2>1, <3>1, <3>2, SubscriberStepKeeps
  <2>2. CASE Take(w)
    <3>1. /\ InChannel(w)' = InChannel(w) \ {Head(chan[w])}
          /\ \A v \in Subs : v /= w => chan'[v] = chan[v]
      BY <1>0, <2>2, TakeEffect
    <3>2. \A v \in Subs : InChannel(v)' \subseteq InChannel(v)
      BY <3>1 DEF InChannel
    <3> QED  BY <1>0, <2>2, <3>2, SubscriberStepKeeps DEF Take, pollerVars
  <2>3. CASE UNCHANGED deliveryVars
    <3>1. DeliveryTypeOK' /\ RowsOK' /\ DeliveredOnce'
      BY <1>0, <2>3, SameDeliveryKeeps
    <3> QED  BY <2>3, <3>1 DEF deliveryVars, InChannel
  <2> QED  BY <2>1, <2>2, <2>3 DEF WaiterStep, Ask, FoundSettled, FoundActive,
                                   StartWaiting, Hear, Look, GiveUp, Leave
<1> QED  BY <1>0, <1>1, <1>2 DEF Onward

-----------------------------------------------------------------------------
(* The invariant, for the steps of the environment and of the waiters.     *)
Good == /\ TypeOK /\ RowsOK /\ DeliveredOnce /\ JobsFounded
        /\ \A w \in Subs : WaiterOK(w)

LEMMA GoodIsInv == Good <=> WaitInv
  BY DEF Good, WaitInv, RowsOK, WaiterOK, CompletedHappened, MisledWhenBehind

\* Publishers, the poller and the queue.
LEMMA EnvironmentKeeps ==
    ASSUME Good, Onward, DeliveryTypeOK', RowsOK', DeliveredOnce',
           UNCHANGED waitVars, UNCHANGED jobVars \/ QueueMoved
    PROVE  Good'
<1>0. TypeOK /\ JobsFounded
  BY DEF Good
<1>1. /\ jobs' \in Seq(JobRow) /\ Len(jobs') <= MaxJobs
      /\ executing' \in DOMAIN jobs' \union {None} /\ announcing' \subseteq Said
      /\ succeeded' \subseteq DOMAIN jobs'
  <2>1. CASE UNCHANGED jobVars
    BY <1>0, <2>1 DEF jobVars, TypeOK, JobRow
  <2>2. CASE QueueMoved
    BY <2>2 DEF QueueMoved
  <2> QED  BY <2>1, <2>2
<1>2. UNCHANGED <<at, mine, behind, answer, source>> /\ DOMAIN jobs \subseteq DOMAIN jobs'
  BY DEF waitVars, Onward
<1>3. TypeOK'
  BY <1>0, <1>1, <1>2 DEF TypeOK, JobRow
<1>4. JobsFounded'
  <2>1. /\ executing' /= None => jobs'[executing'].status = "running"
        /\ \A j \in DOMAIN jobs' : jobs'[j].status = "completed" => j \in succeeded'
        /\ \A e \in announcing' : /\ e.job \in DOMAIN jobs'
                                  /\ e.status = "completed" => e.job \in succeeded'
    <3>1. CASE UNCHANGED jobVars
      BY <1>0, <3>1 DEF jobVars, JobsFounded, Founded
    <3>2. CASE QueueMoved
      BY <1>0, <3>2 DEF QueueMoved, JobsFounded, Founded
    <3> QED  BY <3>1, <3>2
  <2> QED  BY <1>0, <2>1, EventsFounded DEF JobsFounded, Founded
<1>5. \A w \in Subs : WaiterOK(w)'
  BY <1>2, <1>3, OtherWaiter DEF Good
<1> QED  BY <1>3, <1>4, <1>5 DEF Good

LEMMA WaiterTypes ==
    ASSUME TypeOK, RowsOK, DeliveredOnce, JobsFounded, NEW w \in Subs, WaiterStep(w)
    PROVE  TypeOK' /\ JobsFounded'
<1>1. /\ Onward /\ DeliveryTypeOK' /\ log' = log
      /\ UNCHANGED <<executing, announcing, succeeded>>
      /\ jobs' \in Seq(JobRow) /\ Len(jobs') <= MaxJobs
      /\ \A j \in DOMAIN jobs : jobs'[j] = jobs[j]
      /\ \A j \in DOMAIN jobs' \ DOMAIN jobs : jobs'[j].status = "pending"
  BY WaiterOnward
<1>2. DOMAIN jobs \subseteq DOMAIN jobs'
  BY <1>1 DEF Onward
<1>3. /\ at' \in [Subs -> {"away", "asking", "missing", "waiting", "leaving"}]
      /\ mine' \in [Subs -> DOMAIN jobs' \union {None}]
      /\ behind' \in [Subs -> BOOLEAN]
      /\ answer' \in [Subs -> Settled \union {"none", "timeout"}]
      /\ source' \in [Subs -> DOMAIN jobs' \union {None}]
  <2>0. /\ at \in [Subs -> {"away", "asking", "missing", "waiting", "leaving"}]
        /\ mine \in [Subs -> DOMAIN jobs' \union {None}]
        /\ behind \in [Subs -> BOOLEAN]
        /\ answer \in [Subs -> Settled \union {"none", "timeout"}]
        /\ source \in [Subs -> DOMAIN jobs' \union {None}]
    BY <1>2 DEF TypeOK
  <2>1. CASE Ask(w)
    <3>1. Len(jobs') \in DOMAIN jobs' \union {None}
      <4>1. DOMAIN jobs' = 1 .. Len(jobs') /\ Len(jobs') \in Nat
        BY <1>1
      <4> QED  BY <4>1 DEF None
    <3>2. (\E j \in DOMAIN jobs : j < Len(jobs') /\ Undelivered(j)) \in BOOLEAN
      OBVIOUS
    <3> HIDE DEF Undelivered
    <3> QED  BY <2>0, <2>1, <3>1, <3>2 DEF Ask
  <2>2. CASE FoundSettled(w) \/ Look(w) \/ GiveUp(w)
    BY <2>0, <2>2 DEF FoundSettled, Look, GiveUp, Answer, NewestSettled
  <2>3. CASE FoundActive(w) \/ StartWaiting(w) \/ Leave(w)
    BY <2>0, <2>3 DEF FoundActive, StartWaiting, Leave
  <2>4. CASE Hear(w)
    <3> DEFINE e == log[Head(chan[w])].what
    <3>1. Head(chan[w]) \in DOMAIN log
      BY <2>4, TakeEffect DEF Hear, TypeOK
    <3>2. e \in Said /\ Founded(e)
      <4>1. log[Head(chan[w])] \in Row
        BY <3>1, LogFacts DEF TypeOK
      <4> QED  BY <3>1, <4>1, JobWaitContents DEF Row, JobsFounded
    <3>3. e.status \in Settled /\ e.job \in DOMAIN jobs'
      BY <1>2, <3>2 DEF Said, Founded
    <3>4. /\ answer' = [answer EXCEPT ![w] = e.status]
          /\ source' = [source EXCEPT ![w] = e.job]
          /\ at' = [at EXCEPT ![w] = "leaving"] /\ UNCHANGED <<mine, behind>>
      BY <2>4 DEF Hear, Answer
    <3> HIDE DEF e
    <3> QED  BY <2>0, <3>3, <3>4
  <2> QED  BY <2>1, <2>2, <2>3, <2>4 DEF WaiterStep
<1>4. TypeOK'
  BY <1>1, <1>2, <1>3 DEF TypeOK, JobRow
<1>5. JobsFounded'
  <2>1. /\ executing' /= None => jobs'[executing'].status = "running"
        /\ \A j \in DOMAIN jobs' : jobs'[j].status = "completed" => j \in succeeded'
        /\ \A e \in announcing' : /\ e.job \in DOMAIN jobs'
                                  /\ e.status = "completed" => e.job \in succeeded'
    BY <1>1, <1>2 DEF JobsFounded, Founded, TypeOK
  <2> QED  BY <1>1, <2>1, EventsFounded DEF JobsFounded, Founded
<1> QED  BY <1>4, <1>5

\* The newest row, when it is over: it is not older than what w enqueued.
LEMMA NewestAnswers ==
    ASSUME Good, NEW w \in Subs, jobs /= <<>>, jobs[Newest].status = "completed"
    PROVE  Newest \in succeeded /\ Newest >= mine[w]
<1>1. jobs /= <<>> /\ TypeOK /\ JobsFounded
  BY DEF Good
<1>2. /\ DOMAIN jobs = 1 .. Len(jobs) /\ Len(jobs) \in Nat
      /\ mine[w] \in DOMAIN jobs \union {None} /\ jobs \in Seq(JobRow)
  BY <1>1, JobFacts DEF TypeOK, JobRow
<1>3. Len(jobs) /= 0
  BY <1>1, <1>2
<1> QED  BY <1>1, <1>2, <1>3 DEF Newest, None, JobsFounded

LEMMA WaiterKeeps ==
    ASSUME Good, NEW w \in Subs, WaiterStep(w)
    PROVE  Good'
<1>0. /\ TypeOK /\ RowsOK /\ DeliveredOnce /\ JobsFounded /\ WaiterOK(w)
      /\ DeliveryTypeOK
  BY DEF Good, TypeOK
<1>1. /\ Onward /\ DeliveryTypeOK' /\ RowsOK' /\ DeliveredOnce' /\ log' = log
      /\ succeeded' = succeeded /\ \A j \in DOMAIN jobs : jobs'[j] = jobs[j]
  BY <1>0, WaiterOnward
<1>2. TypeOK' /\ JobsFounded'
  BY <1>0, WaiterTypes
<1>3. ASSUME NEW v \in Subs, v /= w PROVE WaiterOK(v)'
  <2>1. /\ at'[v] = at[v] /\ mine'[v] = mine[v] /\ behind'[v] = behind[v]
        /\ answer'[v] = answer[v] /\ source'[v] = source[v]
    BY <1>0, <1>3 DEF WaiterStep, Ask, FoundSettled, FoundActive, StartWaiting,
                      Hear, Look, GiveUp, Leave, Answer, TypeOK
  <2> QED  BY <1>0, <1>1, <1>2, <2>1, OtherWaiter DEF Good
<1>4. WaiterOK(w)'
  <2>1. CASE Ask(w)
    <3>1. /\ at'[w] = "asking" /\ mine'[w] = Len(jobs') /\ answer'[w] = "none"
          /\ source'[w] = None
          /\ behind'[w] = \E j \in DOMAIN jobs : j < Len(jobs') /\ Undelivered(j)
      BY <1>0, <2>1 DEF Ask, TypeOK
    <3>2. ASSUME NEW j \in DOMAIN jobs', j < Len(jobs'), ~behind'[w]
          PROVE  ~Undelivered(j)'
      <4>1. j \in DOMAIN jobs
        <5>1. CASE jobs' = jobs
          BY <3>2, <5>1
        <5>2. CASE Len(jobs) < MaxJobs /\ jobs' = Append(jobs, Pending)
          BY <1>0, <3>2, <5>2, AddedJob
        <5> QED  BY <2>1, <5>1, <5>2 DEF Ask
      <4>2. ~Undelivered(j)
        BY <3>1, <3>2, <4>1
      <4> QED  BY <1>0, <1>1, <4>1, <4>2, DoneStays
    <3>3. NotMisled(w)'
      BY <3>1, <3>2 DEF NotMisled
    <3> QED  BY <3>1, <3>3 DEF WaiterOK
  <2>2. CASE FoundSettled(w) \/ Look(w)
    <3>1. /\ at'[w] \in {"away", "leaving"} /\ mine'[w] = mine[w]
          /\ answer'[w] = jobs[Newest].status /\ source'[w] = None /\ jobs /= <<>>
      BY <1>0, <2>2 DEF FoundSettled, Look, Answer, TypeOK, NewestSettled
    <3>2. answer'[w] = "completed" => Newest \in succeeded' /\ Newest >= mine'[w]
      BY <1>1, <3>1, NewestAnswers
    <3> QED  BY <1>0, <3>1, <3>2 DEF WaiterOK, NotMisled
  <2>3. CASE GiveUp(w)
    <3>1. /\ at'[w] = "leaving" /\ answer'[w] = "timeout" /\ source'[w] = None
          /\ at[w] /= "away"
      BY <1>0, <2>3 DEF GiveUp, Answer, TypeOK
    <3> QED  BY <1>0, <3>1 DEF WaiterOK, NotMisled
  <2>4. CASE FoundActive(w) \/ StartWaiting(w) \/ Leave(w)
    <3>1. /\ mine'[w] = mine[w] /\ behind'[w] = behind[w]
          /\ answer'[w] = answer[w] /\ source'[w] = source[w] /\ at[w] /= "away"
      BY <1>0, <2>4 DEF FoundActive, StartWaiting, Leave
    <3>2. NotMisled(w)'
      <4>1. CASE Leave(w)
        <5>1. at'[w] = "away"
          BY <1>0, <4>1 DEF Leave, TypeOK
        <5> QED  BY <5>1 DEF NotMisled
      <4>2. CASE FoundActive(w) \/ StartWaiting(w)
        <5>1. at[w] \in {"asking", "missing"}
          BY <4>2 DEF FoundActive, StartWaiting
        <5>2. ASSUME ~behind[w], NEW j \in DOMAIN jobs', j < mine[w]
              PROVE  ~Undelivered(j)'
          <6>1. /\ jobs' = jobs
            BY <4>2 DEF FoundActive, StartWaiting, jobVars
          <6>2. ~Undelivered(j)
            BY <1>0, <5>1, <5>2, <6>1 DEF WaiterOK, NotMisled
          <6> QED  BY <1>0, <1>1, <5>2, <6>1, <6>2, DoneStays
        <5>3. at'[w] = "waiting" => InChannel(w)' = {}
          <6>1. CASE FoundActive(w)
            BY <1>0, <6>1 DEF FoundActive, TypeOK
          <6>2. CASE StartWaiting(w)
            <7>1. chan'[w] = <<>>
              BY <1>0, <6>2, SubscribeTypes DEF StartWaiting
            <7> QED  BY <7>1, EmptyChannel DEF InChannel
          <6> QED  BY <4>2, <6>1, <6>2
        <5> QED  BY <3>1, <5>2, <5>3 DEF NotMisled
      <4> QED  BY <2>4, <4>1, <4>2
    <3> QED  BY <1>0, <1>1, <3>1, <3>2 DEF WaiterOK
  <2>5. CASE Hear(w)
    <3> DEFINE i == Head(chan[w])
               e == log[i].what
    <3>1. i \in DOMAIN log /\ i \in InChannel(w) /\ at[w] = "waiting"
      BY <1>0, <2>5, TakeEffect DEF Hear
    <3>2. /\ at'[w] = "leaving" /\ mine'[w] = mine[w] /\ behind'[w] = behind[w]
          /\ answer'[w] = e.status /\ source'[w] = e.job
      BY <1>0, <2>5 DEF Hear, Answer, TypeOK
    <3>3. Founded(e)
      BY <1>0, <3>1 DEF JobsFounded
    <3>4. e.job < mine[w] => behind[w]
      BY <1>0, <3>1, <3>3 DEF WaiterOK, NotMisled, Founded
    <3>5. e.job /= None
      BY <1>0, <3>3, JobFacts DEF Founded
    <3> HIDE DEF i, e
    <3> QED  BY <1>0, <1>1, <3>1, <3>2, <3>3, <3>4, <3>5
             DEF WaiterOK, NotMisled, Founded
  <2> QED  BY <2>1, <2>2, <2>3, <2>4, <2>5 DEF WaiterStep
<1>5. \A v \in Subs : WaiterOK(v)'
  BY <1>3, <1>4
<1> QED  BY <1>1, <1>2, <1>5 DEF Good

(* WaitInv is an invariant.                                                *)
THEOREM WaitInvariant == Spec => []WaitInv
<1>1. Init => Good
  <2> SUFFICES ASSUME Init PROVE Good
    OBVIOUS
  <2>1. DeliveryTypeOK /\ RowsOK /\ DeliveredOnce /\ log = <<>>
    BY InitDelivery DEF Init, DeliveryInit
  <2>2. jobs = <<>> /\ jobs \in Seq(JobRow) /\ DOMAIN jobs = {} /\ Len(jobs) = 0
        /\ DOMAIN log = {}
    BY <2>1, EmptyChannel DEF Init
  <2>3. TypeOK
    BY <2>1, <2>2, JobWaitBounds DEF Init, TypeOK, JobRow
  <2>4. JobsFounded
    BY <2>2 DEF Init, JobsFounded
  <2>5. \A w \in Subs : WaiterOK(w)
    BY DEF Init, WaiterOK, NotMisled
  <2> QED  BY <2>1, <2>3, <2>4, <2>5 DEF Good
<1>2. Good /\ [Next]_vars => Good'
  <2> SUFFICES ASSUME Good, [Next]_vars PROVE Good'
    OBVIOUS
  <2>0. TypeOK /\ RowsOK /\ DeliveredOnce /\ JobsFounded /\ DeliveryTypeOK
    BY DEF Good, TypeOK
  <2>1. CASE Publish
    BY <2>0, <2>1, PublishOnward, EnvironmentKeeps DEF Publish
  <2>2. CASE Deliver
    BY <2>0, <2>2, DeliverOnward, EnvironmentKeeps DEF Deliver
  <2>3. CASE QueueStep
    <3>1. QueueMoved /\ UNCHANGED waitVars
      BY <2>0, <2>3, QueueMoves DEF QueueMoved
    <3> QED  BY <2>0, <2>3, <3>1, QueueOnward, EnvironmentKeeps
  <2>4. ASSUME NEW w \in Subs, WaiterStep(w) PROVE Good'
    BY <2>4, WaiterKeeps
  <2>5. CASE UNCHANGED vars
    <3>1. UNCHANGED deliveryVars /\ UNCHANGED jobVars /\ UNCHANGED waitVars
      BY <2>5 DEF vars
    <3>2. DeliveryTypeOK' /\ RowsOK' /\ DeliveredOnce'
      BY <2>0, <3>1, SameDeliveryKeeps
    <3>3. Onward
      BY <2>0, <3>1, LogFacts DEF Onward, deliveryVars, jobVars, DeliveryTypeOK, InChannel
    <3> QED  BY <3>1, <3>2, <3>3, EnvironmentKeeps
  <2> QED  BY <2>1, <2>2, <2>3, <2>4, <2>5 DEF Next
<1> QED  BY <1>1, <1>2, GoodIsInv, PTL DEF Spec

(* Every variable of the jobs, the events and the waiters stays in its     *)
(* type.                                                                   *)
THEOREM WaitTypes == Spec => []TypeOK
<1>1. WaitInv => TypeOK
  BY DEF WaitInv
<1> QED  BY <1>1, WaitInvariant, PTL

(* "completed" is only ever answered for a job whose executor succeeded    *)
(* (dispatcher.go:392, wait_job.go:70).                                    *)
THEOREM CompletionsHappened == Spec => []CompletedHappened
<1>1. WaitInv => CompletedHappened
  BY DEF WaitInv
<1> QED  BY <1>1, WaitInvariant, PTL

(* An older job's completion is taken for an answer only if it was still   *)
(* to be delivered when the waiter asked (wait_job.go:70).                 *)
THEOREM OldAnswersWereLate == Spec => []MisledWhenBehind
<1>1. WaitInv => MisledWhenBehind
  BY DEF WaitInv
<1> QED  BY <1>1, WaitInvariant, PTL

-----------------------------------------------------------------------------
(* The queue that the waiters see is the contract of ResourceJobs for one  *)
(* resource: each of its steps is one of the contract's, and, as far as    *)
(* the bounds allow, each of the contract's is one of its own.             *)

\* Statuses and attempts tell everything of the rows.
LEMMA RowsTold ==
    ASSUME NEW a \in Seq(JobRow), NEW b \in Seq(JobRow),
           Len(a) <= MaxJobs, Len(b) <= MaxJobs,
           RowStatus(a) = RowStatus(b), RowAttempts(a) = RowAttempts(b)
    PROVE  a = b
<1>1. /\ DOMAIN a = 1 .. Len(a) /\ DOMAIN b = 1 .. Len(b) /\ MaxJobs \in Nat
      /\ Len(a) \in Nat /\ Len(b) \in Nat
      /\ DOMAIN a \subseteq Jobs /\ DOMAIN b \subseteq Jobs
  BY JobWaitBounds DEF Jobs
<1>2. \A j \in Jobs : j \in DOMAIN a <=> j \in DOMAIN b
  <2> SUFFICES ASSUME NEW j \in Jobs PROVE j \in DOMAIN a <=> j \in DOMAIN b
    OBVIOUS
  <2>1. RowStatus(a)[j] = RowStatus(b)[j]
    OBVIOUS
  <2>2. /\ j \in DOMAIN a => a[j] \in JobRow
        /\ j \in DOMAIN b => b[j] \in JobRow
    OBVIOUS
  <2>3. \A r \in JobRow : r.status # "absent"
    BY DEF JobRow, Settled
  <2> QED  BY <2>1, <2>2, <2>3 DEF RowStatus
<1>3. DOMAIN a = DOMAIN b
  BY <1>1, <1>2
<1>4. \A j \in DOMAIN a : a[j] = b[j]
  <2> SUFFICES ASSUME NEW j \in DOMAIN a PROVE a[j] = b[j]
    OBVIOUS
  <2>1. j \in Jobs /\ j \in DOMAIN b /\ a[j] \in JobRow /\ b[j] \in JobRow
    BY <1>1, <1>3
  <2>2. RowStatus(a)[j] = RowStatus(b)[j] /\ RowAttempts(a)[j] = RowAttempts(b)[j]
    OBVIOUS
  <2>3. a[j].status = b[j].status /\ a[j].attempts = b[j].attempts
    BY <2>1, <2>2 DEF RowStatus, RowAttempts
  <2> QED  BY <2>1, <2>3 DEF JobRow
<1> QED  BY <1>1, <1>3, <1>4

LEMMA RowWritten ==
    ASSUME TypeOK, NEW k \in DOMAIN jobs, NEW r \in JobRow
    PROVE  LET new == [jobs EXCEPT ![k] = r] IN
           /\ new \in Seq(JobRow) /\ Len(new) = Len(jobs)
           /\ RowStatus(new) = [RowStatus(jobs) EXCEPT ![k] = r.status]
           /\ RowAttempts(new) = [RowAttempts(jobs) EXCEPT ![k] = r.attempts]
<1>1. jobs \in Seq(JobRow) /\ k \in Jobs
  BY JobFacts DEF TypeOK, JobRow
<1> DEFINE new == [jobs EXCEPT ![k] = r]
<1>2. /\ new \in Seq(JobRow) /\ Len(new) = Len(jobs) /\ DOMAIN new = DOMAIN jobs
      /\ new[k] = r /\ \A j \in DOMAIN jobs : j /= k => new[j] = jobs[j]
  BY <1>1
<1> HIDE DEF new
<1>3. /\ RowStatus(new) = [RowStatus(jobs) EXCEPT ![k] = r.status]
      /\ RowAttempts(new) = [RowAttempts(jobs) EXCEPT ![k] = r.attempts]
  BY <1>1, <1>2 DEF RowStatus, RowAttempts
<1> QED  BY <1>2, <1>3 DEF new

LEMMA RowAppended ==
    ASSUME TypeOK, Len(jobs) < MaxJobs
    PROVE  LET new == Append(jobs, Pending)
               j == Len(jobs) + 1
           IN  /\ j \in Jobs /\ RowStatus(jobs)[j] = "absent"
               /\ new \in Seq(JobRow) /\ Len(new) <= MaxJobs
               /\ RowStatus(new) = [RowStatus(jobs) EXCEPT ![j] = "pending"]
               /\ RowAttempts(new) = RowAttempts(jobs)
<1>1. /\ jobs \in Seq(JobRow) /\ DOMAIN jobs = 1 .. Len(jobs)
      /\ Len(jobs) \in Nat /\ MaxJobs \in Nat
  BY JobFacts DEF TypeOK, JobRow
<1>2. Pending \in JobRow
  BY JobWaitBounds DEF Pending, JobRow
<1> DEFINE new == Append(jobs, Pending)
           k == Len(jobs) + 1
<1>3. /\ new \in Seq(JobRow) /\ Len(new) = k /\ DOMAIN new = 1 .. k
      /\ \A j \in DOMAIN jobs : new[j] = jobs[j]
      /\ new[k] = Pending
  BY <1>1, <1>2
<1>4. k \in Jobs /\ k \notin DOMAIN jobs
  BY <1>1 DEF Jobs
<1> HIDE DEF new, k
<1>5. \A j \in Jobs : j \in DOMAIN new <=> (j \in DOMAIN jobs \/ j = k)
  BY <1>1, <1>3 DEF k
<1>6. RowStatus(jobs)[k] = "absent" /\ RowAttempts(jobs)[k] = 0
  BY <1>4 DEF RowStatus, RowAttempts
<1>7. RowStatus(new) = [RowStatus(jobs) EXCEPT ![k] = "pending"]
  <2>1. ASSUME NEW j \in Jobs, j # k PROVE RowStatus(new)[j] = RowStatus(jobs)[j]
    BY <1>3, <1>5, <2>1 DEF RowStatus
  <2>2. RowStatus(new)[k] = "pending"
    BY <1>3, <1>4, <1>5 DEF RowStatus, Pending
  <2> QED  BY <1>4, <2>1, <2>2 DEF RowStatus
<1>8. RowAttempts(new) = RowAttempts(jobs)
  <2> SUFFICES ASSUME NEW j \in Jobs PROVE RowAttempts(new)[j] = RowAttempts(jobs)[j]
    BY DEF RowAttempts
  <2>1. CASE j = k
    BY <1>3, <1>4, <1>6, <2>1 DEF RowAttempts, Pending
  <2>2. CASE j # k
    BY <1>3, <1>5, <2>2 DEF RowAttempts
  <2> QED  BY <2>1, <2>2
<1> QED  BY <1>1, <1>3, <1>4, <1>6, <1>7, <1>8 DEF new, k

LEMMA StatusWritten ==
    ASSUME TypeOK, NEW k \in DOMAIN jobs,
           NEW st \in {"pending", "running"} \union Settled
    PROVE  LET new == [jobs EXCEPT ![k].status = st] IN
           /\ new \in Seq(JobRow) /\ Len(new) = Len(jobs)
           /\ RowStatus(new) = [RowStatus(jobs) EXCEPT ![k] = st]
           /\ RowAttempts(new) = RowAttempts(jobs)
<1> DEFINE r == [jobs[k] EXCEPT !.status = st]
<1>1. k \in Jobs /\ jobs[k] \in JobRow
  BY JobFacts
<1>2. r \in JobRow /\ r.status = st /\ r.attempts = jobs[k].attempts
  BY <1>1 DEF JobRow
<1>3. [jobs EXCEPT ![k].status = st] = [jobs EXCEPT ![k] = r]
  OBVIOUS
<1>4. [RowAttempts(jobs) EXCEPT ![k] = jobs[k].attempts] = RowAttempts(jobs)
  BY <1>1 DEF RowAttempts
<1> HIDE DEF r
<1> QED  BY <1>2, <1>3, <1>4, RowWritten

\* What a claim makes of a row.
Claimed(j) == [status |-> "running", attempts |-> jobs[j].attempts + 1]

LEMMA RowClaimed ==
    ASSUME TypeOK, NEW j \in DOMAIN jobs, jobs[j].attempts < MaxClaims
    PROVE  LET new == [jobs EXCEPT ![j] = Claimed(j)] IN
           /\ new \in Seq(JobRow) /\ Len(new) = Len(jobs)
           /\ RowStatus(new) = [RowStatus(jobs) EXCEPT ![j] = "running"]
           /\ RowAttempts(new) = [RowAttempts(jobs) EXCEPT ![j] = @ + 1]
<1>1. j \in Jobs /\ jobs[j] \in JobRow /\ MaxClaims \in Nat
  BY JobFacts
<1>2. /\ Claimed(j) \in JobRow /\ Claimed(j).status = "running"
      /\ Claimed(j).attempts = jobs[j].attempts + 1
  BY <1>1 DEF Claimed, JobRow
<1>3. RowAttempts(jobs)[j] = jobs[j].attempts
  BY <1>1 DEF RowAttempts
<1> QED  BY <1>2, <1>3, RowWritten

LEMMA SeenRows ==
    ASSUME TypeOK, NEW j \in DOMAIN jobs
    PROVE  /\ j \in Jobs /\ j /= None
           /\ RowStatus(jobs)[j] = jobs[j].status
           /\ RowAttempts(jobs)[j] = jobs[j].attempts
  BY JobFacts DEF RowStatus, RowAttempts

\* What a dispatcher reports is a result of the job it executes, or none.
LEMMA ReportsKeepContract ==
    ASSUME TypeOK, JobsFounded, Succeed \/ FailAttempt
    PROVE  \/ Queue!Complete(executing) \/ Queue!Retry(executing)
           \/ Queue!Fail(executing) \/ Queue!Abandon({executing})
<1>1. /\ executing \in DOMAIN jobs /\ executing' = None
      /\ executing \in Jobs /\ executing /= None
      /\ RowAttempts(jobs)[executing] = jobs[executing].attempts
  BY SeenRows DEF Succeed, FailAttempt, TypeOK
<1>2. /\ executing \in {executing} \ {None}
      /\ {executing'} \ {None} = ({executing} \ {None}) \ {executing}
  BY <1>1
<1>3. ASSUME NEW st \in {"pending", "running"} \union Settled,
             jobs' = [jobs EXCEPT ![executing].status = st]
      PROVE  Queue!Finish(executing, st)
  BY <1>1, <1>2, <1>3, StatusWritten DEF Queue!Finish
<1>4. CASE jobs' = jobs
  BY <1>2, <1>4 DEF Queue!Abandon
<1>5. CASE Succeed /\ jobs' # jobs
  BY <1>3, <1>5 DEF Succeed, Queue!Complete, Settled
<1>6. CASE FailAttempt /\ jobs' # jobs
  <2>1. jobs[executing].attempts \in Nat /\ MaxAttempts \in Nat
    BY <1>1, JobFacts, JobWaitBounds DEF JobRow
  <2>2. CASE jobs[executing].attempts < MaxAttempts
    BY <1>1, <1>3, <1>6, <2>2 DEF FailAttempt, Queue!Retry
  <2>3. CASE ~(jobs[executing].attempts < MaxAttempts)
    BY <1>1, <1>3, <1>6, <2>1, <2>3 DEF FailAttempt, Queue!Fail, Settled
  <2> QED  BY <2>2, <2>3
<1> QED  BY <1>4, <1>5, <1>6

LEMMA WaitersKeepContract ==
    ASSUME TypeOK, JobsFounded, [Next]_vars
    PROVE  [Queue!Next]_(Queue!vars)
<1>1. ASSUME UNCHANGED <<jobs, executing>> PROVE UNCHANGED Queue!vars
  BY <1>1 DEF Queue!vars
<1>2. ASSUME Len(jobs) < MaxJobs, jobs' = Append(jobs, Pending), UNCHANGED executing
      PROVE  \E j \in Jobs : Queue!Submit(j)
  BY <1>2, RowAppended DEF Queue!Submit
<1>3. ASSUME NEW j \in DOMAIN jobs, Claim(j) PROVE Queue!Start(j) /\ j \in Jobs
  <2>1. /\ executing = None /\ executing' = j /\ jobs[j].status = "pending"
        /\ jobs[j].attempts < MaxClaims
        /\ \A k \in DOMAIN jobs : jobs[k].status /= "running"
        /\ jobs' = [jobs EXCEPT ![j] = Claimed(j)]
    BY <1>3 DEF Claim, Claimed
  <2>2. \A k \in Jobs : RowStatus(jobs)[k] # "running" /\ k \notin {executing} \ {None}
    BY <2>1 DEF RowStatus
  <2>3. {executing'} \ {None} = ({executing} \ {None}) \cup {j}
    BY <2>1, SeenRows
  <2> QED  BY <2>1, <2>2, <2>3, SeenRows, RowClaimed DEF Queue!Start, Queue!Idle
<1>4. CASE Die
  <2>1. Queue!Abandon({executing})
    BY <1>4 DEF Die, Queue!Abandon, jobVars
  <2>2. {executing} \in SUBSET Jobs
    BY <1>4, SeenRows DEF Die, TypeOK
  <2> QED  BY <2>1, <2>2 DEF Queue!Next
<1>5. ASSUME NEW j \in DOMAIN jobs, Cleanup(j)
      PROVE  Queue!PutBack({j}) /\ {j} \in SUBSET Jobs
  <2>1. /\ jobs' = [jobs EXCEPT ![j].status = "pending"] /\ UNCHANGED executing
        /\ RowStatus(jobs)[j] = "running" /\ j \notin {executing} \ {None}
        /\ j \in Jobs
    BY <1>5, SeenRows DEF Cleanup
  <2>2. /\ RowStatus(jobs') = [RowStatus(jobs) EXCEPT ![j] = "pending"]
        /\ RowAttempts(jobs') = RowAttempts(jobs)
    BY <2>1, StatusWritten
  <2>3. [RowStatus(jobs) EXCEPT ![j] = "pending"] =
          [k \in Jobs |-> IF k \in {j} THEN "pending" ELSE RowStatus(jobs)[k]]
    BY DEF RowStatus
  <2> QED  BY <2>1, <2>2, <2>3 DEF Queue!PutBack
<1>6. CASE Succeed \/ FailAttempt
  <2>1. executing \in Jobs /\ {executing} \in SUBSET Jobs
    BY <1>6, SeenRows DEF Succeed, FailAttempt, TypeOK
  <2> QED  BY <1>6, <2>1, ReportsKeepContract DEF Queue!Next
<1>7. CASE EnqueueOther
  BY <1>2, <1>7 DEF EnqueueOther, Queue!Next
<1>8. ASSUME NEW e \in announcing, Announce(e) PROVE UNCHANGED Queue!vars
  BY <1>1, <1>8 DEF Announce
<1>9. ASSUME NEW w \in Subs, WaiterStep(w) PROVE [Queue!Next]_(Queue!vars)
  <2>1. CASE Ask(w)
    BY <1>1, <1>2, <2>1 DEF Ask, Queue!Next
  <2>2. CASE ~Ask(w)
    BY <1>1, <1>9, <2>2 DEF WaiterStep, FoundSettled, FoundActive, StartWaiting,
                            Hear, Look, GiveUp, Leave, jobVars
  <2> QED  BY <2>1, <2>2
<1>10. CASE Publish \/ Deliver \/ UNCHANGED vars
  BY <1>1, <1>10 DEF Publish, Deliver, vars, jobVars
<1> QED  BY <1>3, <1>4, <1>5, <1>6, <1>7, <1>8, <1>9, <1>10
         DEF Next, QueueStep, Queue!Next

(* Whatever the waiters, the events and the dispatcher do, the rows and the *)
(* executions are those of ResourceJobs.                                   *)
THEOREM QueueOfWaitersKeepsContract == Spec => KeepsQueueContract
<1>1. Init => Queue!Init
  <2> SUFFICES ASSUME Init PROVE Queue!Init
    OBVIOUS
  <2>1. DOMAIN jobs = {} /\ executing = None
    BY DEF Init
  <2>2. RowStatus(jobs) = [j \in Jobs |-> "absent"]
        /\ RowAttempts(jobs) = [j \in Jobs |-> 0]
    BY <2>1 DEF RowStatus, RowAttempts
  <2> QED  BY <2>1, <2>2 DEF Queue!Init
<1>2. WaitInv /\ [Next]_vars => [Queue!Next]_(Queue!vars)
  BY WaitersKeepContract DEF WaitInv
<1> QED  BY <1>1, <1>2, WaitInvariant, PTL DEF Spec, KeepsQueueContract, Queue!Spec

\* A step of the contract that stays within the bounds; announcements, events
\* and waiters are not the contract's business.
WithinBounds ==
    /\ jobs' \in Seq(JobRow) /\ Len(jobs') <= MaxJobs
    /\ executing' \in Jobs \union {None}
    /\ UNCHANGED <<deliveryVars, waitVars>>

(* Nothing that the contract allows is missing from the queue the waiters  *)
(* see: a submission, a start, a lost execution and a reset are steps of   *)
(* it, and so is every result, once it is announced as the dispatcher does.*)
THEOREM ContractStepsAreTheQueues ==
    ASSUME TypeOK, JobsFounded, WithinBounds, NEW j \in Jobs
    PROVE  /\ UNCHANGED <<announcing, succeeded>> =>
                /\ Queue!Submit(j) => EnqueueOther
                /\ Queue!Start(j) => j \in DOMAIN jobs /\ Claim(j)
                /\ Queue!Abandon({j}) => Die
                /\ Queue!PutBack({j}) => j \in DOMAIN jobs /\ Cleanup(j)
           /\ /\ announcing' = announcing \union {[job |-> j, status |-> "completed"]}
              /\ succeeded' = succeeded \union {j}
              => (Queue!Complete(j) \/ Queue!Abandon({j}) => Succeed)
           /\ /\ announcing' = announcing \union {[job |-> j, status |-> "failed"]}
              /\ UNCHANGED succeeded
              => (Queue!Retry(j) \/ Queue!Fail(j) \/ Queue!Abandon({j}) => FailAttempt)
<1>1. /\ jobs \in Seq(JobRow) /\ Len(jobs) <= MaxJobs /\ jobs' \in Seq(JobRow)
      /\ executing \in Jobs \union {None} /\ None \notin Jobs
      /\ DOMAIN jobs \subseteq Jobs
  BY JobFacts DEF TypeOK, JobRow, WithinBounds, Jobs, None
<1>2. ASSUME NEW new \in Seq(JobRow), Len(new) <= MaxJobs,
             RowStatus(jobs') = RowStatus(new), RowAttempts(jobs') = RowAttempts(new)
      PROVE  jobs' = new
  BY <1>1, <1>2, RowsTold DEF WithinBounds
<1>3. UNCHANGED <<RowStatus(jobs), RowAttempts(jobs)>> => UNCHANGED jobs
  BY <1>1, <1>2
<1>4. UNCHANGED ({executing} \ {None}) => UNCHANGED executing
  BY <1>1 DEF WithinBounds
<1>5. j \in {executing} \ {None} => j = executing /\ j \in DOMAIN jobs
  BY <1>1 DEF TypeOK
<1>6. {executing'} \ {None} = ({executing} \ {None}) \ {j} /\ j \in {executing} \ {None}
      => executing' = None
  BY <1>1 DEF WithinBounds
<1>7. ASSUME RowStatus(jobs)[j] # "absent" PROVE j \in DOMAIN jobs
  BY <1>7 DEF RowStatus
<1>8. ASSUME Queue!Submit(j)
      PROVE  Len(jobs) < MaxJobs /\ jobs' = Append(jobs, Pending) /\ UNCHANGED executing
  <2>1. /\ RowStatus(jobs)[j] = "absent" /\ UNCHANGED executing
        /\ RowStatus(jobs') = [RowStatus(jobs) EXCEPT ![j] = "pending"]
        /\ RowAttempts(jobs') = RowAttempts(jobs)
    BY <1>4, <1>8 DEF Queue!Submit
  <2>2. j \notin DOMAIN jobs
    <3>1. \A k \in DOMAIN jobs : jobs[k].status # "absent"
      BY JobFacts DEF JobRow, Settled
    <3> QED  BY <2>1, <3>1 DEF RowStatus
  <2>3. \A k \in Jobs : k \in DOMAIN jobs' <=> k \in DOMAIN jobs \/ k = j
    <3> SUFFICES ASSUME NEW k \in Jobs
                 PROVE  k \in DOMAIN jobs' <=> k \in DOMAIN jobs \/ k = j
      OBVIOUS
    <3>1. \A r \in JobRow : r.status # "absent"
      BY DEF JobRow, Settled
    <3>2. k \in DOMAIN jobs' <=> RowStatus(jobs')[k] # "absent"
      BY <1>1, <3>1 DEF RowStatus
    <3>3. k \in DOMAIN jobs <=> RowStatus(jobs)[k] # "absent"
      BY <1>1, <3>1 DEF RowStatus
    <3>4. RowStatus(jobs')[k] = IF k = j THEN "pending" ELSE RowStatus(jobs)[k]
      BY <2>1 DEF RowStatus
    <3> QED  BY <3>2, <3>3, <3>4
  <2>4. /\ DOMAIN jobs = 1 .. Len(jobs) /\ DOMAIN jobs' = 1 .. Len(jobs')
        /\ Len(jobs) \in Nat /\ Len(jobs') \in Nat /\ MaxJobs \in Nat
        /\ Len(jobs') <= MaxJobs
    BY <1>1, JobFacts DEF WithinBounds
  <2>5. Len(jobs') = Len(jobs) + 1 /\ j = Len(jobs) + 1
    <3>1. \A k \in 1 .. MaxJobs : k <= Len(jobs') <=> k <= Len(jobs) \/ k = j
      BY <2>3, <2>4 DEF Jobs
    <3>2. j \in 1 .. MaxJobs /\ ~(j <= Len(jobs)) /\ j <= Len(jobs')
      BY <2>2, <2>4, <3>1 DEF Jobs
    <3>3. Len(jobs) + 1 \in 1 .. MaxJobs /\ Len(jobs) + 1 <= Len(jobs')
      BY <2>4, <3>2
    <3>4. j = Len(jobs) + 1
      BY <2>4, <3>1, <3>3
    <3>5. Len(jobs') \in 1 .. MaxJobs
      BY <2>4, <3>3
    <3>6. Len(jobs') <= Len(jobs')
      BY <2>4
    <3>7. Len(jobs') <= Len(jobs) \/ Len(jobs') = j
      BY <3>1, <3>5, <3>6
    <3>8. Len(jobs) \in Nat /\ Len(jobs') \in Nat /\ Len(jobs) + 1 <= Len(jobs')
      BY <2>4, <3>3
    <3> QED  BY <3>4, <3>7, <3>8
  <2>6. Len(jobs) < MaxJobs
    BY <2>4, <2>5
  <2> QED  BY <1>2, <2>1, <2>5, <2>6, RowAppended
<1>9. ASSUME Queue!Start(j)
      PROVE  j \in DOMAIN jobs /\ (UNCHANGED <<announcing, succeeded>> => Claim(j))
  <2>1. /\ RowStatus(jobs)[j] = "pending" /\ j \in DOMAIN jobs
        /\ \A k \in Jobs : RowStatus(jobs)[k] # "running" /\ k \notin {executing} \ {None}
        /\ {executing'} \ {None} = ({executing} \ {None}) \cup {j}
    BY <1>7, <1>9 DEF Queue!Start, Queue!Idle
  <2>2. executing = None /\ executing' = j
    BY <1>1, <2>1 DEF WithinBounds
  <2>3. jobs[j].status = "pending" /\ \A k \in DOMAIN jobs : jobs[k].status # "running"
    BY <1>1, <2>1, SeenRows
  <2>4. /\ RowStatus(jobs') = [RowStatus(jobs) EXCEPT ![j] = "running"]
        /\ RowAttempts(jobs') = [RowAttempts(jobs) EXCEPT ![j] = @ + 1]
    BY <1>9 DEF Queue!Start
  <2>5. jobs[j].attempts < MaxClaims
    <3>1. RowStatus(jobs')[j] = "running" /\ RowAttempts(jobs')[j] = jobs[j].attempts + 1
      BY <2>1, <2>4, SeenRows DEF RowStatus, RowAttempts
    <3>2. j \in DOMAIN jobs' /\ jobs'[j].attempts = jobs[j].attempts + 1
      BY <3>1 DEF RowStatus, RowAttempts
    <3>3. jobs[j] \in JobRow /\ jobs'[j] \in JobRow /\ MaxClaims \in Nat
      BY <1>1, <2>1, <3>2, JobFacts
    <3>4. jobs'[j].attempts \in 0 .. MaxClaims /\ jobs[j].attempts \in 0 .. MaxClaims
      BY <3>3 DEF JobRow
    <3> QED  BY <3>2, <3>3, <3>4
  <2>6. jobs' = [jobs EXCEPT ![j] = Claimed(j)]
    BY <1>1, <1>2, <2>1, <2>4, <2>5, RowClaimed
  <2> QED  BY <2>1, <2>2, <2>3, <2>5, <2>6 DEF Claim, Claimed, WithinBounds
<1>10. ASSUME Queue!Abandon({j}) PROVE j = executing /\ executing' = None /\ UNCHANGED jobs
  BY <1>3, <1>5, <1>6, <1>10 DEF Queue!Abandon
<1>11. ASSUME NEW st \in {"pending", "running"} \union Settled, j \in DOMAIN jobs,
              RowStatus(jobs') = [RowStatus(jobs) EXCEPT ![j] = st],
              RowAttempts(jobs') = RowAttempts(jobs)
       PROVE  jobs' = [jobs EXCEPT ![j].status = st]
  <2> DEFINE new == [jobs EXCEPT ![j].status = st]
  <2>1. /\ new \in Seq(JobRow) /\ Len(new) = Len(jobs)
        /\ RowStatus(new) = [RowStatus(jobs) EXCEPT ![j] = st]
        /\ RowAttempts(new) = RowAttempts(jobs)
    BY <1>11, StatusWritten
  <2> HIDE DEF new
  <2> QED  BY <1>1, <1>2, <1>11, <2>1 DEF new
<1>12. ASSUME Queue!PutBack({j})
       PROVE  j \in DOMAIN jobs /\ (UNCHANGED <<announcing, succeeded>> => Cleanup(j))
  <2>1. /\ RowStatus(jobs)[j] = "running" /\ j \notin {executing} \ {None}
        /\ UNCHANGED executing /\ RowAttempts(jobs') = RowAttempts(jobs)
        /\ RowStatus(jobs') = [RowStatus(jobs) EXCEPT ![j] = "pending"]
    <3>1. [RowStatus(jobs) EXCEPT ![j] = "pending"] =
            [k \in Jobs |-> IF k \in {j} THEN "pending" ELSE RowStatus(jobs)[k]]
      BY DEF RowStatus
    <3> QED  BY <1>4, <1>12, <3>1 DEF Queue!PutBack
  <2>2. j \in DOMAIN jobs /\ jobs[j].status = "running" /\ executing # j
    BY <1>1, <1>7, <2>1, SeenRows
  <2>3. jobs' = [jobs EXCEPT ![j].status = "pending"]
    BY <1>11, <2>1, <2>2
  <2> QED  BY <2>1, <2>2, <2>3 DEF Cleanup, WithinBounds
<1>13. ASSUME NEW st \in {"pending"} \union Settled, Queue!Finish(j, st)
       PROVE  /\ j = executing /\ executing' = None /\ executing # None
              /\ j \in DOMAIN jobs /\ jobs' = [jobs EXCEPT ![executing].status = st]
  <2>1. /\ j = executing /\ executing' = None /\ j \in DOMAIN jobs /\ executing # None
    BY <1>1, <1>5, <1>6, <1>13 DEF Queue!Finish
  <2>2. /\ RowStatus(jobs') = [RowStatus(jobs) EXCEPT ![j] = st]
        /\ RowAttempts(jobs') = RowAttempts(jobs)
    BY <1>13 DEF Queue!Finish
  <2>3. jobs' = [jobs EXCEPT ![j].status = st]
    BY <1>11, <2>1, <2>2
  <2> QED  BY <2>1, <2>3
<1>14. ASSUME announcing' = announcing \union {[job |-> j, status |-> "completed"]},
              succeeded' = succeeded \union {j},
              Queue!Complete(j) \/ Queue!Abandon({j})
       PROVE  Succeed
  <2>1. CASE Queue!Complete(j)
    BY <1>13, <1>14, <2>1 DEF Queue!Complete, Succeed, WithinBounds, Settled
  <2>2. CASE Queue!Abandon({j})
    BY <1>1, <1>10, <1>14, <2>2 DEF Succeed, WithinBounds
  <2> QED  BY <1>14, <2>1, <2>2
<1>15. ASSUME announcing' = announcing \union {[job |-> j, status |-> "failed"]},
              UNCHANGED succeeded,
              Queue!Retry(j) \/ Queue!Fail(j) \/ Queue!Abandon({j})
       PROVE  FailAttempt
  <2>1. ASSUME j \in DOMAIN jobs PROVE RowAttempts(jobs)[j] = jobs[j].attempts
    BY <2>1, SeenRows
  <2>2. CASE Queue!Retry(j)
    BY <1>13, <1>15, <2>1, <2>2 DEF Queue!Retry, FailAttempt, WithinBounds
  <2>3. CASE Queue!Fail(j)
    <3>1. Queue!Finish(j, "failed") /\ RowAttempts(jobs)[j] >= MaxAttempts
      BY <2>3 DEF Queue!Fail
    <3>2. j \in DOMAIN jobs /\ jobs[j].attempts \in Nat /\ MaxAttempts \in Nat
      BY <1>13, <3>1, JobFacts, JobWaitBounds DEF JobRow, Settled
    <3>3. ~(jobs[j].attempts < MaxAttempts)
      BY <2>1, <3>1, <3>2
    <3> QED  BY <1>13, <1>15, <3>1, <3>3 DEF FailAttempt, WithinBounds, Settled
  <2>4. CASE Queue!Abandon({j})
    BY <1>1, <1>10, <1>15, <2>4 DEF FailAttempt, WithinBounds
  <2> QED  BY <1>15, <2>2, <2>3, <2>4
<1>16. UNCHANGED <<announcing, succeeded>> =>
           /\ Queue!Submit(j) => EnqueueOther
           /\ Queue!Abandon({j}) => Die
  BY <1>1, <1>8, <1>10 DEF EnqueueOther, Die, WithinBounds
<1> QED  BY <1>9, <1>12, <1>14, <1>15, <1>16
=============================================================================
