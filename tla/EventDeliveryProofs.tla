------------------------ MODULE EventDeliveryProofs ------------------------
(***************************************************************************)
(* Lemmas about the steps of EventDelivery, for any number of subscribers  *)
(* and events and any batch and channel sizes: their effects and types,    *)
(* the numbers of the rows, and that every event is broadcast once.  The   *)
(* proofs about the modules with the clients (EventStreamProofs,           *)
(* JobWaitProofs) rest on them.                                            *)
(***************************************************************************)
EXTENDS EventDelivery, FiniteSetTheorems, SequenceTheorems, TLAPS

-----------------------------------------------------------------------------
(* What the steps of the publishers, of the poller and of a subscriber do  *)
(* to the rows and to delivery.                                            *)

LEMMA LogFacts ==
    ASSUME DeliveryTypeOK
    PROVE  /\ DOMAIN log = 1 .. Len(log) /\ Len(log) \in 0 .. MaxEvents
           /\ IsFiniteSet(DOMAIN log) /\ Cardinality(DOMAIN log) = Len(log)
           /\ \A i \in DOMAIN log : log[i] \in Row /\ log[i].seq \in 0 .. MaxEvents
           /\ MaxEvents \in Nat /\ DOMAIN log \subseteq 1 .. MaxEvents
<1>1. /\ log \in Seq(Row) /\ Len(log) <= MaxEvents /\ MaxEvents \in Nat
  BY EventBounds DEF DeliveryTypeOK
<1>2. DOMAIN log = 1 .. Len(log) /\ Len(log) \in Nat
  BY <1>1
<1>3. IsFiniteSet(1 .. Len(log)) /\ Cardinality(1 .. Len(log)) = Len(log)
  <2>1. 1 \in Int /\ Len(log) \in Int
    BY <1>2
  <2>2. Cardinality(1 .. Len(log)) = IF 1 > Len(log) THEN 0 ELSE Len(log) - 1 + 1
    BY <2>1, FS_Interval
  <2> QED  BY <1>2, <2>1, <2>2, FS_Interval
<1>4. \A i \in DOMAIN log : log[i] \in Row
  BY <1>1
<1>5. \A r \in Row : r.seq \in 0 .. MaxEvents
  BY DEF Row
<1> QED  BY <1>1, <1>2, <1>3, <1>4, <1>5

LEMMA NewSeqFacts ==
    ASSUME DeliveryTypeOK
    PROVE  /\ NewSeq \in Nat \ {0}
           /\ \A i \in DOMAIN log : log[i].seq = 0 => NewSeq <= MaxEvents
<1> DEFINE N == {i \in DOMAIN log : log[i].seq /= 0}
<1>1. IsFiniteSet(N) /\ Cardinality(N) \in Nat
  BY LogFacts, FS_Subset, FS_CardinalityType
<1>2. ASSUME NEW i \in DOMAIN log, log[i].seq = 0 PROVE NewSeq <= MaxEvents
  <2>1. N \in SUBSET (DOMAIN log \ {i})
    BY <1>2
  <2>2. /\ IsFiniteSet(DOMAIN log \ {i})
        /\ Cardinality(DOMAIN log \ {i}) = Len(log) - 1
    BY LogFacts, FS_RemoveElement
  <2>3. Cardinality(N) <= Len(log) - 1
    BY <2>1, <2>2, FS_Subset
  <2> QED  BY <1>1, <2>3, LogFacts DEF NewSeq
<1> QED  BY <1>1, <1>2 DEF NewSeq

(* A publisher's step leaves the poller and the subscribers alone, keeps   *)
(* every visible row, and a row it makes visible is ahead or late.         *)
Published ==
    /\ UNCHANGED <<driver, lastSeq, batch, sending, registered, chan, missed>>
    /\ notified' \in BOOLEAN
    /\ late \subseteq late' /\ late' \subseteq DOMAIN log'
    /\ log' \in Seq(Row) /\ Len(log') <= MaxEvents
    /\ DOMAIN log \subseteq DOMAIN log'
    /\ \A i \in DOMAIN log : Visible(i) =>
          (log'[i].stage = "committed" /\ log'[i].seq = log[i].seq)
    /\ \A i \in DOMAIN log' : log'[i].stage = "committed" =>
          /\ i \in DOMAIN log
          /\ \/ Visible(i) /\ log'[i].seq = log[i].seq
             \/ log'[i].seq > lastSeq
             \/ i \in late'

LEMMA BeginPublishes ==
    ASSUME DeliveryTypeOK, NEW w \in Contents, Begin(w)
    PROVE  Published
<1> DEFINE r == [what |-> w, seq |-> 0, stage |-> "begun"]
<1>1. r \in Row
  BY LogFacts DEF Row
<1>2. /\ log' = Append(log, r) /\ log \in Seq(Row) /\ Len(log) < MaxEvents
      /\ notified \in BOOLEAN /\ late \subseteq DOMAIN log
  BY DEF Begin, DeliveryTypeOK
<1>3. /\ log' \in Seq(Row) /\ Len(log') = Len(log) + 1
      /\ DOMAIN log' = 1 .. (Len(log) + 1)
      /\ \A i \in DOMAIN log : log'[i] = log[i]
      /\ log'[Len(log) + 1] = r
  BY <1>1, <1>2
<1>4. r.stage = "begun"
  OBVIOUS
<1>5. DOMAIN log = 1 .. Len(log) /\ Len(log) \in Nat
  BY LogFacts
<1>6. Len(log') <= MaxEvents /\ DOMAIN log \subseteq DOMAIN log'
  BY <1>2, <1>3, <1>5, LogFacts
<1>7. \A i \in DOMAIN log' : log'[i].stage = "committed" => i \in DOMAIN log
  BY <1>3, <1>4, <1>5
<1> HIDE DEF r
<1> QED  BY <1>2, <1>3, <1>6, <1>7 DEF Published, Begin, pollerVars, subscriberVars, Visible

LEMMA RowChanges ==
    ASSUME DeliveryTypeOK, NEW i \in DOMAIN log, NEW s \in 0 .. MaxEvents,
           NEW g \in {"begun", "inserted", "committed", "failed"},
           log' = [log EXCEPT ![i] = [log[i] EXCEPT !.seq = s, !.stage = g]]
    PROVE  /\ log' \in Seq(Row) /\ Len(log') = Len(log)
           /\ DOMAIN log' = DOMAIN log
           /\ log'[i].seq = s /\ log'[i].stage = g /\ log'[i].what = log[i].what
           /\ \A j \in DOMAIN log : j /= i => log'[j] = log[j]
<1>1. log[i] \in Row
  BY LogFacts
<1>2. [log[i] EXCEPT !.seq = s, !.stage = g] \in Row
  BY <1>1 DEF Row
<1>3. log \in Seq(Row)
  BY DEF DeliveryTypeOK
<1>4. log' \in Seq(Row) /\ Len(log') = Len(log) /\ DOMAIN log' = DOMAIN log
  BY <1>2, <1>3
<1>5. log'[i] = [log[i] EXCEPT !.seq = s, !.stage = g]
  BY <1>3
<1>6. log'[i].seq = s /\ log'[i].stage = g /\ log'[i].what = log[i].what
  BY <1>1, <1>5 DEF Row
<1> QED  BY <1>3, <1>4, <1>6

LEMMA InsertEffect ==
    ASSUME DeliveryTypeOK, Numbered, NEW i \in DOMAIN log, Insert(i)
    PROVE  /\ log' \in Seq(Row) /\ Len(log') = Len(log) /\ DOMAIN log' = DOMAIN log
           /\ log'[i].seq = NewSeq /\ log'[i].stage = "inserted"
           /\ log[i].seq = 0 /\ log[i].stage = "begun"
           /\ log'[i].what = log[i].what
           /\ \A j \in DOMAIN log : j /= i => log'[j] = log[j]
<1>1. log[i].seq = 0 /\ log[i].stage = "begun"
  BY DEF Insert, Numbered
<1>2. NewSeq \in 0 .. MaxEvents
  BY <1>1, NewSeqFacts, LogFacts
<1>3. log' = [log EXCEPT ![i] = [log[i] EXCEPT !.seq = NewSeq, !.stage = "inserted"]]
  <2>1. log[i] \in Row /\ log \in Seq(Row)
    BY LogFacts DEF DeliveryTypeOK
  <2> QED  BY <2>1 DEF Insert, Row
<1> QED  BY <1>1, <1>2, <1>3, RowChanges

LEMMA CommitEffect ==
    ASSUME DeliveryTypeOK, NEW i \in DOMAIN log, Commit(i)
    PROVE  /\ log' \in Seq(Row) /\ Len(log') = Len(log) /\ DOMAIN log' = DOMAIN log
           /\ log'[i].seq = log[i].seq /\ log'[i].stage = "committed"
           /\ log[i].stage = "inserted" /\ log'[i].what = log[i].what
           /\ \A j \in DOMAIN log : j /= i => log'[j] = log[j]
<1>1. log[i] \in Row /\ log \in Seq(Row) /\ log[i].seq \in 0 .. MaxEvents
  BY LogFacts DEF DeliveryTypeOK
<1>2. log' = [log EXCEPT ![i] = [log[i] EXCEPT !.seq = log[i].seq, !.stage = "committed"]]
  BY <1>1 DEF Commit, Row
<1> QED  BY <1>1, <1>2, RowChanges DEF Commit

LEMMA FailEffect ==
    ASSUME DeliveryTypeOK, NEW i \in DOMAIN log, Fail(i)
    PROVE  /\ log' \in Seq(Row) /\ Len(log') = Len(log) /\ DOMAIN log' = DOMAIN log
           /\ log'[i].seq = log[i].seq /\ log'[i].stage = "failed"
           /\ Open(i) /\ log'[i].what = log[i].what
           /\ \A j \in DOMAIN log : j /= i => log'[j] = log[j]
<1>1. log[i] \in Row /\ log \in Seq(Row) /\ log[i].seq \in 0 .. MaxEvents
  BY LogFacts DEF DeliveryTypeOK
<1>2. log' = [log EXCEPT ![i] = [log[i] EXCEPT !.seq = log[i].seq, !.stage = "failed"]]
  BY <1>1 DEF Fail, Row
<1> QED  BY <1>1, <1>2, RowChanges DEF Fail

LEMMA PublishStepPublishes ==
    ASSUME DeliveryTypeOK, Numbered, PublishStep
    PROVE  Published
<1>0. /\ Len(log) <= MaxEvents /\ late \subseteq DOMAIN log /\ lastSeq \in Nat
      /\ notified \in BOOLEAN /\ \A i \in DOMAIN log : log[i].seq \in Nat
  BY LogFacts DEF DeliveryTypeOK
<1>1. ASSUME NEW i \in DOMAIN log, Insert(i) PROVE Published
  BY <1>0, <1>1, InsertEffect DEF Published, Insert, pollerVars, subscriberVars, Visible
<1>2. ASSUME NEW i \in DOMAIN log, Commit(i) PROVE Published
  <2>1. late' = IF log[i].seq <= lastSeq THEN late \union {i} ELSE late
    BY <1>2 DEF Commit
  <2>2. late \subseteq late' /\ late' \subseteq DOMAIN log
        /\ (i \in late' \/ log[i].seq > lastSeq)
    BY <1>0, <2>1
  <2>3. notified' \in BOOLEAN
    BY <1>0, <1>2 DEF Commit
  <2> QED  BY <1>0, <1>2, <2>2, <2>3, CommitEffect
           DEF Published, Commit, subscriberVars, Visible
<1>3. ASSUME NEW i \in DOMAIN log, Fail(i) PROVE Published
  BY <1>0, <1>3, FailEffect DEF Published, Fail, pollerVars, subscriberVars, Visible, Open
<1> QED  BY <1>1, <1>2, <1>3 DEF PublishStep

(* What a row says never changes, and only an open one changes at all.     *)
LEMMA RowsChange ==
    ASSUME DeliveryTypeOK, Numbered, PublishStep
    PROVE  /\ DOMAIN log' = DOMAIN log
           /\ \A i \in DOMAIN log : /\ log'[i].what = log[i].what
                                    /\ Open(i) \/ log'[i] = log[i]
<1>1. PICK i \in DOMAIN log : Insert(i) \/ Commit(i) \/ Fail(i)
  BY DEF PublishStep
<1>2. /\ DOMAIN log' = DOMAIN log /\ Open(i) /\ log'[i].what = log[i].what
      /\ \A j \in DOMAIN log : j /= i => log'[j] = log[j]
  BY <1>1, InsertEffect, CommitEffect, FailEffect DEF Open
<1> QED  BY <1>2

LEMMA RowBegun ==
    ASSUME DeliveryTypeOK, NEW w \in Contents, Begin(w)
    PROVE  /\ DOMAIN log \subseteq DOMAIN log'
           /\ \A i \in DOMAIN log : log'[i] = log[i]
           /\ \A i \in DOMAIN log' \ DOMAIN log : log'[i].what = w
<1> DEFINE r == [what |-> w, seq |-> 0, stage |-> "begun"]
<1>1. r.what = w
  OBVIOUS
<1>2. log' = Append(log, r) /\ log \in Seq(Row)
  BY DEF Begin, DeliveryTypeOK
<1>3. r \in Row
  BY LogFacts DEF Row
<1> HIDE DEF r
<1>4. /\ DOMAIN log = 1 .. Len(log) /\ DOMAIN log' = 1 .. (Len(log) + 1)
      /\ Len(log) \in Nat
      /\ \A i \in DOMAIN log : log'[i] = log[i]
      /\ log'[Len(log) + 1] = r
  BY <1>2, <1>3
<1>5. \A i \in DOMAIN log' \ DOMAIN log : i = Len(log) + 1
  BY <1>4
<1> QED  BY <1>1, <1>4, <1>5

(* A poll takes every row up to the new lastSeq.                           *)
LEMMA PollEffect ==
    ASSUME DeliveryTypeOK, Poll
    PROVE  /\ lastSeq' \in 0 .. MaxEvents /\ lastSeq < lastSeq'
           /\ batch = {} /\ batch' \subseteq DOMAIN log
           /\ \A i \in batch' : /\ Visible(i) /\ lastSeq < log[i].seq
                                /\ log[i].seq <= lastSeq'
           /\ \A i \in DOMAIN log :
                (Visible(i) /\ log[i].seq <= lastSeq')
                    => (log[i].seq <= lastSeq \/ i \in batch')
           /\ \E i \in DOMAIN log : Visible(i) /\ log[i].seq = lastSeq'
           /\ UNCHANGED <<driver, log, sending, registered, chan, missed, late>>
<1>0. /\ BatchSize \in Nat /\ lastSeq \in 0 .. MaxEvents /\ MaxEvents \in Nat
      /\ \A i \in DOMAIN log : log[i].seq \in 0 .. MaxEvents
  BY EventBounds, LogFacts DEF DeliveryTypeOK
<1>1. PICK m \in NextBatch : /\ \A j \in NextBatch : log[j].seq <= log[m].seq
                             /\ lastSeq' = log[m].seq
  BY DEF Poll
<1>2. batch' = NextBatch /\ batch = {}
  BY DEF Poll
<1>3. \A i \in NextBatch : i \in DOMAIN log /\ Visible(i) /\ log[i].seq > lastSeq
  BY DEF NextBatch, Unread
<1>4. ASSUME NEW i \in Unread, log[i].seq <= log[m].seq PROVE i \in NextBatch
  <2> DEFINE A == {j \in Unread : log[j].seq < log[i].seq}
             B == {j \in Unread : log[j].seq < log[m].seq}
  <2>1. A \in SUBSET B
    BY <1>0, <1>3, <1>4 DEF Unread
  <2>2. IsFiniteSet(B) /\ B \in SUBSET DOMAIN log
    BY LogFacts, FS_Subset DEF Unread
  <2>3. Cardinality(A) <= Cardinality(B) /\ Cardinality(A) \in Nat
        /\ Cardinality(B) \in Nat
    BY <2>1, <2>2, FS_Subset, FS_CardinalityType
  <2>4. Cardinality(B) < BatchSize
    BY DEF NextBatch
  <2>5. Cardinality(A) < BatchSize
    BY <2>3, <2>4, <1>0
  <2> QED  BY <2>5, <1>4 DEF NextBatch
<1>5. \A i \in DOMAIN log : (Visible(i) /\ log[i].seq <= lastSeq')
          => (log[i].seq <= lastSeq \/ i \in batch')
  BY <1>0, <1>1, <1>2, <1>3, <1>4 DEF Unread
<1> QED  BY <1>0, <1>1, <1>2, <1>3, <1>5 DEF Poll, subscriberVars

(* A broadcast event goes to the channel of a subscriber or is missed.     *)
LEMMA BroadcastEffect ==
    ASSUME DeliveryTypeOK, Broadcast
    PROVE  \E i \in batch :
             /\ batch' = batch \ {i}
             /\ sending' \in BOOLEAN
             /\ UNCHANGED <<driver, log, lastSeq, notified, registered, late>>
             /\ chan' \in [Subs -> Seq(DOMAIN log)]
             /\ missed' \in [Subs -> SUBSET DOMAIN log]
             /\ \A s \in Subs :
                  /\ Len(chan'[s]) <= Capacity
                  /\ \/ /\ s \in registered /\ missed'[s] = missed[s]
                        /\ Len(chan'[s]) = Len(chan[s]) + 1
                        /\ chan'[s][Len(chan[s]) + 1] = i
                        /\ \A k \in DOMAIN chan[s] : chan'[s][k] = chan[s][k]
                     \/ /\ s \in registered /\ chan'[s] = chan[s]
                        /\ missed'[s] = missed[s] \union {i}
                     \/ /\ s \notin registered /\ chan'[s] = chan[s]
                        /\ missed'[s] = missed[s]
<1>1. PICK i \in batch :
        /\ batch' = batch \ {i} /\ sending' = (batch /= {i})
        /\ chan' = [s \in Subs |->
               IF s \in registered /\ Len(chan[s]) < Capacity
               THEN Append(chan[s], i) ELSE chan[s]]
        /\ missed' = [s \in Subs |->
               IF s \in registered /\ Len(chan[s]) >= Capacity
               THEN missed[s] \union {i} ELSE missed[s]]
        /\ UNCHANGED <<driver, log, lastSeq, notified, registered, late>>
  BY DEF Broadcast
<1>2. /\ i \in DOMAIN log /\ Capacity \in Nat
      /\ chan \in [Subs -> Seq(DOMAIN log)]
      /\ missed \in [Subs -> SUBSET DOMAIN log]
      /\ \A s \in Subs : Len(chan[s]) <= Capacity
  BY EventBounds DEF DeliveryTypeOK
<1>3. \A s \in Subs : chan[s] \in Seq(DOMAIN log) /\ Len(chan[s]) \in Nat
  BY <1>2
<1>4. ASSUME NEW s \in Subs
      PROVE  /\ Append(chan[s], i) \in Seq(DOMAIN log)
             /\ Len(Append(chan[s], i)) = Len(chan[s]) + 1
             /\ Append(chan[s], i)[Len(chan[s]) + 1] = i
             /\ \A k \in DOMAIN chan[s] : Append(chan[s], i)[k] = chan[s][k]
  BY <1>2, <1>3
<1>5. chan' \in [Subs -> Seq(DOMAIN log)] /\ missed' \in [Subs -> SUBSET DOMAIN log]
  BY <1>1, <1>2, <1>3, <1>4
<1>6. \A s \in Subs :
        /\ chan'[s] = IF s \in registered /\ Len(chan[s]) < Capacity
                      THEN Append(chan[s], i) ELSE chan[s]
        /\ missed'[s] = IF s \in registered /\ Len(chan[s]) >= Capacity
                        THEN missed[s] \union {i} ELSE missed[s]
  BY <1>1
<1>7. sending' \in BOOLEAN
  BY <1>1
<1>8. ASSUME NEW s \in Subs
      PROVE  /\ Len(chan'[s]) <= Capacity
             /\ \/ /\ s \in registered /\ missed'[s] = missed[s]
                   /\ Len(chan'[s]) = Len(chan[s]) + 1
                   /\ chan'[s][Len(chan[s]) + 1] = i
                   /\ \A k \in DOMAIN chan[s] : chan'[s][k] = chan[s][k]
                \/ /\ s \in registered /\ chan'[s] = chan[s]
                   /\ missed'[s] = missed[s] \union {i}
                \/ /\ s \notin registered /\ chan'[s] = chan[s]
                   /\ missed'[s] = missed[s]
  <2>1. CASE s \in registered /\ Len(chan[s]) < Capacity
    <3>0. ~(Len(chan[s]) >= Capacity)
      BY <1>2, <1>3, <2>1
    <3>1. chan'[s] = Append(chan[s], i) /\ missed'[s] = missed[s]
      BY <1>6, <2>1, <3>0
    <3> QED  BY <1>2, <1>3, <1>4, <2>1, <3>1
  <2>2. CASE s \in registered /\ ~(Len(chan[s]) < Capacity)
    <3>1. Len(chan[s]) >= Capacity
      BY <1>2, <1>3, <2>2
    <3>2. chan'[s] = chan[s] /\ missed'[s] = missed[s] \union {i}
      BY <1>6, <2>2, <3>1
    <3> QED  BY <1>2, <2>2, <3>2
  <2>3. CASE s \notin registered
    BY <1>2, <1>6, <2>3
  <2> QED  BY <2>1, <2>2, <2>3
<1> QED  BY <1>1, <1>5, <1>7, <1>8

(* What the channel of a subscriber holds after its head is taken.         *)
LEMMA TakeEffect ==
    ASSUME DeliveryTypeOK, DeliveredOnce, NEW c \in Subs, Take(c)
    PROVE  /\ Head(chan[c]) \in DOMAIN log /\ Behind(Head(chan[c]))
           /\ Head(chan[c]) \in InChannel(c) /\ Head(chan[c]) \notin batch
           /\ chan' \in [Subs -> Seq(DOMAIN log)]
           /\ chan'[c] = Tail(chan[c]) /\ Len(chan'[c]) <= Capacity
           /\ \A s \in Subs : s /= c => chan'[s] = chan[s]
           /\ InChannel(c)' = InChannel(c) \ {Head(chan[c])}
           /\ \A k \in DOMAIN chan'[c] : chan'[c][k] = chan[c][k + 1]
                                        /\ k + 1 \in DOMAIN chan[c]
<1>1. /\ chan \in [Subs -> Seq(DOMAIN log)] /\ chan[c] /= <<>>
      /\ chan' = [chan EXCEPT ![c] = Tail(chan[c])]
      /\ Len(chan[c]) <= Capacity /\ Capacity \in Nat
  BY EventBounds DEF DeliveryTypeOK, Take
<1> DEFINE q == chan[c]
<1>2. /\ q \in Seq(DOMAIN log) /\ q /= <<>>
  BY <1>1
<1>3. /\ Len(q) \in Nat \ {0} /\ DOMAIN q = 1 .. Len(q) /\ Head(q) = q[1]
      /\ 1 \in DOMAIN q
  BY <1>2
<1>4. /\ Tail(q) \in Seq(DOMAIN log) /\ Len(Tail(q)) = Len(q) - 1
      /\ DOMAIN Tail(q) = 1 .. (Len(q) - 1)
      /\ \A k \in 1 .. (Len(q) - 1) : Tail(q)[k] = q[k + 1]
  <2>1. /\ Tail(q) \in Seq(DOMAIN log) /\ Len(Tail(q)) = Len(q) - 1
        /\ \A k \in 1 .. Len(Tail(q)) : Tail(q)[k] = q[k + 1]
    BY <1>2, HeadTailProperties
  <2> QED  BY <2>1
<1>5. chan'[c] = Tail(q) /\ \A s \in Subs : s /= c => chan'[s] = chan[s]
  BY <1>1
<1>6. chan' \in [Subs -> Seq(DOMAIN log)]
  BY <1>1, <1>4
<1>7. /\ \A k \in DOMAIN q : Behind(q[k]) /\ q[k] \notin batch
      /\ \A k, l \in DOMAIN q : q[k] = q[l] => k = l
  BY DEF DeliveredOnce
<1>8. Head(q) \in DOMAIN log /\ Behind(Head(q)) /\ Head(q) \notin batch
      /\ Head(q) \in InChannel(c)
  BY <1>3, <1>7 DEF Behind, InChannel
<1>9. \A k \in DOMAIN Tail(q) : Tail(q)[k] = q[k + 1] /\ k + 1 \in DOMAIN q
  BY <1>3, <1>4
<1>10. {Tail(q)[k] : k \in DOMAIN Tail(q)} = {q[k] : k \in DOMAIN q} \ {q[1]}
  <2>1. ASSUME NEW k \in DOMAIN Tail(q)
        PROVE  Tail(q)[k] \in {q[l] : l \in DOMAIN q} /\ Tail(q)[k] /= q[1]
    <3>1. k + 1 /= 1 /\ k + 1 \in DOMAIN q /\ Tail(q)[k] = q[k + 1]
      BY <1>3, <1>4, <2>1
    <3> QED  BY <3>1, <1>3, <1>7
  <2>2. ASSUME NEW k \in DOMAIN q, q[k] /= q[1]
        PROVE  q[k] \in {Tail(q)[l] : l \in DOMAIN Tail(q)}
    <3>1. k - 1 \in 1 .. (Len(q) - 1) /\ (k - 1) + 1 = k
      BY <1>3, <2>2
    <3>2. Tail(q)[k - 1] = q[k] /\ k - 1 \in DOMAIN Tail(q)
      BY <3>1, <1>4
    <3> QED  BY <3>2
  <2> QED  BY <2>1, <2>2
<1>11. Len(Tail(q)) <= Capacity
  BY <1>1, <1>3, <1>4
<1>12. InChannel(c)' = InChannel(c) \ {Head(q)}
  <2>1. InChannel(c)' = {Tail(q)[k] : k \in DOMAIN Tail(q)}
    BY <1>5 DEF InChannel
  <2>2. InChannel(c) = {q[k] : k \in DOMAIN q}
    BY DEF InChannel
  <2> QED  BY <1>3, <1>10, <2>1, <2>2
<1>13. \A k \in DOMAIN chan'[c] : chan'[c][k] = q[k + 1] /\ k + 1 \in DOMAIN q
  BY <1>5, <1>9
<1> QED  BY <1>5, <1>6, <1>8, <1>11, <1>12, <1>13

-----------------------------------------------------------------------------
(* Rows: their numbers, and the order in which SQLite gives them.          *)
RowsOK == Numbered /\ OneWriter /\ NoneLateOnSQLite

LEMMA SameRows ==
    ASSUME RowsOK, UNCHANGED <<driver, log, lastSeq, late>>
    PROVE  RowsOK'
  BY DEF RowsOK, Numbered, OneWriter, NoneLateOnSQLite, NewSeq, Visible, Open

LEMMA BeginKeepsRows ==
    ASSUME DeliveryTypeOK, RowsOK, NEW w \in Contents, Begin(w)
    PROVE  RowsOK'
<1> DEFINE r == [what |-> w, seq |-> 0, stage |-> "begun"]
           e == Len(log) + 1
<1>1. /\ log' = Append(log, r) /\ log \in Seq(Row)
      /\ driver = "sqlite" => \A i \in DOMAIN log : ~Open(i)
      /\ UNCHANGED <<driver, lastSeq, late>>
  BY DEF Begin, DeliveryTypeOK, pollerVars
<1>2. r \in Row /\ r.seq = 0 /\ r.stage = "begun"
  BY LogFacts DEF Row
<1>3. /\ DOMAIN log' = DOMAIN log \union {e} /\ e \notin DOMAIN log
      /\ \A i \in DOMAIN log : log'[i] = log[i]
      /\ log'[e] = r
  BY <1>1, <1>2, LogFacts
<1>4. log'[e].seq = 0 /\ log'[e].stage = "begun"
  BY <1>2, <1>3
<1> HIDE DEF r, e
<1>5. {i \in DOMAIN log' : log'[i].seq /= 0} = {i \in DOMAIN log : log[i].seq /= 0}
  BY <1>3, <1>4
<1>6. NewSeq' = NewSeq /\ NewSeq \in Nat \ {0}
  BY <1>5, NewSeqFacts DEF NewSeq
<1>7. Numbered'
  BY <1>3, <1>4, <1>6 DEF Numbered, RowsOK
<1>8. lastSeq' = 0 \/ \E i \in DOMAIN log' : Visible(i)' /\ log'[i].seq = lastSeq'
  BY <1>1, <1>3 DEF RowsOK, OneWriter, Visible
<1>9. ASSUME driver' = "sqlite", NEW i \in DOMAIN log', NEW j \in DOMAIN log'
      PROVE  /\ Open(i)' /\ Open(j)' => i = j
             /\ (log'[i].stage = "inserted" /\ j /= i) => log'[j].seq < log'[i].seq
  <2>1. \A k \in DOMAIN log : ~Open(k)' /\ log'[k].stage /= "inserted"
    BY <1>1, <1>3, <1>9 DEF Open
  <2> QED  BY <1>3, <1>4, <2>1
<1>10. OneWriter'
  BY <1>8, <1>9 DEF OneWriter
<1> QED  BY <1>1, <1>7, <1>10 DEF RowsOK, NoneLateOnSQLite

LEMMA InsertKeepsRows ==
    ASSUME DeliveryTypeOK, RowsOK, NEW i \in DOMAIN log, Insert(i)
    PROVE  RowsOK'
<1>0. Numbered /\ OneWriter /\ NoneLateOnSQLite
  BY DEF RowsOK
<1>1. /\ DOMAIN log' = DOMAIN log
      /\ log'[i].seq = NewSeq /\ log'[i].stage = "inserted"
      /\ log[i].seq = 0 /\ log[i].stage = "begun"
      /\ \A j \in DOMAIN log : j /= i => log'[j] = log[j]
  BY <1>0, InsertEffect
<1>2. UNCHANGED <<driver, lastSeq, late>>
  BY DEF Insert, pollerVars
<1> DEFINE N == {j \in DOMAIN log : log[j].seq /= 0}
<1>3. NewSeq \in Nat \ {0} /\ \A j \in DOMAIN log : log[j].seq \in Nat
  BY NewSeqFacts, LogFacts
<1>4. {j \in DOMAIN log' : log'[j].seq /= 0} = N \union {i} /\ i \notin N
  BY <1>1, <1>3
<1>5. IsFiniteSet(N)
  BY LogFacts, FS_Subset
<1>6. Cardinality(N \union {i}) = Cardinality(N) + 1
  BY <1>4, <1>5, FS_AddElement
<1>7. NewSeq' = NewSeq + 1
  <2>1. NewSeq' = 1 + Cardinality({j \in DOMAIN log' : log'[j].seq /= 0})
    BY DEF NewSeq
  <2>2. NewSeq = 1 + Cardinality(N)
    BY DEF NewSeq
  <2>3. Cardinality(N) \in Nat
    BY <1>5, FS_CardinalityType
  <2>4. Cardinality({j \in DOMAIN log' : log'[j].seq /= 0}) = Cardinality(N \union {i})
    BY <1>4
  <2> HIDE DEF N
  <2> QED  BY <1>6, <2>1, <2>2, <2>3, <2>4
<1>8. \A j \in DOMAIN log : log[j].seq < NewSeq
  BY <1>0 DEF Numbered
<1> HIDE DEF N
<1>9. Numbered'
  <2>1. ASSUME NEW j \in DOMAIN log'
        PROVE  /\ log'[j].stage = "begun" => log'[j].seq = 0
               /\ log'[j].stage \in {"inserted", "committed"} => log'[j].seq > 0
               /\ log'[j].seq < NewSeq'
    <3>1. CASE j = i
      BY <1>1, <1>3, <1>7, <3>1
    <3>2. CASE j /= i
      BY <1>0, <1>1, <1>3, <1>7, <1>8, <2>1, <3>2 DEF Numbered
    <3> QED  BY <3>1, <3>2
  <2> QED  BY <2>1 DEF Numbered
<1>10. lastSeq' = 0 \/ \E j \in DOMAIN log' : Visible(j)' /\ log'[j].seq = lastSeq'
  BY <1>0, <1>1, <1>2 DEF OneWriter, Visible
<1>11. ASSUME driver' = "sqlite", NEW k \in DOMAIN log', NEW j \in DOMAIN log'
       PROVE  /\ Open(k)' /\ Open(j)' => k = j
              /\ (log'[k].stage = "inserted" /\ j /= k) => log'[j].seq < log'[k].seq
  <2>1. \A m \in DOMAIN log : Open(m) => m = i
    BY <1>0, <1>1, <1>2, <1>11 DEF OneWriter, Open
  <2>2. \A m \in DOMAIN log' : Open(m)' => m = i
    BY <1>1, <2>1 DEF Open
  <2>3. Open(k)' /\ Open(j)' => k = j
    BY <2>2
  <2>4. ASSUME log'[k].stage = "inserted", j /= k PROVE log'[j].seq < log'[k].seq
    <3>1. k = i
      BY <2>2, <2>4 DEF Open
    <3> QED  BY <1>1, <1>8, <2>4, <3>1
  <2> QED  BY <2>3, <2>4
<1>12. OneWriter'
  BY <1>10, <1>11 DEF OneWriter
<1> QED  BY <1>0, <1>2, <1>9, <1>12 DEF RowsOK, NoneLateOnSQLite

(* A row whose stage changes keeps its number.                             *)
LEMMA StageKeepsNumbers ==
    ASSUME DeliveryTypeOK, Numbered, NEW i \in DOMAIN log,
           DOMAIN log' = DOMAIN log, log'[i].seq = log[i].seq,
           log'[i].stage = "committed" \/ log'[i].stage = "failed",
           log[i].stage = "inserted" \/ log'[i].stage = "failed",
           \A j \in DOMAIN log : j /= i => log'[j] = log[j]
    PROVE  Numbered' /\ NewSeq' = NewSeq
           /\ \A j \in DOMAIN log : log'[j].seq = log[j].seq
<1>1. \A j \in DOMAIN log : log'[j].seq = log[j].seq
  OBVIOUS
<1>2. NewSeq' = NewSeq
  BY <1>1 DEF NewSeq
<1> QED  BY <1>1, <1>2 DEF Numbered

LEMMA CommitKeepsRows ==
    ASSUME DeliveryTypeOK, RowsOK, NEW i \in DOMAIN log, Commit(i)
    PROVE  RowsOK'
<1>0. Numbered /\ OneWriter /\ NoneLateOnSQLite
  BY DEF RowsOK
<1>1. /\ DOMAIN log' = DOMAIN log
      /\ log'[i].seq = log[i].seq /\ log'[i].stage = "committed"
      /\ log[i].stage = "inserted"
      /\ \A j \in DOMAIN log : j /= i => log'[j] = log[j]
  BY CommitEffect
<1>2. /\ UNCHANGED <<driver, lastSeq>>
      /\ late' = IF log[i].seq <= lastSeq THEN late \union {i} ELSE late
  BY DEF Commit
<1>3. Numbered' /\ \A j \in DOMAIN log : log'[j].seq = log[j].seq
  BY <1>0, <1>1, StageKeepsNumbers
<1>4. lastSeq' = 0 \/ \E j \in DOMAIN log' : Visible(j)' /\ log'[j].seq = lastSeq'
  BY <1>0, <1>1, <1>2 DEF OneWriter, Visible
<1>5. \A k \in DOMAIN log : Open(k)' => Open(k) /\ k /= i
  BY <1>1 DEF Open
<1>6. \A k \in DOMAIN log : log'[k].stage = "inserted" => log[k].stage = "inserted"
  BY <1>1
<1>7. OneWriter'
  BY <1>0, <1>1, <1>2, <1>3, <1>4, <1>5, <1>6 DEF OneWriter
<1>8. driver = "sqlite" => ~(log[i].seq <= lastSeq)
  <2>1. lastSeq \in Nat /\ log[i].seq \in Nat /\ log[i].seq > 0
    BY <1>0, <1>1, LogFacts DEF Numbered, DeliveryTypeOK
  <2>2. CASE lastSeq = 0
    BY <2>1, <2>2
  <2>3. CASE lastSeq /= 0
    <3>1. PICK j \in DOMAIN log : Visible(j) /\ log[j].seq = lastSeq
      BY <1>0, <2>3 DEF OneWriter
    <3>2. j /= i
      BY <1>1, <3>1 DEF Visible
    <3>3. driver = "sqlite" => log[j].seq < log[i].seq
      BY <1>0, <1>1, <3>2 DEF OneWriter
    <3> QED  BY <2>1, <3>1, <3>3
  <2> QED  BY <2>2, <2>3
<1>9. NoneLateOnSQLite'
  BY <1>0, <1>2, <1>8 DEF NoneLateOnSQLite
<1> QED  BY <1>3, <1>7, <1>9 DEF RowsOK

LEMMA FailKeepsRows ==
    ASSUME DeliveryTypeOK, RowsOK, NEW i \in DOMAIN log, Fail(i)
    PROVE  RowsOK'
<1>0. Numbered /\ OneWriter /\ NoneLateOnSQLite
  BY DEF RowsOK
<1>1. /\ DOMAIN log' = DOMAIN log
      /\ log'[i].seq = log[i].seq /\ log'[i].stage = "failed" /\ Open(i)
      /\ \A j \in DOMAIN log : j /= i => log'[j] = log[j]
  BY FailEffect
<1>2. UNCHANGED <<driver, lastSeq, late>>
  BY DEF Fail, pollerVars
<1>3. Numbered' /\ \A j \in DOMAIN log : log'[j].seq = log[j].seq
  BY <1>0, <1>1, StageKeepsNumbers
<1>4. lastSeq' = 0 \/ \E j \in DOMAIN log' : Visible(j)' /\ log'[j].seq = lastSeq'
  BY <1>0, <1>1, <1>2 DEF OneWriter, Visible, Open
<1>5. \A k \in DOMAIN log : Open(k)' => Open(k)
  BY <1>1 DEF Open
<1>6. \A k \in DOMAIN log : log'[k].stage = "inserted" => log[k].stage = "inserted"
  BY <1>1
<1>7. OneWriter'
  BY <1>0, <1>1, <1>2, <1>3, <1>4, <1>5, <1>6 DEF OneWriter
<1> QED  BY <1>0, <1>2, <1>3, <1>7 DEF RowsOK, NoneLateOnSQLite

LEMMA PollKeepsRows ==
    ASSUME DeliveryTypeOK, RowsOK, Poll
    PROVE  RowsOK'
<1>1. /\ UNCHANGED <<driver, log, late>>
      /\ \E i \in DOMAIN log : Visible(i) /\ log[i].seq = lastSeq'
  BY PollEffect
<1>2. Numbered' /\ NoneLateOnSQLite'
  BY <1>1 DEF RowsOK, Numbered, NoneLateOnSQLite, NewSeq
<1>3. OneWriter'
  BY <1>1 DEF RowsOK, OneWriter, Visible, Open
<1> QED  BY <1>2, <1>3 DEF RowsOK

(* What a restart leaves: the rows that were visible, all behind lastSeq.  *)
LEMMA RestartEffect ==
    ASSUME DeliveryTypeOK, RestartPoller
    PROVE  /\ log' \in Seq(Row) /\ Len(log') = Len(log) /\ DOMAIN log' = DOMAIN log
           /\ \A i \in DOMAIN log :
                /\ log'[i].seq = log[i].seq
                /\ log'[i].stage = log[i].stage
                   \/ (Open(i) /\ log'[i].stage = "failed")
           /\ lastSeq' \in 0 .. MaxEvents
           /\ lastSeq' = 0 \/ \E i \in DOMAIN log : Visible(i) /\ log[i].seq = lastSeq'
           /\ UNCHANGED <<driver, late>>
           /\ batch' = {} /\ registered' = {}
           /\ chan' = [s \in Subs |-> <<>>] /\ missed' = [s \in Subs |-> {}]
           /\ sending' = FALSE /\ notified' = FALSE
<1>1. log \in Seq(Row) /\ \A i \in DOMAIN log : log[i] \in Row
  BY LogFacts DEF DeliveryTypeOK
<1>2. ASSUME NEW i \in DOMAIN log
      PROVE  /\ [log[i] EXCEPT !.stage = "failed"] \in Row
             /\ [log[i] EXCEPT !.stage = "failed"].seq = log[i].seq
             /\ [log[i] EXCEPT !.stage = "failed"].stage = "failed"
  BY <1>1 DEF Row
<1> DEFINE Lost(i) == IF Open(i) THEN [log[i] EXCEPT !.stage = "failed"] ELSE log[i]
<1>3. log' = IF driver = "postgres" THEN log ELSE [i \in DOMAIN log |-> Lost(i)]
  BY DEF RestartPoller
<1>4. \A i \in DOMAIN log : /\ Lost(i) \in Row /\ Lost(i).seq = log[i].seq
                            /\ Lost(i).stage = log[i].stage
                               \/ (Open(i) /\ Lost(i).stage = "failed")
  BY <1>1, <1>2
<1> HIDE DEF Lost
<1>5. /\ log' \in Seq(Row) /\ Len(log') = Len(log) /\ DOMAIN log' = DOMAIN log
      /\ \A i \in DOMAIN log :
            /\ log'[i].seq = log[i].seq
            /\ log'[i].stage = log[i].stage
               \/ (Open(i) /\ log'[i].stage = "failed")
  <2>1. CASE driver = "postgres"
    BY <1>1, <1>3, <2>1
  <2>2. CASE driver /= "postgres"
    <3>1. log' = [i \in 1 .. Len(log) |-> Lost(i)] /\ Len(log) \in Nat
      BY <1>1, <1>3, <2>2
    <3>2. \A i \in 1 .. Len(log) : Lost(i) \in Row
      BY <1>1, <1>4
    <3>3. log' \in Seq(Row) /\ Len(log') = Len(log) /\ DOMAIN log' = 1 .. Len(log)
      BY <3>1, <3>2
    <3> QED  BY <1>1, <1>4, <3>1, <3>3
  <2> QED  BY <2>1, <2>2
<1>6. PICK n \in {log[i].seq : i \in {j \in DOMAIN log : Visible(j)}} \union {0} :
        lastSeq' = n
  BY DEF RestartPoller
<1>7. lastSeq' = 0 \/ \E i \in DOMAIN log : Visible(i) /\ log[i].seq = lastSeq'
  BY <1>6
<1>8. lastSeq' \in 0 .. MaxEvents
  BY <1>7, LogFacts
<1> QED  BY <1>5, <1>7, <1>8 DEF RestartPoller

LEMMA RestartKeepsRows ==
    ASSUME DeliveryTypeOK, RowsOK, RestartPoller
    PROVE  RowsOK'
<1>0. Numbered /\ OneWriter /\ NoneLateOnSQLite
  BY DEF RowsOK
<1>1. /\ DOMAIN log' = DOMAIN log
      /\ \A i \in DOMAIN log :
            /\ log'[i].seq = log[i].seq
            /\ log'[i].stage = log[i].stage
               \/ (Open(i) /\ log'[i].stage = "failed")
      /\ lastSeq' = 0 \/ \E i \in DOMAIN log : Visible(i) /\ log[i].seq = lastSeq'
      /\ UNCHANGED <<driver, late>>
  BY RestartEffect
<1>2. NewSeq' = NewSeq
  BY <1>1 DEF NewSeq
<1>3. Numbered'
  BY <1>0, <1>1, <1>2 DEF Numbered
<1>4. \A i \in DOMAIN log : /\ Open(i)' => Open(i)
                            /\ Visible(i) => Visible(i)'
                            /\ log'[i].stage = "inserted" => log[i].stage = "inserted"
  BY <1>1 DEF Open, Visible
<1>5. OneWriter'
  BY <1>0, <1>1, <1>4 DEF OneWriter
<1> QED  BY <1>0, <1>1, <1>3, <1>5 DEF RowsOK, NoneLateOnSQLite

-----------------------------------------------------------------------------
(* Types.                                                                  *)

LEMMA SeqsGrow ==
    ASSUME NEW A, NEW B, A \subseteq B, NEW q \in Seq(A)
    PROVE  q \in Seq(B)
  OBVIOUS

LEMMA EmptyChannel ==
    ASSUME NEW S
    PROVE  <<>> \in Seq(S) /\ Len(<<>>) = 0 /\ DOMAIN <<>> = {}
  OBVIOUS

LEMMA InitDelivery ==
    ASSUME DeliveryInit
    PROVE  DeliveryTypeOK /\ RowsOK /\ DeliveredOnce
<1>1. /\ driver \in {"sqlite", "postgres"} /\ log = <<>> /\ lastSeq = 0
      /\ notified = FALSE /\ batch = {} /\ sending = FALSE /\ registered = {}
      /\ chan = [s \in Subs |-> <<>>] /\ missed = [s \in Subs |-> {}] /\ late = {}
  BY DEF DeliveryInit
<1>2. DOMAIN log = {} /\ log \in Seq(Row) /\ Len(log) = 0
  BY <1>1, EmptyChannel
<1>3. \A s \in Subs : chan[s] = <<>> /\ Len(chan[s]) = 0 /\ DOMAIN chan[s] = {}
  BY <1>1, EmptyChannel
<1>4. chan \in [Subs -> Seq(DOMAIN log)]
  BY <1>1, EmptyChannel
<1>5. DeliveryTypeOK
  <2>1. Len(log) <= MaxEvents /\ lastSeq \in 0 .. MaxEvents
    BY <1>1, <1>2, EventBounds
  <2>2. \A s \in Subs : Len(chan[s]) <= Capacity
    BY <1>3, EventBounds
  <2>3. missed \in [Subs -> SUBSET DOMAIN log]
    BY <1>1
  <2>4. /\ driver \in {"sqlite", "postgres"} /\ notified \in BOOLEAN
        /\ sending \in BOOLEAN /\ batch \subseteq DOMAIN log
        /\ registered \subseteq Subs /\ late \subseteq DOMAIN log
    BY <1>1
  <2> QED  BY <1>2, <1>4, <2>1, <2>2, <2>3, <2>4 DEF DeliveryTypeOK
<1>6. RowsOK
  BY <1>1, <1>2 DEF RowsOK, Numbered, OneWriter, NoneLateOnSQLite
<1>7. DeliveredOnce
  BY <1>1, <1>3 DEF DeliveredOnce
<1> QED  BY <1>5, <1>6, <1>7

LEMMA PublishedTypes ==
    ASSUME DeliveryTypeOK, Published
    PROVE  DeliveryTypeOK'
<1>1. /\ DOMAIN log \subseteq DOMAIN log'
      /\ UNCHANGED <<driver, lastSeq, batch, sending, registered, chan, missed>>
      /\ notified' \in BOOLEAN /\ late' \subseteq DOMAIN log'
      /\ log' \in Seq(Row) /\ Len(log') <= MaxEvents
  BY DEF Published
<1>2. \A s \in Subs : chan[s] \in Seq(DOMAIN log')
  BY <1>1, SeqsGrow DEF DeliveryTypeOK
<1>3. chan' \in [Subs -> Seq(DOMAIN log')]
  BY <1>1, <1>2 DEF DeliveryTypeOK
<1>4. missed' \in [Subs -> SUBSET DOMAIN log']
  BY <1>1 DEF DeliveryTypeOK
<1> QED  BY <1>1, <1>3, <1>4 DEF DeliveryTypeOK

LEMMA PollerTypes ==
    ASSUME DeliveryTypeOK, PollerStep
    PROVE  DeliveryTypeOK' /\ log' = log
<1>1. CASE Poll /\ notified' \in BOOLEAN
  <2>1. /\ lastSeq' \in 0 .. MaxEvents /\ batch' \subseteq DOMAIN log
        /\ UNCHANGED <<driver, log, sending, registered, chan, missed, late>>
    BY <1>1, PollEffect
  <2> QED  BY <1>1, <2>1 DEF DeliveryTypeOK
<1>2. CASE NotifiedForNothing
  BY <1>2 DEF NotifiedForNothing, subscriberVars, DeliveryTypeOK
<1>3. CASE Broadcast
  <2>1. /\ batch' \subseteq DOMAIN log /\ sending' \in BOOLEAN
        /\ UNCHANGED <<driver, log, lastSeq, notified, registered, late>>
        /\ chan' \in [Subs -> Seq(DOMAIN log)]
        /\ missed' \in [Subs -> SUBSET DOMAIN log]
        /\ \A s \in Subs : Len(chan'[s]) <= Capacity
    BY <1>3, BroadcastEffect DEF DeliveryTypeOK
  <2> QED  BY <2>1 DEF DeliveryTypeOK
<1>4. notified \in BOOLEAN
  BY DEF DeliveryTypeOK
<1> QED  BY <1>1, <1>2, <1>3, <1>4 DEF PollerStep, PollOnTick, PollOnNotify

LEMMA SubscribeTypes ==
    ASSUME DeliveryTypeOK, NEW c \in Subs, Subscribe(c) \/ Unsubscribe(c)
    PROVE  /\ DeliveryTypeOK'
           /\ UNCHANGED <<driver, log, lastSeq, notified, batch, sending, late>>
           /\ chan'[c] = <<>> /\ missed'[c] = {}
           /\ \A s \in Subs : s /= c => /\ chan'[s] = chan[s]
                                       /\ missed'[s] = missed[s]
                                       /\ (s \in registered' <=> s \in registered)
<1>1. /\ UNCHANGED <<driver, log, lastSeq, notified, batch, sending, late>>
      /\ registered' \subseteq Subs
      /\ chan' = [chan EXCEPT ![c] = <<>>] /\ missed' = [missed EXCEPT ![c] = {}]
      /\ \A s \in Subs : s /= c => (s \in registered' <=> s \in registered)
  BY DEF Subscribe, Unsubscribe, pollerVars, DeliveryTypeOK
<1>2. chan \in [Subs -> Seq(DOMAIN log)] /\ missed \in [Subs -> SUBSET DOMAIN log]
  BY DEF DeliveryTypeOK
<1>3. chan' \in [Subs -> Seq(DOMAIN log)] /\ missed' \in [Subs -> SUBSET DOMAIN log]
  BY <1>1, <1>2, EmptyChannel
<1>4. /\ chan'[c] = <<>> /\ missed'[c] = {}
      /\ \A s \in Subs : s /= c => chan'[s] = chan[s] /\ missed'[s] = missed[s]
  BY <1>1, <1>2
<1>5. \A s \in Subs : Len(chan'[s]) <= Capacity
  <2>1. Len(chan'[c]) = 0
    BY <1>4, EmptyChannel
  <2> QED  BY <1>4, <2>1, EventBounds DEF DeliveryTypeOK
<1> QED  BY <1>1, <1>3, <1>4, <1>5 DEF DeliveryTypeOK

LEMMA SameDelivery ==
    ASSUME DeliveryTypeOK, UNCHANGED deliveryVars
    PROVE  DeliveryTypeOK' /\ log' = log
  BY DEF DeliveryTypeOK, deliveryVars

LEMMA TakeTypes ==
    ASSUME DeliveryTypeOK, DeliveredOnce, NEW c \in Subs, Take(c)
    PROVE  DeliveryTypeOK' /\ log' = log
<1>1. /\ chan' \in [Subs -> Seq(DOMAIN log)] /\ Len(chan'[c]) <= Capacity
      /\ \A s \in Subs : s /= c => chan'[s] = chan[s]
  BY TakeEffect
<1>2. UNCHANGED <<driver, log, lastSeq, notified, batch, sending, registered,
                  missed, late>>
  BY DEF Take, pollerVars
<1>3. \A s \in Subs : Len(chan'[s]) <= Capacity
  BY <1>1 DEF DeliveryTypeOK
<1> QED  BY <1>1, <1>2, <1>3 DEF DeliveryTypeOK

-----------------------------------------------------------------------------
(* Every event is broadcast once.                                          *)

BehindAt(i, rows, n) ==
    i \in DOMAIN rows /\ rows[i].stage = "committed" /\ rows[i].seq <= n

DeliveredAt(rows, n, b, ch) ==
    /\ \A i \in b : BehindAt(i, rows, n)
    /\ \A s \in Subs :
          /\ \A k \in DOMAIN ch[s] : BehindAt(ch[s][k], rows, n) /\ ch[s][k] \notin b
          /\ \A k, l \in DOMAIN ch[s] : ch[s][k] = ch[s][l] => k = l

LEMMA DeliveredLater ==
    ASSUME DeliveredAt(log', lastSeq', batch', chan')
    PROVE  DeliveredOnce'
  BY DEF DeliveredAt, DeliveredOnce, BehindAt, Behind, Visible

LEMMA BehindStays ==
    ASSUME Published, NEW i, Behind(i)
    PROVE  Behind(i)'
  BY DEF Published, Behind, Visible

LEMMA PublishDelivers ==
    ASSUME DeliveryTypeOK, DeliveredOnce, Published
    PROVE  DeliveredOnce'
<1>1. batch' = batch /\ chan' = chan
  BY DEF Published
<1> QED  BY <1>1, BehindStays DEF DeliveredOnce

LEMMA PollDelivers ==
    ASSUME DeliveryTypeOK, DeliveredOnce, Poll
    PROVE  DeliveredOnce'
<1>1. /\ lastSeq' \in 0 .. MaxEvents /\ lastSeq < lastSeq' /\ lastSeq \in 0 .. MaxEvents
      /\ batch' \subseteq DOMAIN log
      /\ \A i \in batch' : /\ Visible(i) /\ lastSeq < log[i].seq
                           /\ log[i].seq <= lastSeq'
      /\ log' = log /\ chan' = chan
  BY PollEffect DEF DeliveryTypeOK
<1>2. \A i : Behind(i) => Behind(i)' /\ i \notin batch'
  BY <1>1, LogFacts DEF Behind, Visible
<1>3. \A i \in batch' : Behind(i)'
  BY <1>1 DEF Behind, Visible
<1> QED  BY <1>1, <1>2, <1>3 DEF DeliveredOnce

LEMMA BroadcastDelivers ==
    ASSUME DeliveryTypeOK, DeliveredOnce, Broadcast
    PROVE  DeliveredOnce'
<1>1. PICK i \in batch :
        /\ batch' = batch \ {i}
        /\ log' = log /\ lastSeq' = lastSeq
        /\ \A s \in Subs :
             \/ /\ Len(chan'[s]) = Len(chan[s]) + 1
                /\ chan'[s][Len(chan[s]) + 1] = i
                /\ \A k \in DOMAIN chan[s] : chan'[s][k] = chan[s][k]
             \/ chan'[s] = chan[s]
        /\ chan' \in [Subs -> Seq(DOMAIN log)]
  BY BroadcastEffect
<1>2. \A j : BehindAt(j, log', lastSeq') <=> Behind(j)
  BY <1>1 DEF Behind, Visible, BehindAt
<1>3. ASSUME NEW s \in Subs
      PROVE  /\ \A k \in DOMAIN chan'[s] : BehindAt(chan'[s][k], log', lastSeq') /\ chan'[s][k] \notin batch'
             /\ \A k, l \in DOMAIN chan'[s] : chan'[s][k] = chan'[s][l] => k = l
  <2>0. /\ \A k \in DOMAIN chan[s] : Behind(chan[s][k]) /\ chan[s][k] \notin batch
        /\ \A k, l \in DOMAIN chan[s] : chan[s][k] = chan[s][l] => k = l
        /\ Behind(i)
    BY <1>1 DEF DeliveredOnce
  <2>1. CASE chan'[s] = chan[s]
    BY <1>1, <1>2, <2>0, <2>1
  <2>2. CASE /\ Len(chan'[s]) = Len(chan[s]) + 1
             /\ chan'[s][Len(chan[s]) + 1] = i
             /\ \A k \in DOMAIN chan[s] : chan'[s][k] = chan[s][k]
    <3>1. /\ DOMAIN chan[s] = 1 .. Len(chan[s]) /\ Len(chan[s]) \in Nat
          /\ DOMAIN chan'[s] = 1 .. (Len(chan[s]) + 1)
      <4>1. chan[s] \in Seq(DOMAIN log) /\ chan'[s] \in Seq(DOMAIN log)
        BY <1>1 DEF DeliveryTypeOK
      <4> QED  BY <4>1, <2>2
    <3>2. \A k \in DOMAIN chan'[s] :
            \/ k \in DOMAIN chan[s] /\ chan'[s][k] = chan[s][k]
            \/ k = Len(chan[s]) + 1 /\ chan'[s][k] = i
      BY <2>2, <3>1
    <3>3. Len(chan[s]) + 1 \notin DOMAIN chan[s]
      BY <3>1
    <3>4. \A k \in DOMAIN chan'[s] : BehindAt(chan'[s][k], log', lastSeq') /\ chan'[s][k] \notin batch'
      BY <1>1, <1>2, <2>0, <3>2
    <3>5. \A k, l \in DOMAIN chan'[s] : chan'[s][k] = chan'[s][l] => k = l
      BY <1>1, <2>0, <3>2
    <3> QED  BY <3>4, <3>5
  <2> QED  BY <1>1, <2>1, <2>2
<1>4. \A j \in batch' : BehindAt(j, log', lastSeq')
  BY <1>1, <1>2 DEF DeliveredOnce
<1>5. DeliveredAt(log', lastSeq', batch', chan')
  BY <1>3, <1>4 DEF DeliveredAt
<1> QED  BY <1>5, DeliveredLater

LEMMA TakeDelivers ==
    ASSUME DeliveryTypeOK, DeliveredOnce, NEW c \in Subs, Take(c)
    PROVE  DeliveredOnce'
<1>1. /\ log' = log /\ lastSeq' = lastSeq /\ batch' = batch
  BY DEF Take, pollerVars
<1>2. \A j : BehindAt(j, log', lastSeq') <=> Behind(j)
  BY <1>1 DEF Behind, Visible, BehindAt
<1>3. /\ \A s \in Subs : s /= c => chan'[s] = chan[s]
      /\ \A k \in DOMAIN chan'[c] : chan'[c][k] = chan[c][k + 1]
                                    /\ k + 1 \in DOMAIN chan[c]
      /\ chan'[c] \in Seq(DOMAIN log)
  BY TakeEffect
<1>4. ASSUME NEW s \in Subs
      PROVE  /\ \A k \in DOMAIN chan'[s] : BehindAt(chan'[s][k], log', lastSeq') /\ chan'[s][k] \notin batch'
             /\ \A k, l \in DOMAIN chan'[s] : chan'[s][k] = chan'[s][l] => k = l
  <2>0. /\ \A k \in DOMAIN chan[s] : Behind(chan[s][k]) /\ chan[s][k] \notin batch
        /\ \A k, l \in DOMAIN chan[s] : chan[s][k] = chan[s][l] => k = l
    BY DEF DeliveredOnce
  <2>1. CASE s /= c
    BY <1>1, <1>2, <1>3, <2>0, <2>1
  <2>2. CASE s = c
    <3>1. DOMAIN chan'[c] \subseteq Int
      BY <1>3
    <3>2. \A k, l \in DOMAIN chan'[c] : k + 1 = l + 1 => k = l
      BY <3>1
    <3> QED  BY <1>1, <1>2, <1>3, <2>0, <2>2, <3>2
  <2> QED  BY <2>1, <2>2
<1>5. DeliveredAt(log', lastSeq', batch', chan')
  BY <1>1, <1>2, <1>4 DEF DeliveredAt, DeliveredOnce
<1> QED  BY <1>5, DeliveredLater

LEMMA SubscribeDelivers ==
    ASSUME DeliveryTypeOK, DeliveredOnce, NEW c \in Subs,
           Subscribe(c) \/ Unsubscribe(c)
    PROVE  DeliveredOnce'
<1>1. /\ log' = log /\ lastSeq' = lastSeq /\ batch' = batch
      /\ chan'[c] = <<>> /\ \A s \in Subs : s /= c => chan'[s] = chan[s]
  BY SubscribeTypes
<1>2. \A j : BehindAt(j, log', lastSeq') <=> Behind(j)
  BY <1>1 DEF Behind, Visible, BehindAt
<1>3. DOMAIN chan'[c] = {}
  BY <1>1, EmptyChannel
<1>4. DeliveredAt(log', lastSeq', batch', chan')
  BY <1>1, <1>2, <1>3 DEF DeliveredAt, DeliveredOnce
<1> QED  BY <1>4, DeliveredLater

LEMMA RestartDelivers ==
    ASSUME DeliveryTypeOK, RestartPoller
    PROVE  DeliveredOnce'
<1>1. batch' = {} /\ \A s \in Subs : chan'[s] = <<>>
  BY RestartEffect
<1>2. \A s \in Subs : DOMAIN chan'[s] = {}
  BY <1>1, EmptyChannel
<1> QED  BY <1>1, <1>2 DEF DeliveredOnce

-----------------------------------------------------------------------------
(* A step of a publisher, of the poller or of a subscriber keeps all three.*)

LEMMA PublishStepKeeps ==
    ASSUME DeliveryTypeOK, RowsOK, DeliveredOnce,
           PublishStep \/ \E w \in Contents : Begin(w)
    PROVE  Published /\ DeliveryTypeOK' /\ RowsOK' /\ DeliveredOnce'
<1>1. Published
  BY BeginPublishes, PublishStepPublishes DEF RowsOK
<1>2. RowsOK'
  BY BeginKeepsRows, InsertKeepsRows, CommitKeepsRows, FailKeepsRows
     DEF PublishStep
<1> QED  BY <1>1, <1>2, PublishedTypes, PublishDelivers

LEMMA PollerStepKeeps ==
    ASSUME DeliveryTypeOK, RowsOK, DeliveredOnce, PollerStep
    PROVE  DeliveryTypeOK' /\ RowsOK' /\ DeliveredOnce' /\ log' = log
<1>1. CASE Poll
  BY <1>1, PollKeepsRows, PollDelivers, PollerTypes
<1>2. CASE NotifiedForNothing
  <2>1. UNCHANGED <<driver, log, lastSeq, batch, chan, late>>
    BY <1>2 DEF NotifiedForNothing, subscriberVars
  <2>2. RowsOK'
    BY <2>1, SameRows
  <2>3. DeliveredOnce'
    BY <2>1 DEF DeliveredOnce, Behind, Visible
  <2> QED  BY <2>2, <2>3, PollerTypes
<1>3. CASE Broadcast
  <2>1. UNCHANGED <<driver, log, lastSeq, late>>
    BY <1>3 DEF Broadcast
  <2> QED  BY <1>3, <2>1, SameRows, BroadcastDelivers, PollerTypes
<1> QED  BY <1>1, <1>2, <1>3 DEF PollerStep, PollOnTick, PollOnNotify

LEMMA SubscriberStepKeeps ==
    ASSUME DeliveryTypeOK, RowsOK, DeliveredOnce, NEW c \in Subs,
           Subscribe(c) \/ Unsubscribe(c) \/ Take(c)
    PROVE  DeliveryTypeOK' /\ RowsOK' /\ DeliveredOnce' /\ log' = log
<1>1. CASE Subscribe(c) \/ Unsubscribe(c)
  <2>1. DeliveryTypeOK' /\ UNCHANGED <<driver, log, lastSeq, late>>
    BY <1>1, SubscribeTypes
  <2> QED  BY <1>1, <2>1, SameRows, SubscribeDelivers
<1>2. CASE Take(c)
  <2>1. UNCHANGED <<driver, log, lastSeq, late>>
    BY <1>2 DEF Take, pollerVars
  <2> QED  BY <1>2, <2>1, SameRows, TakeDelivers, TakeTypes
<1> QED  BY <1>1, <1>2

LEMMA SameDeliveryKeeps ==
    ASSUME DeliveryTypeOK, RowsOK, DeliveredOnce, UNCHANGED deliveryVars
    PROVE  DeliveryTypeOK' /\ RowsOK' /\ DeliveredOnce' /\ log' = log
<1>1. UNCHANGED <<driver, log, lastSeq, batch, chan, late>>
  BY DEF deliveryVars
<1>2. DeliveredOnce'
  BY <1>1 DEF DeliveredOnce, Behind, Visible
<1> QED  BY <1>1, <1>2, SameRows, SameDelivery

=============================================================================
