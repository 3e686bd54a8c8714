------------------------- MODULE EventStreamProofs -------------------------
(***************************************************************************)
(* Proofs about EventStream, for any number of clients and events and any  *)
(* batch and channel sizes: StreamInv is inductive, so that no stream      *)
(* repeats an event, none loses one between its history and its live       *)
(* events, and with SQLite none becomes visible behind the poller.         *)
(***************************************************************************)
EXTENDS EventStream, EventDeliveryProofs

-----------------------------------------------------------------------------
(* Types.                                                                  *)

LEMMA PublishTypes ==
    ASSUME TypeOK, Published, DeliveryTypeOK', UNCHANGED streamVars
    PROVE  TypeOK'
<1>1. DOMAIN log \subseteq DOMAIN log'
  BY DEF Published
<1>2. UNCHANGED <<place, after, from, skip, sent, repeated, known, restarts, connects>>
  BY DEF streamVars
<1>3. /\ skip' \in [Subs -> SUBSET DOMAIN log']
      /\ sent' \in [Subs -> SUBSET DOMAIN log']
      /\ repeated' \in [Subs -> SUBSET DOMAIN log']
  BY <1>1, <1>2 DEF TypeOK
<1> QED  BY <1>2, <1>3 DEF TypeOK, NoHistory

LEMMA DeliverTypes ==
    ASSUME TypeOK, DeliveryTypeOK', log' = log, UNCHANGED streamVars
    PROVE  TypeOK'
<1>1. UNCHANGED <<place, after, from, skip, sent, repeated, known, restarts, connects>>
  BY DEF streamVars
<1> QED  BY <1>1 DEF TypeOK, NoHistory

LEMMA ConnectTypes ==
    ASSUME TypeOK, NEW c \in Subs, Connect(c)
    PROVE  TypeOK'
<1>1. DeliveryTypeOK' /\ DOMAIN log' = DOMAIN log /\ lastSeq \in 0 .. MaxEvents
  BY SubscribeTypes DEF Connect, TypeOK, DeliveryTypeOK
<1>2. PICK a \in {NoHistory, 0, known[c]} : after' = [after EXCEPT ![c] = a]
  BY DEF Connect
<1>3. a \in 0 .. NoHistory
  BY EventBounds DEF NoHistory, TypeOK
<1>4. connects' \in 0 .. MaxConnects
  BY StreamBounds DEF Connect, TypeOK
<1>5. /\ place' = [place EXCEPT ![c] = "opening"]
      /\ from' = [from EXCEPT ![c] = lastSeq] /\ skip' = [skip EXCEPT ![c] = {}]
      /\ sent' = [sent EXCEPT ![c] = {}] /\ repeated' = [repeated EXCEPT ![c] = {}]
      /\ UNCHANGED <<known, restarts>>
  BY DEF Connect
<1> QED  BY <1>1, <1>2, <1>3, <1>4, <1>5 DEF TypeOK, NoHistory

LEMMA SendHistoryTypes ==
    ASSUME TypeOK, NEW c \in Subs, SendHistory(c)
    PROVE  TypeOK'
<1>1. DeliveryTypeOK' /\ log' = log
  BY SameDelivery DEF SendHistory, TypeOK
<1>2. After(after[c]) \subseteq DOMAIN log /\ After(after[c]) \subseteq 0 .. MaxEvents
  BY LogFacts DEF After, TypeOK
<1>3. known' \in [Subs -> 0 .. MaxEvents]
  BY <1>2 DEF SendHistory, TypeOK
<1>4. /\ place' = [place EXCEPT ![c] = "live"]
      /\ sent' = [sent EXCEPT ![c] = After(after[c])]
      /\ skip' = [skip EXCEPT ![c] = After(after[c])]
      /\ UNCHANGED <<after, from, repeated, restarts, connects>>
  BY DEF SendHistory
<1> HIDE DEF SendHistory
<1> QED  BY <1>1, <1>2, <1>3, <1>4 DEF TypeOK, NoHistory

LEMMA SkipHistoryTypes ==
    ASSUME TypeOK, NEW c \in Subs, SkipHistory(c)
    PROVE  TypeOK'
<1>1. DeliveryTypeOK' /\ log' = log
  BY SameDelivery DEF SkipHistory, TypeOK
<1>2. NoHistory \in 0 .. NoHistory
  BY EventBounds DEF NoHistory
<1> QED  BY <1>1, <1>2 DEF TypeOK, SkipHistory, NoHistory

LEMMA SendLiveTypes ==
    ASSUME TypeOK, DeliveredOnce, NEW c \in Subs, SendLive(c)
    PROVE  TypeOK'
<1>1. DeliveryTypeOK /\ Take(c)
  BY DEF TypeOK, SendLive
<1>2. Head(chan[c]) \in DOMAIN log
  BY <1>1, TakeEffect
<1>3. DeliveryTypeOK' /\ log' = log
  BY <1>1, TakeTypes
<1>4. Head(chan[c]) \in 0 .. MaxEvents
  BY <1>1, <1>2, LogFacts
<1>5. /\ skip' \in [Subs -> SUBSET DOMAIN log] /\ sent' \in [Subs -> SUBSET DOMAIN log]
      /\ repeated' \in [Subs -> SUBSET DOMAIN log]
      /\ known' \in [Subs -> 0 .. MaxEvents]
  <2>1. CASE Head(chan[c]) \in skip[c]
    BY <2>1 DEF SendLive, TypeOK
  <2>2. CASE Head(chan[c]) \notin skip[c]
    <3>1. /\ sent' = [sent EXCEPT ![c] = sent[c] \union {Head(chan[c])}]
          /\ repeated' = [repeated EXCEPT ![c] =
                 IF Head(chan[c]) \in sent[c]
                 THEN repeated[c] \union {Head(chan[c])} ELSE repeated[c]]
          /\ known' = [known EXCEPT ![c] = Head(chan[c])] /\ skip' = skip
      BY <2>2 DEF SendLive
    <3>2. (IF Head(chan[c]) \in sent[c]
           THEN repeated[c] \union {Head(chan[c])} ELSE repeated[c]) \in SUBSET DOMAIN log
      BY <1>2 DEF TypeOK
    <3> QED  BY <1>2, <1>4, <3>1, <3>2 DEF TypeOK
  <2> QED  BY <2>1, <2>2
<1> QED  BY <1>3, <1>5 DEF TypeOK, SendLive, NoHistory

LEMMA DisconnectTypes ==
    ASSUME TypeOK, NEW c \in Subs, Disconnect(c)
    PROVE  TypeOK'
<1>1. DeliveryTypeOK' /\ DOMAIN log' = DOMAIN log
  BY SubscribeTypes DEF Disconnect, TypeOK
<1>2. NoHistory \in 0 .. NoHistory /\ 0 \in 0 .. MaxEvents
  BY EventBounds DEF NoHistory
<1> QED  BY <1>1, <1>2 DEF TypeOK, Disconnect, NoHistory

LEMMA RestartTypes ==
    ASSUME TypeOK, Restart
    PROVE  TypeOK'
<1>1. DeliveryTypeOK /\ RestartPoller
  BY DEF TypeOK, Restart
<1>2. /\ log' \in Seq(Row) /\ Len(log') = Len(log) /\ DOMAIN log' = DOMAIN log
      /\ lastSeq' \in 0 .. MaxEvents /\ UNCHANGED <<driver, late>>
      /\ batch' = {} /\ registered' = {}
      /\ chan' = [s \in Subs |-> <<>>] /\ missed' = [s \in Subs |-> {}]
      /\ sending' = FALSE /\ notified' = FALSE
  BY <1>1, RestartEffect
<1>3. /\ chan' \in [Subs -> Seq(DOMAIN log')]
      /\ \A s \in Subs : chan'[s] = <<>> /\ Len(chan'[s]) = 0
  BY <1>2, EmptyChannel
<1>4. DeliveryTypeOK'
  <2>1. missed' \in [Subs -> SUBSET DOMAIN log'] /\ late' \subseteq DOMAIN log'
    BY <1>1, <1>2 DEF DeliveryTypeOK
  <2>2. \A s \in Subs : Len(chan'[s]) <= Capacity
    BY <1>3, EventBounds
  <2>3. Len(log') <= MaxEvents /\ driver' \in {"sqlite", "postgres"}
    BY <1>1, <1>2 DEF DeliveryTypeOK
  <2>4. /\ batch' \subseteq DOMAIN log' /\ registered' \subseteq Subs
        /\ sending' \in BOOLEAN /\ notified' \in BOOLEAN
    BY <1>2
  <2>5. log' \in Seq(Row) /\ lastSeq' \in 0 .. MaxEvents
    BY <1>2
  <2>6. chan' \in [Subs -> Seq(DOMAIN log')]
    BY <1>3
  <2> QED  BY ONLY <2>1, <2>2, <2>3, <2>4, <2>5, <2>6 DEF DeliveryTypeOK
<1>5. restarts' \in 0 .. MaxRestarts
  BY StreamBounds DEF Restart, TypeOK
<1>6. NoHistory \in 0 .. NoHistory /\ 0 \in 0 .. MaxEvents
  BY EventBounds DEF NoHistory
<1> QED  BY <1>2, <1>4, <1>5, <1>6 DEF TypeOK, Restart, NoHistory

-----------------------------------------------------------------------------
(* Each stream: none repeats an event and none loses one.                  *)

LEMMA PublishKeepsStream ==
    ASSUME TypeOK, Published, UNCHANGED streamVars, NEW c \in Subs, StreamOK(c)
    PROVE  StreamOK(c)'
<1>1. /\ UNCHANGED <<lastSeq, batch, registered, chan, missed>>
      /\ UNCHANGED <<place, after, from, skip, sent, repeated>>
      /\ late \subseteq late'
  BY DEF Published, streamVars
<1>2. InChannel(c)' = InChannel(c)
  BY <1>1 DEF InChannel
<1>3. \A i : Behind(i) => Behind(i)'
  BY BehindStays
<1>4. lastSeq \in Nat
  BY DEF TypeOK, DeliveryTypeOK
<1>5. ASSUME NEW i \in DOMAIN log', Behind(i)'
      PROVE  (i \in DOMAIN log /\ Behind(i) /\ log'[i].seq = log[i].seq) \/ i \in late'
  <2>1. log'[i].stage = "committed" /\ log'[i].seq <= lastSeq
    BY <1>1, <1>5 DEF Behind, Visible
  <2>2. /\ i \in DOMAIN log
        /\ \/ Visible(i) /\ log'[i].seq = log[i].seq
           \/ log'[i].seq > lastSeq
           \/ i \in late'
    BY <2>1 DEF Published
  <2>3. log'[i].seq \in Nat
    <3>1. log' \in Seq(Row)
      BY DEF Published
    <3>2. log'[i] \in Row
      BY <3>1
    <3> QED  BY <3>2, EventBounds DEF Row
  <2>4. ~(log'[i].seq > lastSeq)
    BY <1>4, <2>1, <2>3
  <2> QED  BY <2>1, <2>2, <2>4 DEF Behind
<1>6. \A i : Accounted(c, i) => Accounted(c, i)'
  BY <1>1, <1>2 DEF Accounted
<1>7. \A i \in late' : Accounted(c, i)'
  BY DEF Accounted
<1> QED  BY <1>1, <1>2, <1>3, <1>5, <1>6, <1>7 DEF StreamOK

LEMMA PollKeepsStream ==
    ASSUME TypeOK, Poll, UNCHANGED streamVars, NEW c \in Subs, StreamOK(c)
    PROVE  StreamOK(c)'
<1>0. DeliveryTypeOK
  BY DEF TypeOK
<1>1. /\ lastSeq' \in 0 .. MaxEvents /\ lastSeq < lastSeq' /\ lastSeq \in 0 .. MaxEvents
      /\ \A i \in batch' : /\ Visible(i) /\ lastSeq < log[i].seq
                           /\ log[i].seq <= lastSeq'
      /\ \A i \in DOMAIN log : (Visible(i) /\ log[i].seq <= lastSeq')
                                  => (log[i].seq <= lastSeq \/ i \in batch')
      /\ batch = {} /\ UNCHANGED <<log, registered, chan, missed, late>>
      /\ UNCHANGED <<place, after, from, skip, sent, repeated>>
  BY <1>0, PollEffect DEF streamVars, DeliveryTypeOK
<1>2. InChannel(c)' = InChannel(c)
  BY <1>1 DEF InChannel
<1>3. \A i : Behind(i) => Behind(i)' /\ i \notin batch'
  BY <1>0, <1>1, LogFacts DEF Behind, Visible
<1>4. \A i \in DOMAIN log : Behind(i)' => (Behind(i) \/ i \in batch')
  BY <1>1 DEF Behind, Visible
<1>5. \A i : (Accounted(c, i) \/ i \in batch') => Accounted(c, i)'
  BY <1>1, <1>2 DEF Accounted
<1> QED  BY <1>1, <1>2, <1>3, <1>4, <1>5 DEF StreamOK

LEMMA BroadcastKeepsStream ==
    ASSUME TypeOK, DeliveredOnce, Broadcast, UNCHANGED streamVars,
           NEW c \in Subs, StreamOK(c)
    PROVE  StreamOK(c)'
<1>0. DeliveryTypeOK
  BY DEF TypeOK
<1>1. PICK i \in batch :
        /\ batch' = batch \ {i}
        /\ UNCHANGED <<log, lastSeq, registered, late>>
        /\ \A s \in Subs :
             \/ /\ s \in registered /\ missed'[s] = missed[s]
                /\ Len(chan'[s]) = Len(chan[s]) + 1
                /\ chan'[s][Len(chan[s]) + 1] = i
                /\ \A k \in DOMAIN chan[s] : chan'[s][k] = chan[s][k]
             \/ /\ s \in registered /\ chan'[s] = chan[s]
                /\ missed'[s] = missed[s] \union {i}
             \/ /\ s \notin registered /\ chan'[s] = chan[s]
                /\ missed'[s] = missed[s]
        /\ chan' \in [Subs -> Seq(DOMAIN log)]
  BY <1>0, BroadcastEffect
<1>2. UNCHANGED <<place, after, from, skip, sent, repeated>>
  BY DEF streamVars
<1>3. \A j : Behind(j)' <=> Behind(j)
  BY <1>1 DEF Behind, Visible
<1>4. /\ \/ InChannel(c)' = InChannel(c) \union {i}
         \/ InChannel(c)' = InChannel(c) /\ c \in registered /\ i \in missed'[c]
         \/ InChannel(c)' = InChannel(c) /\ c \notin registered
      /\ missed[c] \subseteq missed'[c]
  <2>1. CASE /\ missed'[c] = missed[c]
             /\ Len(chan'[c]) = Len(chan[c]) + 1
             /\ chan'[c][Len(chan[c]) + 1] = i
             /\ \A k \in DOMAIN chan[c] : chan'[c][k] = chan[c][k]
    <3>1. /\ DOMAIN chan[c] = 1 .. Len(chan[c]) /\ Len(chan[c]) \in Nat
          /\ DOMAIN chan'[c] = 1 .. (Len(chan[c]) + 1)
      <4>1. chan[c] \in Seq(DOMAIN log) /\ chan'[c] \in Seq(DOMAIN log)
        BY <1>0, <1>1 DEF DeliveryTypeOK
      <4> QED  BY <4>1, <2>1
    <3>2. DOMAIN chan'[c] = DOMAIN chan[c] \union {Len(chan[c]) + 1}
      BY <3>1
    <3>3. InChannel(c)' = InChannel(c) \union {i}
      BY <2>1, <3>2 DEF InChannel
    <3> QED  BY <2>1, <3>3
  <2>2. CASE chan'[c] = chan[c]
    <3>1. InChannel(c)' = InChannel(c)
      BY <2>2 DEF InChannel
    <3>2. \/ /\ Len(chan'[c]) = Len(chan[c]) + 1
             /\ chan'[c][Len(chan[c]) + 1] = i
             /\ \A k \in DOMAIN chan[c] : chan'[c][k] = chan[c][k]
             /\ missed'[c] = missed[c]
          \/ c \in registered /\ missed'[c] = missed[c] \union {i}
          \/ c \notin registered /\ missed'[c] = missed[c]
      BY <1>1
    <3> QED  BY <2>1, <3>1, <3>2
  <2> QED  BY <1>1, <2>1, <2>2
<1>5. \A j : (c \in registered /\ Accounted(c, j)) => Accounted(c, j)'
  BY <1>1, <1>4 DEF Accounted
<1>6. \A j \in sent[c] \ skip[c] : j \notin InChannel(c)' /\ j \notin batch'
  BY <1>1, <1>4 DEF StreamOK
<1>7. place[c] /= "off" => c \in registered
  BY DEF StreamOK
<1>8. (place[c] = "live" /\ after[c] /= NoHistory) =>
        \A j \in DOMAIN log : (j > after[c] /\ Behind(j))
            => (j \in sent[c] \/ Accounted(c, j)')
  BY <1>5, <1>7 DEF StreamOK
<1>9. place[c] /= "off" =>
        \A j \in DOMAIN log : (from[c] < log[j].seq /\ Behind(j))
            => (j \in sent[c] \/ Accounted(c, j)')
  BY <1>5, <1>7 DEF StreamOK
<1> QED  BY <1>1, <1>2, <1>3, <1>6, <1>8, <1>9 DEF StreamOK

(* What another client does.                                               *)
LEMMA OtherStream ==
    ASSUME NEW d \in Subs, StreamOK(d),
           UNCHANGED <<log, lastSeq, batch, late>>,
           d \in registered => d \in registered',
           chan'[d] = chan[d], missed'[d] = missed[d],
           place'[d] = place[d], after'[d] = after[d], from'[d] = from[d],
           skip'[d] = skip[d], sent'[d] = sent[d], repeated'[d] = repeated[d]
    PROVE  StreamOK(d)'
  BY DEF StreamOK, Behind, Visible, Accounted, InChannel

LEMMA ConnectKeepsStreams ==
    ASSUME TypeOK, NEW c \in Subs, Connect(c), NEW d \in Subs, StreamOK(d)
    PROVE  StreamOK(d)'
<1>0. DeliveryTypeOK /\ Subscribe(c)
  BY DEF TypeOK, Connect
<1>1. /\ UNCHANGED <<log, lastSeq, batch, late>>
      /\ chan'[c] = <<>> /\ missed'[c] = {}
      /\ \A s \in Subs : s /= c => /\ chan'[s] = chan[s]
                                  /\ missed'[s] = missed[s]
                                  /\ (s \in registered' <=> s \in registered)
  BY <1>0, SubscribeTypes
<1>2. /\ \E a : after' = [after EXCEPT ![c] = a]
      /\ place' = [place EXCEPT ![c] = "opening"]
      /\ from' = [from EXCEPT ![c] = lastSeq] /\ skip' = [skip EXCEPT ![c] = {}]
      /\ sent' = [sent EXCEPT ![c] = {}] /\ repeated' = [repeated EXCEPT ![c] = {}]
  BY DEF Connect
<1>3. CASE d /= c
  <2>1. /\ place'[d] = place[d] /\ after'[d] = after[d] /\ from'[d] = from[d]
        /\ skip'[d] = skip[d] /\ sent'[d] = sent[d] /\ repeated'[d] = repeated[d]
    BY <1>2, <1>3 DEF TypeOK
  <2>2. /\ d \in registered => d \in registered'
        /\ chan'[d] = chan[d] /\ missed'[d] = missed[d]
        /\ UNCHANGED <<log, lastSeq, batch, late>>
    BY <1>1, <1>3
  <2> QED  BY <2>1, <2>2, OtherStream
<1>4. CASE d = c
  <2>1. /\ place'[c] = "opening" /\ from'[c] = lastSeq /\ skip'[c] = {}
        /\ sent'[c] = {} /\ repeated'[c] = {}
    BY <1>2 DEF TypeOK
  <2>2. c \in registered'
    BY <1>0 DEF Subscribe
  <2>3. ASSUME NEW i \in DOMAIN log', from'[c] < log'[i].seq, Behind(i)'
        PROVE  FALSE
    <3>1. lastSeq < log[i].seq /\ log[i].seq <= lastSeq
      BY <1>1, <2>1, <2>3 DEF Behind
    <3>2. lastSeq \in Nat /\ log[i].seq \in Nat
      BY <1>0, <1>1, LogFacts DEF DeliveryTypeOK
    <3> QED  BY <3>1, <3>2
  <2> QED  BY <1>4, <2>1, <2>2, <2>3 DEF StreamOK
<1> QED  BY <1>3, <1>4

LEMMA SendHistoryKeepsStreams ==
    ASSUME TypeOK, NEW c \in Subs, SendHistory(c), NEW d \in Subs, StreamOK(d)
    PROVE  StreamOK(d)'
<1>1. UNCHANGED <<log, lastSeq, batch, late, registered, chan, missed>>
  BY DEF SendHistory, deliveryVars
<1>2. /\ place[c] = "opening"
      /\ place' = [place EXCEPT ![c] = "live"]
      /\ sent' = [sent EXCEPT ![c] = After(after[c])]
      /\ skip' = [skip EXCEPT ![c] = After(after[c])]
      /\ UNCHANGED <<after, from, repeated>>
  BY DEF SendHistory
<1>3. CASE d /= c
  <2>1. place'[d] = place[d] /\ skip'[d] = skip[d] /\ sent'[d] = sent[d]
    BY <1>2, <1>3 DEF TypeOK
  <2> QED  BY <1>1, <1>2, <1>3, <2>1, OtherStream
<1>4. CASE d = c
  <2>1. /\ place'[c] = "live" /\ sent'[c] = After(after[c])
        /\ skip'[c] = After(after[c])
    BY <1>2 DEF TypeOK
  <2>2. \A i \in DOMAIN log : (i > after[c] /\ Behind(i)) => i \in After(after[c])
    BY DEF After, Behind
  <2>3. /\ \A i : Behind(i)' <=> Behind(i)
        /\ \A i : Accounted(c, i) => Accounted(c, i)'
    BY <1>1 DEF Behind, Visible, Accounted, InChannel
  <2>4. \A i \in DOMAIN log' : (from'[c] < log'[i].seq /\ Behind(i)')
           => (i \in sent'[c] \/ Accounted(c, i)')
    <3> SUFFICES ASSUME NEW i \in DOMAIN log, from[c] < log[i].seq, Behind(i)
                 PROVE  i \in After(after[c]) \/ Accounted(c, i)
      BY <1>1, <1>2, <2>1, <2>3
    <3>1. i \in sent[c] \/ Accounted(c, i)
      BY <1>2, <1>4 DEF StreamOK
    <3>2. sent[c] = {}
      BY <1>4, <1>2 DEF StreamOK
    <3> QED  BY <3>1, <3>2
  <2> QED  BY <1>1, <1>2, <1>4, <2>1, <2>2, <2>3, <2>4 DEF StreamOK
<1> QED  BY <1>3, <1>4

LEMMA SkipHistoryKeepsStreams ==
    ASSUME TypeOK, NEW c \in Subs, SkipHistory(c), NEW d \in Subs, StreamOK(d)
    PROVE  StreamOK(d)'
<1>1. UNCHANGED <<log, lastSeq, batch, late, registered, chan, missed>>
  BY DEF SkipHistory, deliveryVars
<1>2. /\ place[c] = "opening"
      /\ place' = [place EXCEPT ![c] = "live"]
      /\ after' = [after EXCEPT ![c] = NoHistory]
      /\ UNCHANGED <<from, skip, sent, repeated>>
  BY DEF SkipHistory
<1>3. CASE d /= c
  <2>1. place'[d] = place[d] /\ after'[d] = after[d]
    BY <1>2, <1>3 DEF TypeOK
  <2> QED  BY <1>1, <1>2, <1>3, <2>1, OtherStream
<1>4. CASE d = c
  <2>1. place'[c] = "live" /\ after'[c] = NoHistory
    BY <1>2 DEF TypeOK
  <2>2. NoHistory' = NoHistory
    BY DEF NoHistory
  <2>3. /\ \A i : Behind(i)' <=> Behind(i)
        /\ \A i : Accounted(c, i)' <=> Accounted(c, i)
        /\ InChannel(c)' = InChannel(c)
    BY <1>1 DEF Behind, Visible, Accounted, InChannel
  <2> QED  BY <1>1, <1>2, <1>4, <2>1, <2>2, <2>3 DEF StreamOK
<1> QED  BY <1>3, <1>4

LEMMA SendLiveKeepsStreams ==
    ASSUME TypeOK, DeliveredOnce, NEW c \in Subs, SendLive(c),
           NEW d \in Subs, StreamOK(d)
    PROVE  StreamOK(d)'
<1> DEFINE h == Head(chan[c])
<1>0. DeliveryTypeOK /\ Take(c) /\ place[c] = "live"
  BY DEF TypeOK, SendLive
<1>1. UNCHANGED <<driver, log, lastSeq, batch, registered, missed, late>>
  BY <1>0 DEF Take, pollerVars
<1>2. /\ h \in DOMAIN log /\ Behind(h) /\ h \in InChannel(c) /\ h \notin batch
      /\ \A s \in Subs : s /= c => chan'[s] = chan[s]
      /\ InChannel(c)' = InChannel(c) \ {h}
  BY <1>0, TakeEffect
<1>3. UNCHANGED <<place, after, from>>
  BY DEF SendLive
<1>4. \/ /\ h \in skip[c]
         /\ skip' = [skip EXCEPT ![c] = skip[c] \ {h}]
         /\ sent' = sent /\ repeated' = repeated
      \/ /\ h \notin skip[c]
         /\ sent' = [sent EXCEPT ![c] = sent[c] \union {h}]
         /\ repeated' = [repeated EXCEPT ![c] =
                IF h \in sent[c] THEN repeated[c] \union {h} ELSE repeated[c]]
         /\ skip' = skip
  BY DEF SendLive
<1> HIDE DEF h
<1>5. CASE d /= c
  <2>1. skip'[d] = skip[d] /\ sent'[d] = sent[d] /\ repeated'[d] = repeated[d]
    BY <1>4, <1>5 DEF TypeOK
  <2> QED  BY <1>1, <1>2, <1>3, <1>5, <2>1, OtherStream
<1>6. CASE d = c
  <2>0. /\ skip[c] \subseteq sent[c] /\ repeated[c] = {}
        /\ place[c] /= "off" => c \in registered
        /\ \A i \in sent[c] \ skip[c] :
              Behind(i) /\ i \notin batch /\ i \notin InChannel(c)
    BY <1>6 DEF StreamOK
  <2>1. /\ skip'[c] \subseteq sent'[c] /\ repeated'[c] = {}
        /\ sent'[c] = sent[c] \union {h}
        /\ sent'[c] \ skip'[c] = (sent[c] \ skip[c]) \union {h}
    <3>1. CASE h \in skip[c]
      <4>1. /\ skip'[c] = skip[c] \ {h} /\ sent'[c] = sent[c]
            /\ repeated'[c] = repeated[c]
        BY <1>4, <3>1 DEF TypeOK
      <4> QED  BY <2>0, <3>1, <4>1
    <3>2. CASE h \notin skip[c]
      <4>1. h \notin sent[c]
        BY <1>2, <2>0, <3>2
      <4>2. /\ sent'[c] = sent[c] \union {h} /\ skip'[c] = skip[c]
            /\ repeated'[c] = repeated[c]
        BY <1>4, <3>2, <4>1 DEF TypeOK
      <4> QED  BY <2>0, <3>2, <4>1, <4>2
    <3> QED  BY <3>1, <3>2
  <2>2. \A i : Behind(i)' <=> Behind(i)
    BY <1>1 DEF Behind, Visible
  <2>3. \A i : Accounted(c, i) => (Accounted(c, i)' \/ i = h)
    BY <1>1, <1>2 DEF Accounted
  <2>4. \A i \in sent'[c] \ skip'[c] :
          Behind(i)' /\ i \notin batch' /\ i \notin InChannel(c)'
    BY <1>1, <1>2, <2>0, <2>1, <2>2
  <2>5. (place'[c] = "live" /\ after'[c] /= NoHistory) =>
          \A i \in DOMAIN log' : (i > after'[c] /\ Behind(i)')
              => (i \in sent'[c] \/ Accounted(c, i)')
    BY <1>1, <1>3, <1>6, <2>1, <2>2, <2>3 DEF StreamOK
  <2>6. place'[c] /= "off" =>
          \A i \in DOMAIN log' : (from'[c] < log'[i].seq /\ Behind(i)')
              => (i \in sent'[c] \/ Accounted(c, i)')
    BY <1>1, <1>3, <1>6, <2>1, <2>2, <2>3 DEF StreamOK
  <2>7. NoHistory' = NoHistory
    BY DEF NoHistory
  <2>8. place'[c] /= "off" => c \in registered'
    BY <1>1, <1>3, <2>0
  <2>9. place'[c] = "opening" => sent'[c] = {}
    BY <1>0, <1>3
  <2> QED  BY <1>6, <2>1, <2>4, <2>5, <2>6, <2>7, <2>8, <2>9 DEF StreamOK
<1> QED  BY <1>5, <1>6

LEMMA DisconnectKeepsStreams ==
    ASSUME TypeOK, NEW c \in Subs, Disconnect(c), NEW d \in Subs, StreamOK(d)
    PROVE  StreamOK(d)'
<1>0. DeliveryTypeOK /\ Unsubscribe(c)
  BY DEF TypeOK, Disconnect
<1>1. /\ UNCHANGED <<log, lastSeq, batch, late>>
      /\ chan'[c] = <<>> /\ missed'[c] = {}
      /\ \A s \in Subs : s /= c => /\ chan'[s] = chan[s]
                                  /\ missed'[s] = missed[s]
                                  /\ (s \in registered' <=> s \in registered)
  BY <1>0, SubscribeTypes
<1>2. /\ place' = [place EXCEPT ![c] = "off"]
      /\ after' = [after EXCEPT ![c] = NoHistory]
      /\ from' = [from EXCEPT ![c] = 0] /\ skip' = [skip EXCEPT ![c] = {}]
      /\ sent' = [sent EXCEPT ![c] = {}] /\ repeated' = [repeated EXCEPT ![c] = {}]
  BY DEF Disconnect
<1>3. CASE d /= c
  <2>1. /\ place'[d] = place[d] /\ after'[d] = after[d] /\ from'[d] = from[d]
        /\ skip'[d] = skip[d] /\ sent'[d] = sent[d] /\ repeated'[d] = repeated[d]
    BY <1>2, <1>3 DEF TypeOK
  <2>2. /\ d \in registered => d \in registered'
        /\ chan'[d] = chan[d] /\ missed'[d] = missed[d]
        /\ UNCHANGED <<log, lastSeq, batch, late>>
    BY <1>1, <1>3
  <2> QED  BY <2>1, <2>2, OtherStream
<1>4. CASE d = c
  <2>1. /\ place'[c] = "off" /\ skip'[c] = {} /\ sent'[c] = {} /\ repeated'[c] = {}
    BY <1>2 DEF TypeOK
  <2> QED  BY <1>4, <2>1 DEF StreamOK
<1> QED  BY <1>3, <1>4

LEMMA RestartKeepsStreams ==
    ASSUME TypeOK, Restart, NEW d \in Subs, StreamOK(d)
    PROVE  StreamOK(d)'
<1>1. /\ place' = [c \in Subs |-> "off"] /\ skip' = [c \in Subs |-> {}]
      /\ sent' = [c \in Subs |-> {}] /\ repeated' = [c \in Subs |-> {}]
  BY DEF Restart
<1> QED  BY <1>1 DEF StreamOK

-----------------------------------------------------------------------------
(* The invariant.                                                          *)

LEMMA InitInv == Init => StreamInv
<1> SUFFICES ASSUME Init PROVE StreamInv
  OBVIOUS
<1>1. /\ place = [c \in Subs |-> "off"] /\ after = [c \in Subs |-> NoHistory]
      /\ from = [c \in Subs |-> 0] /\ skip = [c \in Subs |-> {}]
      /\ sent = [c \in Subs |-> {}] /\ repeated = [c \in Subs |-> {}]
      /\ known = [c \in Subs |-> 0] /\ restarts = 0 /\ connects = 0
  BY DEF Init
<1>2. DeliveryTypeOK /\ RowsOK /\ DeliveredOnce
  BY InitDelivery DEF Init
<1>3. NoHistory \in 0 .. NoHistory /\ 0 \in 0 .. MaxEvents
  BY EventBounds DEF NoHistory
<1>4. TypeOK
  BY <1>1, <1>2, <1>3, StreamBounds DEF TypeOK
<1>5. \A c \in Subs : StreamOK(c)
  BY <1>1 DEF StreamOK
<1> QED  BY <1>2, <1>4, <1>5 DEF StreamInv, RowsOK

LEMMA NextInv == StreamInv /\ [Next]_vars => StreamInv'
<1> SUFFICES ASSUME StreamInv, [Next]_vars PROVE StreamInv'
  OBVIOUS
<1>0. /\ TypeOK /\ DeliveryTypeOK /\ RowsOK /\ Numbered /\ DeliveredOnce
      /\ \A c \in Subs : StreamOK(c)
  BY DEF StreamInv, TypeOK, RowsOK
<1> DEFINE Good == TypeOK' /\ RowsOK' /\ DeliveredOnce' /\ \A c \in Subs : StreamOK(c)'
<1>1. SUFFICES Good
  BY DEF StreamInv, RowsOK
<1>2. CASE Publish
  <2>1. UNCHANGED streamVars
    BY <1>2 DEF Publish
  <2>2. Published /\ DeliveryTypeOK' /\ RowsOK' /\ DeliveredOnce'
    BY <1>0, <1>2, PublishStepKeeps DEF Publish
  <2>3. \A c \in Subs : StreamOK(c)'
    BY <1>0, <2>1, <2>2, PublishKeepsStream
  <2> QED  BY <1>0, <2>1, <2>2, <2>3, PublishTypes
<1>3. CASE Deliver
  <2>1. UNCHANGED streamVars /\ PollerStep
    BY <1>3 DEF Deliver
  <2>2. TypeOK' /\ RowsOK' /\ DeliveredOnce'
    BY <1>0, <2>1, PollerStepKeeps, DeliverTypes
  <2>3. ASSUME NEW c \in Subs PROVE StreamOK(c)'
    <3>1. CASE Poll
      BY <1>0, <2>1, <3>1, PollKeepsStream
    <3>2. CASE Broadcast
      BY <1>0, <2>1, <3>2, BroadcastKeepsStream
    <3>3. CASE NotifiedForNothing
      <4>1. UNCHANGED <<log, lastSeq, batch, registered, chan, missed, late>>
        BY <3>3 DEF NotifiedForNothing, subscriberVars
      <4>2. UNCHANGED <<place, after, from, skip, sent, repeated>>
        BY <2>1 DEF streamVars
      <4> QED  BY <1>0, <4>1, <4>2, OtherStream
    <3> QED  BY <2>1, <3>1, <3>2, <3>3 DEF PollerStep, PollOnTick, PollOnNotify
  <2> QED  BY <2>2, <2>3
<1>4. CASE Restart
  <2>1. RestartPoller
    BY <1>4 DEF Restart
  <2>2. TypeOK' /\ RowsOK' /\ DeliveredOnce'
    BY <1>0, <1>4, <2>1, RestartTypes, RestartKeepsRows, RestartDelivers
  <2>3. \A c \in Subs : StreamOK(c)'
    BY <1>0, <1>4, RestartKeepsStreams
  <2> QED  BY <2>2, <2>3
<1>5. ASSUME NEW c \in Subs, Client(c) PROVE Good
  <2>1. CASE Connect(c) \/ Disconnect(c)
    <3>1. RowsOK' /\ DeliveredOnce'
      BY <1>0, <2>1, SubscriberStepKeeps DEF Connect, Disconnect
    <3>2. TypeOK'
      BY <1>0, <2>1, ConnectTypes, DisconnectTypes
    <3>3. \A d \in Subs : StreamOK(d)'
      BY <1>0, <2>1, ConnectKeepsStreams, DisconnectKeepsStreams
    <3> QED  BY <3>1, <3>2, <3>3
  <2>2. CASE SendHistory(c) \/ SkipHistory(c)
    <3>1. UNCHANGED deliveryVars
      BY <2>2 DEF SendHistory, SkipHistory
    <3>2. RowsOK' /\ DeliveredOnce'
      BY <1>0, <3>1, SameDeliveryKeeps
    <3>3. TypeOK'
      BY <1>0, <2>2, SendHistoryTypes, SkipHistoryTypes
    <3>4. \A d \in Subs : StreamOK(d)'
      BY <1>0, <2>2, SendHistoryKeepsStreams, SkipHistoryKeepsStreams
    <3> QED  BY <3>2, <3>3, <3>4
  <2>3. CASE SendLive(c)
    <3>1. RowsOK' /\ DeliveredOnce'
      BY <1>0, <2>3, SubscriberStepKeeps DEF SendLive
    <3>2. TypeOK'
      BY <1>0, <2>3, SendLiveTypes
    <3>3. \A d \in Subs : StreamOK(d)'
      BY <1>0, <2>3, SendLiveKeepsStreams
    <3> QED  BY <3>1, <3>2, <3>3
  <2> QED  BY <1>5, <2>1, <2>2, <2>3 DEF Client
<1>6. CASE UNCHANGED vars
  <2>1. UNCHANGED <<driver, log, lastSeq, notified, batch, sending, registered, chan,
                    missed, late, place, after, from, skip, sent, repeated, known,
                    restarts, connects>>
    BY <1>6 DEF vars, deliveryVars, streamVars
  <2>2. UNCHANGED deliveryVars /\ UNCHANGED streamVars
    BY <1>6 DEF vars
  <2>3. TypeOK' /\ RowsOK' /\ DeliveredOnce'
    BY <1>0, <2>2, SameDeliveryKeeps, DeliverTypes
  <2>4. \A c \in Subs : StreamOK(c)'
    BY <1>0, <2>1, OtherStream
  <2> QED  BY <2>3, <2>4
<1> QED  BY <1>2, <1>3, <1>4, <1>5, <1>6 DEF Next

(* StreamInv is an invariant.                                              *)
THEOREM StreamInvariant == Spec => []StreamInv
  BY InitInv, NextInv, PTL DEF Spec

(* Every variable of event delivery and of the streams stays in its type.  *)
THEOREM StreamTypesHold == Spec => []TypeOK
<1>1. StreamInv => TypeOK
  BY DEF StreamInv
<1> QED  BY <1>1, StreamInvariant, PTL

(* No connection is sent an event twice, whatever its history and the      *)
(* poller's batches have in common (handler/events.go:54).                 *)
THEOREM NoEventTwice == Spec => []SentOnce
<1>1. StreamInv => SentOnce
  BY DEF StreamInv, StreamOK, SentOnce
<1> QED  BY <1>1, StreamInvariant, PTL

(* No event falls between a stream's history and its live events           *)
(* (handler/events.go:46), and a stream misses nothing the poller went     *)
(* past since it subscribed, but for a full channel or an event that       *)
(* became visible late.                                                    *)
THEOREM StreamsMissNothing == Spec => []NothingMissed
<1>1. StreamInv => HistoryMeetsLive
  BY DEF StreamInv, StreamOK, HistoryMeetsLive
<1>2. StreamInv => LiveMissesNothing
  BY DEF StreamInv, StreamOK, LiveMissesNothing
<1>3. StreamInv => NothingMissed
  BY <1>1, <1>2 DEF NothingMissed
<1> QED  BY <1>3, StreamInvariant, PTL

(* With SQLite no event becomes visible behind the poller (poller.go:219). *)
THEOREM SQLiteKeepsOrder == Spec => []NoneLateOnSQLite
<1>1. StreamInv => NoneLateOnSQLite
  BY DEF StreamInv
<1> QED  BY <1>1, StreamInvariant, PTL

=============================================================================
