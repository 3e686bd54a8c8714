--------------------------- MODULE EventDelivery ---------------------------
(***************************************************************************)
(* The delivery of server events: an event is a row of project_events that *)
(* any server process inserts, and each process has one poller that reads  *)
(* the new rows and hands them to the subscribers of that process          *)
(* (server/internal/events/poller.go, events.go).                          *)
(*                                                                         *)
(* Events are named by the order in which their publishers stamped them    *)
(* (created_at); seq is the number the database gives on insertion, and    *)
(* a row becomes visible when its transaction commits.  With SQLite there  *)
(* is one connection for writing, so the three orders are the same; with   *)
(* Postgres each publisher has a connection of its own, so they need not   *)
(* be.  All events here are of one project.                                *)
(*                                                                         *)
(* This module has no Init or Next of its own: the modules that subscribe  *)
(* (EventStream, JobWait) add their clients to its steps.                  *)
(***************************************************************************)
EXTENDS Naturals, Sequences, FiniteSets

CONSTANTS
    Subs,           \* the subscribers
    Contents,       \* what an event can say
    MaxEvents,      \* bound: how many events are published
    BatchSize,      \* how many rows a poll reads
    Capacity        \* how many events a subscriber's channel holds

ASSUME EventBounds == /\ MaxEvents \in Nat
                      /\ BatchSize \in Nat \ {0}
                      /\ Capacity \in Nat

VARIABLES
    driver,         \* the database: chosen once, at startup
    log,            \* the rows, in the order of created_at
    lastSeq,        \* the poller's lastSeq
    notified,       \* is there anything in notifyCh?
    batch,          \* the events read and not broadcast yet
    sending,        \* does the poller hold subscribersMu?
    registered,     \* the poller's subscribers
    chan,           \* their channels
    missed,         \* events not sent to a subscriber: its channel was full
    late            \* events that became visible behind lastSeq

deliveryVars == <<driver, log, lastSeq, notified, batch, sending, registered,
                  chan, missed, late>>

Events == 1 .. MaxEvents
Row == [what: Contents, seq: 0 .. MaxEvents,
        stage: {"begun", "inserted", "committed", "failed"}]

DeliveryTypeOK ==
    /\ driver \in {"sqlite", "postgres"}
    /\ log \in Seq(Row) /\ Len(log) <= MaxEvents
    /\ lastSeq \in 0 .. MaxEvents
    /\ notified \in BOOLEAN /\ sending \in BOOLEAN
    /\ batch \subseteq DOMAIN log
    /\ registered \subseteq Subs
    /\ chan \in [Subs -> Seq(DOMAIN log)]
    /\ \A s \in Subs : Len(chan[s]) <= Capacity
    /\ missed \in [Subs -> SUBSET DOMAIN log]
    /\ late \subseteq DOMAIN log

DeliveryInit ==
    /\ driver \in {"sqlite", "postgres"}
    /\ log = <<>> /\ lastSeq = 0 /\ notified = FALSE
    /\ batch = {} /\ sending = FALSE
    /\ registered = {} /\ chan = [s \in Subs |-> <<>>]
    /\ missed = [s \in Subs |-> {}] /\ late = {}

pollerVars == <<lastSeq, notified, batch, sending>>
subscriberVars == <<registered, chan, missed>>

Visible(i) == log[i].stage = "committed"
Open(i) == log[i].stage \in {"begun", "inserted"}
InChannel(s) == {chan[s][k] : k \in DOMAIN chan[s]}
NewSeq == 1 + Cardinality({i \in DOMAIN log : log[i].seq /= 0})

-----------------------------------------------------------------------------
\* Publication.  The transaction begins and the row is stamped; SQLite's one
\* connection is taken for the whole of it.
Begin(w) ==
    /\ Len(log) < MaxEvents
    /\ driver = "sqlite" => \A i \in DOMAIN log : ~Open(i)
    /\ log' = Append(log, [what |-> w, seq |-> 0, stage |-> "begun"])
    /\ UNCHANGED <<driver, pollerVars, subscriberVars, late>>

Insert(i) ==
    /\ log[i].stage = "begun"
    /\ log' = [log EXCEPT ![i].stage = "inserted", ![i].seq = NewSeq]
    /\ UNCHANGED <<driver, pollerVars, subscriberVars, late>>

\* The row becomes visible, and NotifyNewEvent wakes the poller of the process
\* that published it, which need not be this one.
Commit(i) ==
    /\ log[i].stage = "inserted"
    /\ log' = [log EXCEPT ![i].stage = "committed"]
    /\ late' = IF log[i].seq <= lastSeq THEN late \union {i} ELSE late
    /\ notified' \in {TRUE, notified}
    /\ UNCHANGED <<driver, lastSeq, batch, sending, subscriberVars>>

\* The insert or the commit fails, or the publisher dies.
Fail(i) ==
    /\ Open(i)
    /\ log' = [log EXCEPT ![i].stage = "failed"]
    /\ UNCHANGED <<driver, pollerVars, subscriberVars, late>>

PublishStep == \E i \in DOMAIN log : Insert(i) \/ Commit(i) \/ Fail(i)

-----------------------------------------------------------------------------
\* The poller.  Mutant: the last event read is read again.
UnreadAgain == {i \in DOMAIN log : Visible(i) /\ log[i].seq >= lastSeq}
Unread == {i \in DOMAIN log : Visible(i) /\ log[i].seq > lastSeq}
NextBatch ==
    {i \in Unread :
        Cardinality({j \in Unread : log[j].seq < log[i].seq}) < BatchSize}

\* Mutant: lastSeq is moved to the last visible row.
PollToTheEnd ==
    /\ batch = {} /\ registered /= {}
    /\ batch' = NextBatch
    /\ \E i \in Unread : /\ \A j \in Unread : log[j].seq <= log[i].seq
                        /\ lastSeq' = log[i].seq
    /\ UNCHANGED <<driver, log, sending, subscriberVars, late>>

\* ListEventsAfterSeq, and lastSeq moved to the last row read.
Poll ==
    /\ batch = {} /\ registered /= {}
    /\ batch' = NextBatch
    /\ \E i \in NextBatch : /\ \A j \in NextBatch : log[j].seq <= log[i].seq
                           /\ lastSeq' = log[i].seq
    /\ UNCHANGED <<driver, log, sending, subscriberVars, late>>

\* Mutant: nothing is read without a notification.
PollIfNotified == notified /\ Poll /\ UNCHANGED notified
PollOnTick == Poll /\ UNCHANGED notified
PollOnNotify == notified /\ notified' = FALSE /\ Poll

\* A notification with nothing to read, or nobody to read for.
NotifiedForNothing ==
    /\ notified /\ batch = {} /\ (registered = {} \/ NextBatch = {})
    /\ notified' = FALSE
    /\ UNCHANGED <<driver, log, lastSeq, batch, sending, subscriberVars, late>>

\* Mutant: the sender does not see that the channel is full.
BroadcastToAll ==
    \E i \in batch :
        /\ \A j \in batch : log[i].seq <= log[j].seq
        /\ batch' = batch \ {i} /\ sending' = (batch /= {i})
        /\ chan' = [s \in Subs |-> IF s \in registered THEN Append(chan[s], i)
                                  ELSE chan[s]]
        /\ UNCHANGED <<driver, log, lastSeq, notified, registered, missed, late>>

\* One event of the batch goes to every subscriber whose channel has room.
Broadcast ==
    \E i \in batch :
        /\ \A j \in batch : log[i].seq <= log[j].seq
        /\ batch' = batch \ {i} /\ sending' = (batch /= {i})
        /\ chan' = [s \in Subs |->
               IF s \in registered /\ Len(chan[s]) < Capacity
               THEN Append(chan[s], i) ELSE chan[s]]
        /\ missed' = [s \in Subs |->
               IF s \in registered /\ Len(chan[s]) >= Capacity
               THEN missed[s] \union {i} ELSE missed[s]]
        /\ UNCHANGED <<driver, log, lastSeq, notified, registered, late>>

PollerStep == PollOnTick \/ PollOnNotify \/ NotifiedForNothing \/ Broadcast

-----------------------------------------------------------------------------
\* What a subscriber does.  Both wait while the poller broadcasts.
Subscribe(s) ==
    /\ ~sending /\ s \notin registered
    /\ registered' = registered \union {s}
    /\ chan' = [chan EXCEPT ![s] = <<>>]
    /\ missed' = [missed EXCEPT ![s] = {}]
    /\ UNCHANGED <<driver, log, pollerVars, late>>

Unsubscribe(s) ==
    /\ ~sending
    /\ registered' = registered \ {s}
    /\ chan' = [chan EXCEPT ![s] = <<>>]
    /\ missed' = [missed EXCEPT ![s] = {}]
    /\ UNCHANGED <<driver, log, pollerVars, late>>

Take(s) ==
    /\ chan[s] /= <<>>
    /\ chan' = [chan EXCEPT ![s] = Tail(chan[s])]
    /\ UNCHANGED <<driver, log, pollerVars, registered, missed, late>>

\* Stop, and Start of the next process: it goes on from the last visible row.
\* SQLite has one process, whose open transactions end with it.
RestartPoller ==
    /\ log' = IF driver = "postgres" THEN log
              ELSE [i \in DOMAIN log |->
                       IF Open(i) THEN [log[i] EXCEPT !.stage = "failed"]
                       ELSE log[i]]
    /\ registered' = {}
    /\ chan' = [s \in Subs |-> <<>>] /\ missed' = [s \in Subs |-> {}]
    /\ batch' = {} /\ sending' = FALSE /\ notified' = FALSE
    /\ LET seen == {log[i].seq : i \in {j \in DOMAIN log : Visible(j)}}
       IN \E n \in seen \union {0} : (\A m \in seen : m <= n) /\ lastSeq' = n
    /\ UNCHANGED <<driver, late>>

-----------------------------------------------------------------------------
\* Properties of delivery, for the modules that subscribe.

\* An event that the poller has gone past, for a subscriber that was there, is
\* in its channel, still to be broadcast, or lost for one of the two causes.
Accounted(s, i) == i \in InChannel(s) \union batch \union missed[s] \union late

\* The poller has gone past event i.
Behind(i) == i \in DOMAIN log /\ Visible(i) /\ log[i].seq <= lastSeq

\* An event is broadcast once: what is in a batch or in a channel is behind
\* lastSeq, and nothing is in both, or in a channel twice.
DeliveredOnce ==
    /\ \A i \in batch : Behind(i)
    /\ \A s \in Subs :
          /\ \A k \in DOMAIN chan[s] : Behind(chan[s][k]) /\ chan[s][k] \notin batch
          /\ \A k, l \in DOMAIN chan[s] : chan[s][k] = chan[s][l] => k = l

\* A row has a number once it is inserted, smaller than the next one.
Numbered ==
    \A i \in DOMAIN log :
        /\ log[i].stage = "begun" => log[i].seq = 0
        /\ log[i].stage \in {"inserted", "committed"} => log[i].seq > 0
        /\ log[i].seq < NewSeq

\* With SQLite one transaction is open at a time, and what it has inserted has
\* the last number.
OneWriter ==
    /\ lastSeq = 0 \/ \E i \in DOMAIN log : Visible(i) /\ log[i].seq = lastSeq
    /\ driver = "sqlite" => \A i, j \in DOMAIN log :
          /\ Open(i) /\ Open(j) => i = j
          /\ (log[i].stage = "inserted" /\ j /= i) => log[j].seq < log[i].seq

\* With SQLite no event becomes visible behind the poller, which would never
\* read it (poller.go:219): the rows are inserted in the order they commit.
NoneLateOnSQLite == driver = "sqlite" => late = {}

=============================================================================
