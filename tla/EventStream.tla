---------------------------- MODULE EventStream ----------------------------
(***************************************************************************)
(* A client's stream of project events (server/internal/handler/events.go, *)
(* and the project-events stream of realtime/project_stream_socket.go): it *)
(* subscribes first, then sends the events after the one the client knows  *)
(* last, then goes on with what the poller delivers, leaving out what it   *)
(* has already sent.                                                       *)
(***************************************************************************)
EXTENDS EventDelivery

CONSTANTS MaxRestarts, MaxConnects   \* bounds: server restarts, connections

ASSUME StreamBounds == MaxRestarts \in Nat /\ MaxConnects \in Nat

NoHistory == MaxEvents + 1       \* a stream that asks for no history

VARIABLES
    place,      \* where the handler of a client is
    after,      \* the event the client asked to continue from
    from,       \* lastSeq when its handler subscribed
    skip,       \* sentEventIDs: sent as history, not seen in the channel yet
    sent,       \* what the connection has sent
    repeated,   \* what it has sent twice
    known,      \* the last event the client got, on any connection
    restarts, connects

streamVars == <<place, after, from, skip, sent, repeated, known,
                restarts, connects>>
vars == <<deliveryVars, streamVars>>

TypeOK ==
    /\ DeliveryTypeOK
    /\ place \in [Subs -> {"off", "opening", "live"}]
    /\ after \in [Subs -> 0 .. NoHistory]
    /\ from \in [Subs -> 0 .. MaxEvents]
    /\ skip \in [Subs -> SUBSET DOMAIN log]
    /\ sent \in [Subs -> SUBSET DOMAIN log]
    /\ repeated \in [Subs -> SUBSET DOMAIN log]
    /\ known \in [Subs -> 0 .. MaxEvents]
    /\ restarts \in 0 .. MaxRestarts /\ connects \in 0 .. MaxConnects

Init ==
    /\ DeliveryInit
    /\ place = [c \in Subs |-> "off"] /\ after = [c \in Subs |-> NoHistory]
    /\ from = [c \in Subs |-> 0] /\ skip = [c \in Subs |-> {}]
    /\ sent = [c \in Subs |-> {}] /\ repeated = [c \in Subs |-> {}]
    /\ known = [c \in Subs |-> 0]
    /\ restarts = 0 /\ connects = 0

-----------------------------------------------------------------------------
\* A client connects: without history, with all of it, or from what it knows.
Connect(c) ==
    /\ place[c] = "off" /\ connects < MaxConnects
    /\ Subscribe(c)
    /\ place' = [place EXCEPT ![c] = "opening"]
    /\ \E a \in {NoHistory, 0, known[c]} : after' = [after EXCEPT ![c] = a]
    /\ from' = [from EXCEPT ![c] = lastSeq]
    /\ skip' = [skip EXCEPT ![c] = {}]
    /\ sent' = [sent EXCEPT ![c] = {}] /\ repeated' = [repeated EXCEPT ![c] = {}]
    /\ connects' = connects + 1
    /\ UNCHANGED <<known, restarts>>

\* GetEventsAfterID or GetEventsSince: the visible events stamped later than
\* the one asked for, sent in that order.
After(a) == {i \in DOMAIN log : i > a /\ Visible(i)}

\* Mutant: what the history had is not remembered.
SendForgotten(c) ==
    /\ place[c] = "opening" /\ after[c] /= NoHistory
    /\ place' = [place EXCEPT ![c] = "live"]
    /\ sent' = [sent EXCEPT ![c] = After(after[c])]
    /\ UNCHANGED <<deliveryVars, after, from, skip, repeated, known, restarts,
                   connects>>

SendHistory(c) ==
    /\ place[c] = "opening" /\ after[c] /= NoHistory
    /\ place' = [place EXCEPT ![c] = "live"]
    /\ sent' = [sent EXCEPT ![c] = After(after[c])]
    /\ skip' = [skip EXCEPT ![c] = After(after[c])]
    /\ \/ After(after[c]) = {} /\ UNCHANGED known
       \/ \E i \in After(after[c]) : /\ \A j \in After(after[c]) : j <= i
                                    /\ known' = [known EXCEPT ![c] = i]
    /\ UNCHANGED <<deliveryVars, after, from, repeated, restarts, connects>>

\* No history was asked for, or reading it failed and the stream goes on.
SkipHistory(c) ==
    /\ place[c] = "opening"
    /\ place' = [place EXCEPT ![c] = "live"]
    /\ after' = [after EXCEPT ![c] = NoHistory]
    /\ UNCHANGED <<deliveryVars, from, skip, sent, repeated, known,
                   restarts, connects>>

\* One event of the channel: sent, unless the history had it.
SendLive(c) ==
    /\ place[c] = "live" /\ Take(c)
    /\ LET i == Head(chan[c])
       IN IF i \in skip[c]
          THEN /\ skip' = [skip EXCEPT ![c] = skip[c] \ {i}]
               /\ UNCHANGED <<sent, repeated, known>>
          ELSE /\ sent' = [sent EXCEPT ![c] = sent[c] \union {i}]
               /\ repeated' = [repeated EXCEPT ![c] =
                      IF i \in sent[c] THEN repeated[c] \union {i} ELSE repeated[c]]
               /\ known' = [known EXCEPT ![c] = i]
               /\ UNCHANGED skip
    /\ UNCHANGED <<place, after, from, restarts, connects>>

Disconnect(c) ==
    /\ place[c] /= "off" /\ Unsubscribe(c)
    /\ place' = [place EXCEPT ![c] = "off"]
    /\ after' = [after EXCEPT ![c] = NoHistory] /\ from' = [from EXCEPT ![c] = 0]
    /\ skip' = [skip EXCEPT ![c] = {}]
    /\ sent' = [sent EXCEPT ![c] = {}] /\ repeated' = [repeated EXCEPT ![c] = {}]
    /\ UNCHANGED <<known, restarts, connects>>

\* The server process stops, every stream with it, and starts again.
Restart ==
    /\ restarts < MaxRestarts /\ restarts' = restarts + 1
    /\ RestartPoller
    /\ place' = [c \in Subs |-> "off"]
    /\ after' = [c \in Subs |-> NoHistory] /\ from' = [c \in Subs |-> 0]
    /\ skip' = [c \in Subs |-> {}]
    /\ sent' = [c \in Subs |-> {}] /\ repeated' = [c \in Subs |-> {}]
    /\ UNCHANGED <<known, connects>>

Publish == /\ (\E w \in Contents : Begin(w)) \/ PublishStep
           /\ UNCHANGED streamVars
Deliver == PollerStep /\ UNCHANGED streamVars
Client(c) == \/ Connect(c) \/ SendHistory(c) \/ SkipHistory(c)
             \/ SendLive(c) \/ Disconnect(c)

Next == Publish \/ Deliver \/ Restart \/ \E c \in Subs : Client(c)

\* The poller has a ticker and a handler reads its channel; nothing is assumed
\* of publishers, of clients and of restarts.
Fairness == /\ WF_vars((PollOnTick \/ Broadcast) /\ UNCHANGED streamVars)
            /\ \A c \in Subs : WF_vars(SendLive(c))

Spec == Init /\ [][Next]_vars /\ Fairness

-----------------------------------------------------------------------------
\* A connection sends no event twice (events.go:54, "Track sent event IDs to
\* avoid duplicates between history and live events").
SentOnce == \A c \in Subs : repeated[c] = {}

\* Nothing falls between the history and the live events (events.go:46, "This
\* ensures we don't miss any events between fetching history and
\* subscribing"): an event after the one the client asked for that the poller
\* has gone past was sent, is on its way, or was lost for a known cause.
HistoryMeetsLive ==
    \A c \in Subs : (place[c] = "live" /\ after[c] /= NoHistory) =>
        \A i \in DOMAIN log :
            (i > after[c] /\ Behind(i))
                => (i \in sent[c] \/ Accounted(c, i))

\* The same for a stream without history, from the time it subscribed.
LiveMissesNothing ==
    \A c \in Subs : place[c] = "live" =>
        \A i \in DOMAIN log :
            (from[c] < log[i].seq /\ Behind(i))
                => (i \in sent[c] \/ Accounted(c, i))

\* The two together: what the poller has gone past, a stream has sent, or has
\* still to send, or lost to a full channel or to a commit behind the poller.
NothingMissed == HistoryMeetsLive /\ LiveMissesNothing

\* The invariant of the stream (events.go:46-57).  What makes the properties
\* above inductive: a stream that is open is subscribed, and what
\* it has sent and does not skip will not come again.
StreamOK(c) ==
    /\ place[c] /= "off" => c \in registered
    /\ place[c] = "opening" => sent[c] = {}
    /\ skip[c] \subseteq sent[c]
    /\ \A i \in sent[c] \ skip[c] :
          Behind(i) /\ i \notin batch /\ i \notin InChannel(c)
    /\ repeated[c] = {}
    /\ (place[c] = "live" /\ after[c] /= NoHistory) =>
          \A i \in DOMAIN log : (i > after[c] /\ Behind(i))
              => (i \in sent[c] \/ Accounted(c, i))
    /\ place[c] /= "off" =>
          \A i \in DOMAIN log : (from[c] < log[i].seq /\ Behind(i))
              => (i \in sent[c] \/ Accounted(c, i))

StreamInv ==
    /\ TypeOK /\ Numbered /\ OneWriter /\ NoneLateOnSQLite /\ DeliveredOnce
    /\ \A c \in Subs : StreamOK(c)

\* Every event that becomes visible ahead of the poller reaches every stream
\* that stays connected, also when the notification is lost or the rows do
\* not fit one batch, unless the stream's channel was full.
EventsArrive ==
    \A c \in Subs, i \in Events :
        (/\ i \in DOMAIN log /\ Visible(i) /\ i \notin late
         /\ place[c] = "live" /\ log[i].seq > from[c])
            ~> (i \in sent[c] \union missed[c] \/ place[c] /= "live")

=============================================================================
