------------------------------ MODULE ObserverHub ------------------------------
(***************************************************************************)
(* How an event of the native observer reaches its subscribers             *)
(* (native/src/adapter.ts events and #acceptFrame,                         *)
(* runtime/src/observer-hub.ts).                                           *)
(*                                                                         *)
(* Events are numbered.  A frame waits in the buffer of the adapter, the   *)
(* hub reads it into a bounded history and into the bounded queue of every *)
(* subscriber.  A consumer acts on what it has read, so that a missing     *)
(* event must never look like an event that did not happen: wherever a     *)
(* bound is reached the stream ends with an error.  Bounds are in events;  *)
(* the same limits in bytes are not modelled.                              *)
(***************************************************************************)
EXTENDS Naturals, Sequences, FiniteSets

CONSTANTS
  Subscribers,
  MaxObserved,      \* bound: events of the observer
  AdapterBuffer,    \* 1000 in the code
  HubHistory,       \* maxHistoryEvents
  SubscriberQueue,  \* maxEventsPerSubscriber
  MaxSubscribers,
  MaxHubFaults      \* bound: lost native events, ended streams, slow answers

ASSUME HubAssumption ==
  /\ {MaxObserved, MaxHubFaults} \subseteq Nat
  /\ {AdapterBuffer, HubHistory, SubscriberQueue, MaxSubscribers} \subseteq Nat \ {0}

VARIABLES
  observed,     \* events the observer has numbered so far
  piped,        \* frames of them between the helper and the adapter
  buffered,     \* #events of the adapter
  overflowed,   \* #eventGap of the adapter
  reading,      \* the hub waits in events() for the next frame
  history,      \* #history
  beforeHistory,\* #historyBeforeCursor
  heard,        \* #nextSequence of the hub, less one
  gap,          \* #gap of the hub, or its being closed: "no", "gap", "closed"
  subscribed,   \* each subscriber: state, queue and the last event it was given
  query,        \* the pending coverage request of the hub
  hubFaults

hubVars == <<observed, piped, buffered, overflowed, reading, history, beforeHistory, heard, gap,
             subscribed, query, hubFaults>>
-----------------------------------------------------------------------------
NotSubscribed == [state |-> "none", queue |-> <<>>, last |-> 0]
NotAsked == [state |-> "idle", requested |-> 0, mark |-> 0]

HubInit ==
  /\ observed = 0 /\ piped = <<>> /\ buffered = <<>> /\ overflowed = FALSE /\ reading = TRUE
  /\ history = <<>> /\ beforeHistory = 0 /\ heard = 0 /\ gap = "no"
  /\ subscribed = [s \in Subscribers |-> NotSubscribed] /\ query = NotAsked /\ hubFaults = 0

HubTypeOK ==
  /\ observed \in 0..MaxObserved /\ {overflowed, reading} \subseteq BOOLEAN
  /\ {piped, buffered, history} \subseteq Seq(1..MaxObserved)
  /\ Len(buffered) <= AdapterBuffer /\ Len(history) <= HubHistory
  /\ beforeHistory <= heard /\ heard <= observed /\ gap \in {"no", "gap", "closed"}
  /\ subscribed \in [Subscribers -> [state : {"none", "open", "failed", "closed"},
                                     queue : Seq(1..MaxObserved), last : 0..MaxObserved]]
  /\ \A s \in Subscribers : Len(subscribed[s].queue) <= SubscriberQueue
  /\ query.state \in {"idle", "sent", "waiting", "ready", "unavailable"}

HubFault == hubFaults < MaxHubFaults /\ hubFaults' = hubFaults + 1
NoHubFault == UNCHANGED hubFaults
Open == {s \in Subscribers : subscribed[s].state = "open"}

\* #markGap closes every subscriber with the error and cancels the pending request.
MarkGap(why) ==
  /\ gap' = why
  /\ subscribed' = [s \in Subscribers |->
       IF s \in Open THEN [subscribed[s] EXCEPT !.state = IF why = "gap" THEN "failed" ELSE "closed"]
       ELSE subscribed[s]]
  /\ query' = IF query.state \in {"sent", "waiting"} THEN [query EXCEPT !.state = "unavailable"] ELSE query
-----------------------------------------------------------------------------
(* The helper and the adapter.                                             *)
Produce ==
  /\ observed < MaxObserved /\ observed' = observed + 1
  /\ \/ piped' = Append(piped, observed + 1) /\ NoHubFault
     \/ piped' = piped /\ HubFault
  /\ UNCHANGED <<buffered, overflowed, reading, history, beforeHistory, heard, gap, subscribed, query>>

\* #acceptFrame: hand the event to the waiting reader, or keep it while there is room.
NoRoom == Len(buffered) >= AdapterBuffer
-----------------------------------------------------------------------------
(* The hub.                                                                *)
AnyLater(e) == e > heard
InOrder(e) == e = heard + 1
Full(s) == Len(subscribed[s].queue) >= SubscriberQueue
NewHistory(e) == IF Len(history) >= HubHistory THEN Append(Tail(history), e) ELSE Append(history, e)
BeforeForgotten == beforeHistory
Before == IF Len(history) >= HubHistory THEN Head(history) ELSE beforeHistory

TakeIn(e) ==
  IF ~InOrder(e) THEN MarkGap("gap") /\ UNCHANGED <<history, beforeHistory, heard>>
  ELSE /\ history' = NewHistory(e) /\ beforeHistory' = Before /\ heard' = e
       /\ IF \E s \in Open : Full(s) THEN MarkGap("gap")
          ELSE /\ subscribed' = [s \in Subscribers |->
                    IF s \in Open THEN [subscribed[s] EXCEPT !.queue = Append(@, e)] ELSE subscribed[s]]
               /\ UNCHANGED <<gap, query>>

AcceptFrame ==
  /\ piped # <<>> /\ piped' = Tail(piped) /\ NoHubFault
  /\ \/ /\ reading /\ gap = "no" /\ TakeIn(Head(piped)) /\ reading' = FALSE
        /\ UNCHANGED <<buffered, overflowed>>
     \/ /\ ~reading /\ ~NoRoom /\ buffered' = Append(buffered, Head(piped))
        /\ UNCHANGED <<overflowed, reading, history, beforeHistory, heard, gap, subscribed, query>>
     \/ /\ ~reading /\ NoRoom /\ buffered' = <<>> /\ overflowed' = TRUE
        /\ UNCHANGED <<reading, history, beforeHistory, heard, gap, subscribed, query>>
  /\ UNCHANGED observed

\* The helper reports a loss of its own: what is buffered goes, the reader is told.
GapFrame ==
  /\ HubFault /\ buffered' = <<>> /\ overflowed' = TRUE
  /\ IF reading /\ gap = "no" THEN MarkGap("gap") /\ reading' = FALSE
     ELSE UNCHANGED <<gap, subscribed, query, reading>>
  /\ UNCHANGED <<observed, piped, history, beforeHistory, heard>>

\* events(): a gap first, then what is buffered, then wait for a frame.
ReadNext ==
  /\ ~reading /\ gap = "no" /\ NoHubFault
  /\ \/ overflowed /\ MarkGap("gap") /\ UNCHANGED <<buffered, reading, history, beforeHistory, heard>>
     \/ /\ ~overflowed /\ buffered # <<>> /\ buffered' = Tail(buffered) /\ TakeIn(Head(buffered))
        /\ UNCHANGED reading
     \/ /\ ~overflowed /\ buffered = <<>> /\ reading' = TRUE
        /\ UNCHANGED <<buffered, history, beforeHistory, heard, gap, subscribed, query>>
  /\ UNCHANGED <<observed, piped, overflowed>>

\* The stream ends, or the hub is closed.
StreamEnds ==
  /\ gap = "no" /\ HubFault /\ \E why \in {"gap", "closed"} : MarkGap(why)
  /\ reading' = FALSE
  /\ UNCHANGED <<observed, piped, buffered, overflowed, history, beforeHistory, heard>>
-----------------------------------------------------------------------------
(* Subscribers.  What follows the cursor of a new one is replayed to it.   *)
IndexOf(cursor) == CHOOSE i \in 1..Len(history) : history[i] = cursor
HistoryAfter(after) ==
  IF after = heard THEN <<>>
  ELSE IF after = beforeHistory THEN history
  ELSE SubSeq(history, IndexOf(after) + 1, Len(history))
Replayable(after) == after \in {heard, beforeHistory} \cup {history[i] : i \in 1..Len(history)}

Subscribe(s, after) ==
  /\ subscribed[s].state = "none" /\ gap = "no" /\ Cardinality(Open) < MaxSubscribers
  /\ Replayable(after) /\ Len(HistoryAfter(after)) <= SubscriberQueue
  /\ subscribed' = [subscribed EXCEPT ![s] = [state |-> "open", queue |-> HistoryAfter(after), last |-> after]]
  /\ NoHubFault
  /\ UNCHANGED <<observed, piped, buffered, overflowed, reading, history, beforeHistory, heard, gap, query>>

\* #next: after an error nothing more; after a close what is still queued.
NextEvent(s) ==
  /\ subscribed[s].state \in {"open", "closed"} /\ subscribed[s].queue # <<>>
  /\ subscribed' = [subscribed EXCEPT ![s].queue = Tail(@), ![s].last = Head(subscribed[s].queue)]
  /\ NoHubFault
  /\ UNCHANGED <<observed, piped, buffered, overflowed, reading, history, beforeHistory, heard, gap, query>>

Unsubscribe(s) ==
  /\ s \in Open /\ subscribed' = [subscribed EXCEPT ![s].state = "closed"] /\ NoHubFault
  /\ UNCHANGED <<observed, piped, buffered, overflowed, reading, history, beforeHistory, heard, gap, query>>
-----------------------------------------------------------------------------
(* coverage(): one request of the hub at a time, then a wait for the       *)
(* events it names.                                                        *)
AskCoverage ==
  /\ query.state \notin {"sent", "waiting"} /\ gap = "no"
  /\ query' = [state |-> "sent", requested |-> heard, mark |-> 0] /\ NoHubFault
  /\ UNCHANGED <<observed, piped, buffered, overflowed, reading, history, beforeHistory, heard, gap, subscribed>>

CoverageReply ==
  /\ query.state = "sent" /\ query' = [query EXCEPT !.state = "waiting", !.mark = observed] /\ NoHubFault
  /\ UNCHANGED <<observed, piped, buffered, overflowed, reading, history, beforeHistory, heard, gap, subscribed>>

\* The watermark is named only once its event has arrived and its cursor is known.
Arrived == heard >= query.mark
KnowsCursor == query.mark \in {query.requested, heard} \cup {history[i] : i \in 1..Len(history)}
ReadyAtOnce ==
  /\ query.state = "waiting" /\ query' = [query EXCEPT !.state = "ready"] /\ NoHubFault
  /\ UNCHANGED <<observed, piped, buffered, overflowed, reading, history, beforeHistory, heard, gap, subscribed>>
CoverageReady ==
  /\ query.state = "waiting" /\ Arrived
  /\ query' = [query EXCEPT !.state = IF KnowsCursor THEN "ready" ELSE "unavailable"] /\ NoHubFault
  /\ UNCHANGED <<observed, piped, buffered, overflowed, reading, history, beforeHistory, heard, gap, subscribed>>

CoverageTimeout ==
  /\ query.state \in {"sent", "waiting"} /\ query' = [query EXCEPT !.state = "unavailable"] /\ HubFault
  /\ UNCHANGED <<observed, piped, buffered, overflowed, reading, history, beforeHistory, heard, gap, subscribed>>

HubNext ==
  \/ Produce \/ AcceptFrame \/ GapFrame \/ ReadNext \/ StreamEnds
  \/ \E s \in Subscribers, after \in 0..MaxObserved : Subscribe(s, after)
  \/ \E s \in Subscribers : NextEvent(s) \/ Unsubscribe(s)
  \/ AskCoverage \/ CoverageReply \/ CoverageReady \/ CoverageTimeout
-----------------------------------------------------------------------------
\* An open subscriber misses nothing: the events it was given and those queued
\* for it are, without a hole, all that the hub has heard since its cursor; a
\* full queue, an evicted history or a lost frame ends it with an error instead
\* (observer-hub.ts #consume, #historyAfter).
NoSilentHole ==
  \A s \in Open : LET q == subscribed[s].queue IN
    /\ subscribed[s].last + Len(q) = heard
    /\ \A i \in 1..Len(q) : q[i] = subscribed[s].last + i

\* A ready coverage answer never runs ahead of the events: whoever was subscribed
\* has every event below its watermark given or queued, though answers and events
\* travel separately (observer-hub.ts #readCoverage).
ReadyMeansHeard ==
  query.state = "ready" => /\ query.mark <= heard
                           /\ \A s \in Open : subscribed[s].last + Len(subscribed[s].queue) >= query.mark

\* Events and answers agree: nothing is missing between what was heard and what a
\* subscriber has, nor behind a watermark; nothing is delivered twice, out of order or
\* with a hole, also to a subscriber that was closed while events were queued for it.
EventsAreNotLost ==
  [][/\ NoSilentHole' /\ ReadyMeansHeard'
     /\ \A s \in Subscribers :
          subscribed'[s].last # subscribed[s].last /\ subscribed[s].state # "none"
            => subscribed'[s].last = subscribed[s].last + 1]_hubVars
=============================================================================
