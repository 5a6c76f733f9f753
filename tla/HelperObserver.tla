--------------------------- MODULE HelperObserver ---------------------------
(***************************************************************************)
(* The observer of user activity inside the native helper                  *)
(* (meta_observer_command, meta_observer).  Commands run on the queue of   *)
(* actions, one at a time, and hand their work to the main thread, where   *)
(* they wait for it only so long: work that has not begun is cancelled,    *)
(* work that has begun goes on alone.  Events are recorded on the main     *)
(* thread; the control queue takes them to the runtime.                    *)
(***************************************************************************)
EXTENDS Naturals, Sequences, SequencesExt

CONSTANTS
  MaxPrepares,    \* bound: prepare commands that reach the main thread
  MaxControls,    \* bound: coverage and stop commands
  MaxRecorded,    \* bound: events an observer records
  HistoryLimit,   \* META_OBSERVER_COMMAND_MAX_EVENTS, for the history
  PushLimit       \* the same limit, for the events not yet sent

ASSUME ObserverAssumption ==
  /\ {MaxPrepares, MaxControls, MaxRecorded} \subseteq Nat
  /\ {HistoryLimit, PushLimit} \subseteq Nat \ {0}

VARIABLES
  binder,      \* what MetaObserverCommandBinder knows of its observers
  tap,         \* each observer, named by the prepare that made it
  sinks,       \* observers whose events reach the binder
  gapped,      \* observers whose coverage has a gap
  recorded,    \* how many events each has recorded
  queued,      \* the work that waits for the main thread
  running,     \* the work or the event the main thread is at
  asking,      \* the command the actions queue is at
  history, unsent, lastPushed, baseline, pushActive, gap,
  sent,        \* the events of this instance that went to the runtime
  answer,      \* what the last prepare was answered
  prepares, controls

binderVars == <<history, unsent, lastPushed, baseline, pushActive, gap, sent>>
observerVars ==
  <<binder, tap, sinks, gapped, recorded, queued, running, asking, binderVars, answer,
    prepares, controls>>

Instances == 1..MaxPrepares
Rest == [kind |-> "none", of |-> 0, at |-> "none"]
NotAsking == [kind |-> "none", of |-> 0, at |-> "idle"]
NoObserver == [token |-> 0, pending |-> 0, observer |-> 0, instance |-> 0, accepting |-> 0,
               cleanup |-> {}, outstanding |-> 0]

ObserverTypeOK ==
  /\ binder \in [token : 0..MaxPrepares, pending : 0..MaxPrepares, observer : 0..MaxPrepares,
                 instance : 0..MaxPrepares, accepting : 0..MaxPrepares,
                 cleanup : SUBSET Instances, outstanding : 0..MaxPrepares]
  /\ tap \in [Instances -> {"none", "created", "live", "stopped"}]
  /\ sinks \subseteq Instances /\ gapped \subseteq Instances
  /\ recorded \in [Instances -> 0..MaxRecorded]
  /\ Len(history) <= HistoryLimit /\ Len(unsent) <= PushLimit /\ Len(sent) <= MaxRecorded
  /\ lastPushed \in 0..MaxRecorded /\ {baseline, pushActive, gap} \subseteq BOOLEAN
  /\ answer \in {"none", "ok", "clean", "unknown"}

ObserverInit ==
  /\ binder = NoObserver /\ tap = [i \in Instances |-> "none"]
  /\ sinks = {} /\ gapped = {} /\ recorded = [i \in Instances |-> 0]
  /\ queued = Rest /\ running = Rest /\ asking = NotAsking
  /\ history = <<>> /\ unsent = <<>> /\ lastPushed = 0 /\ baseline = FALSE
  /\ pushActive = FALSE /\ gap = FALSE /\ sent = <<>>
  /\ answer = "none" /\ prepares = 0 /\ controls = 0

-----------------------------------------------------------------------------
(* Commands, on the actions queue. *)

DispositionTooSoon(b) ==   \* mutant: work that still runs is forgotten
  IF b.token = 0 /\ b.pending = 0 /\ b.observer = 0 /\ b.instance = 0 /\ b.cleanup = {}
    THEN "clean" ELSE "unknown"

\* cleanDispositionStopped: no observer is known, none is being stopped, and no
\* work of a prepare may still run.
Disposition(b) ==
  IF b.token = 0 /\ b.pending = 0 /\ b.observer = 0 /\ b.instance = 0 /\ b.cleanup = {}
       /\ b.outstanding = 0
    THEN "clean" ELSE "unknown"

\* prepare before it has a token: another instance, no index, no readiness, or the
\* deadline has passed.
PrepareRefused(previous) ==
  /\ answer' = IF previous = binder.instance /\ binder.token = 0
                 THEN Disposition(binder) ELSE "unknown"
  /\ controls' = controls + 1
  /\ UNCHANGED <<binder, tap, sinks, gapped, recorded, queued, running, asking, binderVars, prepares>>

\* prepare forgets the events of the instance before and hands its work over.
PrepareBegins(previous) ==
  LET n == prepares + 1 IN
  /\ prepares < MaxPrepares /\ previous = binder.instance /\ binder.token = 0
  /\ prepares' = n /\ asking' = [kind |-> "prepare", of |-> n, at |-> "waiting"]
  /\ queued' = [kind |-> "prepare", of |-> n, at |-> "begin"]
  /\ binder' = [binder EXCEPT !.token = n, !.pending = 0, !.accepting = n, !.outstanding = @ + 1]
  /\ history' = <<>> /\ unsent' = <<>> /\ lastPushed' = 0 /\ baseline' = TRUE
  /\ pushActive' = FALSE /\ gap' = FALSE /\ sent' = <<>> /\ answer' = "none"
  /\ UNCHANGED <<tap, sinks, gapped, recorded, running, controls>>

AskPrepare ==
  /\ asking = NotAsking
  /\ \E previous \in {0, binder.instance} :
       PrepareBegins(previous) \/ (controls < MaxControls /\ PrepareRefused(previous))

\* coverage and stop name the current instance.
AskControl ==
  /\ asking = NotAsking /\ binder.instance # 0 /\ controls < MaxControls
  /\ \E kind \in {"coverage", "stop"} :
       /\ asking' = [kind |-> kind, of |-> binder.instance, at |-> "waiting"]
       /\ queued' = [kind |-> kind, of |-> binder.instance, at |-> "begin"]
  /\ controls' = controls + 1
  /\ UNCHANGED <<binder, tap, sinks, gapped, recorded, running, binderVars, answer, prepares>>

\* mainExecutor stops waiting: what has not begun will not.
WaitTimesOut ==
  /\ asking.at = "waiting"
  /\ asking' = [asking EXCEPT !.at = "failed"] /\ queued' = Rest
  /\ UNCHANGED <<binder, tap, sinks, gapped, recorded, running, binderVars, answer, prepares, controls>>

\* prepare accepts its observer.
PrepareAccepts ==
  LET n == asking.of IN
  /\ asking.kind = "prepare" /\ asking.at = "done"
  /\ binder.token = n /\ binder.pending = n
  /\ binder' = [binder EXCEPT !.observer = n, !.instance = n, !.pending = 0, !.token = 0]
  /\ answer' = "ok" /\ asking' = [asking EXCEPT !.at = "answered"]
  /\ UNCHANGED <<tap, sinks, gapped, recorded, queued, running, binderVars, prepares, controls>>

\* prepare gives its observer up: it takes the token back, and what it finds pending
\* the main thread is to stop.
PrepareFails ==
  LET n == asking.of
      given == [binder EXCEPT !.token = 0, !.accepting = 0,
                              !.pending = IF @ = n THEN 0 ELSE @,
                              !.cleanup = IF binder.pending = n THEN @ \cup {n} ELSE @] IN
  /\ asking.kind = "prepare" /\ asking.at \in {"done", "failed"}
  /\ binder' = given /\ gap' = TRUE
  /\ IF binder.pending = n
       THEN /\ asking' = [kind |-> "cleanup", of |-> n, at |-> "waiting"]
            /\ queued' = [kind |-> "cleanup", of |-> n, at |-> "begin"] /\ UNCHANGED answer
       ELSE /\ asking' = NotAsking /\ answer' = Disposition(given) /\ UNCHANGED queued
  /\ UNCHANGED <<tap, sinks, gapped, recorded, running, history, unsent, lastPushed, baseline,
                 pushActive, sent, prepares, controls>>

CleanupWaited ==
  /\ asking.kind = "cleanup" /\ asking.at \in {"done", "failed"}
  /\ asking' = NotAsking /\ answer' = Disposition(binder)
  /\ UNCHANGED <<binder, tap, sinks, gapped, recorded, queued, running, binderVars, prepares, controls>>

\* stop forgets the observer once the main thread has stopped it; a stop or a
\* coverage that failed changes nothing.
ControlEnds ==
  /\ asking.kind \in {"coverage", "stop"} /\ asking.at \in {"done", "failed"}
  /\ asking' = NotAsking
  /\ IF asking.kind = "stop" /\ asking.at = "done"
       THEN /\ binder' = [binder EXCEPT !.observer = 0, !.instance = 0, !.accepting = 0]
            /\ pushActive' = FALSE
       ELSE UNCHANGED <<binder, pushActive>>
  /\ UNCHANGED <<tap, sinks, gapped, recorded, queued, running, history, unsent, lastPushed,
                 baseline, gap, sent, answer, prepares, controls>>

-----------------------------------------------------------------------------
(* The main thread. *)

MainTakes ==
  /\ running = Rest /\ queued # Rest
  /\ running' = queued /\ queued' = Rest
  /\ UNCHANGED <<binder, tap, sinks, gapped, recorded, asking, binderVars, answer, prepares, controls>>

Goes(at) == running' = [running EXCEPT !.at = at]
\* The end of the block: the work of a prepare is no longer outstanding, and then the
\* semaphore tells whoever still waits.
Ends(b, ok) ==
  /\ binder' = [b EXCEPT !.outstanding = @ - 1]
  /\ running' = [running EXCEPT !.at = IF ok THEN "yes" ELSE "no"]
Dropped(b, n) == [b EXCEPT !.pending = IF b.token = n /\ b.pending = n THEN 0 ELSE b.pending]

\* -[MetaNativeObserver stop]: the tap is gone and coverage unavailable.
Stops(n) ==
  /\ tap' = [tap EXCEPT ![n] = "stopped"] /\ gapped' = gapped \cup {n} /\ sinks' = sinks \ {n}

\* The deadline, the foreground window and the token are checked again and again; ok
\* says how the first two come out.
PrepareWork(ok) ==
  LET n == running.of
      current == ok /\ binder.token = n IN
  /\ running.kind = "prepare"
  /\ \/ /\ running.at = "begin"
        /\ IF current
             THEN Goes(IF binder.observer # 0 THEN "previous" ELSE "create") /\ UNCHANGED binder
             ELSE Ends(binder, FALSE)
        /\ UNCHANGED <<tap, sinks, gapped>>
     \/ /\ running.at = "previous" /\ ok
        /\ Stops(binder.observer) /\ Goes("forget") /\ UNCHANGED binder
     \/ /\ running.at = "forget" /\ ok
        /\ binder' = IF binder.token = n THEN [binder EXCEPT !.observer = 0, !.instance = 0]
                     ELSE binder
        /\ Goes("create") /\ UNCHANGED <<tap, sinks, gapped>>
     \/ /\ running.at = "create"
        /\ IF current
             THEN /\ binder' = [binder EXCEPT !.pending = n] /\ tap' = [tap EXCEPT ![n] = "created"]
                  /\ Goes("start")
             ELSE Ends(binder, FALSE) /\ UNCHANGED tap
        /\ UNCHANGED <<sinks, gapped>>
     \/ /\ running.at = "start"
        /\ IF current THEN Goes("starting") /\ UNCHANGED binder ELSE Ends(binder, FALSE)
        /\ UNCHANGED <<tap, sinks, gapped>>
     \/ /\ running.at = "starting"
        /\ IF ok
             THEN tap' = [tap EXCEPT ![n] = "live"] /\ Goes("live") /\ UNCHANGED <<binder, sinks, gapped>>
             ELSE Stops(n) /\ Ends(Dropped(binder, n), FALSE)
     \/ /\ running.at = "live"
        /\ IF current
             THEN sinks' = sinks \cup {n} /\ Goes("sunk") /\ UNCHANGED <<binder, tap, gapped>>
             ELSE Stops(n) /\ Ends(Dropped(binder, n), FALSE)
     \/ /\ running.at = "sunk"
        /\ IF current
             THEN Ends(binder, TRUE) /\ UNCHANGED <<tap, sinks, gapped>>
             ELSE Stops(n) /\ Ends(Dropped(binder, n), FALSE)
  /\ UNCHANGED <<recorded, queued, asking, binderVars, answer, prepares, controls>>

\* The blocks of scheduleMainThreadStop, stop and coverage; the heartbeat of coverage
\* may find the tap disabled.
OtherWork(ok) ==
  /\ running.at = "begin"
  /\ \/ /\ running.kind = "cleanup" /\ ok
        /\ Stops(running.of) /\ Goes("yes")
        /\ binder' = [binder EXCEPT !.cleanup = @ \ {running.of}]
     \/ /\ running.kind = "stop" /\ ok /\ UNCHANGED binder
        /\ IF binder.observer # 0 THEN Stops(binder.observer) /\ Goes("yes")
           ELSE Goes("no") /\ UNCHANGED <<tap, sinks, gapped>>
     \/ /\ running.kind = "coverage" /\ Goes("yes") /\ UNCHANGED <<binder, tap, sinks>>
        /\ gapped' = IF ok THEN gapped ELSE gapped \cup {running.of}
  /\ UNCHANGED <<recorded, queued, asking, binderVars, answer, prepares, controls>>

\* The semaphore: only the command that still waits for this work learns its result; the
\* work of one that came later is still in the queue.
Signals ==
  /\ running.at \in {"yes", "no"}
  /\ asking' = IF asking.at = "waiting" /\ queued = Rest
                 THEN [asking EXCEPT !.at = IF running.at = "yes" THEN "done" ELSE "failed"]
                 ELSE asking
  /\ running' = Rest
  /\ UNCHANGED <<binder, tap, sinks, gapped, recorded, queued, binderVars, answer, prepares, controls>>

\* recordKind: the cursor moves, and the sink is called after the lock is let go.
RecordEvent(i) ==
  /\ running = Rest /\ tap[i] = "live" /\ recorded[i] < MaxRecorded
  /\ recorded' = [recorded EXCEPT ![i] = @ + 1]
  /\ running' = IF i \in sinks THEN [kind |-> "event", of |-> i, at |-> "publish"] ELSE Rest
  /\ UNCHANGED <<binder, tap, sinks, gapped, queued, asking, binderVars, answer, prepares, controls>>

\* The tap is disabled, the screen locked, the machine asleep, a subscription lost.
CoverageLost(i) ==
  /\ running = Rest /\ tap[i] = "live" /\ i \notin gapped
  /\ gapped' = gapped \cup {i}
  /\ UNCHANGED <<binder, tap, sinks, recorded, queued, running, asking, binderVars, answer,
                 prepares, controls>>

Overflows == gap' = TRUE /\ gapped' = gapped \cup ({binder.observer} \ {0})

\* An event leaves the history only when it has been sent.
Evicts(e) ==
  IF Len(history) < HistoryLimit
    THEN history' = Append(history, e) /\ UNCHANGED baseline
    ELSE history' = Append(Tail(history), e) /\ baseline' = FALSE

\* acceptEvent, under the lock of the binder.
Keeps(e) ==
  IF Len(unsent) >= PushLimit \/ (Len(history) >= HistoryLimit /\ Head(history) > lastPushed)
    THEN Overflows /\ UNCHANGED <<history, unsent, baseline>>
    ELSE Evicts(e) /\ unsent' = Append(unsent, e) /\ UNCHANGED <<gap, gapped>>

AcceptEvent ==
  /\ running.kind = "event" /\ running' = Rest
  /\ IF binder.accepting # running.of \/ gap
       THEN UNCHANGED <<history, unsent, baseline, gap, gapped>>
       ELSE Keeps(recorded[running.of])
  /\ UNCHANGED <<binder, tap, sinks, recorded, queued, asking, lastPushed, pushActive, sent,
                 answer, prepares, controls>>

MainThread ==
  \/ MainTakes \/ (\E ok \in BOOLEAN : PrepareWork(ok) \/ OtherWork(ok)) \/ Signals
  \/ (\E i \in Instances : RecordEvent(i) \/ CoverageLost(i)) \/ AcceptEvent

-----------------------------------------------------------------------------
(* The control queue. *)

\* activatePushForObserverInstance, once the answer to prepare is on its way.
ActivatePush ==
  /\ asking.kind = "prepare" /\ asking.at = "answered" /\ asking' = NotAsking
  /\ pushActive' = (~gap /\ binder.instance = asking.of /\ binder.accepting = asking.of)
  /\ UNCHANGED <<binder, tap, sinks, gapped, recorded, queued, running, history, unsent,
                 lastPushed, baseline, gap, sent, answer, prepares, controls>>

\* takePushEnvelopes and pumpObserver: a gap is announced instead of the events that
\* were taken with it.
TakePush ==
  LET lost == gap \/ binder.observer \in gapped
      many == IF pushActive THEN Len(unsent) ELSE 0 IN
  /\ many > 0 \/ lost # gap
  /\ gap' = lost
  /\ sent' = IF lost THEN sent ELSE sent \o SubSeq(unsent, 1, many)
  /\ unsent' = SubSeq(unsent, many + 1, Len(unsent))
  /\ lastPushed' = IF many = 0 THEN lastPushed ELSE unsent[many]
  /\ UNCHANGED <<binder, tap, sinks, gapped, recorded, queued, running, asking, history, baseline,
                 pushActive, answer, prepares, controls>>

ObserverNext ==
  \/ AskPrepare \/ AskControl \/ WaitTimesOut \/ PrepareAccepts \/ PrepareFails
  \/ CleanupWaited \/ ControlEnds \/ MainThread \/ ActivatePush \/ TakePush

-----------------------------------------------------------------------------
(* Properties. *)

\* A prepare that is answered with a clean disposition leaves no observer behind: none
\* is live, and none will be, whatever work of an earlier prepare the main thread is
\* still at.  The runtime prepares again on this word.
CleanMeansNone ==
  answer = "clean" /\ asking = NotAsking =>
    /\ \A i \in Instances : tap[i] # "live"
    /\ running.kind # "prepare" \/ running.at \in {"yes", "no"}

\* The runtime gets every event of an instance, in the order they were recorded, up to
\* the gap it is told of.
PushIsWhole ==
  /\ \A k \in DOMAIN sent : sent[k] = k
  /\ binder.observer # 0 /\ binder.observer = binder.accepting /\ ~gap /\ running.kind # "event"
       => sent \o unsent = [k \in 1..recorded[binder.observer] |-> k]

\* What historySnapshotForObserverInstance serves while events are being recorded on
\* another thread: coverage and history taken together agree, and the history from the
\* baseline on has no hole.
SnapshotServed ==
  LET o == binder.observer IN
  /\ o # 0 /\ binder.instance = o /\ binder.accepting = o /\ ~gap /\ o \notin gapped
  /\ IF history = <<>> THEN recorded[o] = 0 ELSE Last(history) = recorded[o]
SnapshotIsWhole ==
  SnapshotServed =>
    /\ \A k \in DOMAIN history : history[k] = recorded[binder.observer] - Len(history) + k
    /\ baseline => Len(history) = recorded[binder.observer]

\* The helper's word about its observer is true.
ObserverIsTrue == CleanMeansNone /\ PushIsWhole /\ SnapshotIsWhole
=============================================================================
