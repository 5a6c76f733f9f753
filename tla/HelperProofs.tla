---------------------------- MODULE HelperProofs ----------------------------
(***************************************************************************)
(* Proofs about the components inside the native helper, for any           *)
(* constants: the observer and its events, its subscriptions, the          *)
(* inventory of windows, and then all of them with the two executors of    *)
(* InputAndCaptureProofs as MCHelper puts them together.                   *)
(***************************************************************************)
EXTENDS InputAndCaptureProofs, MCHelper, FunctionTheorems, SequenceTheorems

-----------------------------------------------------------------------------
(* The observer and its events.                                            *)

ObserverSpec == ObserverInit /\ [][ObserverNext]_observerVars

Commands == {"prepare", "cleanup", "stop", "coverage"}
Making == {"create", "start", "starting", "live", "sunk"}   \* an observer is being made
Ended == {"yes", "no"}
Steps == [kind : {"prepare"}, of : Instances, at : {"begin", "previous", "forget"} \cup Making \cup Ended]
         \cup [kind : {"cleanup", "stop", "coverage"}, of : Instances, at : {"begin"} \cup Ended]
         \cup [kind : {"event"}, of : Instances, at : {"publish"}]
Questions == [kind : Commands, of : Instances, at : {"waiting", "done", "failed"}]
             \cup [kind : {"prepare"}, of : Instances, at : {"answered"}]

BinderRecord == [token : 0..MaxPrepares, pending : 0..MaxPrepares, observer : 0..MaxPrepares,
                 instance : 0..MaxPrepares, accepting : 0..MaxPrepares,
                 cleanup : SUBSET Instances, outstanding : 0..MaxPrepares]

ObserverTypes ==
  /\ binder \in BinderRecord /\ binder.outstanding <= prepares
  /\ tap \in [Instances -> {"none", "created", "live", "stopped"}]
  /\ sinks \subseteq Instances /\ gapped \subseteq Instances
  /\ recorded \in [Instances -> 0..MaxRecorded]
  /\ history \in Seq(0..MaxRecorded) /\ Len(history) <= HistoryLimit
  /\ unsent \in Seq(0..MaxRecorded) /\ Len(unsent) <= PushLimit
  /\ sent \in Seq(0..MaxRecorded) /\ Len(sent) <= MaxRecorded
  /\ lastPushed \in 0..MaxRecorded /\ baseline \in BOOLEAN /\ pushActive \in BOOLEAN
  /\ gap \in BOOLEAN /\ answer \in {"none", "ok", "clean", "unknown"}
  /\ prepares \in 0..MaxPrepares /\ controls \in Nat

\* The command that waits has its work in the queue or on the main thread; what was done
\* is over there.
WorkInv ==
  /\ running = Rest \/ running \in Steps
  /\ asking = NotAsking \/ asking \in Questions
  /\ queued # Rest =>
       asking.at = "waiting" /\ queued = [kind |-> asking.kind, of |-> asking.of, at |-> "begin"]
  /\ asking.at = "waiting" /\ queued = Rest => running.kind = asking.kind /\ running.of = asking.of
  /\ asking.at \in {"done", "answered"} => running.kind \in {"none", "event"}
  /\ asking.of <= prepares /\ running.of <= prepares

\* The token is that of the prepare under way, and what is pending is its observer, made
\* after the one before was stopped.
AskedPrepare == asking.kind = "prepare" /\ asking.at # "answered"
CurrentPrepare == running.kind = "prepare" /\ binder.token = running.of
TokenInv ==
  /\ binder.token = IF AskedPrepare THEN asking.of ELSE 0
  /\ binder.pending \in {0, binder.token} /\ (binder.pending # 0 => binder.observer = 0)
  /\ binder.instance = binder.observer /\ binder.observer <= prepares
  /\ CurrentPrepare /\ running.at \in Making => binder.observer = 0
  /\ CurrentPrepare /\ running.at \in (Making \ {"create"}) \cup {"yes"} => binder.pending = running.of
  /\ asking.kind = "prepare" /\ asking.at = "done" => binder.pending = asking.of
  /\ running.kind = "prepare" /\ running.at = "previous" => binder.observer # 0

\* Work that may still make an observer is counted.
UnfinishedPrepares ==
  (IF queued.kind = "prepare" THEN 1 ELSE 0)
  + (IF running.kind = "prepare" /\ running.at \notin Ended THEN 1 ELSE 0)
OutstandingInv == UnfinishedPrepares <= binder.outstanding

\* Whatever is live is known to the binder, or the main thread is about to hand it over or
\* to stop it; what is forgotten was stopped.
TapStopped(i) == i = 0 \/ tap[i] # "live"
LiveInv ==
  /\ \A i \in Instances : tap[i] = "live" =>
       \/ i \in {binder.observer, binder.pending} \cup binder.cleanup
       \/ running.kind = "prepare" /\ running.of = i /\ running.at \in {"live", "sunk"}
  /\ running.kind = "prepare" /\ running.at = "forget" => TapStopped(binder.observer)
  /\ running.kind = "stop" /\ running.at = "yes" => TapStopped(binder.observer)
  /\ asking.kind = "stop" /\ asking.at = "done" => TapStopped(binder.observer)

\* Events of a live observer reach the binder, and before it is live there are none.
SinkInv ==
  /\ \A i \in Instances : tap[i] = "live" =>
       i \in sinks \/ (running.kind = "prepare" /\ running.of = i /\ running.at = "live")
  /\ \A i \in Instances : tap[i] = "live" \/ recorded[i] # 0 => i <= prepares

\* A clean answer is the last word of the prepare, and stays true.
AnswerInv == answer = "clean" => asking = NotAsking /\ Disposition(binder) = "clean"

\* What was sent, is to be sent and is kept are the last events of the instance whose
\* events are accepted.
Accepted == Len(sent) + Len(unsent)
StreamInv ==
  /\ \A k \in 1..Len(sent) : sent[k] = k
  /\ ~gap =>
       /\ Accepted <= MaxRecorded
       /\ \A j \in 1..Len(unsent) : unsent[j] = Len(sent) + j
       /\ Len(history) <= Accepted
       /\ \A k \in 1..Len(history) : history[k] = Accepted - Len(history) + k
       /\ baseline => Len(history) = Accepted
       /\ binder.accepting # 0 =>
            Accepted + (IF running = [kind |-> "event", of |-> binder.accepting, at |-> "publish"]
                          THEN 1 ELSE 0) = recorded[binder.accepting]

WatchInv ==
  /\ ObserverTypes /\ WorkInv /\ TokenInv /\ OutstandingInv /\ LiveInv /\ SinkInv /\ AnswerInv
  /\ StreamInv

-----------------------------------------------------------------------------
(* The observer: its state.                                                *)

\* What the types give.
LEMMA WatchHas ==
  ASSUME WatchInv
  PROVE  /\ binder \in BinderRecord /\ tap \in [Instances -> {"none", "created", "live", "stopped"}]
         /\ sinks \subseteq Instances /\ gapped \subseteq Instances
         /\ recorded \in [Instances -> 0..MaxRecorded]
         /\ running = Rest \/ running \in Steps
         /\ asking = NotAsking \/ asking \in Questions
         /\ prepares \in 0..MaxPrepares /\ controls \in Nat
         /\ MaxPrepares \in Nat /\ MaxRecorded \in Nat
         /\ HistoryLimit \in Nat \ {0} /\ PushLimit \in Nat \ {0}
         /\ Instances = 1..MaxPrepares /\ binder.outstanding <= prepares
         /\ history \in Seq(0..MaxRecorded) /\ unsent \in Seq(0..MaxRecorded) /\ sent \in Seq(0..MaxRecorded)
<1>1. ObserverTypes /\ WorkInv  BY DEF WatchInv
<1>2. /\ MaxPrepares \in Nat /\ MaxRecorded \in Nat
      /\ HistoryLimit \in Nat \ {0} /\ PushLimit \in Nat \ {0}
  BY ObserverAssumption
<1>3. binder \in BinderRecord /\ tap \in [Instances -> {"none", "created", "live", "stopped"}]
  BY <1>1 DEF ObserverTypes
<1>. QED  BY <1>1, <1>2, <1>3 DEF ObserverTypes, WorkInv, Instances

\* The fields of the binder.
LEMMA BinderHas ==
  ASSUME WatchInv
  PROVE  /\ MaxPrepares \in Nat /\ 0 \in 0..MaxPrepares /\ prepares \in 0..MaxPrepares
         /\ binder.token \in 0..MaxPrepares /\ binder.pending \in 0..MaxPrepares
         /\ binder.observer \in 0..MaxPrepares /\ binder.instance \in 0..MaxPrepares
         /\ binder.accepting \in 0..MaxPrepares /\ binder.cleanup \subseteq Instances
         /\ binder.outstanding \in 0..MaxPrepares /\ binder.outstanding <= prepares
         /\ \A n \in 0..MaxPrepares : n # 0 => n \in Instances
<1>1. binder \in BinderRecord /\ MaxPrepares \in Nat /\ Instances = 1..MaxPrepares  BY WatchHas
<1>2. prepares \in 0..MaxPrepares /\ binder.outstanding <= prepares  BY WatchHas
<1>3. \A n \in 0..MaxPrepares : n # 0 => n \in Instances  BY <1>1
<1>4. 0 \in 0..MaxPrepares  BY <1>1
<1>5. /\ binder.token \in 0..MaxPrepares /\ binder.pending \in 0..MaxPrepares
      /\ binder.observer \in 0..MaxPrepares /\ binder.instance \in 0..MaxPrepares
      /\ binder.accepting \in 0..MaxPrepares /\ binder.cleanup \subseteq Instances
      /\ binder.outstanding \in 0..MaxPrepares
  BY <1>1 DEF BinderRecord
<1>. QED  BY <1>1, <1>2, <1>3, <1>4, <1>5

\* No command is under way, and the words for that.
LEMMA Idleness ==
  /\ Rest.kind = "none" /\ Rest.of = 0 /\ Rest.at = "none"
  /\ NotAsking.kind = "none" /\ NotAsking.of = 0 /\ NotAsking.at = "idle"
  /\ \A r \in Steps : r # Rest /\ r.of \in Instances /\ r.kind \in Commands \cup {"event"}
                      /\ (r.kind # "event" => r.at \in {"begin", "previous", "forget"} \cup Making \cup Ended)
                      /\ (r.kind = "event" => r.at = "publish")
  /\ \A a \in Questions : a # NotAsking /\ a.of \in Instances /\ a.kind \in Commands
                      /\ a.at \in {"waiting", "done", "failed", "answered"}
                      /\ (a.at = "answered" => a.kind = "prepare")
BY DEF Rest, NotAsking, Steps, Questions, Commands, Making, Ended

\* Where events stay as they are, so does what is said of them.
LEMMA StreamKept ==
  ASSUME WatchInv, UNCHANGED <<history, unsent, sent, baseline, recorded>>,
         ~gap' => ~gap /\ binder'.accepting \in {binder.accepting, 0},
         running' = running \/ (running.kind # "event" /\ running'.kind # "event")
  PROVE  StreamInv'
<1>1. CASE gap'
  BY <1>1 DEF WatchInv, StreamInv, Accepted
<1>2. CASE ~gap' /\ binder'.accepting # 0
  <2>1. binder'.accepting = binder.accepting /\ ~gap  BY <1>2
  <2>. DEFINE coming == [kind |-> "event", of |-> binder.accepting, at |-> "publish"]
  <2>2. (running' = coming) <=> (running = coming)  OBVIOUS
  <2>. QED  BY <1>2, <2>1, <2>2 DEF WatchInv, StreamInv, Accepted
<1>3. CASE ~gap' /\ binder'.accepting = 0
  BY <1>3 DEF WatchInv, StreamInv, Accepted
<1>. QED  BY <1>1, <1>2, <1>3

\* A word of the command changes; which command it is does not.
LEMMA QuestionMoves ==
  ASSUME asking \in Questions, asking.kind \in Commands,
         NEW at \in {"waiting", "done", "failed", "answered"}, at = "answered" => asking.kind = "prepare"
  PROVE  LET a == [asking EXCEPT !.at = at] IN
         a \in Questions /\ a.kind = asking.kind /\ a.of = asking.of /\ a.at = at
BY DEF Questions, Commands

\* A prepare that is refused changes only what was answered.
LEMMA ObsPrepareRefused ==
  ASSUME WatchInv, NEW previous \in {0, binder.instance}, PrepareRefused(previous), asking = NotAsking
  PROVE  WatchInv'
<1>1. UNCHANGED <<binder, tap, sinks, gapped, recorded, queued, running, asking, history, unsent,
                  lastPushed, baseline, pushActive, gap, sent, prepares>>
  BY DEF PrepareRefused, binderVars
<1>2. answer' \in {"clean", "unknown"} /\ controls' = controls + 1
      /\ (answer' = "clean" => Disposition(binder) = "clean")
  BY DEF PrepareRefused, Disposition
<1>3. ObserverTypes'  BY <1>1, <1>2 DEF WatchInv, ObserverTypes
<1>4. WorkInv' /\ TokenInv' /\ OutstandingInv'
  BY <1>1 DEF WatchInv, WorkInv, TokenInv, AskedPrepare, CurrentPrepare, OutstandingInv, UnfinishedPrepares
<1>5. LiveInv' /\ SinkInv'  BY <1>1 DEF WatchInv, LiveInv, TapStopped, SinkInv
<1>6. AnswerInv'  BY <1>1, <1>2 DEF WatchInv, AnswerInv, Disposition
<1>7. StreamInv'  BY <1>1, StreamKept
<1>. QED  BY <1>3, <1>4, <1>5, <1>6, <1>7 DEF WatchInv

\* What the main thread is asked at first.
LEMMA QuestionBegins ==
  ASSUME NEW kind \in Commands, NEW n \in Instances
  PROVE  [kind |-> kind, of |-> n, at |-> "waiting"] \in Questions
BY DEF Questions

\* A prepare begins where no other is under way, with nothing kept of the events before.
LEMMA ObsPrepareBegins ==
  ASSUME WatchInv, NEW previous \in {0, binder.instance}, PrepareBegins(previous), asking = NotAsking
  PROVE  WatchInv'
<1>. DEFINE n == prepares + 1
<1>1. /\ n \in Instances /\ prepares' = n /\ binder.token = 0 /\ queued = Rest
      /\ asking' = [kind |-> "prepare", of |-> n, at |-> "waiting"]
      /\ queued' = [kind |-> "prepare", of |-> n, at |-> "begin"]
      /\ UNCHANGED <<tap, sinks, gapped, recorded, running, controls>>
      /\ answer' = "none" /\ ~gap' /\ ~pushActive' /\ baseline'
  BY WatchHas DEF PrepareBegins, WatchInv, WorkInv, NotAsking
<1>2. history' = <<>> /\ unsent' = <<>> /\ sent' = <<>> /\ lastPushed' = 0
      /\ {gap', baseline', pushActive'} \subseteq BOOLEAN
  BY DEF PrepareBegins
<1>3. /\ binder' \in BinderRecord /\ binder'.outstanding = binder.outstanding + 1
      /\ binder'.token = n /\ binder'.pending = 0 /\ binder'.accepting = n
      /\ binder'.observer = binder.observer /\ binder'.instance = binder.instance
      /\ binder'.cleanup = binder.cleanup
  <2>1. binder' = [binder EXCEPT !.token = n, !.pending = 0, !.accepting = n, !.outstanding = @ + 1]
    BY DEF PrepareBegins
  <2>2. binder \in BinderRecord /\ binder.outstanding \in 0..MaxPrepares  BY WatchHas DEF BinderRecord
  <2>3. 0 \in 0..MaxPrepares /\ n \in 0..MaxPrepares /\ binder.outstanding + 1 \in 0..MaxPrepares
    <3>1. /\ n \in 1..MaxPrepares /\ prepares \in Nat /\ MaxPrepares \in Nat
          /\ binder.outstanding <= prepares
      BY <1>1, WatchHas
    <3>. QED  BY <2>2, <3>1
  <2>. HIDE DEF n
  <2>. QED  BY <2>1, <2>2, <2>3 DEF BinderRecord
<1>4. ObserverTypes'
  <2>1. binder'.outstanding <= prepares'  BY <1>1, <1>3, BinderHas
  <2>2. /\ history' \in Seq(0..MaxRecorded) /\ Len(history') = 0
        /\ unsent' \in Seq(0..MaxRecorded) /\ Len(unsent') = 0
        /\ sent' \in Seq(0..MaxRecorded) /\ Len(sent') = 0
    BY <1>2, EmptySeq
  <2>3. /\ prepares' \in 0..MaxPrepares /\ controls' \in Nat /\ HistoryLimit \in Nat /\ PushLimit \in Nat
        /\ MaxRecorded \in Nat /\ 0 \in 0..MaxRecorded
    BY <1>1, WatchHas
  <2>4. /\ tap' \in [Instances -> {"none", "created", "live", "stopped"}]
        /\ sinks' \subseteq Instances /\ gapped' \subseteq Instances
        /\ recorded' \in [Instances -> 0..MaxRecorded]
    BY <1>1, WatchHas
  <2>. QED  BY <1>1, <1>2, <1>3, <2>1, <2>2, <2>3, <2>4 DEF ObserverTypes
<1>5. WorkInv'
  <2>1. asking' \in Questions /\ asking'.of = n /\ asking'.kind = "prepare" /\ asking'.at = "waiting"
    <3>. HIDE DEF n
    <3>1. "prepare" \in Commands  BY DEF Commands
    <3>. QED  BY <1>1, <3>1, QuestionBegins
  <2>2. running.of <= n
    <3>1. running.of <= prepares  BY DEF WatchInv, WorkInv
    <3>2. prepares \in Nat /\ Instances = 1..MaxPrepares  BY WatchHas
    <3>3. running.of \in Nat  BY <3>2, WatchHas DEF Steps, Rest
    <3>. QED  BY <3>1, <3>2, <3>3
  <2>3. queued' # Rest  BY <1>1 DEF Rest
  <2>. QED  BY <1>1, <2>1, <2>2, <2>3, WatchHas DEF WatchInv, WorkInv
<1>6. TokenInv'
  <2>1. running.of # n  BY SMTT(30), WatchHas DEF WatchInv, WorkInv, Steps, Rest
  <2>2. binder.observer <= n /\ n # 0  BY <1>1, BinderHas DEF WatchInv, TokenInv
  <2>3. /\ binder.instance = binder.observer
        /\ running.kind = "prepare" /\ running.at = "previous" => binder.observer # 0
    BY DEF WatchInv, TokenInv
  <2>. HIDE DEF n
  <2>. QED  BY <1>1, <1>3, <2>1, <2>2, <2>3 DEF TokenInv, AskedPrepare, CurrentPrepare
<1>7. OutstandingInv'
  <2>1. queued.kind # "prepare" /\ binder.outstanding \in Nat
    BY <1>1, WatchHas DEF Rest, BinderRecord
  <2>. QED  BY <1>1, <1>3, <2>1 DEF WatchInv, OutstandingInv, UnfinishedPrepares
<1>8. LiveInv'
  <2>1. binder.pending = 0  BY <1>1 DEF WatchInv, TokenInv
  <2>2. \A i \in Instances : tap[i] = "live" =>
          \/ i \in {binder.observer} \cup binder.cleanup \/ i = 0
          \/ running.kind = "prepare" /\ running.of = i /\ running.at \in {"live", "sunk"}
    BY <2>1 DEF WatchInv, LiveInv
  <2>3. \A i \in Instances : i # 0  BY WatchHas
  <2>. HIDE DEF n
  <2>. QED  BY <1>1, <1>3, <2>2, <2>3 DEF WatchInv, LiveInv, TapStopped
<1>9. SinkInv'
  <2>1. \A i \in Instances : i <= prepares => i <= n  BY WatchHas
  <2>. HIDE DEF n
  <2>. QED  BY <1>1, <2>1 DEF WatchInv, SinkInv
<1>10. AnswerInv'  BY <1>1 DEF AnswerInv
<1>11. StreamInv'
  <2>1. recorded[n] = 0  BY <1>1, WatchHas DEF WatchInv, SinkInv
  <2>2. running # [kind |-> "event", of |-> n, at |-> "publish"]
    BY WatchHas DEF WatchInv, WorkInv
  <2>3. Len(history') = 0 /\ Len(unsent') = 0 /\ Len(sent') = 0  BY <1>2, EmptySeq
  <2>. QED  BY <1>1, <1>3, <2>1, <2>2, <2>3, WatchHas DEF StreamInv, Accepted
<1>. QED  BY <1>4, <1>5, <1>6, <1>7, <1>8, <1>9, <1>10, <1>11 DEF WatchInv

\* coverage and stop name the instance there is; nothing was answered clean, then.
LEMMA ObsAskControl ==
  ASSUME WatchInv, AskControl
  PROVE  WatchInv'
<1>1. PICK kind \in {"coverage", "stop"} :
        /\ asking' = [kind |-> kind, of |-> binder.instance, at |-> "waiting"]
        /\ queued' = [kind |-> kind, of |-> binder.instance, at |-> "begin"]
  BY DEF AskControl
<1>2. /\ asking = NotAsking /\ queued = Rest /\ binder.instance # 0 /\ controls' = controls + 1
      /\ UNCHANGED <<binder, tap, sinks, gapped, recorded, running, history, unsent,
                     lastPushed, baseline, pushActive, gap, sent, answer, prepares>>
  BY DEF AskControl, binderVars, WatchInv, WorkInv, NotAsking
<1>3. /\ binder.instance \in Instances /\ binder.instance <= prepares
      /\ asking'.kind = kind /\ asking'.of = binder.instance /\ asking'.at = "waiting"
      /\ asking' \in Questions /\ queued' # Rest /\ queued'.kind = kind
  <2>1. binder.instance \in Instances /\ binder.instance <= prepares
    BY <1>2, WatchHas DEF WatchInv, TokenInv, BinderRecord
  <2>. QED  BY <1>1, <2>1 DEF Questions, Commands, Rest
<1>4. ObserverTypes'  BY <1>2 DEF WatchInv, ObserverTypes
<1>5. WorkInv'  BY <1>1, <1>2, <1>3 DEF WatchInv, WorkInv
<1>6. TokenInv'
  BY <1>2, <1>3 DEF WatchInv, TokenInv, AskedPrepare, CurrentPrepare, NotAsking
<1>7. OutstandingInv'
  BY <1>2, <1>3 DEF WatchInv, OutstandingInv, UnfinishedPrepares, Rest
<1>8. LiveInv' /\ SinkInv'  BY <1>2, <1>3 DEF WatchInv, LiveInv, TapStopped, SinkInv
<1>9. AnswerInv'  BY <1>2 DEF WatchInv, AnswerInv, Disposition
<1>10. StreamInv'  BY <1>2, StreamKept
<1>. QED  BY <1>4, <1>5, <1>6, <1>7, <1>8, <1>9, <1>10 DEF WatchInv

\* Who stops waiting takes back what has not begun.
LEMMA ObsWaitTimesOut ==
  ASSUME WatchInv, WaitTimesOut
  PROVE  WatchInv'
<1>1. /\ asking.at = "waiting" /\ asking' = [asking EXCEPT !.at = "failed"] /\ queued' = Rest
      /\ UNCHANGED <<binder, tap, sinks, gapped, recorded, running, history, unsent,
                     lastPushed, baseline, pushActive, gap, sent, answer, prepares, controls>>
  BY DEF WaitTimesOut, binderVars
<1>2. /\ asking \in Questions /\ asking' \in Questions /\ asking'.kind = asking.kind
      /\ asking'.of = asking.of /\ asking'.at = "failed" /\ asking' # NotAsking
  <2>1. asking \in Questions /\ asking.kind \in Commands  BY <1>1, WatchHas, Idleness
  <2>. QED  BY <1>1, <2>1, QuestionMoves, Idleness
<1>3. ObserverTypes'  BY <1>1 DEF WatchInv, ObserverTypes
<1>4. WorkInv'  BY <1>1, <1>2 DEF WatchInv, WorkInv
<1>5. TokenInv'  BY <1>1, <1>2 DEF WatchInv, TokenInv, AskedPrepare, CurrentPrepare
<1>6. OutstandingInv'
  BY <1>1, BinderHas DEF WatchInv, OutstandingInv, UnfinishedPrepares, Rest
<1>7. LiveInv' /\ SinkInv'  BY <1>1, <1>2 DEF WatchInv, LiveInv, TapStopped, SinkInv
<1>8. AnswerInv'  BY <1>1, <1>2, Idleness DEF WatchInv, AnswerInv, Disposition
<1>9. StreamInv'  BY <1>1, StreamKept
<1>. QED  BY <1>3, <1>4, <1>5, <1>6, <1>7, <1>8, <1>9 DEF WatchInv

\* What prepare accepts is the observer that was made for it, and no other is left.
LEMMA ObsPrepareAccepts ==
  ASSUME WatchInv, PrepareAccepts
  PROVE  WatchInv'
<1>. DEFINE n == asking.of
<1>1. /\ asking.kind = "prepare" /\ asking.at = "done" /\ binder.token = n /\ binder.pending = n
      /\ answer' = "ok" /\ asking' = [asking EXCEPT !.at = "answered"]
      /\ UNCHANGED <<tap, sinks, gapped, recorded, queued, running, history, unsent,
                     lastPushed, baseline, pushActive, gap, sent, prepares, controls>>
  BY DEF PrepareAccepts, binderVars
<1>2. /\ asking \in Questions /\ n \in Instances /\ asking' \in Questions
      /\ asking'.kind = "prepare" /\ asking'.of = n /\ asking'.at = "answered"
  <2>1. asking \in Questions /\ asking.kind \in Commands /\ n \in Instances
    BY <1>1, WatchHas, Idleness
  <2>. QED  BY <1>1, <2>1, QuestionMoves
<1>3. /\ binder' \in BinderRecord /\ binder'.outstanding = binder.outstanding
      /\ binder'.token = 0 /\ binder'.pending = 0 /\ binder'.accepting = binder.accepting
      /\ binder'.observer = n /\ binder'.instance = n /\ binder'.cleanup = binder.cleanup
  <2>1. binder' = [binder EXCEPT !.observer = n, !.instance = n, !.pending = 0, !.token = 0]
    BY DEF PrepareAccepts
  <2>2. binder \in BinderRecord /\ 0 \in 0..MaxPrepares /\ n \in 0..MaxPrepares  BY <1>2, WatchHas
  <2>. QED  BY <2>1, <2>2 DEF BinderRecord
<1>4. /\ queued = Rest /\ running.kind \in {"none", "event"} /\ binder.observer = 0
  BY <1>1, <1>2, WatchHas DEF WatchInv, WorkInv, TokenInv
<1>5. ObserverTypes'  BY <1>1, <1>3 DEF WatchInv, ObserverTypes
<1>6. WorkInv'  BY <1>1, <1>2, <1>4 DEF WatchInv, WorkInv
<1>7. TokenInv'
  BY <1>1, <1>2, <1>3, <1>4, WatchHas DEF WatchInv, WorkInv, TokenInv, AskedPrepare, CurrentPrepare
<1>8. OutstandingInv'  BY <1>1, <1>3 DEF WatchInv, OutstandingInv, UnfinishedPrepares
<1>9. LiveInv'  BY <1>1, <1>2, <1>3, <1>4 DEF WatchInv, LiveInv, TapStopped
<1>10. SinkInv'  BY <1>1 DEF WatchInv, SinkInv
<1>11. AnswerInv'  BY <1>1 DEF AnswerInv
<1>12. StreamInv'  BY <1>1, <1>3, StreamKept
<1>. QED  BY <1>5, <1>6, <1>7, <1>8, <1>9, <1>10, <1>11, <1>12 DEF WatchInv

\* A prepare that gives up leaves what it made to the main thread to stop.
LEMMA ObsPrepareFails ==
  ASSUME WatchInv, PrepareFails
  PROVE  WatchInv'
<1>. DEFINE n == asking.of
            kept == binder.pending = n
<1>1. /\ asking.kind = "prepare" /\ asking.at \in {"done", "failed"} /\ gap' /\ gap' \in BOOLEAN
      /\ UNCHANGED <<tap, sinks, gapped, recorded, running, history, unsent,
                     lastPushed, baseline, pushActive, sent, prepares, controls>>
      /\ asking \in Questions /\ n \in Instances /\ n <= prepares
      /\ queued = Rest /\ binder.token = n
  <2>1. asking.kind = "prepare" /\ asking.at \in {"done", "failed"}  BY DEF PrepareFails
  <2>2. asking \in Questions /\ n \in Instances  BY <2>1, WatchHas, Idleness
  <2>3. queued = Rest /\ binder.token = n /\ n <= prepares
    BY <2>1 DEF WatchInv, WorkInv, TokenInv, AskedPrepare
  <2>. QED  BY <2>1, <2>2, <2>3 DEF PrepareFails
<1>2. /\ binder' \in BinderRecord /\ binder'.outstanding = binder.outstanding
      /\ binder'.token = 0 /\ binder'.pending = 0 /\ binder'.accepting = 0
      /\ binder'.observer = binder.observer /\ binder'.instance = binder.instance
      /\ binder'.cleanup = IF kept THEN binder.cleanup \cup {n} ELSE binder.cleanup
  <2>1. binder.pending \in {0, n}  BY <1>1 DEF WatchInv, TokenInv
  <2>2. binder' = [binder EXCEPT !.token = 0, !.accepting = 0,
                                 !.pending = IF binder.pending = n THEN 0 ELSE binder.pending,
                                 !.cleanup = IF kept THEN binder.cleanup \cup {n} ELSE binder.cleanup]
    BY WatchHas DEF PrepareFails, BinderRecord
  <2>3. binder \in BinderRecord /\ binder.cleanup \subseteq Instances /\ 0 \in 0..MaxPrepares
        /\ binder.pending \in 0..MaxPrepares
    BY WatchHas, BinderHas
  <2>. DEFINE p == IF binder.pending = n THEN 0 ELSE binder.pending
              c == IF kept THEN binder.cleanup \cup {n} ELSE binder.cleanup
  <2>4. p = 0 /\ p \in 0..MaxPrepares /\ c \in SUBSET Instances  BY <1>1, <2>1, <2>3
  <2>5. binder' = [binder EXCEPT !.token = 0, !.accepting = 0, !.pending = p, !.cleanup = c]
    BY <2>2
  <2>. HIDE DEF p, c
  <2>6. /\ binder' \in BinderRecord /\ binder'.outstanding = binder.outstanding
        /\ binder'.token = 0 /\ binder'.pending = 0 /\ binder'.accepting = 0
        /\ binder'.observer = binder.observer /\ binder'.instance = binder.instance
        /\ binder'.cleanup = c
    BY <2>3, <2>4, <2>5 DEF BinderRecord
  <2>. QED  BY <2>6 DEF c
<1>3. /\ asking'.kind # "prepare" /\ asking'.of <= prepares /\ queued'.kind # "prepare"
      /\ asking' = NotAsking \/ asking' \in Questions
      /\ asking'.at \in {"idle", "waiting"} /\ answer' \in {"none", "ok", "clean", "unknown"}
      /\ asking'.at = "waiting" => queued' # Rest
      /\ queued' # Rest =>
           asking'.at = "waiting" /\ queued' = [kind |-> asking'.kind, of |-> asking'.of, at |-> "begin"]
      /\ answer' = "clean" => asking' = NotAsking /\ Disposition(binder)' = "clean"
  <2>1. CASE kept
    <3>1. /\ asking' = [kind |-> "cleanup", of |-> n, at |-> "waiting"]
          /\ queued' = [kind |-> "cleanup", of |-> n, at |-> "begin"] /\ UNCHANGED answer
      BY <2>1 DEF PrepareFails
    <3>2. /\ asking' \in Questions /\ asking'.kind = "cleanup" /\ asking'.of = n
          /\ asking'.at = "waiting" /\ queued' # Rest /\ queued'.kind = "cleanup"
      BY <1>1, <3>1 DEF Questions, Commands, Rest
    <3>3. answer # "clean"  BY <1>1, Idleness DEF WatchInv, AnswerInv
    <3>. QED  BY <1>1, <3>1, <3>2, <3>3 DEF WatchInv, ObserverTypes
  <2>2. CASE ~kept
    <3>1. asking' = NotAsking /\ UNCHANGED queued /\ answer' = Disposition(binder)'
      BY <2>2, WatchHas DEF PrepareFails, Disposition, BinderRecord
    <3>2. answer' \in {"clean", "unknown"}  BY <3>1 DEF Disposition
    <3>. QED  BY <1>1, <3>1, <3>2, WatchHas, Idleness
  <2>. QED  BY <2>1, <2>2
<1>4. ObserverTypes'  BY <1>1, <1>2, <1>3 DEF WatchInv, ObserverTypes
<1>5. WorkInv'  BY <1>1, <1>3 DEF WatchInv, WorkInv
<1>6. TokenInv'
  <2>1. running.kind = "prepare" => running.of # 0  BY WatchHas, Idleness DEF Instances
  <2>. QED  BY <1>1, <1>2, <1>3, <2>1 DEF WatchInv, TokenInv, AskedPrepare, CurrentPrepare
<1>7. OutstandingInv'
  BY <1>1, <1>2, <1>3 DEF WatchInv, OutstandingInv, UnfinishedPrepares, Rest
<1>8. LiveInv'
  <2>1. binder.pending \in {0, n}  BY <1>1 DEF WatchInv, TokenInv
  <2>. QED  BY SMTT(30), <1>1, <1>2, <1>3, <2>1, WatchHas DEF WatchInv, LiveInv, TapStopped
<1>9. SinkInv'  BY <1>1 DEF WatchInv, SinkInv
<1>10. AnswerInv'  BY <1>3 DEF AnswerInv
<1>11. StreamInv'  BY <1>1, StreamKept
<1>. QED  BY <1>4, <1>5, <1>6, <1>7, <1>8, <1>9, <1>10, <1>11 DEF WatchInv

\* Nothing but the answer comes of a cleanup that was waited for.
LEMMA ObsCleanupWaited ==
  ASSUME WatchInv, CleanupWaited
  PROVE  WatchInv'
<1>1. /\ asking.kind = "cleanup" /\ asking.at \in {"done", "failed"} /\ asking' = NotAsking
      /\ answer' = Disposition(binder)
      /\ UNCHANGED <<binder, tap, sinks, gapped, recorded, queued, running, history, unsent,
                     lastPushed, baseline, pushActive, gap, sent, prepares, controls>>
  BY DEF CleanupWaited, binderVars
<1>2. answer' \in {"clean", "unknown"} /\ answer' = Disposition(binder)'
  BY <1>1 DEF Disposition
<1>3. queued = Rest  BY <1>1 DEF WatchInv, WorkInv
<1>4. ObserverTypes'  BY <1>1, <1>2 DEF WatchInv, ObserverTypes
<1>5. WorkInv'  BY <1>1, <1>3, WatchHas, Idleness DEF WatchInv, WorkInv
<1>6. TokenInv' /\ OutstandingInv'
  BY <1>1, Idleness DEF WatchInv, TokenInv, AskedPrepare, CurrentPrepare, OutstandingInv, UnfinishedPrepares
<1>7. LiveInv' /\ SinkInv'  BY <1>1, Idleness DEF WatchInv, LiveInv, TapStopped, SinkInv
<1>8. AnswerInv'  BY <1>1, <1>2 DEF AnswerInv
<1>9. StreamInv'  BY <1>1, StreamKept
<1>. QED  BY <1>4, <1>5, <1>6, <1>7, <1>8, <1>9 DEF WatchInv

\* stop forgets an observer that was stopped.
LEMMA ObsControlEnds ==
  ASSUME WatchInv, ControlEnds
  PROVE  WatchInv'
<1>. DEFINE forgets == asking.kind = "stop" /\ asking.at = "done"
<1>1. /\ asking.kind \in {"coverage", "stop"} /\ asking.at \in {"done", "failed"}
      /\ asking' = NotAsking
      /\ UNCHANGED <<tap, sinks, gapped, recorded, queued, running, history, unsent,
                     lastPushed, baseline, gap, sent, answer, prepares, controls>>
  BY DEF ControlEnds
<1>2. queued = Rest /\ (forgets => running.kind \in {"none", "event"}) /\ answer # "clean"
      /\ binder.token = 0 /\ binder.pending = 0
  BY <1>1, Idleness DEF WatchInv, WorkInv, AnswerInv, TokenInv, AskedPrepare
<1>3. CASE forgets
  <2>1. binder' = [binder EXCEPT !.observer = 0, !.instance = 0, !.accepting = 0]
        /\ pushActive' = FALSE
    BY <1>3 DEF ControlEnds
  <2>2. /\ binder' \in BinderRecord /\ binder'.outstanding = binder.outstanding
        /\ binder'.token = 0 /\ binder'.pending = 0 /\ binder'.accepting = 0
        /\ binder'.observer = 0 /\ binder'.instance = 0 /\ binder'.cleanup = binder.cleanup
    BY <1>2, <2>1, WatchHas DEF BinderRecord
  <2>3. ObserverTypes'  BY <1>1, <2>1, <2>2 DEF WatchInv, ObserverTypes
  <2>4. WorkInv'  BY <1>1, <1>2, WatchHas, Idleness DEF WatchInv, WorkInv
  <2>5. TokenInv'
    BY <1>1, <1>2, <1>3, <2>2, WatchHas, Idleness DEF TokenInv, AskedPrepare, CurrentPrepare
  <2>6. OutstandingInv'  BY <1>1, <2>2 DEF WatchInv, OutstandingInv, UnfinishedPrepares
  <2>7. LiveInv'
    <3>1. TapStopped(binder.observer)  BY <1>3 DEF WatchInv, LiveInv
    <3>. QED  BY <1>1, <1>2, <1>3, <2>2, <3>1, Idleness DEF WatchInv, LiveInv, TapStopped, Instances
  <2>8. SinkInv' /\ AnswerInv'  BY <1>1, <1>2 DEF WatchInv, SinkInv, AnswerInv
  <2>9. StreamInv'  BY <1>1, <2>2, StreamKept
  <2>. QED  BY <2>3, <2>4, <2>5, <2>6, <2>7, <2>8, <2>9 DEF WatchInv
<1>4. CASE ~forgets
  <2>1. UNCHANGED <<binder, pushActive>>  BY <1>4 DEF ControlEnds
  <2>2. ObserverTypes'  BY <1>1, <2>1 DEF WatchInv, ObserverTypes
  <2>3. WorkInv'  BY <1>1, <1>2, WatchHas, Idleness DEF WatchInv, WorkInv
  <2>4. TokenInv' /\ OutstandingInv'
    BY <1>1, <2>1, Idleness DEF WatchInv, TokenInv, AskedPrepare, CurrentPrepare, OutstandingInv, UnfinishedPrepares
  <2>5. LiveInv' /\ SinkInv'  BY <1>1, <2>1, Idleness DEF WatchInv, LiveInv, TapStopped, SinkInv
  <2>6. AnswerInv'  BY <1>1, <1>2 DEF AnswerInv
  <2>7. StreamInv'  BY <1>1, <2>1, StreamKept
  <2>. QED  BY <2>2, <2>3, <2>4, <2>5, <2>6, <2>7 DEF WatchInv
<1>. QED  BY <1>3, <1>4

\* The main thread takes the work of the command that waits.
LEMMA ObsMainTakes ==
  ASSUME WatchInv, MainTakes
  PROVE  WatchInv'
<1>1. /\ running = Rest /\ queued # Rest /\ running' = queued /\ queued' = Rest
      /\ UNCHANGED <<binder, tap, sinks, gapped, recorded, asking, history, unsent,
                     lastPushed, baseline, pushActive, gap, sent, answer, prepares, controls>>
  BY DEF MainTakes, binderVars
<1>2. /\ asking.at = "waiting" /\ asking.kind \in Commands
      /\ running' = [kind |-> asking.kind, of |-> asking.of, at |-> "begin"] /\ running' \in Steps
      /\ running'.kind = asking.kind /\ running'.of = asking.of /\ running'.at = "begin"
  <2>1. asking.at = "waiting" /\ queued = [kind |-> asking.kind, of |-> asking.of, at |-> "begin"]
    BY <1>1 DEF WatchInv, WorkInv
  <2>2. asking.kind \in Commands /\ asking.of \in Instances  BY <2>1, WatchHas, Idleness
  <2>. QED  BY <1>1, <2>1, <2>2 DEF Steps, Commands
<1>3. queued.kind = asking.kind  BY <1>1, <1>2
<1>4. ObserverTypes'  BY <1>1 DEF WatchInv, ObserverTypes
<1>5. WorkInv'  BY <1>1, <1>2 DEF WatchInv, WorkInv
<1>6. TokenInv'  BY <1>1, <1>2 DEF WatchInv, TokenInv, AskedPrepare, CurrentPrepare, Making
<1>7. OutstandingInv'
  BY <1>1, <1>2, <1>3, Idleness DEF WatchInv, OutstandingInv, UnfinishedPrepares, Ended
<1>8. LiveInv' /\ SinkInv'  BY <1>1, <1>2, Idleness DEF WatchInv, LiveInv, TapStopped, SinkInv
<1>9. AnswerInv'  BY <1>1 DEF WatchInv, AnswerInv, Disposition
<1>10. StreamInv'
  <2>1. running.kind # "event" /\ running'.kind # "event"  BY <1>1, <1>2, Idleness DEF Commands
  <2>. QED  BY <1>1, <2>1, StreamKept
<1>. QED  BY <1>4, <1>5, <1>6, <1>7, <1>8, <1>9, <1>10 DEF WatchInv

\* A prepare that has not ended is counted.
LEMMA UnfinishedCounts ==
  ASSUME WatchInv, running.kind = "prepare", running.at \notin Ended
  PROVE  /\ binder.outstanding \in 0..MaxPrepares /\ binder.outstanding \in Nat
         /\ binder.outstanding >= 1
<1>1. binder.outstanding \in 0..MaxPrepares  BY WatchHas DEF BinderRecord
<1>2. MaxPrepares \in Nat  BY WatchHas
<1>. DEFINE w == IF queued.kind = "prepare" THEN 1 ELSE 0
<1>3. w + 1 <= binder.outstanding  BY DEF WatchInv, OutstandingInv, UnfinishedPrepares
<1>. QED  BY <1>1, <1>2, <1>3

\* The work of a prepare, wherever it goes, leaves most of the rest as it is.
PrepareAts == {"begin", "previous", "forget"} \cup Making \cup Ended
LEMMA PrepareGoes ==
  ASSUME WatchInv, running.kind = "prepare", running.at \notin Ended, NEW at \in PrepareAts,
         running' = [running EXCEPT !.at = at],
         binder' \in BinderRecord, binder'.accepting = binder.accepting,
         binder'.outstanding = IF at \in Ended THEN binder.outstanding - 1 ELSE binder.outstanding,
         tap' \in [Instances -> {"none", "created", "live", "stopped"}],
         sinks' \subseteq Instances, gapped' \subseteq Instances,
         UNCHANGED <<recorded, queued, asking, binderVars, answer, prepares, controls>>
  PROVE  /\ ObserverTypes' /\ WorkInv' /\ OutstandingInv' /\ AnswerInv' /\ StreamInv'
         /\ running'.kind = "prepare" /\ running'.of = running.of /\ running'.at = at
<1>1. running \in Steps /\ running.of \in Instances  BY WatchHas, Idleness
<1>2. /\ running' \in Steps /\ running'.kind = "prepare"
      /\ running'.of = running.of /\ running'.at = at
  BY <1>1 DEF Steps, PrepareAts
<1>3. /\ binder.outstanding \in Nat /\ binder.outstanding >= 1 /\ prepares \in Nat
      /\ binder.outstanding <= prepares
  BY WatchHas, UnfinishedCounts
<1>4. UNCHANGED <<history, unsent, lastPushed, baseline, pushActive, gap, sent>>
  BY DEF binderVars
<1>5. ObserverTypes'
  <2>1. binder'.outstanding <= prepares  BY <1>3
  <2>. QED  BY <1>4, <2>1 DEF WatchInv, ObserverTypes
<1>6. WorkInv'  BY <1>2 DEF WatchInv, WorkInv
<1>7. OutstandingInv'  BY <1>2, <1>3 DEF WatchInv, OutstandingInv, UnfinishedPrepares
<1>8. AnswerInv'
  <2>1. answer # "clean"  BY <1>3 DEF WatchInv, AnswerInv, Disposition
  <2>. QED  BY <2>1 DEF AnswerInv
<1>9. StreamInv'  BY <1>2, <1>4, StreamKept
<1>. QED  BY <1>2, <1>5, <1>6, <1>7, <1>8, <1>9

\* The end of the block of a prepare.
LEMMA EndOfBlock ==
  ASSUME WatchInv, running.kind = "prepare", running.at \notin Ended,
         NEW b \in BinderRecord, b.outstanding = binder.outstanding, NEW ok \in BOOLEAN, Ends(b, ok)
  PROVE  /\ binder' \in BinderRecord /\ binder'.outstanding = binder.outstanding - 1
         /\ binder'.token = b.token /\ binder'.pending = b.pending /\ binder'.observer = b.observer
         /\ binder'.instance = b.instance /\ binder'.accepting = b.accepting
         /\ binder'.cleanup = b.cleanup
         /\ running' = [running EXCEPT !.at = IF ok THEN "yes" ELSE "no"]
<1>1. /\ binder.outstanding \in Nat /\ binder.outstanding >= 1
      /\ binder.outstanding \in 0..MaxPrepares /\ MaxPrepares \in Nat
  BY WatchHas, UnfinishedCounts
<1>2. binder.outstanding - 1 \in 0..MaxPrepares  BY <1>1
<1>3. binder' = [b EXCEPT !.outstanding = binder.outstanding - 1]  BY DEF Ends, BinderRecord
<1>4. running' = [running EXCEPT !.at = IF ok THEN "yes" ELSE "no"]  BY DEF Ends
<1>5. /\ binder' \in BinderRecord /\ binder'.outstanding = binder.outstanding - 1
      /\ binder'.token = b.token /\ binder'.pending = b.pending /\ binder'.observer = b.observer
      /\ binder'.instance = b.instance /\ binder'.accepting = b.accepting
      /\ binder'.cleanup = b.cleanup
  BY <1>2, <1>3 DEF BinderRecord
<1>. QED  BY <1>4, <1>5

\* A tap that is stopped delivers nothing more; the others are as they were.
LEMMA StoppedTap ==
  ASSUME WatchInv, NEW n \in Instances, Stops(n)
  PROVE  /\ tap' \in [Instances -> {"none", "created", "live", "stopped"}]
         /\ sinks' \subseteq Instances /\ gapped' \subseteq Instances
         /\ tap'[n] = "stopped" /\ \A i \in Instances : i # n => tap'[i] = tap[i]
         /\ \A i \in sinks : i # n => i \in sinks'
BY WatchHas DEF Stops

\* The work of the prepare that has the token is waited for.
LEMMA CurrentIsAsked ==
  ASSUME WatchInv, running.kind = "prepare"
  PROVE  /\ running.of \in Instances /\ running.of <= prepares /\ running.of # 0
         /\ binder.token = running.of => asking.kind = "prepare" /\ asking.of = running.of
         /\ asking.kind = "prepare" => asking.at # "done"
         /\ binder.pending # 0 => binder.pending = binder.token
<1>1. running.of \in Instances /\ running.of <= prepares /\ running.of # 0
  BY WatchHas, Idleness DEF WatchInv, WorkInv
<1>. QED  BY <1>1 DEF WatchInv, WorkInv, TokenInv, AskedPrepare

\* The work of a prepare: it begins, and stops the observer of the prepare before.
LEMMA ObsPrepareBeginsWork ==
  ASSUME WatchInv, NEW ok \in BOOLEAN, PrepareWork(ok),
         running.at \in {"begin", "previous", "forget", "create", "start"}
  PROVE  WatchInv'
<1>. DEFINE n == running.of
            current == ok /\ binder.token = n
<1>1. /\ running.kind = "prepare" /\ running.at \notin Ended /\ binder \in BinderRecord
      /\ UNCHANGED <<recorded, queued, asking, binderVars, answer, prepares, controls>>
      /\ n \in Instances
  BY WatchHas, CurrentIsAsked DEF PrepareWork, Ended
<1>2. /\ tap \in [Instances -> {"none", "created", "live", "stopped"}]
      /\ sinks \subseteq Instances /\ gapped \subseteq Instances
  BY WatchHas
<1>3. CASE /\ running.at \in {"begin", "create", "start"} /\ ~current
           /\ Ends(binder, FALSE) /\ UNCHANGED <<tap, sinks, gapped>>
  <2>1. /\ binder' \in BinderRecord /\ binder'.outstanding = binder.outstanding - 1
        /\ binder'.token = binder.token /\ binder'.pending = binder.pending
        /\ binder'.observer = binder.observer /\ binder'.instance = binder.instance
        /\ binder'.accepting = binder.accepting /\ binder'.cleanup = binder.cleanup
        /\ running' = [running EXCEPT !.at = "no"]
    BY <1>1, <1>3, EndOfBlock
  <2>2. /\ ObserverTypes' /\ WorkInv' /\ OutstandingInv' /\ AnswerInv' /\ StreamInv'
        /\ running'.kind = "prepare" /\ running'.of = n /\ running'.at = "no"
    BY <1>1, <1>2, <1>3, <2>1, PrepareGoes DEF Ended, PrepareAts
  <2>3. TokenInv'
    BY <1>1, <2>1, <2>2 DEF WatchInv, TokenInv, AskedPrepare, CurrentPrepare, Making
  <2>4. LiveInv' /\ SinkInv'  BY <1>1, <1>3, <2>1, <2>2 DEF WatchInv, LiveInv, TapStopped, SinkInv
  <2>. QED  BY <2>2, <2>3, <2>4 DEF WatchInv
<1>4. CASE /\ running.at = "begin" /\ current /\ UNCHANGED <<binder, tap, sinks, gapped>>
           /\ Goes(IF binder.observer # 0 THEN "previous" ELSE "create")
  <2>. DEFINE at == IF binder.observer # 0 THEN "previous" ELSE "create"
  <2>1. running' = [running EXCEPT !.at = at] /\ at \in PrepareAts \ Ended
    BY <1>4 DEF Goes, PrepareAts, Making, Ended
  <2>. HIDE DEF at
  <2>2. /\ ObserverTypes' /\ WorkInv' /\ OutstandingInv' /\ AnswerInv' /\ StreamInv'
        /\ running'.kind = "prepare" /\ running'.of = n /\ running'.at = at
    BY <1>1, <1>2, <1>4, <2>1, PrepareGoes
  <2>3. TokenInv'
    BY <1>1, <1>4, <2>2 DEF at, WatchInv, TokenInv, AskedPrepare, CurrentPrepare, Making
  <2>4. LiveInv' /\ SinkInv'
    BY <1>1, <1>4, <2>2 DEF at, WatchInv, LiveInv, TapStopped, SinkInv
  <2>. QED  BY <2>2, <2>3, <2>4 DEF WatchInv
<1>5. CASE running.at = "previous" /\ Stops(binder.observer) /\ Goes("forget") /\ UNCHANGED binder
  <2>1. binder.observer \in Instances
    BY <1>1, <1>5, WatchHas DEF WatchInv, TokenInv, BinderRecord
  <2>2. /\ tap' \in [Instances -> {"none", "created", "live", "stopped"}]
        /\ sinks' \subseteq Instances /\ gapped' \subseteq Instances
        /\ tap'[binder.observer] = "stopped"
        /\ \A i \in Instances : i # binder.observer => tap'[i] = tap[i]
        /\ \A i \in sinks : i # binder.observer => i \in sinks'
    BY <1>5, <2>1, StoppedTap
  <2>3. running' = [running EXCEPT !.at = "forget"] /\ "forget" \in PrepareAts \ Ended
    BY <1>5 DEF Goes, PrepareAts, Ended
  <2>4. /\ ObserverTypes' /\ WorkInv' /\ OutstandingInv' /\ AnswerInv' /\ StreamInv'
        /\ running'.kind = "prepare" /\ running'.of = n /\ running'.at = "forget"
    BY <1>1, <1>5, <2>2, <2>3, PrepareGoes
  <2>5. TokenInv'
    BY <1>1, <1>5, <2>4 DEF WatchInv, TokenInv, AskedPrepare, CurrentPrepare, Making
  <2>6. LiveInv'
    BY <1>1, <1>5, <2>1, <2>2, <2>4, CurrentIsAsked DEF WatchInv, LiveInv, TapStopped
  <2>7. SinkInv'
    BY <1>1, <1>5, <2>1, <2>2, <2>4 DEF WatchInv, SinkInv
  <2>. QED  BY <2>4, <2>5, <2>6, <2>7 DEF WatchInv
<1>6. CASE /\ running.at = "forget" /\ Goes("create") /\ UNCHANGED <<tap, sinks, gapped>>
           /\ binder' = IF binder.token = n THEN [binder EXCEPT !.observer = 0, !.instance = 0]
                        ELSE binder
  <2>1. /\ binder' \in BinderRecord /\ binder'.outstanding = binder.outstanding
        /\ binder'.token = binder.token /\ binder'.pending = binder.pending
        /\ binder'.observer = (IF binder.token = n THEN 0 ELSE binder.observer)
        /\ binder'.instance = (IF binder.token = n THEN 0 ELSE binder.instance)
        /\ binder'.accepting = binder.accepting /\ binder'.cleanup = binder.cleanup
    <3>1. MaxPrepares \in Nat /\ 0 \in 0..MaxPrepares  BY WatchHas
    <3>. QED  BY <1>1, <1>6, <3>1 DEF BinderRecord
  <2>2. running' = [running EXCEPT !.at = "create"] /\ "create" \in PrepareAts \ Ended
    BY <1>6 DEF Goes, PrepareAts, Making, Ended
  <2>3. /\ ObserverTypes' /\ WorkInv' /\ OutstandingInv' /\ AnswerInv' /\ StreamInv'
        /\ running'.kind = "prepare" /\ running'.of = n /\ running'.at = "create"
    BY <1>1, <1>2, <1>6, <2>1, <2>2, PrepareGoes
  <2>4. TokenInv'
    BY <1>1, <1>6, <2>1, <2>3, WatchHas DEF WatchInv, TokenInv, AskedPrepare, CurrentPrepare, Making
  <2>5. LiveInv' /\ SinkInv'
    BY <1>1, <1>6, <2>1, <2>3, CurrentIsAsked DEF WatchInv, LiveInv, TapStopped, SinkInv
  <2>. QED  BY <2>3, <2>4, <2>5 DEF WatchInv
<1>7. CASE /\ running.at = "create" /\ current /\ UNCHANGED <<sinks, gapped>> /\ Goes("start")
           /\ binder' = [binder EXCEPT !.pending = n] /\ tap' = [tap EXCEPT ![n] = "created"]
  <2>1. /\ binder' \in BinderRecord /\ binder'.outstanding = binder.outstanding
        /\ binder'.token = binder.token /\ binder'.pending = n
        /\ binder'.observer = binder.observer /\ binder'.instance = binder.instance
        /\ binder'.accepting = binder.accepting /\ binder'.cleanup = binder.cleanup
    <3>1. MaxPrepares \in Nat /\ n \in 0..MaxPrepares  BY <1>1, WatchHas
    <3>. QED  BY <1>1, <1>7, <3>1 DEF BinderRecord
  <2>2. running' = [running EXCEPT !.at = "start"] /\ "start" \in PrepareAts \ Ended
    BY <1>7 DEF Goes, PrepareAts, Making, Ended
  <2>3. /\ tap' \in [Instances -> {"none", "created", "live", "stopped"}] /\ tap'[n] = "created"
        /\ \A i \in Instances : i # n => tap'[i] = tap[i]
    BY <1>1, <1>2, <1>7
  <2>4. /\ ObserverTypes' /\ WorkInv' /\ OutstandingInv' /\ AnswerInv' /\ StreamInv'
        /\ running'.kind = "prepare" /\ running'.of = n /\ running'.at = "start"
    BY <1>1, <1>2, <1>7, <2>1, <2>2, <2>3, PrepareGoes
  <2>5. binder.observer = 0  BY <1>1, <1>7 DEF WatchInv, TokenInv, CurrentPrepare, Making
  <2>6. TokenInv'
    BY <1>1, <1>7, <2>1, <2>4, <2>5, CurrentIsAsked DEF WatchInv, TokenInv, AskedPrepare, CurrentPrepare, Making
  <2>7. LiveInv'
    <3>2. \A i \in Instances : tap'[i] = "live" => i # n /\ i # 0 /\ tap[i] = "live"
      BY <2>3, WatchHas
    <3>3. \A i \in Instances : tap'[i] = "live" => i \in {binder.observer} \cup binder.cleanup
      BY <1>1, <1>7, <3>2, CurrentIsAsked DEF WatchInv, LiveInv
    <3>. QED  BY <1>1, <1>7, <2>1, <2>4, <3>3, CurrentIsAsked DEF LiveInv, TapStopped
  <2>8. SinkInv'
    BY <1>1, <1>7, <2>3, <2>4, CurrentIsAsked DEF WatchInv, SinkInv
  <2>. QED  BY <2>4, <2>6, <2>7, <2>8 DEF WatchInv
<1>8. CASE /\ running.at = "start" /\ current /\ Goes("starting")
           /\ UNCHANGED <<binder, tap, sinks, gapped>>
  <2>1. running' = [running EXCEPT !.at = "starting"] /\ "starting" \in PrepareAts \ Ended
    BY <1>8 DEF Goes, PrepareAts, Making, Ended
  <2>2. /\ ObserverTypes' /\ WorkInv' /\ OutstandingInv' /\ AnswerInv' /\ StreamInv'
        /\ running'.kind = "prepare" /\ running'.of = n /\ running'.at = "starting"
    BY <1>1, <1>2, <1>8, <2>1, PrepareGoes
  <2>3. TokenInv'
    BY <1>1, <1>8, <2>2 DEF WatchInv, TokenInv, AskedPrepare, CurrentPrepare, Making
  <2>4. LiveInv' /\ SinkInv'
    BY <1>1, <1>8, <2>2 DEF WatchInv, LiveInv, TapStopped, SinkInv
  <2>. QED  BY <2>2, <2>3, <2>4 DEF WatchInv
<1>9. CASE running.at = "begin"
  <2>1. CASE current
    BY <1>4, <1>9, <2>1 DEF PrepareWork
  <2>2. CASE ~current
    BY <1>3, <1>9, <2>2 DEF PrepareWork
  <2>. QED  BY <2>1, <2>2
<1>10. CASE running.at = "create"
  <2>1. CASE current
    BY <1>7, <1>10, <2>1 DEF PrepareWork
  <2>2. CASE ~current
    BY <1>3, <1>10, <2>2 DEF PrepareWork
  <2>. QED  BY <2>1, <2>2
<1>11. CASE running.at = "start"
  <2>1. CASE current
    BY <1>8, <1>11, <2>1 DEF PrepareWork
  <2>2. CASE ~current
    BY <1>3, <1>11, <2>2 DEF PrepareWork
  <2>. QED  BY <2>1, <2>2
<1>12. CASE running.at \in {"previous", "forget"}
  BY <1>5, <1>6, <1>12 DEF PrepareWork
<1>. QED  BY <1>9, <1>10, <1>11, <1>12

\* Its observer comes to life, or is stopped again.
LEMMA ObsPrepareEndsWork ==
  ASSUME WatchInv, NEW ok \in BOOLEAN, PrepareWork(ok), running.at \in {"starting", "live", "sunk"}
  PROVE  WatchInv'
<1>. DEFINE n == running.of
            current == ok /\ binder.token = n
<1>1. /\ running.kind = "prepare" /\ running.at \notin Ended /\ binder \in BinderRecord
      /\ UNCHANGED <<recorded, queued, asking, binderVars, answer, prepares, controls>>
      /\ n \in Instances /\ n <= prepares
  BY WatchHas, CurrentIsAsked DEF PrepareWork, Ended
<1>2. /\ tap \in [Instances -> {"none", "created", "live", "stopped"}]
      /\ sinks \subseteq Instances /\ gapped \subseteq Instances
  BY WatchHas
<1>3. binder.token = n => binder.pending = n /\ binder.observer = 0
  BY <1>1 DEF WatchInv, TokenInv, CurrentPrepare, Making
<1>4. CASE running.at = "starting" /\ ok
  <2>1. /\ tap' = [tap EXCEPT ![n] = "live"] /\ UNCHANGED <<binder, sinks, gapped>>
        /\ running' = [running EXCEPT !.at = "live"] /\ "live" \in PrepareAts \ Ended
    BY <1>4 DEF PrepareWork, Goes, PrepareAts, Making, Ended
  <2>2. /\ tap' \in [Instances -> {"none", "created", "live", "stopped"}] /\ tap'[n] = "live"
        /\ \A i \in Instances : i # n => tap'[i] = tap[i]
    BY <1>1, <1>2, <2>1
  <2>3. /\ ObserverTypes' /\ WorkInv' /\ OutstandingInv' /\ AnswerInv' /\ StreamInv'
        /\ running'.kind = "prepare" /\ running'.of = n /\ running'.at = "live"
    BY <1>1, <1>2, <2>1, <2>2, PrepareGoes
  <2>4. TokenInv'
    BY <1>1, <1>3, <2>1, <2>3 DEF WatchInv, TokenInv, AskedPrepare, CurrentPrepare, Making
  <2>5. LiveInv'
    <3>1. \A i \in Instances : i # n /\ tap'[i] = "live" =>
            i \in {binder.observer, binder.pending} \cup binder.cleanup
      BY <1>1, <1>4, <2>2 DEF WatchInv, LiveInv
    <3>2. ~(asking.kind = "stop" /\ asking.at = "done")
      BY <1>1 DEF WatchInv, WorkInv
    <3>. QED  BY <1>1, <2>1, <2>3, <3>1, <3>2 DEF LiveInv
  <2>6. SinkInv'
    BY <1>1, <1>4, <2>1, <2>2, <2>3 DEF WatchInv, SinkInv
  <2>. QED  BY <2>3, <2>4, <2>5, <2>6 DEF WatchInv
<1>5. CASE running.at = "live" /\ current
  <2>1. /\ sinks' = sinks \cup {n} /\ UNCHANGED <<binder, tap, gapped>>
        /\ running' = [running EXCEPT !.at = "sunk"] /\ "sunk" \in PrepareAts \ Ended
    BY <1>5 DEF PrepareWork, Goes, PrepareAts, Making, Ended
  <2>2. /\ ObserverTypes' /\ WorkInv' /\ OutstandingInv' /\ AnswerInv' /\ StreamInv'
        /\ running'.kind = "prepare" /\ running'.of = n /\ running'.at = "sunk"
    BY <1>1, <1>2, <2>1, PrepareGoes
  <2>3. TokenInv'
    BY <1>1, <1>3, <2>1, <2>2 DEF WatchInv, TokenInv, AskedPrepare, CurrentPrepare, Making
  <2>4. LiveInv' /\ SinkInv'
    BY <1>1, <1>5, <2>1, <2>2 DEF WatchInv, LiveInv, TapStopped, SinkInv
  <2>. QED  BY <2>2, <2>3, <2>4 DEF WatchInv
<1>6. CASE running.at = "sunk" /\ current
  <2>1. Ends(binder, TRUE) /\ UNCHANGED <<tap, sinks, gapped>>  BY <1>6 DEF PrepareWork
  <2>2. /\ binder' \in BinderRecord /\ binder'.outstanding = binder.outstanding - 1
        /\ binder'.token = binder.token /\ binder'.pending = binder.pending
        /\ binder'.observer = binder.observer /\ binder'.instance = binder.instance
        /\ binder'.accepting = binder.accepting /\ binder'.cleanup = binder.cleanup
        /\ running' = [running EXCEPT !.at = "yes"]
    BY <1>1, <2>1, EndOfBlock
  <2>3. /\ ObserverTypes' /\ WorkInv' /\ OutstandingInv' /\ AnswerInv' /\ StreamInv'
        /\ running'.kind = "prepare" /\ running'.of = n /\ running'.at = "yes"
    BY <1>1, <1>2, <2>1, <2>2, PrepareGoes DEF Ended, PrepareAts
  <2>4. TokenInv'
    BY <1>1, <1>3, <1>6, <2>2, <2>3 DEF WatchInv, TokenInv, AskedPrepare, CurrentPrepare, Making
  <2>5. LiveInv' /\ SinkInv'
    BY <1>1, <1>3, <1>6, <2>1, <2>2, <2>3 DEF WatchInv, LiveInv, TapStopped, SinkInv
  <2>. QED  BY <2>3, <2>4, <2>5 DEF WatchInv
<1>7. CASE Stops(n) /\ Ends(Dropped(binder, n), FALSE)
  <2>. DEFINE b == Dropped(binder, n)
  <2>1. /\ b \in BinderRecord /\ b.outstanding = binder.outstanding /\ b.token = binder.token
        /\ b.pending = (IF binder.token = n THEN 0 ELSE binder.pending)
        /\ b.observer = binder.observer /\ b.instance = binder.instance
        /\ b.accepting = binder.accepting /\ b.cleanup = binder.cleanup
    <3>1. MaxPrepares \in Nat /\ 0 \in 0..MaxPrepares  BY WatchHas
    <3>2. binder.pending \in 0..MaxPrepares  BY WatchHas DEF BinderRecord
    <3>. DEFINE p == IF binder.token = n /\ binder.pending = n THEN 0 ELSE binder.pending
    <3>3. p = (IF binder.token = n THEN 0 ELSE binder.pending) /\ p \in 0..MaxPrepares
      BY <1>3, <3>1, <3>2
    <3>4. b = [binder EXCEPT !.pending = p]  BY DEF Dropped
    <3>. HIDE DEF p, b
    <3>. QED  BY <1>1, <3>3, <3>4 DEF BinderRecord
  <2>2. /\ binder' \in BinderRecord /\ binder'.outstanding = binder.outstanding - 1
        /\ binder'.token = b.token /\ binder'.pending = b.pending /\ binder'.observer = b.observer
        /\ binder'.instance = b.instance /\ binder'.accepting = b.accepting
        /\ binder'.cleanup = b.cleanup
        /\ running' = [running EXCEPT !.at = "no"]
    <3>. HIDE DEF b
    <3>1. Ends(b, FALSE)  BY <1>7 DEF b
    <3>. QED  BY <1>1, <2>1, <3>1, EndOfBlock
  <2>. HIDE DEF b
  <2>3. /\ tap' \in [Instances -> {"none", "created", "live", "stopped"}]
        /\ sinks' \subseteq Instances /\ gapped' \subseteq Instances
        /\ tap'[n] = "stopped" /\ \A i \in Instances : i # n => tap'[i] = tap[i]
        /\ \A i \in sinks : i # n => i \in sinks'
    BY <1>1, <1>7, StoppedTap
  <2>4. /\ ObserverTypes' /\ WorkInv' /\ OutstandingInv' /\ AnswerInv' /\ StreamInv'
        /\ running'.kind = "prepare" /\ running'.of = n /\ running'.at = "no"
    BY <1>1, <2>1, <2>2, <2>3, PrepareGoes DEF Ended, PrepareAts
  <2>5. TokenInv'
    BY <1>1, <1>3, <2>1, <2>2, <2>4, CurrentIsAsked DEF WatchInv, TokenInv, AskedPrepare, CurrentPrepare, Making
  <2>6. LiveInv'
    <3>1. \A i \in Instances : tap'[i] = "live" => i # n /\ tap[i] = "live"  BY <1>1, <2>3
    <3>2. \A i \in Instances : tap'[i] = "live" =>
            i \in {binder.observer, binder.pending} \cup binder.cleanup
      BY <1>1, <3>1 DEF WatchInv, LiveInv
    <3>3. \A i \in Instances : i # n /\ i = binder.pending => i = binder'.pending
      BY <1>3, <2>1, <2>2
    <3>4. ~(asking.kind = "stop" /\ asking.at = "done")
      BY <1>1 DEF WatchInv, WorkInv
    <3>. QED  BY <1>1, <2>1, <2>2, <2>4, <3>1, <3>2, <3>3, <3>4 DEF LiveInv
  <2>7. SinkInv'
    BY <1>1, <2>3, <2>4 DEF WatchInv, SinkInv
  <2>. QED  BY <2>4, <2>5, <2>6, <2>7 DEF WatchInv
<1>8. CASE running.at = "starting" /\ ~ok
  BY <1>7, <1>8 DEF PrepareWork
<1>9. CASE running.at \in {"live", "sunk"} /\ ~current
  BY <1>7, <1>9 DEF PrepareWork
<1>. QED  BY <1>4, <1>5, <1>6, <1>8, <1>9

\* The blocks of cleanup, stop and coverage.
LEMMA ObsOtherWork ==
  ASSUME WatchInv, NEW ok \in BOOLEAN, OtherWork(ok)
  PROVE  WatchInv'
<1>. DEFINE n == running.of
<1>1. /\ running.at = "begin" /\ running.kind \in {"cleanup", "stop", "coverage"}
      /\ running \in Steps /\ n \in Instances
  <2>1. running.at = "begin" /\ running.kind \in {"cleanup", "stop", "coverage"}  BY DEF OtherWork
  <2>2. running # Rest  BY <2>1 DEF Rest
  <2>. QED  BY <2>1, <2>2, WatchHas, Idleness
<1>2. UNCHANGED <<recorded, queued, asking, history, unsent, lastPushed, baseline, pushActive,
                  gap, sent, answer, prepares, controls>>
  BY DEF OtherWork, binderVars
<1>3. /\ tap' \in [Instances -> {"none", "created", "live", "stopped"}]
      /\ sinks' \subseteq Instances /\ gapped' \subseteq Instances
      /\ \A i \in Instances : tap'[i] = "live" => tap[i] = "live" /\ (i \in sinks => i \in sinks')
      /\ running.kind = "cleanup" => tap'[n] # "live"
      /\ running.kind = "stop" /\ running'.at = "yes" => TapStopped(binder.observer)'
  <2>1. CASE Stops(n) /\ running.kind = "cleanup"
    BY <1>1, <2>1, StoppedTap
  <2>2. CASE Stops(binder.observer) /\ binder.observer # 0 /\ UNCHANGED binder
             /\ running.kind = "stop"
    <3>1. binder.observer \in Instances  BY <2>2, BinderHas
    <3>. QED  BY <1>1, <2>2, <3>1, StoppedTap DEF TapStopped
  <2>3. CASE UNCHANGED <<tap, sinks, gapped>> /\ running.kind = "stop" /\ Goes("no")
    <3>1. running'.at = "no"  BY <1>1, <2>3 DEF Goes, Steps
    <3>. QED  BY <1>1, <2>3, <3>1, WatchHas
  <2>4. CASE UNCHANGED <<tap, sinks>> /\ gapped' \in {gapped, gapped \cup {n}}
             /\ running.kind = "coverage"
    BY <1>1, <2>4, WatchHas
  <2>5. CASE running.kind = "cleanup"
    BY <2>1, <2>5 DEF OtherWork
  <2>6. CASE running.kind = "stop"
    BY <2>2, <2>3, <2>6 DEF OtherWork
  <2>7. CASE running.kind = "coverage"
    BY <2>4, <2>7 DEF OtherWork
  <2>. QED  BY <1>1, <2>5, <2>6, <2>7
<1>4. PICK at \in Ended : running' = [running EXCEPT !.at = at]
  BY DEF OtherWork, Goes, Ended
<1>5. /\ running' \in Steps /\ running'.kind = running.kind /\ running'.of = n /\ running'.at = at
  BY <1>1, <1>4 DEF Steps
<1>6. /\ binder' \in BinderRecord /\ binder'.outstanding = binder.outstanding
      /\ binder'.token = binder.token /\ binder'.pending = binder.pending
      /\ binder'.observer = binder.observer /\ binder'.instance = binder.instance
      /\ binder'.accepting = binder.accepting
      /\ binder'.cleanup = IF running.kind = "cleanup" THEN binder.cleanup \ {n} ELSE binder.cleanup
  <2>1. binder \in BinderRecord  BY WatchHas
  <2>2. CASE running.kind = "cleanup"
    <3>1. binder' = [binder EXCEPT !.cleanup = binder.cleanup \ {n}]
      BY <2>1, <2>2 DEF OtherWork, BinderRecord
    <3>. QED  BY <2>1, <2>2, <3>1 DEF BinderRecord
  <2>3. CASE running.kind # "cleanup"
    BY <1>1, <2>1, <2>3 DEF OtherWork
  <2>. QED  BY <2>2, <2>3
<1>7. ObserverTypes'  BY <1>2, <1>3, <1>6 DEF WatchInv, ObserverTypes
<1>8. WorkInv'  BY <1>1, <1>2, <1>5 DEF WatchInv, WorkInv
<1>9. TokenInv'  BY <1>1, <1>2, <1>5, <1>6 DEF WatchInv, TokenInv, AskedPrepare, CurrentPrepare
<1>10. OutstandingInv'
  BY <1>1, <1>2, <1>5, <1>6 DEF WatchInv, OutstandingInv, UnfinishedPrepares
<1>11. LiveInv'
  <2>1. \A i \in Instances : tap'[i] = "live" =>
          i \in {binder'.observer, binder'.pending} \cup binder'.cleanup
    BY <1>1, <1>3, <1>6 DEF WatchInv, LiveInv
  <2>2. ~(asking.kind = "stop" /\ asking.at = "done")
    BY <1>1 DEF WatchInv, WorkInv
  <2>. QED  BY <1>1, <1>2, <1>3, <1>5, <2>1, <2>2 DEF LiveInv
<1>12. SinkInv'  BY <1>1, <1>2, <1>3, <1>5 DEF WatchInv, SinkInv
<1>13. AnswerInv'  BY <1>2, <1>6 DEF WatchInv, AnswerInv, Disposition
<1>14. StreamInv'
  <2>1. running.kind # "event" /\ running'.kind # "event"  BY <1>1, <1>5
  <2>. QED  BY <1>2, <1>6, <2>1, StreamKept
<1>. QED  BY <1>7, <1>8, <1>9, <1>10, <1>11, <1>12, <1>13, <1>14 DEF WatchInv

\* The command that waits learns what came of its work.
LEMMA ObsSignals ==
  ASSUME WatchInv, Signals
  PROVE  WatchInv'
<1>. DEFINE heard == asking.at = "waiting" /\ queued = Rest
            word == IF running.at = "yes" THEN "done" ELSE "failed"
<1>1. /\ running.at \in {"yes", "no"} /\ running' = Rest
      /\ asking' = IF heard THEN [asking EXCEPT !.at = word] ELSE asking
      /\ UNCHANGED <<binder, tap, sinks, gapped, recorded, queued, history, unsent,
                     lastPushed, baseline, pushActive, gap, sent, answer, prepares, controls>>
  BY DEF Signals, binderVars
<1>2. /\ running'.kind = "none" /\ running'.of = 0 /\ running'.at = "none"
      /\ running.kind \notin {"none", "event"}
  <2>1. running # Rest  BY <1>1 DEF Rest
  <2>2. running \in Steps  BY <2>1, WatchHas
  <2>. QED  BY <1>1, <2>2, Idleness DEF Commands
<1>3. heard => /\ asking \in Questions /\ asking' \in Questions /\ asking' # NotAsking
               /\ asking'.kind = asking.kind /\ asking'.of = asking.of /\ asking'.at = word
  <2>1. heard => asking \in Questions /\ asking.kind \in Commands  BY WatchHas, Idleness
  <2>. QED  BY <1>1, <2>1, QuestionMoves, Idleness
<1>4. heard => running.kind = asking.kind /\ running.of = asking.of  BY DEF WatchInv, WorkInv
<1>5. asking'.kind = asking.kind /\ asking'.of = asking.of
      /\ (asking'.at = asking.at \/ (heard /\ asking'.at \in {"done", "failed"}))
  BY <1>1, <1>3
<1>6. ObserverTypes'  BY <1>1 DEF WatchInv, ObserverTypes
<1>7. WorkInv'
  <2>1. asking' = NotAsking \/ asking' \in Questions  BY <1>1, <1>3, WatchHas
  <2>2. queued' # Rest => asking' = asking  BY <1>1
  <2>3. asking'.at # "waiting" \/ queued' # Rest  BY <1>1, <1>3
  <2>4. prepares \in Nat  BY WatchHas
  <2>. QED  BY <1>1, <1>2, <1>5, <2>1, <2>2, <2>3, <2>4 DEF WatchInv, WorkInv
<1>8. TokenInv'
  <2>1. AskedPrepare' <=> AskedPrepare  BY <1>3, <1>5 DEF AskedPrepare
  <2>2. asking'.kind = "prepare" /\ asking'.at = "done" => binder.pending = asking.of
    <3>1. CASE heard /\ running.at = "yes"
      BY <1>3, <1>4, <3>1 DEF WatchInv, TokenInv, AskedPrepare, CurrentPrepare
    <3>2. CASE heard /\ running.at = "no"
      BY <1>3, <3>2
    <3>3. CASE ~heard
      BY <1>1, <3>3 DEF WatchInv, TokenInv
    <3>. QED  BY <1>1, <3>1, <3>2, <3>3
  <2>. QED  BY <1>1, <1>2, <1>5, <2>1, <2>2 DEF WatchInv, TokenInv, CurrentPrepare
<1>9. OutstandingInv'
  BY <1>1, <1>2 DEF WatchInv, OutstandingInv, UnfinishedPrepares, Ended
<1>10. LiveInv'
  <2>1. asking'.kind = "stop" /\ asking'.at = "done" => TapStopped(binder.observer)
    <3>1. CASE heard
      BY <1>1, <1>3, <1>4, <3>1 DEF WatchInv, LiveInv
    <3>2. CASE ~heard
      BY <1>1, <3>2 DEF WatchInv, LiveInv
    <3>. QED  BY <3>1, <3>2
  <2>. QED  BY <1>1, <1>2, <2>1 DEF WatchInv, LiveInv, TapStopped
<1>11. SinkInv'  BY <1>1 DEF WatchInv, SinkInv
<1>12. AnswerInv'  BY <1>1, Idleness DEF WatchInv, AnswerInv, Disposition
<1>13. StreamInv'  BY <1>1, <1>2, StreamKept
<1>. QED  BY <1>6, <1>7, <1>8, <1>9, <1>10, <1>11, <1>12, <1>13 DEF WatchInv

\* An event of a live observer is on its way to the binder.
LEMMA ObsRecordEvent ==
  ASSUME WatchInv, NEW i \in Instances, RecordEvent(i)
  PROVE  WatchInv'
<1>1. /\ running = Rest /\ tap[i] = "live" /\ recorded[i] < MaxRecorded
      /\ recorded' = [recorded EXCEPT ![i] = recorded[i] + 1]
      /\ UNCHANGED <<binder, tap, sinks, gapped, queued, asking, history, unsent,
                     lastPushed, baseline, pushActive, gap, sent, answer, prepares, controls>>
  BY WatchHas DEF RecordEvent, binderVars
<1>2. i \in sinks /\ i <= prepares  BY <1>1, Idleness DEF WatchInv, SinkInv
<1>3. /\ running' = [kind |-> "event", of |-> i, at |-> "publish"] /\ running' \in Steps
      /\ running'.kind = "event" /\ running'.of = i /\ running'.at = "publish"
  BY <1>2 DEF RecordEvent, Steps
<1>4. /\ recorded' \in [Instances -> 0..MaxRecorded] /\ recorded'[i] = recorded[i] + 1
      /\ recorded[i] \in Nat /\ recorded[i] + 1 <= MaxRecorded
      /\ \A j \in Instances : j # i => recorded'[j] = recorded[j]
  <2>1. /\ recorded \in [Instances -> 0..MaxRecorded] /\ MaxRecorded \in Nat
        /\ recorded[i] \in 0..MaxRecorded
    BY WatchHas
  <2>2. recorded[i] + 1 \in 0..MaxRecorded  BY <1>1, <2>1
  <2>. QED  BY <1>1, <2>1, <2>2
<1>5. ObserverTypes'  BY <1>1, <1>4 DEF WatchInv, ObserverTypes
<1>6. WorkInv'  BY <1>1, <1>2, <1>3, WatchHas, Idleness DEF WatchInv, WorkInv, Commands
<1>7. TokenInv' /\ OutstandingInv'
  BY <1>1, <1>3, Idleness
  DEF WatchInv, TokenInv, AskedPrepare, CurrentPrepare, OutstandingInv, UnfinishedPrepares
<1>8. LiveInv'  BY <1>1, <1>3, Idleness DEF WatchInv, LiveInv, TapStopped
<1>9. SinkInv'  BY <1>1, <1>2, <1>3, <1>4, Idleness DEF WatchInv, SinkInv
<1>10. AnswerInv'  BY <1>1 DEF WatchInv, AnswerInv, Disposition
<1>11. StreamInv'
  <2>1. /\ running # [kind |-> "event", of |-> binder.accepting, at |-> "publish"]
        /\ Accepted \in Nat
    BY <1>1, WatchHas DEF Rest, Accepted
  <2>2. binder.accepting # 0 => binder.accepting \in Instances  BY BinderHas
  <2>3. CASE binder.accepting = i
    BY <1>1, <1>3, <1>4, <2>1, <2>3 DEF WatchInv, StreamInv, Accepted
  <2>4. CASE binder.accepting # i
    <3>1. running' # [kind |-> "event", of |-> binder.accepting, at |-> "publish"]
      BY <1>3, <2>4
    <3>. QED  BY <1>1, <1>4, <2>1, <2>2, <2>4, <3>1 DEF WatchInv, StreamInv, Accepted
  <2>. QED  BY <2>3, <2>4
<1>. QED  BY <1>5, <1>6, <1>7, <1>8, <1>9, <1>10, <1>11 DEF WatchInv

\* Coverage is lost: nothing else changes.
LEMMA ObsCoverageLost ==
  ASSUME WatchInv, NEW i \in Instances, CoverageLost(i)
  PROVE  WatchInv'
<1>1. /\ gapped' = gapped \cup {i}
      /\ UNCHANGED <<binder, tap, sinks, recorded, queued, running, asking, history, unsent,
                     lastPushed, baseline, pushActive, gap, sent, answer, prepares, controls>>
  BY DEF CoverageLost, binderVars
<1>2. ObserverTypes'  BY <1>1 DEF WatchInv, ObserverTypes
<1>3. WorkInv' /\ TokenInv' /\ OutstandingInv'
  BY <1>1 DEF WatchInv, WorkInv, TokenInv, AskedPrepare, CurrentPrepare, OutstandingInv, UnfinishedPrepares
<1>4. LiveInv' /\ SinkInv' /\ AnswerInv'
  BY <1>1 DEF WatchInv, LiveInv, TapStopped, SinkInv, AnswerInv, Disposition
<1>5. StreamInv'  BY <1>1, StreamKept
<1>. QED  BY <1>2, <1>3, <1>4, <1>5 DEF WatchInv

\* What the end of an event leaves as it was.
LEMMA EventEnds ==
  ASSUME WatchInv, running.kind = "event", running' = Rest,
         UNCHANGED <<binder, tap, sinks, recorded, queued, asking, answer, prepares>>
  PROVE  WorkInv' /\ TokenInv' /\ OutstandingInv' /\ LiveInv' /\ SinkInv' /\ AnswerInv'
<1>1. WorkInv'
  <2>1. running # Rest  BY DEF Rest
  <2>2. ~(asking.at = "waiting" /\ queued = Rest)
    BY WatchHas, Idleness DEF WatchInv, WorkInv, Commands
  <2>. QED  BY <2>2, WatchHas, Idleness DEF WatchInv, WorkInv
<1>2. TokenInv' /\ OutstandingInv'
  BY Idleness DEF WatchInv, TokenInv, AskedPrepare, CurrentPrepare, OutstandingInv, UnfinishedPrepares
<1>3. LiveInv' /\ SinkInv' /\ AnswerInv'
  BY Idleness DEF WatchInv, LiveInv, TapStopped, SinkInv, AnswerInv, Disposition
<1>. QED  BY <1>1, <1>2, <1>3

\* One event more, at the end of what is to be sent and of what is kept.
LEMMA EventKept ==
  ASSUME WatchInv, running.kind = "event", binder.accepting = running.of, ~gap,
         Len(unsent) < PushLimit,
         Evicts(recorded[running.of]), unsent' = Append(unsent, recorded[running.of]),
         running' = Rest, UNCHANGED <<binder, recorded, sent, gap>>
  PROVE  /\ history' \in Seq(0..MaxRecorded) /\ Len(history') <= HistoryLimit
         /\ unsent' \in Seq(0..MaxRecorded) /\ Len(unsent') <= PushLimit
         /\ baseline' \in BOOLEAN /\ StreamInv'
<1>. DEFINE o == binder.accepting
            e == recorded[o]
<1>1. o \in Instances /\ o # 0 /\ running = [kind |-> "event", of |-> o, at |-> "publish"]
  <2>1. running # Rest  BY DEF Rest
  <2>. QED  BY <2>1, WatchHas DEF Steps
<1>2. e \in 0..MaxRecorded /\ MaxRecorded \in Nat /\ HistoryLimit \in Nat \ {0} /\ PushLimit \in Nat \ {0}
  BY <1>1, WatchHas
<1>3. /\ history \in Seq(0..MaxRecorded) /\ unsent \in Seq(0..MaxRecorded)
      /\ sent \in Seq(0..MaxRecorded)
      /\ Len(history) \in Nat /\ Len(unsent) \in Nat /\ Len(sent) \in Nat
  BY WatchHas
<1>4. /\ \A k \in 1..Len(sent) : sent[k] = k
      /\ \A j \in 1..Len(unsent) : unsent[j] = Len(sent) + j
      /\ Len(history) <= Len(sent) + Len(unsent)
      /\ \A k \in 1..Len(history) : history[k] = Len(sent) + Len(unsent) - Len(history) + k
      /\ baseline => Len(history) = Len(sent) + Len(unsent)
      /\ Len(sent) + Len(unsent) + 1 = e
      /\ Len(history) <= HistoryLimit /\ baseline \in BOOLEAN
  BY <1>1 DEF WatchInv, StreamInv, Accepted, ObserverTypes
<1>5. unsent' = Append(unsent, e)  OBVIOUS
<1>. HIDE DEF o, e
<1>6. /\ unsent' \in Seq(0..MaxRecorded) /\ Len(unsent') = Len(unsent) + 1
      /\ unsent'[Len(unsent) + 1] = e
      /\ \A j \in 1..Len(unsent) : unsent'[j] = unsent[j]
  BY <1>2, <1>3, <1>5, AppendProperties
<1>7. /\ history' \in Seq(0..MaxRecorded) /\ Len(history') \in Nat
      /\ Len(history') <= HistoryLimit /\ Len(history') <= e
      /\ \A k \in 1..Len(history') : history'[k] = e - Len(history') + k
      /\ baseline' \in BOOLEAN /\ (baseline' => Len(history') = e)
  <2>1. CASE Len(history) < HistoryLimit
    <3>1. history' = Append(history, e) /\ UNCHANGED baseline  BY <2>1 DEF Evicts, o, e
    <3>2. /\ history' \in Seq(0..MaxRecorded) /\ Len(history') = Len(history) + 1
          /\ history'[Len(history) + 1] = e
          /\ \A k \in 1..Len(history) : history'[k] = history[k]
      BY <1>2, <1>3, <3>1, AppendProperties
    <3>3. /\ Len(history') \in Nat /\ Len(history') <= HistoryLimit /\ Len(history') <= e
          /\ e - Len(history') = Len(sent) + Len(unsent) - Len(history)
      BY <1>2, <1>3, <1>4, <2>1, <3>2
    <3>4. ASSUME NEW k \in 1..Len(history')
          PROVE  history'[k] = e - Len(history') + k
      <4>1. k \in 1..Len(history) \/ k = Len(history')  BY <1>3, <3>2
      <4>2. e - Len(history') + Len(history') = e  BY <1>2, <3>3
      <4>. QED  BY <1>4, <3>2, <3>3, <4>1, <4>2
    <3>5. baseline' => Len(history') = e  BY <1>3, <1>4, <3>1, <3>2
    <3>. QED  BY <1>4, <3>1, <3>2, <3>3, <3>4, <3>5
  <2>2. CASE ~(Len(history) < HistoryLimit)
    <3>. DEFINE t == Tail(history)
    <3>1. history' = Append(t, e) /\ baseline' = FALSE  BY <2>2 DEF Evicts, o, e
    <3>2. Len(history) = HistoryLimit /\ Len(history) > 0 /\ history # <<>>
      BY <1>2, <1>3, <1>4, <2>2, EmptySeq
    <3>3. /\ t \in Seq(0..MaxRecorded) /\ Len(t) = Len(history) - 1
          /\ \A k \in 1..Len(t) : t[k] = history[k + 1]
      BY <1>3, <3>2, HeadTailProperties
    <3>. HIDE DEF t
    <3>4. /\ history' \in Seq(0..MaxRecorded) /\ Len(history') = Len(t) + 1
          /\ history'[Len(t) + 1] = e
          /\ \A k \in 1..Len(t) : history'[k] = t[k]
      BY <1>2, <3>1, <3>3, AppendProperties
    <3>5. /\ Len(history') = Len(history) /\ Len(t) \in Nat /\ Len(history) <= e
          /\ e - Len(history') = Len(sent) + Len(unsent) - Len(history) + 1
      BY <1>2, <1>3, <1>4, <3>2, <3>3, <3>4
    <3>6. ASSUME NEW k \in 1..Len(history')
          PROVE  history'[k] = e - Len(history') + k
      <4>1. k \in 1..Len(t) \/ k = Len(history')  BY <3>3, <3>4, <3>5
      <4>2. e - Len(history') + Len(history') = e  BY <1>2, <1>3, <3>5
      <4>3. CASE k \in 1..Len(t)
        <5>1. history'[k] = history[k + 1] /\ k + 1 \in 1..Len(history)
          BY <1>3, <3>3, <3>4, <3>5, <4>3
        <5>2. history[k + 1] = Len(sent) + Len(unsent) - Len(history) + (k + 1)
          BY <1>4, <5>1
        <5>. QED  BY <1>3, <3>5, <5>1, <5>2
      <4>. QED  BY <3>4, <3>5, <4>1, <4>2, <4>3
    <3>. QED  BY <1>3, <1>4, <3>1, <3>2, <3>4, <3>5, <3>6
  <2>. QED  BY <2>1, <2>2
<1>8. Len(unsent') <= PushLimit  BY <1>2, <1>3, <1>6
<1>9. StreamInv'
  <2>1. \A k \in 1..Len(sent)' : sent'[k] = k  BY <1>4
  <2>2. Accepted' = e  BY <1>3, <1>4, <1>6 DEF Accepted
  <2>3. ASSUME NEW j \in 1..Len(unsent')
        PROVE  unsent'[j] = Len(sent') + j
    <3>1. j \in 1..Len(unsent) \/ j = Len(unsent) + 1  BY <1>3, <1>6
    <3>2. Len(sent') + (Len(unsent) + 1) = e  BY <1>3, <1>4
    <3>. QED  BY <1>4, <1>6, <3>1, <3>2
  <2>4. running' # [kind |-> "event", of |-> binder'.accepting, at |-> "publish"]  BY DEF Rest
  <2>5. recorded'[binder'.accepting] = e /\ e + 0 = e  BY <1>2 DEF o, e
  <2>. QED  BY <1>2, <1>7, <2>1, <2>2, <2>3, <2>4, <2>5 DEF StreamInv
<1>. QED  BY <1>6, <1>7, <1>8, <1>9

\* The binder takes an event, or lets it go with a gap.
LEMMA ObsAcceptEvent ==
  ASSUME WatchInv, AcceptEvent
  PROVE  WatchInv'
<1>. DEFINE e == recorded[running.of]
<1>1. /\ running.kind = "event" /\ running' = Rest
      /\ UNCHANGED <<binder, tap, sinks, recorded, queued, asking, lastPushed, pushActive, sent,
                     answer, prepares, controls>>
  BY DEF AcceptEvent
<1>2. WorkInv' /\ TokenInv' /\ OutstandingInv' /\ LiveInv' /\ SinkInv' /\ AnswerInv'
  BY <1>1, EventEnds
<1>3. CASE (binder.accepting # running.of \/ gap) /\ UNCHANGED <<history, unsent, baseline, gap, gapped>>
  <2>1. ObserverTypes'  BY <1>1, <1>3 DEF WatchInv, ObserverTypes
  <2>2. StreamInv'
    <3>1. ~gap => /\ running # [kind |-> "event", of |-> binder.accepting, at |-> "publish"]
                  /\ running' # [kind |-> "event", of |-> binder.accepting, at |-> "publish"]
      BY <1>1, <1>3 DEF Rest
    <3>. QED  BY <1>1, <1>3, <3>1 DEF WatchInv, StreamInv, Accepted
  <2>. QED  BY <1>2, <2>1, <2>2 DEF WatchInv
<1>4. CASE Overflows /\ UNCHANGED <<history, unsent, baseline>>
  <2>1. gap' = TRUE /\ gapped' \subseteq Instances
    BY SMTT(30), <1>4, WatchHas DEF Overflows, BinderRecord
  <2>2. ObserverTypes'  BY <1>1, <1>4, <2>1 DEF WatchInv, ObserverTypes
  <2>3. StreamInv'  BY <1>1, <1>4, <2>1 DEF WatchInv, StreamInv
  <2>. QED  BY <1>2, <2>2, <2>3 DEF WatchInv
<1>5. CASE /\ binder.accepting = running.of /\ ~gap /\ Len(unsent) < PushLimit
           /\ Evicts(e) /\ unsent' = Append(unsent, e) /\ UNCHANGED <<gap, gapped>>
  <2>1. /\ history' \in Seq(0..MaxRecorded) /\ Len(history') <= HistoryLimit
        /\ unsent' \in Seq(0..MaxRecorded) /\ Len(unsent') <= PushLimit
        /\ baseline' \in BOOLEAN /\ StreamInv'
    BY <1>1, <1>5, EventKept
  <2>2. ObserverTypes'  BY <1>1, <1>5, <2>1 DEF WatchInv, ObserverTypes
  <2>. QED  BY <1>2, <2>1, <2>2 DEF WatchInv
<1>6. Len(unsent) >= PushLimit \/ Len(unsent) < PushLimit
  BY WatchHas
<1>. QED  BY <1>3, <1>4, <1>5, <1>6 DEF AcceptEvent, Keeps

\* Events may be pushed from now on.
LEMMA ObsActivatePush ==
  ASSUME WatchInv, ActivatePush
  PROVE  WatchInv'
<1>1. /\ asking.kind = "prepare" /\ asking.at = "answered" /\ asking' = NotAsking
      /\ pushActive' \in BOOLEAN
      /\ UNCHANGED <<binder, tap, sinks, gapped, recorded, queued, running, history, unsent,
                     lastPushed, baseline, gap, sent, answer, prepares, controls>>
  BY DEF ActivatePush
<1>2. queued = Rest /\ answer # "clean"  BY <1>1, Idleness DEF WatchInv, WorkInv, AnswerInv
<1>3. ObserverTypes'  BY <1>1 DEF WatchInv, ObserverTypes
<1>4. WorkInv'  BY <1>1, <1>2, WatchHas, Idleness DEF WatchInv, WorkInv
<1>5. TokenInv' /\ OutstandingInv'
  BY <1>1, Idleness DEF WatchInv, TokenInv, AskedPrepare, CurrentPrepare, OutstandingInv, UnfinishedPrepares
<1>6. LiveInv' /\ SinkInv'  BY <1>1, Idleness DEF WatchInv, LiveInv, TapStopped, SinkInv
<1>7. AnswerInv'  BY <1>1, <1>2 DEF AnswerInv
<1>8. StreamInv'  BY <1>1, StreamKept
<1>. QED  BY <1>3, <1>4, <1>5, <1>6, <1>7, <1>8 DEF WatchInv

\* What is sent is taken from what is to be sent, in its order.
LEMMA ObsTakePush ==
  ASSUME WatchInv, TakePush
  PROVE  WatchInv'
<1>. DEFINE many == IF pushActive THEN Len(unsent) ELSE 0
<1>1. /\ UNCHANGED <<binder, tap, sinks, gapped, recorded, queued, running, asking, history,
                     baseline, pushActive, answer, prepares, controls>>
      /\ gap' \in BOOLEAN /\ (~gap' => ~gap)
      /\ sent' = (IF gap' THEN sent ELSE sent \o SubSeq(unsent, 1, many))
      /\ unsent' = SubSeq(unsent, many + 1, Len(unsent))
      /\ lastPushed' = IF many = 0 THEN lastPushed ELSE unsent[many]
  BY DEF TakePush, WatchInv, ObserverTypes
<1>2. /\ unsent \in Seq(0..MaxRecorded) /\ sent \in Seq(0..MaxRecorded)
      /\ Len(unsent) \in Nat /\ Len(sent) \in Nat /\ Len(unsent) <= PushLimit
      /\ Len(sent) <= MaxRecorded /\ MaxRecorded \in Nat /\ PushLimit \in Nat
  BY WatchHas DEF WatchInv, ObserverTypes
<1>3. \/ unsent' = unsent /\ (~gap' => sent' = sent)
      \/ unsent' = <<>> /\ (~gap' => sent' = sent \o unsent)
  <2>1. CASE many = 0
    <3>1. SubSeq(unsent, 1, many) = <<>> /\ SubSeq(unsent, many + 1, Len(unsent)) = unsent
      <4>1. SubSeq(unsent, 1, 0) = <<>>  BY SubSeqEmpty
      <4>2. SubSeq(unsent, 1, Len(unsent)) = unsent  BY <1>2, SubSeqFull
      <4>3. many + 1 = 1  BY <2>1
      <4>. QED  BY <2>1, <4>1, <4>2, <4>3
    <3>2. sent \o <<>> = sent  BY <1>2
    <3>. QED  BY <1>1, <3>1, <3>2
  <2>2. CASE many # 0
    <3>1. many = Len(unsent)  BY <2>2
    <3>2. SubSeq(unsent, 1, many) = unsent /\ SubSeq(unsent, many + 1, Len(unsent)) = <<>>
      <4>1. SubSeq(unsent, 1, Len(unsent)) = unsent  BY <1>2, SubSeqFull
      <4>2. Len(unsent) + 1 \in Int /\ Len(unsent) \in Int /\ Len(unsent) < Len(unsent) + 1  BY <1>2
      <4>3. SubSeq(unsent, Len(unsent) + 1, Len(unsent)) = <<>>  BY <4>2, SubSeqEmpty
      <4>. QED  BY <3>1, <4>1, <4>3
    <3>. QED  BY <1>1, <3>2
  <2>. QED  BY <2>1, <2>2
<1>4. lastPushed' \in 0..MaxRecorded
  <2>1. lastPushed \in 0..MaxRecorded  BY DEF WatchInv, ObserverTypes
  <2>2. many # 0 => unsent[many] \in 0..MaxRecorded  BY <1>2
  <2>. QED  BY <1>1, <2>1, <2>2
<1>. HIDE DEF many
<1>5. /\ unsent' \in Seq(0..MaxRecorded) /\ Len(unsent') <= PushLimit
      /\ sent' \in Seq(0..MaxRecorded) /\ Len(sent') <= MaxRecorded
      /\ StreamInv'
  <2>1. /\ \A k \in 1..Len(sent) : sent[k] = k
        /\ ~gap' => /\ Len(sent) + Len(unsent) <= MaxRecorded
                    /\ \A j \in 1..Len(unsent) : unsent[j] = Len(sent) + j
    BY <1>1 DEF WatchInv, StreamInv, Accepted
  <2>2. CASE unsent' = unsent /\ sent' = sent
    BY <1>1, <1>2, <2>2 DEF WatchInv, StreamInv, Accepted
  <2>3. CASE unsent' = <<>> /\ sent' = sent /\ gap'
    <3>1. Len(unsent') = 0 /\ unsent' \in Seq(0..MaxRecorded)  BY <2>3, EmptySeq
    <3>2. StreamInv'  BY <2>1, <2>3 DEF StreamInv
    <3>. QED  BY <1>2, <2>3, <3>1, <3>2
  <2>4. CASE unsent' = <<>> /\ sent' = sent \o unsent /\ ~gap'
    <3>1. /\ sent' \in Seq(0..MaxRecorded) /\ Len(sent') = Len(sent) + Len(unsent)
          /\ \A k \in 1..Len(sent') :
               sent'[k] = IF k <= Len(sent) THEN sent[k] ELSE unsent[k - Len(sent)]
      BY <1>2, <2>4, ConcatProperties
    <3>2. Len(unsent') = 0 /\ unsent' \in Seq(0..MaxRecorded)  BY <2>4, EmptySeq
    <3>3. \A k \in 1..Len(sent') : sent'[k] = k  BY <1>2, <2>1, <2>4, <3>1
    <3>4. Accepted' = Accepted  BY <1>2, <3>1, <3>2 DEF Accepted
    <3>5. ~gap /\ UNCHANGED <<history, baseline, binder, running, recorded>>  BY <1>1, <2>4
    <3>6. StreamInv'  BY <3>2, <3>3, <3>4, <3>5 DEF WatchInv, StreamInv
    <3>. QED  BY <1>2, <2>1, <2>4, <3>1, <3>2, <3>6
  <2>. QED  BY <1>1, <1>3, <2>2, <2>3, <2>4
<1>6. ObserverTypes'  BY <1>1, <1>4, <1>5 DEF WatchInv, ObserverTypes
<1>7. WorkInv' /\ TokenInv' /\ OutstandingInv'
  BY <1>1 DEF WatchInv, WorkInv, TokenInv, AskedPrepare, CurrentPrepare, OutstandingInv, UnfinishedPrepares
<1>8. LiveInv' /\ SinkInv' /\ AnswerInv'
  BY <1>1 DEF WatchInv, LiveInv, TapStopped, SinkInv, AnswerInv, Disposition
<1>. QED  BY <1>5, <1>6, <1>7, <1>8 DEF WatchInv

\* Init establishes the invariant.
LEMMA ObserverStarts == ObserverInit => WatchInv
<1>. SUFFICES ASSUME ObserverInit  PROVE WatchInv
  OBVIOUS
<1>1. /\ MaxPrepares \in Nat /\ MaxRecorded \in Nat /\ HistoryLimit \in Nat \ {0}
      /\ PushLimit \in Nat \ {0}
  BY ObserverAssumption
<1>2. 0 \in 0..MaxPrepares /\ 0 \in 0..MaxRecorded  BY <1>1
<1>3. /\ binder \in BinderRecord /\ binder.token = 0 /\ binder.pending = 0 /\ binder.observer = 0
      /\ binder.instance = 0 /\ binder.accepting = 0 /\ binder.outstanding = 0
  BY <1>2 DEF ObserverInit, NoObserver, BinderRecord
<1>4. /\ history = <<>> /\ unsent = <<>> /\ sent = <<>> /\ Len(history) = 0 /\ Len(unsent) = 0
      /\ Len(sent) = 0 /\ <<>> \in Seq(0..MaxRecorded)
  BY EmptySeq DEF ObserverInit
<1>5. ObserverTypes
  <2>1. tap \in [Instances -> {"none", "created", "live", "stopped"}]  BY DEF ObserverInit
  <2>2. recorded \in [Instances -> 0..MaxRecorded]  BY <1>2 DEF ObserverInit
  <2>3. /\ lastPushed \in 0..MaxRecorded /\ prepares \in 0..MaxPrepares /\ controls \in Nat
        /\ binder.outstanding <= prepares
    BY <1>2, <1>3 DEF ObserverInit
  <2>4. /\ Len(history) <= HistoryLimit /\ Len(unsent) <= PushLimit /\ Len(sent) <= MaxRecorded
    BY <1>1, <1>4
  <2>. QED  BY <1>3, <1>4, <2>1, <2>2, <2>3, <2>4 DEF ObserverInit, ObserverTypes
<1>6. WorkInv /\ TokenInv
  BY <1>1, <1>3, Idleness DEF ObserverInit, WorkInv, TokenInv, AskedPrepare, CurrentPrepare
<1>7. OutstandingInv  BY <1>3, Idleness DEF ObserverInit, OutstandingInv, UnfinishedPrepares
<1>8. LiveInv /\ SinkInv /\ AnswerInv
  BY Idleness DEF ObserverInit, LiveInv, SinkInv, AnswerInv
<1>9. StreamInv  BY <1>1, <1>3, <1>4 DEF ObserverInit, StreamInv, Accepted
<1>. QED  BY <1>5, <1>6, <1>7, <1>8, <1>9 DEF WatchInv

\* Every step keeps it.
LEMMA ObserverSteps == WatchInv /\ [ObserverNext]_observerVars => WatchInv'
<1>. SUFFICES ASSUME WatchInv, [ObserverNext]_observerVars  PROVE WatchInv'
  OBVIOUS
<1>1. CASE AskPrepare
  BY <1>1, ObsPrepareBegins, ObsPrepareRefused DEF AskPrepare
<1>2. CASE AskControl  BY <1>2, ObsAskControl
<1>3. CASE WaitTimesOut  BY <1>3, ObsWaitTimesOut
<1>4. CASE PrepareAccepts  BY <1>4, ObsPrepareAccepts
<1>5. CASE PrepareFails  BY <1>5, ObsPrepareFails
<1>6. CASE CleanupWaited  BY <1>6, ObsCleanupWaited
<1>7. CASE ControlEnds  BY <1>7, ObsControlEnds
<1>8. CASE MainThread
  <2>1. CASE MainTakes  BY <2>1, ObsMainTakes
  <2>2. ASSUME NEW ok \in BOOLEAN, PrepareWork(ok)  PROVE WatchInv'
    <3>1. running.at \in {"begin", "previous", "forget", "create", "start"}
          \/ running.at \in {"starting", "live", "sunk"}
      BY <2>2 DEF PrepareWork
    <3>. QED  BY <2>2, <3>1, ObsPrepareBeginsWork, ObsPrepareEndsWork
  <2>3. ASSUME NEW ok \in BOOLEAN, OtherWork(ok)  PROVE WatchInv'
    BY <2>3, ObsOtherWork
  <2>4. CASE Signals  BY <2>4, ObsSignals
  <2>5. ASSUME NEW i \in Instances, RecordEvent(i) \/ CoverageLost(i)  PROVE WatchInv'
    BY <2>5, ObsRecordEvent, ObsCoverageLost
  <2>6. CASE AcceptEvent  BY <2>6, ObsAcceptEvent
  <2>. QED  BY <1>8, <2>1, <2>2, <2>3, <2>4, <2>5, <2>6 DEF MainThread
<1>9. CASE ActivatePush  BY <1>9, ObsActivatePush
<1>10. CASE TakePush  BY <1>10, ObsTakePush
<1>11. CASE UNCHANGED observerVars
  <2>1. UNCHANGED <<binder, tap, sinks, gapped, recorded, queued, running, asking, history, unsent,
                    lastPushed, baseline, pushActive, gap, sent, answer, prepares, controls>>
    BY <1>11 DEF observerVars, binderVars
  <2>2. ObserverTypes'  BY <2>1 DEF WatchInv, ObserverTypes
  <2>3. WorkInv' /\ TokenInv' /\ OutstandingInv'
    BY <2>1 DEF WatchInv, WorkInv, TokenInv, AskedPrepare, CurrentPrepare, OutstandingInv, UnfinishedPrepares
  <2>4. LiveInv' /\ SinkInv' /\ AnswerInv'
    BY <2>1 DEF WatchInv, LiveInv, TapStopped, SinkInv, AnswerInv, Disposition
  <2>5. StreamInv'  BY <2>1, StreamKept
  <2>. QED  BY <2>2, <2>3, <2>4, <2>5 DEF WatchInv
<1>. QED
  BY <1>1, <1>2, <1>3, <1>4, <1>5, <1>6, <1>7, <1>8, <1>9, <1>10, <1>11 DEF ObserverNext

\* The commands of the observer, the main thread and the binder agree: a token belongs to the
\* prepare under way, what is live is known or about to be, and the events that were sent and
\* are kept are those that were recorded.
THEOREM ObserverIsConsistent == ObserverSpec => []WatchInv
<1>1. ObserverInit => WatchInv  BY ObserverStarts
<1>2. WatchInv /\ [ObserverNext]_observerVars => WatchInv'  BY ObserverSteps
<1>. QED  BY <1>1, <1>2, PTL DEF ObserverSpec

\* A clean disposition is true: nothing is live, and no prepare is at work.
LEMMA CleanIsClean ==
  ASSUME WatchInv
  PROVE  CleanMeansNone
<1>. SUFFICES ASSUME answer = "clean", asking = NotAsking
              PROVE  /\ \A i \in Instances : tap[i] # "live"
                     /\ running.kind # "prepare" \/ running.at \in Ended
  BY DEF CleanMeansNone, Ended
<1>1. Disposition(binder) = "clean"  BY DEF WatchInv, AnswerInv
<1>2. /\ binder.observer = 0 /\ binder.pending = 0 /\ binder.cleanup = {}
      /\ binder.outstanding = 0
  BY <1>1 DEF Disposition
<1>3. running.kind # "prepare" \/ running.at \in Ended  BY <1>2, UnfinishedCounts
<1>4. \A i \in Instances : i # 0  BY WatchHas
<1>. QED  BY <1>2, <1>3, <1>4 DEF WatchInv, LiveInv, Ended

\* What the runtime got and is to get is what was recorded.
LEMMA PushIsAll ==
  ASSUME WatchInv
  PROVE  PushIsWhole
<1>1. /\ unsent \in Seq(0..MaxRecorded) /\ sent \in Seq(0..MaxRecorded)
      /\ Len(unsent) \in Nat /\ Len(sent) \in Nat
  BY WatchHas
<1>2. \A k \in DOMAIN sent : sent[k] = k  BY <1>1 DEF WatchInv, StreamInv
<1>3. ASSUME binder.observer # 0, binder.observer = binder.accepting, ~gap, running.kind # "event"
      PROVE  sent \o unsent = [k \in 1..recorded[binder.observer] |-> k]
  <2>. DEFINE m == recorded[binder.observer]
              all == sent \o unsent
              upTo == [k \in 1..m |-> k]
  <2>1. /\ Len(sent) + Len(unsent) = m /\ m \in Nat /\ m <= MaxRecorded /\ MaxRecorded \in Nat
        /\ \A k \in 1..Len(sent) : sent[k] = k
        /\ \A j \in 1..Len(unsent) : unsent[j] = Len(sent) + j
    <3>1. running # [kind |-> "event", of |-> binder.accepting, at |-> "publish"]  BY <1>3
    <3>2. binder.observer \in Instances  BY <1>3, WatchHas DEF BinderRecord
    <3>3. m \in 0..MaxRecorded /\ MaxRecorded \in Nat  BY <3>2, WatchHas
    <3>. QED  BY <1>1, <1>3, <3>1, <3>3 DEF WatchInv, StreamInv, Accepted
  <2>. HIDE DEF m
  <2>2. /\ all \in Seq(0..MaxRecorded) /\ Len(all) = m
        /\ \A k \in 1..m : all[k] = IF k <= Len(sent) THEN sent[k] ELSE unsent[k - Len(sent)]
    BY <1>1, <2>1, ConcatProperties
  <2>3. upTo \in Seq(0..MaxRecorded) /\ Len(upTo) = m /\ \A k \in 1..m : upTo[k] = k
    BY <2>1
  <2>4. \A k \in 1..m : all[k] = k  BY <1>1, <2>1, <2>2
  <2>. HIDE DEF all, upTo
  <2>5. all = upTo  BY <2>2, <2>3, <2>4, SeqEqual
  <2>. QED  BY <2>5 DEF all, upTo, m
<1>. QED  BY <1>2, <1>3 DEF PushIsWhole

\* What is served as the history has no hole.
LEMMA SnapshotIsAll ==
  ASSUME WatchInv
  PROVE  SnapshotIsWhole
<1>. SUFFICES ASSUME SnapshotServed
     PROVE  /\ \A k \in DOMAIN history : history[k] = recorded[binder.observer] - Len(history) + k
            /\ baseline => Len(history) = recorded[binder.observer]
  BY DEF SnapshotIsWhole
<1>. DEFINE m == recorded[binder.observer]
<1>1. /\ binder.observer # 0 /\ binder.accepting = binder.observer /\ ~gap
      /\ IF history = <<>> THEN m = 0 ELSE Last(history) = m
  BY DEF SnapshotServed
<1>2. /\ history \in Seq(0..MaxRecorded) /\ Len(history) \in Nat
      /\ Accepted \in Nat /\ (history # <<>> => Len(history) > 0)
  BY WatchHas, EmptySeq DEF Accepted
<1>3. /\ Len(history) <= Accepted
      /\ \A k \in 1..Len(history) : history[k] = Accepted - Len(history) + k
      /\ baseline => Len(history) = Accepted
      /\ Accepted <= m
  <2>1. binder.observer \in Instances  BY <1>1, WatchHas DEF BinderRecord
  <2>2. m \in Nat  BY <2>1, WatchHas
  <2>. QED  BY <1>1, <1>2, <2>2 DEF WatchInv, StreamInv
<1>. HIDE DEF m
<1>4. Accepted = m
  <2>1. CASE history = <<>>
    BY <1>1, <1>2, <1>3, <2>1
  <2>2. CASE history # <<>>
    <3>1. Last(history) = history[Len(history)]  BY DEF Last
    <3>2. Len(history) \in 1..Len(history)  BY <1>2, <2>2
    <3>3. history[Len(history)] = Accepted - Len(history) + Len(history)  BY <1>3, <3>2
    <3>. QED  BY <1>1, <1>2, <2>2, <3>1, <3>3
  <2>. QED  BY <2>1, <2>2
<1>. QED  BY <1>2, <1>3, <1>4 DEF m

\* The helper's word about its observer is true in every state.
THEOREM ObserverTellsTheTruth == ObserverSpec => []ObserverIsTrue
<1>1. WatchInv => ObserverIsTrue
  BY CleanIsClean, PushIsAll, SnapshotIsAll DEF ObserverIsTrue
<1>. QED  BY <1>1, ObserverIsConsistent, PTL

-----------------------------------------------------------------------------
(* The observer's subscriptions.                                           *)

SubscriptionsSpec == SubscriptionsInit /\ [][SubscriptionsNext]_subscriptionVars

Subscription == [observer : 0..MaxSubscribes, birth : 0..MaxBirths]
Attempt == [pid : Pids, birth : 1..MaxBirths, windows : {{}}]

SubscriptionTypes ==
  /\ SubscriptionsTypeOK /\ made \in 0..MaxSubscribes
  /\ subscribing = NoAttempt \/ subscribing \in Attempt

\* The number of an AX observer is that of the attempt that made it; while an attempt is
\* under way nothing has its number.
NumbersInv ==
  LET last == IF subscribing = NoAttempt THEN made ELSE made - 1 IN
  /\ \A p \in Pids : subscribed[p].observer <= last
  /\ \A c \in callbacks : c.observer <= last
  /\ subscribing # NoAttempt => made > 0

\* An observer listens to one incarnation, and its callbacks come from that.
CallbacksInv ==
  /\ \A p \in Pids : subscribed[p].observer # 0 => subscribed[p].birth # 0
  /\ \A c \in callbacks : subscribed[c.pid].observer = c.observer => subscribed[c.pid].birth = c.birth

SubscriptionInv ==
  /\ SubscriptionTypes /\ NumbersInv /\ CallbacksInv
  /\ axWindowCount = Cardinality(ListenedTo(Pids))

\* There are finitely many windows to listen to.
LEMMA ListenedToIsFinite ==
  ASSUME NEW pids \in SUBSET Pids
  PROVE  /\ IsFiniteSet(ListenedTo(pids)) /\ Cardinality(ListenedTo(pids)) \in Nat
<1>1. IsFiniteSet(pids \X Windows)
  BY SubscriptionsAssumption, FS_Subset, FS_Product
<1> QED
  BY <1>1, FS_Subset, FS_CardinalityType DEF ListenedTo

\* Listening to one more window counts one more.
LEMMA OneMoreWindow ==
  ASSUME SubscriptionTypes, NEW p \in Pids, NEW w \in Windows, w \notin axWindows[p],
         axWindows' = [axWindows EXCEPT ![p] = @ \cup {w}]
  PROVE  /\ Cardinality(ListenedTo(Pids)') = Cardinality(ListenedTo(Pids)) + 1
         /\ axWindows' \in [Pids -> SUBSET Windows]
<1>1. axWindows \in [Pids -> SUBSET Windows]
  BY DEF SubscriptionTypes, SubscriptionsTypeOK
<1>2. ListenedTo(Pids)' = ListenedTo(Pids) \cup {<<p, w>>} /\ <<p, w>> \notin ListenedTo(Pids)
  BY <1>1 DEF ListenedTo
<1> QED
  BY <1>1, <1>2, ListenedToIsFinite, FS_AddElement

\* Letting some numbers go counts as many less as they have windows.
LEMMA FewerWindows ==
  ASSUME SubscriptionTypes, NEW gone \in SUBSET Pids,
         axWindows' = [p \in Pids |-> IF p \in gone THEN {} ELSE axWindows[p]]
  PROVE  /\ Cardinality(ListenedTo(gone)) <= Cardinality(ListenedTo(Pids))
         /\ Cardinality(ListenedTo(Pids)') = Cardinality(ListenedTo(Pids)) - Cardinality(ListenedTo(gone))
         /\ axWindows' \in [Pids -> SUBSET Windows]
<1>1. axWindows \in [Pids -> SUBSET Windows]
  BY DEF SubscriptionTypes, SubscriptionsTypeOK
<1>2. /\ ListenedTo(Pids)' = ListenedTo(Pids) \ ListenedTo(gone)
      /\ ListenedTo(gone) \subseteq ListenedTo(Pids)
  BY <1>1 DEF ListenedTo
<1>3. ListenedTo(Pids) \cap ListenedTo(gone) = ListenedTo(gone)
  BY <1>2
<1>4. Cardinality(ListenedTo(Pids)') = Cardinality(ListenedTo(Pids)) - Cardinality(ListenedTo(gone))
  BY <1>2, <1>3, ListenedToIsFinite, FS_Difference
<1>5. Cardinality(ListenedTo(gone)) <= Cardinality(ListenedTo(Pids))
  BY <1>2, ListenedToIsFinite, FS_Subset
<1> QED
  BY <1>1, <1>4, <1>5

\* What one number listens to.
LEMMA WindowsOfOne ==
  ASSUME SubscriptionTypes, NEW p \in Pids
  PROVE  Cardinality(ListenedTo({p})) = Cardinality(axWindows[p])
<1>1. axWindows[p] \subseteq Windows
  BY DEF SubscriptionTypes, SubscriptionsTypeOK
<1>2. ListenedTo({p}) = {p} \X axWindows[p]
  BY <1>1 DEF ListenedTo
<1>3. IsFiniteSet(axWindows[p]) /\ Cardinality(axWindows[p]) \in Nat
  BY <1>1, SubscriptionsAssumption, FS_Subset, FS_CardinalityType
<1>4. IsFiniteSet({p}) /\ Cardinality({p}) = 1
  BY FS_Singleton
<1>5. Cardinality({p} \X axWindows[p]) = 1 * Cardinality(axWindows[p])
  BY <1>3, <1>4, FS_Product
<1>6. \A n \in Nat : 1 * n = n
  OBVIOUS
<1> QED
  BY <1>2, <1>3, <1>5, <1>6

\* Numbers that are let go keep what is said of the others.
LEMMA RemovedKeeps ==
  ASSUME SubscriptionInv, NEW gone \in SUBSET Pids, Removed(gone)
  PROVE  /\ subscribed' \in [Pids -> Subscription] /\ axWindows' \in [Pids -> SUBSET Windows]
         /\ axWindowCount' \in Nat /\ axWindowCount' = Cardinality(ListenedTo(Pids)')
         /\ \A p \in Pids : subscribed'[p] \in {NoSubscription, subscribed[p]}
<1>1. subscribed \in [Pids -> Subscription] /\ NoSubscription \in Subscription
  BY SubscriptionsAssumption DEF SubscriptionInv, SubscriptionTypes, SubscriptionsTypeOK, Subscription, NoSubscription
<1>2. subscribed' = [p \in Pids |-> IF p \in gone THEN NoSubscription ELSE subscribed[p]]
  BY DEF Removed
<1>3. /\ Cardinality(ListenedTo(gone)) <= Cardinality(ListenedTo(Pids))
      /\ Cardinality(ListenedTo(Pids)') = Cardinality(ListenedTo(Pids)) - Cardinality(ListenedTo(gone))
      /\ axWindows' \in [Pids -> SUBSET Windows]
  BY FewerWindows DEF Removed, SubscriptionInv
<1>4. axWindowCount' = Cardinality(ListenedTo(Pids)') /\ axWindowCount' \in Nat
  BY <1>3, ListenedToIsFinite DEF Removed, SubscriptionInv
<1> QED
  BY <1>1, <1>2, <1>3, <1>4

\* What the types say of each variable.
LEMMA SubscriptionHas ==
  ASSUME SubscriptionInv
  PROVE  /\ alive \in [Pids -> 0..MaxBirths] /\ births \in [Pids -> 0..MaxBirths] /\ front \in Pids
         /\ subscribed \in [Pids -> Subscription]
         /\ axWindows \in [Pids -> SUBSET Windows] /\ axWindowCount \in Nat
         /\ callbacks \subseteq AnyCallback /\ exits \subseteq Pids \X (1..MaxBirths)
         /\ told.what \in {"none", "target", "global", "gap"}
         /\ made \in 0..MaxSubscribes /\ {MaxBirths, MaxSubscribes} \subseteq Nat
         /\ subscribing = NoAttempt \/ subscribing \in Attempt
BY SubscriptionsAssumption DEF SubscriptionInv, SubscriptionTypes, SubscriptionsTypeOK, Subscription

\* The world goes on: processes end and begin, and what is listened to calls.
LEMMA WorldKeepsSubscriptions ==
  ASSUME SubscriptionInv, World
  PROVE  SubscriptionInv'
<1> USE SubscriptionHas
<1>1. ASSUME NEW p \in Pids, ProcessEnds(p) PROVE SubscriptionInv'
  BY <1>1 DEF ProcessEnds, SubscriptionInv, SubscriptionTypes, SubscriptionsTypeOK, NumbersInv, CallbacksInv, ListenedTo
<1>2. ASSUME NEW p \in Pids, ProcessStarts(p) PROVE SubscriptionInv'
  BY <1>2 DEF ProcessStarts, SubscriptionInv, SubscriptionTypes, SubscriptionsTypeOK, NumbersInv, CallbacksInv, ListenedTo
<1>3. ASSUME NEW p \in Pids, ForegroundChanges(p) PROVE SubscriptionInv'
  BY <1>3 DEF ForegroundChanges, SubscriptionInv, SubscriptionTypes, SubscriptionsTypeOK, NumbersInv, CallbacksInv, ListenedTo
<1>4. ASSUME NEW p \in Pids, NEW kind \in {"focus", "moved", "created"}, NEW w \in Windows, Calls(p, kind, w)
      PROVE  SubscriptionInv'
  <2> DEFINE c == [pid |-> p, birth |-> alive[p], observer |-> subscribed[p].observer, kind |-> kind, window |-> w]
  <2>1. callbacks' = {c} /\ UNCHANGED <<worldVars, subscribed, axWindows, axWindowCount, subscribing, exits, told, made>>
    BY <1>4 DEF Calls
  <2>2. c \in AnyCallback
    <3>1. subscribed[p] \in Subscription /\ subscribed[p].observer # 0 /\ subscribed[p].birth # 0
      BY <1>4 DEF Calls, SubscriptionInv, CallbacksInv
    <3>2. alive[p] = subscribed[p].birth
      BY <1>4 DEF Calls
    <3> QED
      BY <3>1, <3>2 DEF AnyCallback, Subscription
  <2>3. c.pid = p /\ c.birth = subscribed[p].birth /\ c.observer = subscribed[p].observer
    BY <1>4 DEF Calls
  <2> HIDE DEF c
  <2>4. SubscriptionTypes' /\ axWindowCount' = Cardinality(ListenedTo(Pids)')
    BY <2>1, <2>2 DEF worldVars, SubscriptionInv, SubscriptionTypes, SubscriptionsTypeOK, ListenedTo
  <2>5. NumbersInv'
    BY <2>1, <2>3 DEF SubscriptionInv, NumbersInv
  <2>6. CallbacksInv'
    BY <2>1, <2>3 DEF SubscriptionInv, CallbacksInv
  <2> QED
    BY <2>4, <2>5, <2>6 DEF SubscriptionInv
<1> QED
  BY <1>1, <1>2, <1>3, <1>4 DEF World

\* Steps that leave the observers' numbers and the callbacks on their way, or let some go.
LEMMA NumbersKept ==
  ASSUME SubscriptionInv, callbacks' \subseteq callbacks, made' = made,
         subscribing' = subscribing \/ (subscribing' = NoAttempt /\ subscribing # NoAttempt),
         \A p \in Pids : subscribed'[p] \in {NoSubscription, subscribed[p]}
  PROVE  NumbersInv' /\ CallbacksInv'
<1>1. made \in Nat /\ \A p \in Pids : subscribed[p] \in Subscription
  BY SubscriptionHas
<1>2. \A c \in callbacks : c.observer \in 1..MaxSubscribes /\ c.pid \in Pids
  BY SubscriptionHas DEF AnyCallback
<1>3. NoSubscription.observer = 0 /\ NoSubscription.birth = 0
  BY DEF NoSubscription
<1> DEFINE last == IF subscribing = NoAttempt THEN made ELSE made - 1
           lastAfter == IF subscribing' = NoAttempt THEN made' ELSE made' - 1
<1>4. last \in Int /\ lastAfter \in Int /\ last <= lastAfter /\ (subscribing # NoAttempt => made > 0) /\ lastAfter >= 0
  BY <1>1 DEF SubscriptionInv, NumbersInv
<1>5. /\ \A p \in Pids : subscribed[p].observer <= last
      /\ \A c \in callbacks : c.observer <= last
  BY DEF SubscriptionInv, NumbersInv
<1>6. NumbersInv' <=>
        /\ \A p \in Pids : subscribed'[p].observer <= lastAfter
        /\ \A c \in callbacks' : c.observer <= lastAfter
        /\ subscribing' # NoAttempt => made' > 0
  BY DEF NumbersInv
<1> HIDE DEF last, lastAfter
<1>7. NumbersInv'
  <2>1. ASSUME NEW p \in Pids PROVE subscribed'[p].observer <= lastAfter
    BY <1>1, <1>3, <1>4, <1>5 DEF Subscription
  <2>2. ASSUME NEW c \in callbacks' PROVE c.observer <= lastAfter
    BY <1>2, <1>4, <1>5
  <2> QED
    BY <1>4, <1>6, <2>1, <2>2
<1>8. CallbacksInv'
  BY <1>2, <1>3 DEF SubscriptionInv, CallbacksInv
<1> QED
  BY <1>7, <1>8

\* Subscriptions that are no longer wanted are let go, and one attempt begins.
LEMMA RefreshKeeps ==
  ASSUME SubscriptionInv, Refresh
  PROVE  SubscriptionInv'
<1> DEFINE others == {p \in Pids : p # front /\ subscribed[p].observer # 0}
           known == subscribed[front].observer # 0 /\ subscribed[front].birth = alive[front]
           stale == {p \in {front} : ~known /\ alive[p] # 0}
<1>0. /\ Removed(others \cup stale) /\ others \cup stale \in SUBSET Pids
      /\ subscribing = NoAttempt /\ made < MaxSubscribes
      /\ UNCHANGED <<worldVars, callbacks, exits>>
      /\ told' = told \/ told'.what = "gap"
      /\ \/ UNCHANGED <<subscribing, made>>
         \/ alive[front] # 0 /\ made' = made + 1
            /\ subscribing' = [pid |-> front, birth |-> alive[front], windows |-> {}]
  BY SubscriptionHas DEF Refresh, Tells
<1> HIDE DEF others, stale
<1>1. /\ subscribed' \in [Pids -> Subscription] /\ axWindows' \in [Pids -> SUBSET Windows]
      /\ axWindowCount' \in Nat /\ axWindowCount' = Cardinality(ListenedTo(Pids)')
      /\ \A p \in Pids : subscribed'[p] \in {NoSubscription, subscribed[p]}
  BY <1>0, RemovedKeeps
<1>2. /\ made' \in 0..MaxSubscribes
      /\ subscribing' = NoAttempt \/ subscribing' \in Attempt
  <2>1. front \in Pids /\ alive[front] \in 0..MaxBirths /\ {MaxBirths, MaxSubscribes} \subseteq Nat
        /\ made \in 0..MaxSubscribes
    BY SubscriptionHas
  <2>2. CASE UNCHANGED <<subscribing, made>>
    BY <1>0, <2>1, <2>2
  <2>3. CASE alive[front] # 0 /\ made' = made + 1
             /\ subscribing' = [pid |-> front, birth |-> alive[front], windows |-> {}]
    BY <1>0, <2>1, <2>3 DEF Attempt
  <2> QED
    BY <1>0, <2>2, <2>3
<1>3. told'.what \in {"none", "target", "global", "gap"}
  BY <1>0, SubscriptionHas
<1>4. SubscriptionTypes'
  BY <1>0, <1>1, <1>2, <1>3, SubscriptionHas DEF SubscriptionTypes, SubscriptionsTypeOK, worldVars, Subscription
<1>5. NumbersInv' /\ CallbacksInv'
  <2>1. CASE UNCHANGED <<subscribing, made>>
    BY <1>0, <1>1, <2>1, NumbersKept
  <2>2. CASE alive[front] # 0 /\ made' = made + 1
             /\ subscribing' = [pid |-> front, birth |-> alive[front], windows |-> {}]
    <3>1. subscribing' # NoAttempt /\ made \in Nat
      BY <2>2, SubscriptionHas DEF NoAttempt
    <3>2. ASSUME NEW p \in Pids PROVE subscribed'[p].observer <= made' - 1
      <4>1. subscribed[p].observer <= made /\ NoSubscription.observer = 0
        BY <1>0 DEF SubscriptionInv, NumbersInv, NoSubscription
      <4> QED
        BY <1>1, <2>2, <3>1, <4>1
    <3>3. \A c \in callbacks' : c.observer <= made' - 1
      BY <1>0, <2>2, <3>1 DEF SubscriptionInv, NumbersInv
    <3>4. NumbersInv'
      BY <2>2, <3>1, <3>2, <3>3 DEF NumbersInv
    <3>5. CallbacksInv'
      <4>1. \A c \in callbacks : c.observer \in 1..MaxSubscribes /\ c.pid \in Pids
        BY SubscriptionHas DEF AnyCallback
      <4>2. NoSubscription.observer = 0 /\ NoSubscription.birth = 0
        BY DEF NoSubscription
      <4> QED
        BY <1>0, <1>1, <4>1, <4>2 DEF SubscriptionInv, CallbacksInv
    <3> QED
      BY <3>4, <3>5
  <2> QED
    BY <1>0, <2>1, <2>2
<1> QED
  BY <1>1, <1>4, <1>5 DEF SubscriptionInv

\* The attempt listens to a window, ends as a subscription, or is taken back.
LEMMA AttemptKeeps ==
  ASSUME SubscriptionInv, (\E w \in Windows : SubscribeWindow(w)) \/ SubscribeEnds \/ SubscribeFails
  PROVE  SubscriptionInv'
<1> DEFINE p == subscribing.pid
<1>0. subscribing # NoAttempt /\ subscribing \in Attempt /\ p \in Pids /\ subscribing.birth \in 1..MaxBirths
  BY SubscriptionHas DEF SubscribeWindow, SubscribeEnds, SubscribeFails, Attempt
<1> HIDE DEF p
<1>1. ASSUME NEW w \in Windows, SubscribeWindow(w) PROVE SubscriptionInv'
  <2>1. /\ axWindows' = [axWindows EXCEPT ![p] = @ \cup {w}] /\ w \notin axWindows[p]
        /\ axWindowCount' = axWindowCount + 1
        /\ UNCHANGED <<worldVars, subscribed, subscribing, callbacks, exits, told, made>>
    BY <1>1 DEF SubscribeWindow, p
  <2>2. /\ Cardinality(ListenedTo(Pids)') = Cardinality(ListenedTo(Pids)) + 1
        /\ axWindows' \in [Pids -> SUBSET Windows]
    BY <1>0, <2>1, OneMoreWindow DEF SubscriptionInv
  <2>3. NumbersInv' /\ CallbacksInv'
    BY <2>1, NumbersKept
  <2> QED
    BY <2>1, <2>2, <2>3, SubscriptionHas
    DEF SubscriptionInv, SubscriptionTypes, SubscriptionsTypeOK, worldVars
<1>2. CASE SubscribeEnds
  <2> DEFINE s == [observer |-> made, birth |-> subscribing.birth]
  <2>1. /\ subscribed' = [subscribed EXCEPT ![p] = s] /\ subscribing' = NoAttempt
        /\ UNCHANGED <<worldVars, axWindows, axWindowCount, callbacks, exits, told, made>>
    BY <1>2 DEF SubscribeEnds, p
  <2>2. s \in Subscription /\ s.observer = made /\ s.birth # 0 /\ made > 0
    BY <1>0, SubscriptionHas DEF Subscription, SubscriptionInv, NumbersInv
  <2> HIDE DEF s
  <2>3. subscribed' \in [Pids -> Subscription]
    BY <2>1, <2>2, SubscriptionHas
  <2>4. SubscriptionTypes' /\ axWindowCount' = Cardinality(ListenedTo(Pids)')
    BY <2>1, <2>3, SubscriptionHas
    DEF SubscriptionInv, SubscriptionTypes, SubscriptionsTypeOK, worldVars, ListenedTo, Subscription
  <2>5. /\ \A q \in Pids : subscribed[q].observer <= made - 1 /\ subscribed[q] \in Subscription
        /\ \A c \in callbacks : c.observer <= made - 1 /\ c.observer \in Nat
    BY <1>0, SubscriptionHas DEF SubscriptionInv, NumbersInv, AnyCallback
  <2>6. NumbersInv'
    <3>1. ASSUME NEW q \in Pids PROVE subscribed'[q].observer <= made
      BY <1>0, <2>1, <2>2, <2>5, SubscriptionHas DEF Subscription
    <3> QED
      BY <2>1, <2>5, <3>1, SubscriptionHas DEF NumbersInv
  <2>7. CallbacksInv'
    <3>1. ASSUME NEW q \in Pids PROVE subscribed'[q].observer # 0 => subscribed'[q].birth # 0
      BY <2>1, <2>2, SubscriptionHas DEF SubscriptionInv, CallbacksInv
    <3>2. ASSUME NEW c \in callbacks', subscribed'[c.pid].observer = c.observer
          PROVE  subscribed'[c.pid].birth = c.birth
      <4>1. c \in callbacks /\ c.observer <= made - 1 /\ c.observer \in Nat /\ c.pid \in Pids
        BY <2>1, <2>5, SubscriptionHas DEF AnyCallback
      <4>2. c.pid # p
        BY <2>1, <2>2, <3>2, <4>1, SubscriptionHas
      <4> QED
        BY <2>1, <3>2, <4>1, <4>2, SubscriptionHas DEF SubscriptionInv, CallbacksInv
    <3> QED
      BY <3>1, <3>2 DEF CallbacksInv
  <2> QED
    BY <2>4, <2>6, <2>7 DEF SubscriptionInv
<1>3. CASE SubscribeFails
  <2>1. /\ axWindows' = [axWindows EXCEPT ![p] = {}] /\ subscribing' = NoAttempt
        /\ axWindowCount' = IF Cardinality(axWindows[p]) > axWindowCount THEN 0
                            ELSE axWindowCount - Cardinality(axWindows[p])
        /\ told'.what = "gap" /\ UNCHANGED <<worldVars, subscribed, callbacks, exits, made>>
    BY <1>3 DEF SubscribeFails, Tells, p
  <2>2. axWindows' = [q \in Pids |-> IF q \in {p} THEN {} ELSE axWindows[q]]
    BY <2>1, SubscriptionHas
  <2>3. /\ Cardinality(ListenedTo({p})) <= Cardinality(ListenedTo(Pids))
        /\ Cardinality(ListenedTo(Pids)') = Cardinality(ListenedTo(Pids)) - Cardinality(ListenedTo({p}))
        /\ axWindows' \in [Pids -> SUBSET Windows]
    BY <1>0, <2>2, FewerWindows DEF SubscriptionInv
  <2>4. Cardinality(ListenedTo({p})) = Cardinality(axWindows[p])
    BY <1>0, WindowsOfOne DEF SubscriptionInv
  <2>5. axWindowCount' = Cardinality(ListenedTo(Pids)') /\ axWindowCount' \in Nat
    BY <1>0, <2>1, <2>3, <2>4, ListenedToIsFinite DEF SubscriptionInv
  <2>6. NumbersInv' /\ CallbacksInv'
    BY <1>0, <2>1, NumbersKept
  <2> QED
    BY <2>1, <2>3, <2>5, <2>6, SubscriptionHas
    DEF SubscriptionInv, SubscriptionTypes, SubscriptionsTypeOK, worldVars, Subscription
<1> QED
  BY <1>1, <1>2, <1>3

\* A callback is handled: an event of its target is that of the incarnation that has the
\* number.
LEMMA CallbackKeeps ==
  ASSUME SubscriptionInv, NEW c \in callbacks, NEW resolved \in BOOLEAN, HandleAXElement(c, resolved)
  PROVE  /\ SubscriptionInv'
         /\ told' # told /\ told'.what = "target" => told'.birth = alive[told'.pid]
<1>0. /\ callbacks' = callbacks \ {c} /\ subscribing = NoAttempt
      /\ UNCHANGED <<worldVars, subscribed, subscribing, exits, made>>
      /\ told' \in {[what |-> "target", pid |-> c.pid, birth |-> c.birth],
                    [what |-> "global", pid |-> "none", birth |-> 0],
                    [what |-> "gap", pid |-> "none", birth |-> 0]}
      /\ told'.what = "target" => FromSubscription(c)
      /\ \/ UNCHANGED <<axWindows, axWindowCount>>
         \/ /\ c.window \notin axWindows[c.pid] /\ axWindowCount' = axWindowCount + 1
            /\ axWindows' = [axWindows EXCEPT ![c.pid] = @ \cup {c.window}]
  BY DEF HandleAXElement, Widens, Tells, TellsOf
<1>1. c.pid \in Pids /\ c.window \in Windows /\ c \in AnyCallback
  BY SubscriptionHas DEF AnyCallback
<1>2. /\ axWindows' \in [Pids -> SUBSET Windows]
      /\ axWindowCount' \in Nat /\ axWindowCount' = Cardinality(ListenedTo(Pids)')
  <2>1. CASE UNCHANGED <<axWindows, axWindowCount>>
    BY <2>1, SubscriptionHas DEF SubscriptionInv, ListenedTo
  <2>2. CASE /\ c.window \notin axWindows[c.pid] /\ axWindowCount' = axWindowCount + 1
             /\ axWindows' = [axWindows EXCEPT ![c.pid] = @ \cup {c.window}]
    <3>1. /\ Cardinality(ListenedTo(Pids)') = Cardinality(ListenedTo(Pids)) + 1
          /\ axWindows' \in [Pids -> SUBSET Windows]
      BY <1>1, <2>2, OneMoreWindow DEF SubscriptionInv
    <3> QED
      BY <2>2, <3>1, SubscriptionHas DEF SubscriptionInv
  <2> QED
    BY <1>0, <2>1, <2>2
<1>3. NumbersInv' /\ CallbacksInv'
  BY <1>0, NumbersKept
<1>4. SubscriptionInv'
  BY <1>0, <1>2, <1>3, SubscriptionHas
  DEF SubscriptionInv, SubscriptionTypes, SubscriptionsTypeOK, worldVars, Subscription
<1>5. ASSUME told'.what = "target" PROVE told'.birth = alive[told'.pid]
  <2>1. told'.pid = c.pid /\ told'.birth = c.birth
    BY <1>0, <1>5
  <2>2. subscribed[c.pid].birth = c.birth /\ subscribed[c.pid].birth = alive[c.pid]
    BY <1>0, <1>5 DEF FromSubscription, SubscriptionInv, CallbacksInv
  <2> QED
    BY <2>1, <2>2
<1> QED
  BY <1>4, <1>5

\* A process is reported ended.
LEMMA TerminatedKeeps ==
  ASSUME SubscriptionInv, NEW p, NEW b, HandleTerminated(p, b)
  PROVE  SubscriptionInv' /\ (told' # told => told'.what # "target")
<1>0. /\ p \in Pids /\ {p} \in SUBSET Pids /\ exits' \subseteq exits
      /\ told' = told \/ told'.what \in {"gap", "global"}
      /\ UNCHANGED <<worldVars, subscribing, callbacks, made>>
      /\ UNCHANGED <<subscribed, axWindows, axWindowCount>> \/ Removed({p})
  BY SubscriptionHas DEF HandleTerminated, Tells
<1>1. /\ subscribed' \in [Pids -> Subscription] /\ axWindows' \in [Pids -> SUBSET Windows]
      /\ axWindowCount' \in Nat /\ axWindowCount' = Cardinality(ListenedTo(Pids)')
      /\ \A q \in Pids : subscribed'[q] \in {NoSubscription, subscribed[q]}
  <2>1. CASE UNCHANGED <<subscribed, axWindows, axWindowCount>>
    BY <2>1, SubscriptionHas DEF SubscriptionInv, ListenedTo
  <2>2. CASE Removed({p})
    BY <1>0, <2>2, RemovedKeeps
  <2> QED
    BY <1>0, <2>1, <2>2
<1>2. NumbersInv' /\ CallbacksInv'
  BY <1>0, <1>1, NumbersKept
<1> QED
  BY <1>0, <1>1, <1>2, SubscriptionHas
  DEF SubscriptionInv, SubscriptionTypes, SubscriptionsTypeOK, worldVars, Subscription

\* Nothing is listened to at first.
LEMMA SubscriptionsStart == SubscriptionsInit => SubscriptionInv
<1> SUFFICES ASSUME SubscriptionsInit PROVE SubscriptionInv
  OBVIOUS
<1>1. ListenedTo(Pids) = {}
  BY DEF SubscriptionsInit, ListenedTo
<1>2. axWindowCount = Cardinality(ListenedTo(Pids))
  BY <1>1, FS_EmptySet DEF SubscriptionsInit
<1>3. SubscriptionTypes
  BY SubscriptionsAssumption DEF SubscriptionsInit, SubscriptionTypes, SubscriptionsTypeOK, NoSubscription, Nothing
<1>4. NumbersInv /\ CallbacksInv
  BY DEF SubscriptionsInit, NumbersInv, CallbacksInv, NoSubscription
<1> QED
  BY <1>2, <1>3, <1>4 DEF SubscriptionInv

\* No step breaks it, and none tells a target of another incarnation.
LEMMA SubscriptionsStep ==
  ASSUME SubscriptionInv, [SubscriptionsNext]_subscriptionVars
  PROVE  /\ SubscriptionInv'
         /\ told' # told /\ told'.what = "target" => told'.birth = alive[told'.pid]
<1>1. CASE World
  BY <1>1, WorldKeepsSubscriptions DEF World, ProcessEnds, ProcessStarts, ForegroundChanges, Calls
<1>2. CASE Refresh
  BY <1>2, RefreshKeeps DEF Refresh, Tells
<1>3. CASE (\E w \in Windows : SubscribeWindow(w)) \/ SubscribeEnds \/ SubscribeFails
  BY <1>3, AttemptKeeps DEF SubscribeWindow, SubscribeEnds, SubscribeFails, Tells
<1>4. CASE \E c \in callbacks, resolved \in BOOLEAN : HandleAXElement(c, resolved)
  BY <1>4, CallbackKeeps
<1>5. CASE \E e \in exits : HandleTerminated(e[1], e[2])
  BY <1>5, TerminatedKeeps
<1>6. CASE UNCHANGED subscriptionVars
  BY <1>6 DEF subscriptionVars, SubscriptionInv, SubscriptionTypes, SubscriptionsTypeOK, NumbersInv,
              CallbacksInv, ListenedTo
<1> QED
  BY <1>1, <1>2, <1>3, <1>4, <1>5, <1>6 DEF SubscriptionsNext

\* The numbers of observers, the count of windows and what callbacks name agree.
THEOREM SubscriptionsAreConsistent == SubscriptionsSpec => []SubscriptionInv
<1>1. SubscriptionInv /\ [SubscriptionsNext]_subscriptionVars => SubscriptionInv'
  BY SubscriptionsStep
<1> QED
  BY <1>1, SubscriptionsStart, PTL DEF SubscriptionsSpec

\* The count of windows is that of the windows listened to, and an event that names a
\* target comes from the incarnation that has the number.
THEOREM SubscriptionsAreTrue == SubscriptionsSpec => [][SubscriptionsStayTrue]_subscriptionVars
<1>1. SubscriptionInv /\ [SubscriptionsNext]_subscriptionVars => [SubscriptionsStayTrue]_subscriptionVars
  <2> SUFFICES ASSUME SubscriptionInv, [SubscriptionsNext]_subscriptionVars PROVE SubscriptionsStayTrue
    OBVIOUS
  <2>1. SubscriptionInv' /\ (told' # told /\ told'.what = "target" => told'.birth = alive[told'.pid])
    BY SubscriptionsStep
  <2>2. told' # told /\ told'.what = "target" => told'.birth = alive[told'.pid]
    BY <2>1
  <2> QED
    BY <2>1, <2>2 DEF SubscriptionsStayTrue, SubscriptionInv
<1> QED
  BY <1>1, SubscriptionsAreConsistent, PTL DEF SubscriptionsSpec

-----------------------------------------------------------------------------
(* The inventory.                                                          *)

Handed == scan.phase \in {"scanned", "collected"}   \* the scan has come to the registry

\* What Accessibility lists belongs to the process there is.
ListedInv ==
  /\ born \in 1..Incarnations /\ process \in {0, born}
  /\ listed \subseteq Elements \ Sheets /\ attached \subseteq SheetPairs
  /\ \A e \in listed : LaunchOf[e] = process
  /\ \A pair \in attached : LaunchOf[pair[2]] = process

CountsInv ==
  /\ displays \in Nat \ {0} /\ untold \in Nat /\ changes \in Nat
  /\ displayEpoch \in 1..LastEpoch /\ topologyReady \in BOOLEAN
  /\ inventoryRevision \in Nat /\ refreshNumber \in 0..MaxRefreshes
  /\ inventoryRevision <= refreshNumber
  /\ scan.phase # "idle" => inventoryRevision < refreshNumber

HandlesInv ==
  /\ nextToken \in Nat \ {0} /\ handles \in [Elements -> 0..nextToken]
  /\ Cardinality(Held(handles)) <= HandleLimit

\* What was read is held and belongs to the incarnation that was asked; only a sheet is known
\* as a sheet, and no sheet as a window; an answer in full has every window that was listed.
ReadInv ==
  /\ scan.phase \in {"idle", "asking", "scanned", "collected"}
  /\ Handed =>
       /\ scan.present \in BOOLEAN /\ scan.complete \in BOOLEAN /\ scan.launch \in 0..born
       /\ scan.status \in Certain \cup {"FAILED"}
       /\ scan.read \subseteq Elements /\ scan.looked \subseteq Elements
       /\ \A e \in scan.read : handles[e] # 0 /\ LaunchOf[e] = scan.launch
       /\ \A w \in scan.read \ Sheets : scan.kind[w] \in {"window", "unknown"}
       /\ \A e \in scan.read : scan.kind[e] = "window" => e \notin Sheets
       /\ scan.status \in Certain => scan.looked \ Sheets \subseteq scan.read
  /\ scan.phase = "collected" => scan.epoch \in 1..LastEpoch /\ scan.displays \in Nat

\* A window that has a name and may be read again is known by its handle, under that name;
\* a name was borne by one window only.
MayBeRead(e) == LaunchOf[e] = process \/ (Handed /\ e \in scan.read)
NamesInv ==
  /\ nextSerial \in Nat \ {0} /\ nextSerial <= inventoryRevision * Cardinality(Elements) + 1
  /\ named \in [Elements -> Nat]
  /\ bearer \in [1..MaxSerial -> Elements \cup {"none"}]
  /\ \A n \in 1..MaxSerial : n >= nextSerial => bearer[n] = "none"
  /\ identities \in [Elements -> [token : 0..nextToken, serial : 0..nextSerial, seen : 0..inventoryRevision]]
  /\ \A e \in Elements :
       /\ identities[e].token # 0 =>
            /\ identities[e].serial \in 1..MaxSerial /\ identities[e].serial < nextSerial
            /\ bearer[identities[e].serial] = e
       /\ named[e] # 0 => LaunchOf[e] <= born
       /\ named[e] # 0 /\ MayBeRead(e) =>
            /\ identities[e].seen = inventoryRevision /\ identities[e].serial = named[e]
            /\ identities[e].token = handles[e] /\ handles[e] # 0

PublishedInv ==
  /\ inventory.windows \subseteq Elements /\ inventory.revision = inventoryRevision
  /\ \A e \in inventory.windows :
       /\ inventory.serial[e] \in 1..MaxSerial /\ inventory.serial[e] = named[e]
       /\ bearer[inventory.serial[e]] = e
       /\ LaunchOf[e] <= born /\ inventory.token[e] # 0
       /\ LaunchOf[e] = process => handles[e] = inventory.token[e]
       /\ inventory.kind[e] = "window" => e \notin Sheets
  /\ MatchesAreExclusive /\ SheetsHaveOwners

LayoutsInv ==
  /\ layouts \in [1..MaxRefreshes -> Nat \X Nat]
  /\ inventory.layout \in 0..inventoryRevision
  /\ inventory.epoch \in Nat /\ inventory.displays \in Nat
  /\ inventory.layout = 0 => inventory.epoch = 0
  /\ inventory.layout # 0 =>
       inventory.epoch # 0 /\ layouts[inventory.layout] = <<inventory.epoch, inventory.displays>>
  /\ \A n \in 1..MaxRefreshes : n > inventory.layout => layouts[n] = <<0, 0>>

ClosingInv ==
  /\ closing = NoClose \/
       /\ closing.element \in inventory.windows \ Sheets
       /\ closing.serial = inventory.serial[closing.element]
  /\ verdict.element \in Elements \cup {"none"} /\ ClosedIsGone

RegistryInv ==
  /\ ListedInv /\ CountsInv /\ HandlesInv /\ ReadInv /\ NamesInv /\ PublishedInv /\ LayoutsInv
  /\ ClosingInv
-----------------------------------------------------------------------------
(* The inventory: its state.                                               *)

\* The order of a finite set numbers its members, each with a number of its own.
LEMMA NumberingIs ==
  ASSUME NEW S, IsFiniteSet(S)
  PROVE  /\ Cardinality(S) \in Nat /\ Numbering(S) \in [S -> 1..Cardinality(S)]
         /\ \A a, b \in S : Numbering(S)[a] = Numbering(S)[b] => a = b
         /\ \A n \in 1..Cardinality(S) : \E a \in S : Numbering(S)[a] = n
<1>1. Cardinality(S) \in Nat /\ ExistsBijection(1..Cardinality(S), S)  BY FS_CardinalityType
<1>2. ExistsBijection(S, 1..Cardinality(S))  BY <1>1, Fun_ExistsBijSymmetric
<1>3. Bijection(S, 1..Cardinality(S)) # {}  BY <1>2, Fun_ExistsBij
<1>4. Numbering(S) \in Bijection(S, 1..Cardinality(S))  BY <1>3 DEF Numbering
<1>. DEFINE numbers == 1..Cardinality(S)
            order == Numbering(S)
<1>. HIDE DEF numbers, order
<1>5. /\ order \in [S -> numbers] /\ \A a, b \in S : order[a] = order[b] => a = b
      /\ \A n \in numbers : \E a \in S : order[a] = n
  <2>1. order \in Bijection(S, numbers)  BY <1>4 DEF numbers, order
  <2>. QED  BY <2>1, Fun_BijectionProperties
<1>. QED  BY <1>1, <1>5 DEF numbers, order

\* As many get a number up to a limit as there are members, or as the limit allows.
LEMMA FirstOnes ==
  ASSUME NEW S, IsFiniteSet(S), NEW room \in Nat
  PROVE  LET lowest == {e \in S : Numbering(S)[e] <= room} IN
         /\ IsFiniteSet(lowest) /\ Cardinality(lowest) \in Nat /\ Cardinality(lowest) <= room
         /\ \A e \in lowest : Numbering(S)[e] \in 1..Cardinality(lowest)
<1>. DEFINE order == Numbering(S)
            m == IF Cardinality(S) <= room THEN Cardinality(S) ELSE room
            lowest == {e \in S : order[e] <= room}
<1>1. /\ Cardinality(S) \in Nat /\ order \in [S -> 1..Cardinality(S)]
      /\ \A a, b \in S : order[a] = order[b] => a = b
      /\ \A n \in 1..Cardinality(S) : \E a \in S : order[a] = n
  BY NumberingIs
<1>2. m \in Nat /\ m <= room /\ m <= Cardinality(S)  BY <1>1
<1>. HIDE DEF order
<1>3. \A e \in lowest : order[e] \in 1..m  BY <1>1
<1>4. \A n \in 1..m : \E e \in lowest : order[e] = n
  <2>. SUFFICES ASSUME NEW n \in 1..m  PROVE \E e \in lowest : order[e] = n
    OBVIOUS
  <2>1. n \in 1..Cardinality(S) /\ n <= room  BY <1>1, <1>2
  <2>. QED  BY <1>1, <2>1
<1>. DEFINE f == [e \in lowest |-> order[e]]
<1>5. f \in Bijection(lowest, 1..m)
  <2>1. f \in [lowest -> 1..m] /\ \A a, b \in lowest : f[a] = f[b] => a = b  BY <1>1, <1>3
  <2>2. \A n \in 1..m : \E e \in lowest : f[e] = n  BY <1>4
  <2>. HIDE DEF f, m, lowest
  <2>. QED  BY <2>1, <2>2, Fun_IsBij
<1>6. IsFiniteSet(lowest)
  <2>1. lowest \in SUBSET S  OBVIOUS
  <2>. QED  BY <2>1, FS_Subset
<1>7. Cardinality(lowest) = m
  <2>. HIDE DEF f, m, lowest
  <2>1. ExistsBijection(lowest, 1..m)  BY <1>5, Fun_ExistsBij
  <2>2. Cardinality(1..m) = Cardinality(lowest)  BY <1>6, <2>1, FS_Bijection
  <2>3. Cardinality(1..m) = m
    <3>1. 1 \in Int /\ m \in Int  BY <1>2
    <3>2. Cardinality(1..m) = IF 1 > m THEN 0 ELSE m - 1 + 1  BY <3>1, FS_Interval
    <3>. QED  BY <1>2, <3>2
  <2>. QED  BY <2>2, <2>3
<1>. QED  BY <1>2, <1>3, <1>6, <1>7 DEF order

\* What is assumed of the constants.
LEMMA InventoryHas ==
  /\ IsFiniteSet(Elements) /\ "none" \notin Elements
  /\ "ambiguous" \notin CGWindows /\ "unavailable" \notin CGWindows
  /\ Sheets \subseteq Elements /\ SheetPairs \subseteq Sheets \X (Elements \ Sheets)
  /\ LaunchOf \in [Elements -> 1..Incarnations]
  /\ \A pair \in SheetPairs : LaunchOf[pair[1]] = LaunchOf[pair[2]]
  /\ HandleLimit \in Nat /\ MaxRefreshes \in Nat /\ MaxChanges \in Nat
  /\ Incarnations \in Nat \ {0} /\ LastEpoch \in Nat \ {0}
  /\ Cardinality(Elements) \in Nat /\ MaxSerial \in Nat
<1>1. /\ HandleLimit \in Nat /\ MaxRefreshes \in Nat /\ MaxChanges \in Nat
      /\ Incarnations \in Nat \ {0} /\ LastEpoch \in Nat \ {0}
  BY RegistryAssumption
<1>2. /\ IsFiniteSet(Elements) /\ "none" \notin Elements
      /\ "ambiguous" \notin CGWindows /\ "unavailable" \notin CGWindows
  BY RegistryAssumption
<1>3. /\ Sheets \subseteq Elements /\ SheetPairs \subseteq Sheets \X (Elements \ Sheets)
      /\ LaunchOf \in [Elements -> 1..Incarnations]
      /\ \A pair \in SheetPairs : LaunchOf[pair[1]] = LaunchOf[pair[2]]
  BY RegistryAssumption
<1>4. Cardinality(Elements) \in Nat  BY <1>2, FS_CardinalityType
<1>5. MaxSerial \in Nat  BY <1>1, <1>4 DEF MaxSerial
<1>. QED  BY <1>1, <1>2, <1>3, <1>4, <1>5

\* Init establishes the invariant.
LEMMA RegistryStarts == RegistryInit => RegistryInv
<1>. SUFFICES ASSUME RegistryInit  PROVE RegistryInv
  OBVIOUS
<1>1. ListedInv /\ CountsInv /\ ReadInv
  BY InventoryHas DEF RegistryInit, ListedInv, CountsInv, ReadInv, Handed, NoScan
<1>2. HandlesInv
  <2>1. Held(handles) = {}  BY DEF RegistryInit, Held
  <2>2. Cardinality(Held(handles)) = 0  BY <2>1, FS_EmptySet
  <2>. QED  BY <2>2, InventoryHas DEF RegistryInit, HandlesInv
<1>3. NamesInv
  <2>1. 0 * Cardinality(Elements) + 1 = 1  BY InventoryHas
  <2>2. identities \in [Elements -> [token : 0..nextToken, serial : 0..nextSerial, seen : 0..inventoryRevision]]
    BY DEF RegistryInit, NoIdentity
  <2>. QED  BY <2>1, <2>2, InventoryHas DEF RegistryInit, NamesInv, NoIdentity
<1>4. PublishedInv
  BY DEF RegistryInit, EmptyInventory, PublishedInv, MatchesAreExclusive, SheetsHaveOwners
<1>5. LayoutsInv  BY DEF RegistryInit, EmptyInventory, LayoutsInv
<1>6. ClosingInv
  <2>1. ~verdict.listed  BY DEF RegistryInit, Unanswered
  <2>. QED  BY <2>1 DEF RegistryInit, NoClose, Unanswered, ClosingInv, ClosedIsGone
<1>. QED  BY <1>1, <1>2, <1>3, <1>4, <1>5, <1>6 DEF RegistryInv

\* Windows come and go while the application is being asked.
LEMMA RegWindowsChange ==
  ASSUME RegistryInv,
         \/ \E e \in Elements : Changes(WindowChanges(e))
         \/ \E pair \in SheetPairs : Changes(SheetChanges(pair))
  PROVE  RegistryInv'
<1>1. /\ UNCHANGED <<process, born, displays, untold, handles, nextToken, refreshNumber, displayEpoch,
                     topologyReady, scan, identities, inventoryRevision, nextSerial, inventory,
                     closing, verdict, named, bearer, layouts>>
      /\ changes' = changes + 1
  BY DEF Changes, WindowChanges, SheetChanges, handleVars, recordVars, historyVars
<1>2. ListedInv'
  <2>1. CASE \E e \in Elements : Changes(WindowChanges(e))
    BY <1>1, <2>1 DEF Changes, WindowChanges, RegistryInv, ListedInv
  <2>2. CASE \E pair \in SheetPairs : Changes(SheetChanges(pair))
    BY <1>1, <2>2 DEF Changes, SheetChanges, RegistryInv, ListedInv
  <2>. QED  BY <2>1, <2>2
<1>3. CountsInv'  BY <1>1 DEF RegistryInv, CountsInv
<1>4. HandlesInv' /\ ReadInv'
  BY <1>1 DEF RegistryInv, HandlesInv, Held, ReadInv, Handed
<1>5. NamesInv'  BY <1>1 DEF RegistryInv, NamesInv, MayBeRead, Handed
<1>6. PublishedInv' /\ LayoutsInv' /\ ClosingInv'
  BY <1>1 DEF RegistryInv, PublishedInv, MatchesAreExclusive, SheetsHaveOwners, LayoutsInv, ClosingInv,
              ClosedIsGone
<1>. QED  BY <1>2, <1>3, <1>4, <1>5, <1>6 DEF RegistryInv

\* A process that takes the number over has no window that was ever read.
LEMMA RegProcessChanges ==
  ASSUME RegistryInv, Changes(ProcessChanges)
  PROVE  RegistryInv'
<1>1. /\ UNCHANGED <<displays, untold, handles, nextToken, refreshNumber, displayEpoch,
                     topologyReady, scan, identities, inventoryRevision, nextSerial, inventory,
                     closing, verdict, named, bearer, layouts>>
      /\ changes' = changes + 1 /\ listed' = {} /\ attached' = {}
      /\ \/ process' = 0 /\ born' = born
         \/ process' = born + 1 /\ born' = born + 1 /\ born < Incarnations
  BY DEF Changes, ProcessChanges, handleVars, recordVars, historyVars
<1>2. /\ born \in 1..Incarnations /\ Incarnations \in Nat /\ born' \in 1..Incarnations
      /\ born <= born' /\ process' \in {0, born'}
      /\ \A e \in Elements : LaunchOf[e] \in Nat \ {0} /\ (LaunchOf[e] <= born => LaunchOf[e] # process')
  BY <1>1, InventoryHas DEF RegistryInv, ListedInv
<1>3. ListedInv'  BY <1>1, <1>2 DEF ListedInv
<1>4. CountsInv'  BY <1>1 DEF RegistryInv, CountsInv
<1>5. HandlesInv'  BY <1>1 DEF RegistryInv, HandlesInv, Held
<1>6. ReadInv'
  BY <1>1, <1>2 DEF RegistryInv, ReadInv, Handed
<1>7. NamesInv'
  <2>1. \A e \in Elements : named[e] # 0 =>
          LaunchOf[e] <= born' /\ (MayBeRead(e)' => MayBeRead(e))
    BY <1>1, <1>2 DEF RegistryInv, NamesInv, MayBeRead, Handed
  <2>. QED  BY <1>1, <2>1 DEF RegistryInv, NamesInv
<1>8. PublishedInv'
  <2>1. \A e \in inventory.windows : LaunchOf[e] <= born' /\ LaunchOf[e] # process'
    BY <1>1, <1>2 DEF RegistryInv, PublishedInv
  <2>. QED
    BY <1>1, <2>1 DEF RegistryInv, PublishedInv, MatchesAreExclusive, SheetsHaveOwners
<1>9. LayoutsInv' /\ ClosingInv'  BY <1>1 DEF RegistryInv, LayoutsInv, ClosingInv, ClosedIsGone
<1>. QED  BY <1>3, <1>4, <1>5, <1>6, <1>7, <1>8, <1>9 DEF RegistryInv

\* Displays change, and the callback that tells of it comes later.
LEMMA RegDisplaysChange ==
  ASSUME RegistryInv, Changes(DisplaysChange) \/ DisplayTopologyChanged
  PROVE  RegistryInv'
<1>1. UNCHANGED <<process, born, listed, attached, handles, nextToken, refreshNumber, scan,
                  identities, inventoryRevision, nextSerial, inventory,
                  closing, verdict, named, bearer, layouts>>
  BY DEF Changes, DisplaysChange, DisplayTopologyChanged, handleVars, recordVars, historyVars
<1>2. CountsInv'
  <2>1. CASE Changes(DisplaysChange)
    BY <1>1, <2>1 DEF Changes, DisplaysChange, RegistryInv, CountsInv
  <2>2. CASE DisplayTopologyChanged
    <3>1. displayEpoch' \in 1..LastEpoch /\ topologyReady' \in BOOLEAN /\ untold' \in Nat
      BY <2>2, InventoryHas DEF DisplayTopologyChanged, RegistryInv, CountsInv
    <3>2. UNCHANGED <<displays, changes>>  BY <2>2 DEF DisplayTopologyChanged
    <3>. QED  BY <1>1, <3>1, <3>2 DEF RegistryInv, CountsInv
  <2>. QED  BY <2>1, <2>2
<1>3. ListedInv'  BY <1>1 DEF RegistryInv, ListedInv
<1>4. HandlesInv' /\ ReadInv'
  BY <1>1 DEF RegistryInv, HandlesInv, Held, ReadInv, Handed
<1>5. NamesInv'  BY <1>1 DEF RegistryInv, NamesInv, MayBeRead, Handed
<1>6. PublishedInv' /\ LayoutsInv' /\ ClosingInv'
  BY <1>1 DEF RegistryInv, PublishedInv, MatchesAreExclusive, SheetsHaveOwners, LayoutsInv, ClosingInv,
              ClosedIsGone
<1>. QED  BY <1>2, <1>3, <1>4, <1>5, <1>6 DEF RegistryInv

\* A refresh begins: nothing is read yet.
LEMMA RegBegins ==
  ASSUME RegistryInv, BeginsRefresh, verdict' = Unanswered, listed' \subseteq listed,
         \/ closing' = closing
         \/ closing'.element \in inventory.windows \ Sheets
            /\ closing'.serial = inventory.serial[closing'.element],
         UNCHANGED <<process, born, attached, displays, untold, changes, handleVars, displayEpoch,
                     topologyReady, recordVars, historyVars>>
  PROVE  RegistryInv'
<1>1. /\ UNCHANGED <<process, born, attached, displays, untold, changes, handles, nextToken,
                     displayEpoch, topologyReady, identities, inventoryRevision, nextSerial,
                     inventory, named, bearer, layouts>>
      /\ scan'.phase = "asking" /\ refreshNumber' = refreshNumber + 1
      /\ refreshNumber < MaxRefreshes
  BY DEF BeginsRefresh, handleVars, recordVars, historyVars
<1>2. ListedInv'  BY <1>1 DEF RegistryInv, ListedInv
<1>3. CountsInv'
  <2>1. /\ refreshNumber' \in 0..MaxRefreshes /\ inventoryRevision < refreshNumber'
        /\ inventoryRevision <= refreshNumber'
    BY <1>1, InventoryHas DEF RegistryInv, CountsInv
  <2>. QED  BY <1>1, <2>1 DEF RegistryInv, CountsInv
<1>4. HandlesInv' /\ ReadInv'
  BY <1>1 DEF RegistryInv, HandlesInv, Held, ReadInv, Handed
<1>5. NamesInv'
  <2>1. \A e \in Elements : MayBeRead(e)' => MayBeRead(e)  BY <1>1 DEF MayBeRead, Handed
  <2>. QED  BY <1>1, <2>1 DEF RegistryInv, NamesInv
<1>6. PublishedInv' /\ LayoutsInv'
  BY <1>1 DEF RegistryInv, PublishedInv, MatchesAreExclusive, SheetsHaveOwners, LayoutsInv
<1>7. ClosingInv'
  <2>1. ~verdict'.listed  BY DEF Unanswered
  <2>. QED  BY <1>1, <2>1 DEF RegistryInv, ClosingInv, ClosedIsGone, Unanswered
<1>. QED  BY <1>2, <1>3, <1>4, <1>5, <1>6, <1>7 DEF RegistryInv

\* Handles: the limit is kept, and no handle of the process there is gives way.
LEMMA TouchKeeps ==
  ASSUME RegistryInv, NEW touched \in SUBSET Elements, Touch(touched)
  PROVE  /\ HandlesInv' /\ nextToken <= nextToken'
         /\ \A e \in Elements : LaunchOf[e] = process /\ handles[e] # 0 => handles'[e] = handles[e]
<1>. DEFINE held == Held(handles)
            fresh == touched \ held
            full == Cardinality(held) + Cardinality(fresh) > HandleLimit
            kept == IF full THEN {e \in held : ~Reused(e)} ELSE held
            room == HandleLimit - Cardinality(kept)
            order == Numbering(fresh)
            served == {e \in fresh : order[e] <= room}
<1>1. /\ handles' = [e \in Elements |->
                       IF e \in served THEN nextToken + order[e] - 1
                       ELSE IF e \in kept THEN handles[e] ELSE 0]
      /\ nextToken' = nextToken + Cardinality(served)
  BY DEF Touch
<1>2. /\ nextToken \in Nat \ {0} /\ handles \in [Elements -> 0..nextToken]
      /\ Cardinality(held) <= HandleLimit /\ HandleLimit \in Nat
  BY InventoryHas DEF RegistryInv, HandlesInv
<1>3. /\ held \subseteq Elements /\ IsFiniteSet(held) /\ kept \subseteq held /\ IsFiniteSet(kept)
      /\ Cardinality(held) \in Nat /\ Cardinality(kept) \in Nat /\ Cardinality(kept) <= HandleLimit
  <2>1. held \in SUBSET Elements  BY DEF Held
  <2>2. IsFiniteSet(held)  BY <2>1, InventoryHas, FS_Subset
  <2>3. kept \in SUBSET held  OBVIOUS
  <2>. HIDE DEF held, kept
  <2>4. IsFiniteSet(kept) /\ Cardinality(kept) <= Cardinality(held)  BY <2>2, <2>3, FS_Subset
  <2>5. Cardinality(held) \in Nat /\ Cardinality(kept) \in Nat  BY <2>2, <2>4, FS_CardinalityType
  <2>. QED  BY <1>2, <2>1, <2>2, <2>3, <2>4, <2>5 DEF held
<1>4. room \in Nat /\ room + Cardinality(kept) = HandleLimit  BY <1>2, <1>3
<1>5. /\ fresh \subseteq Elements /\ IsFiniteSet(fresh)
  <2>1. fresh \in SUBSET Elements  OBVIOUS
  <2>. QED  BY <2>1, InventoryHas, FS_Subset
<1>6. /\ IsFiniteSet(served) /\ Cardinality(served) \in Nat /\ Cardinality(served) <= room
      /\ \A e \in served : order[e] \in 1..Cardinality(served)
  <2>. HIDE DEF fresh, room
  <2>. QED  BY <1>4, <1>5, FirstOnes
<1>7. \A e \in Elements : e \in kept => e \in held /\ e \notin served  BY <1>3
<1>. HIDE DEF served, kept, room, order, fresh
<1>8. /\ nextToken' \in Nat \ {0} /\ nextToken <= nextToken'
      /\ handles' \in [Elements -> 0..nextToken']
  <2>1. nextToken' \in Nat \ {0} /\ nextToken <= nextToken'  BY <1>1, <1>2, <1>6
  <2>2. \A e \in served : nextToken + order[e] - 1 \in 0..nextToken'
    BY <1>1, <1>2, <1>6
  <2>3. \A e \in Elements : handles[e] \in 0..nextToken'  BY <1>1, <1>2, <1>6
  <2>4. 0 \in 0..nextToken'  BY <2>1
  <2>. QED  BY <1>1, <2>1, <2>2, <2>3, <2>4
<1>9. Cardinality(Held(handles)') <= HandleLimit
  <2>1. Held(handles)' \in SUBSET (kept \cup served)  BY <1>1 DEF Held
  <2>2. /\ IsFiniteSet(kept \cup served)
        /\ Cardinality(kept \cup served) = Cardinality(kept) + Cardinality(served) - Cardinality(kept \cap served)
    BY <1>3, <1>6, FS_Union
  <2>3. Cardinality(kept \cap served) \in Nat
    BY <1>3, FS_Intersection, FS_CardinalityType
  <2>4. IsFiniteSet(Held(handles)') /\ Cardinality(Held(handles)') <= Cardinality(kept \cup served)
    BY <2>1, <2>2, FS_Subset
  <2>5. Cardinality(Held(handles)') \in Nat  BY <2>4, FS_CardinalityType
  <2>. QED  BY <1>2, <1>3, <1>4, <1>6, <2>2, <2>3, <2>4, <2>5
<1>10. HandlesInv'  BY <1>8, <1>9 DEF HandlesInv
<1>11. ASSUME NEW e \in Elements, LaunchOf[e] = process, handles[e] # 0
       PROVE  handles'[e] = handles[e]
  <2>1. e \in held /\ ~Reused(e)  BY <1>11 DEF Held, Reused
  <2>2. e \in kept  BY <2>1 DEF kept
  <2>. QED  BY <1>1, <1>7, <2>2
<1>. QED  BY <1>8, <1>10, <1>11

\* What a scan hands to the registry.
LEMMA RegScanned ==
  ASSUME RegistryInv, scan.phase = "asking", HandlesInv', nextToken <= nextToken',
         \A e \in Elements : LaunchOf[e] = process /\ handles[e] # 0 => handles'[e] = handles[e],
         scan'.phase = "scanned", scan'.present \in BOOLEAN, scan'.complete \in BOOLEAN,
         scan'.launch = process, scan'.status \in Certain \cup {"FAILED"},
         scan'.read \subseteq Elements, scan'.looked \subseteq Elements,
         \A e \in scan'.read : handles'[e] # 0 /\ LaunchOf[e] = process,
         \A w \in scan'.read \ Sheets : scan'.kind[w] \in {"window", "unknown"},
         \A e \in scan'.read : scan'.kind[e] = "window" => e \notin Sheets,
         scan'.status \in Certain => scan'.looked \ Sheets \subseteq scan'.read,
         UNCHANGED <<worldVarsOfRegistry, refreshNumber, displayEpoch, topologyReady, recordVars,
                     closing, verdict, historyVars>>
  PROVE  RegistryInv'
<1>1. UNCHANGED <<process, born, listed, attached, displays, untold, changes, refreshNumber,
                  displayEpoch, topologyReady, identities, inventoryRevision, nextSerial, inventory,
                  closing, verdict, named, bearer, layouts>>
  BY DEF worldVarsOfRegistry, recordVars, historyVars
<1>2. ListedInv' /\ CountsInv'  BY <1>1 DEF RegistryInv, ListedInv, CountsInv
<1>3. ReadInv'
  BY <1>1, InventoryHas DEF RegistryInv, ListedInv, ReadInv, Handed
<1>4. nextToken \in Nat /\ nextToken' \in Nat  BY DEF RegistryInv, HandlesInv
<1>5. NamesInv'
  <2>1. \A e \in Elements : MayBeRead(e)' => LaunchOf[e] = process /\ MayBeRead(e)
    BY <1>1 DEF MayBeRead, Handed
  <2>2. identities' \in [Elements -> [token : 0..nextToken', serial : 0..nextSerial', seen : 0..inventoryRevision']]
    BY <1>1, <1>4 DEF RegistryInv, NamesInv
  <2>3. \A e \in Elements : named[e] # 0 /\ MayBeRead(e)' =>
          /\ identities[e].seen = inventoryRevision /\ identities[e].serial = named[e]
          /\ identities[e].token = handles'[e] /\ handles'[e] # 0
    BY <2>1 DEF RegistryInv, NamesInv
  <2>. QED  BY <1>1, <2>2, <2>3 DEF RegistryInv, NamesInv
<1>6. PublishedInv'
  <2>1. \A e \in inventory.windows : LaunchOf[e] = process => handles'[e] = inventory.token[e]
    BY DEF RegistryInv, PublishedInv
  <2>. QED  BY <1>1, <2>1 DEF RegistryInv, PublishedInv, MatchesAreExclusive, SheetsHaveOwners
<1>7. LayoutsInv' /\ ClosingInv'  BY <1>1 DEF RegistryInv, LayoutsInv, ClosingInv, ClosedIsGone
<1>. QED  BY <1>2, <1>3, <1>5, <1>6, <1>7 DEF RegistryInv

\* A window is never known as a sheet, and a sheet never as a window, whatever is unread.
LEMMA KindsAreOfRoles ==
  ASSUME NEW pairs \in SUBSET SheetPairs, NEW unread, NEW e \in Elements
  PROVE  /\ e \notin Sheets => KindIn(pairs, unread, e) \in {"window", "unknown"}
         /\ KindIn(pairs, unread, e) = "window" => e \notin Sheets
<1>1. e \notin Sheets => {o \in Elements : <<e, o>> \in pairs} = {}  BY InventoryHas
<1>2. e \notin Sheets => OwnerIn(pairs, e) = "none"  BY <1>1 DEF OwnerIn
<1>. HIDE DEF OwnerIn
<1>. QED  BY <1>2 DEF KindIn

\* What is read of the application, with or without the roles.
LEMMA ScannedIs ==
  ASSUME NEW outcome, NEW read \in SUBSET Elements, NEW pairs \in SUBSET SheetPairs,
         Scanned(outcome, read, pairs)
  PROVE  /\ scan'.phase = "scanned" /\ scan'.present = TRUE /\ scan'.status = outcome
         /\ scan'.read = read /\ scan'.launch = process
         /\ scan'.looked = listed \cup {pair[1] : pair \in attached}
         /\ scan'.complete \in BOOLEAN
         /\ \A w \in read \ Sheets : scan'.kind[w] \in {"window", "unknown"}
         /\ \A e \in read : scan'.kind[e] = "window" => e \notin Sheets
<1>1. PICK unread \in SUBSET read :
        scan' = [phase |-> "scanned", present |-> TRUE, status |-> outcome, read |-> read,
                 kind |-> [e \in read |-> KindIn(pairs, unread, e)],
                 owner |-> [e \in read |-> OwnerIn(pairs, e)], launch |-> process,
                 looked |-> listed \cup {pair[1] : pair \in attached},
                 complete |-> outcome \in Certain]
  BY DEF Scanned
<1>2. \A e \in read : scan'.kind[e] = KindIn(pairs, unread, e)  BY <1>1
<1>3. \A e \in read :
        /\ e \notin Sheets => KindIn(pairs, unread, e) \in {"window", "unknown"}
        /\ KindIn(pairs, unread, e) = "window" => e \notin Sheets
  BY KindsAreOfRoles
<1>4. /\ scan'.phase = "scanned" /\ scan'.present = TRUE /\ scan'.status = outcome
      /\ scan'.read = read /\ scan'.launch = process
      /\ scan'.looked = listed \cup {pair[1] : pair \in attached}
      /\ scan'.complete \in BOOLEAN
  BY <1>1
<1>. QED  BY <1>2, <1>3, <1>4

\* An application is omitted, answers or answers in part.
LEMMA RegScan ==
  ASSUME RegistryInv, ScanApplication
  PROVE  RegistryInv'
<1>. DEFINE looked == listed \cup {pair[1] : pair \in attached}
<1>1. /\ scan.phase = "asking"
      /\ UNCHANGED <<worldVarsOfRegistry, refreshNumber, displayEpoch, topologyReady, recordVars,
                     closing, verdict, historyVars>>
  BY DEF ScanApplication, Scan
<1>2. /\ looked \subseteq Elements /\ looked \ Sheets = listed /\ listed \subseteq Elements
      /\ \A e \in looked : LaunchOf[e] = process
      /\ attached \in SUBSET SheetPairs
  BY InventoryHas DEF RegistryInv, ListedInv
<1>. HIDE DEF looked
<1>3. CASE ApplicationMissing
  <2>1. /\ scan'.phase = "scanned" /\ scan'.present = FALSE /\ scan'.status = "FAILED"
        /\ scan'.read = {} /\ scan'.launch = process /\ scan'.looked = {}
        /\ scan'.complete \in BOOLEAN /\ UNCHANGED <<handles, nextToken>>
    BY <1>3 DEF ApplicationMissing, handleVars
  <2>2. HandlesInv' /\ nextToken <= nextToken'
    BY <2>1 DEF RegistryInv, HandlesInv, Held
  <2>. QED  BY <1>1, <2>1, <2>2, RegScanned DEF Certain
<1>4. CASE ApplicationAnswers
  <2>. DEFINE pairs == {pair \in attached : pair[2] \in listed}
              read == listed \cup {pair[1] : pair \in pairs}
              given == {e \in read : handles'[e] # 0}
              clean == given = read /\ \A e \in read : OwnerIn(pairs, e) # "ambiguous"
              outcome == IF ~clean THEN "FAILED" ELSE IF read = {} THEN "NO_WINDOWS" ELSE "READY"
  <2>1. Touch(read) /\ Scanned(outcome, given, pairs)  BY <1>4 DEF ApplicationAnswers
  <2>2. /\ read \subseteq looked /\ listed \subseteq read /\ pairs \in SUBSET SheetPairs
        /\ given \subseteq read /\ \A e \in given : handles'[e] # 0
    BY <1>2 DEF looked
  <2>3. outcome \in Certain \cup {"FAILED"} /\ (outcome \in Certain => given = read)
    BY DEF Certain
  <2>. HIDE DEF outcome, given, read, pairs
  <2>4. /\ scan'.phase = "scanned" /\ scan'.present = TRUE /\ scan'.status = outcome
        /\ scan'.read = given /\ scan'.launch = process /\ scan'.looked = looked
        /\ scan'.complete \in BOOLEAN
        /\ \A w \in given \ Sheets : scan'.kind[w] \in {"window", "unknown"}
        /\ \A e \in given : scan'.kind[e] = "window" => e \notin Sheets
    <3>1. given \in SUBSET Elements  BY <1>2, <2>2
    <3>. QED  BY <2>1, <2>2, <3>1, ScannedIs DEF looked
  <2>5. /\ HandlesInv' /\ nextToken <= nextToken'
        /\ \A e \in Elements : LaunchOf[e] = process /\ handles[e] # 0 => handles'[e] = handles[e]
    <3>1. read \in SUBSET Elements  BY <1>2, <2>2
    <3>. QED  BY <2>1, <3>1, TouchKeeps
  <2>7. scan'.status \in Certain => scan'.looked \ Sheets \subseteq scan'.read
    BY <1>2, <2>2, <2>3, <2>4
  <2>8. scan'.read \subseteq Elements /\ \A e \in scan'.read : handles'[e] # 0 /\ LaunchOf[e] = process
    BY <1>2, <2>2, <2>4
  <2>. QED  BY <1>1, <1>2, <2>3, <2>4, <2>5, <2>7, <2>8, RegScanned
<1>5. CASE ApplicationAnswersInPart
  <2>1. PICK read \in SUBSET looked :
          /\ Touch(read)
          /\ \E pairs \in SUBSET {pair \in attached : /\ pair[1] \in {e \in read : handles'[e] # 0}
                                                      /\ pair[2] \in {e \in read : handles'[e] # 0} \cap listed} :
               Scanned("FAILED", {e \in read : handles'[e] # 0}, pairs)
    BY <1>5 DEF ApplicationAnswersInPart, looked
  <2>. DEFINE given == {e \in read : handles'[e] # 0}
  <2>2. PICK pairs \in SUBSET attached : Scanned("FAILED", given, pairs)
    BY <2>1
  <2>3. given \subseteq read /\ \A e \in given : handles'[e] # 0  OBVIOUS
  <2>. HIDE DEF given
  <2>4. /\ scan'.phase = "scanned" /\ scan'.present = TRUE /\ scan'.status = "FAILED"
        /\ scan'.read = given /\ scan'.launch = process /\ scan'.looked = looked
        /\ scan'.complete \in BOOLEAN
        /\ \A w \in given \ Sheets : scan'.kind[w] \in {"window", "unknown"}
        /\ \A e \in given : scan'.kind[e] = "window" => e \notin Sheets
    <3>1. given \in SUBSET Elements /\ pairs \in SUBSET SheetPairs  BY <1>2, <2>3
    <3>. QED  BY <2>2, <3>1, ScannedIs DEF looked
  <2>5. /\ HandlesInv' /\ nextToken <= nextToken'
        /\ \A e \in Elements : LaunchOf[e] = process /\ handles[e] # 0 => handles'[e] = handles[e]
    <3>1. read \in SUBSET Elements  BY <1>2
    <3>. QED  BY <2>1, <3>1, TouchKeeps
  <2>7. scan'.read \subseteq Elements /\ \A e \in scan'.read : handles'[e] # 0 /\ LaunchOf[e] = process
    BY <1>2, <2>3, <2>4
  <2>. QED  BY <1>1, <1>2, <2>4, <2>5, <2>7, RegScanned DEF Certain
<1>. QED  BY <1>3, <1>4, <1>5 DEF ScanApplication, Scan

\* The displays are read.
LEMMA RegCollects ==
  ASSUME RegistryInv, CollectDisplays
  PROVE  RegistryInv'
<1>1. UNCHANGED <<process, born, listed, attached, displays, untold, handles, nextToken,
                  refreshNumber, displayEpoch, topologyReady, identities, inventoryRevision,
                  nextSerial, inventory, closing, verdict, named, bearer, layouts>>
  BY DEF CollectDisplays, handleVars, recordVars, historyVars
<1>2. PICK answered \in BOOLEAN, displayed \in BOOLEAN :
        /\ scan' = [phase |-> "collected", present |-> scan.present, status |-> scan.status,
                    read |-> scan.read, kind |-> scan.kind, owner |-> scan.owner,
                    launch |-> scan.launch, looked |-> scan.looked,
                    complete |-> scan.complete /\ answered /\ displayed,
                    epoch |-> displayEpoch, displays |-> IF displayed THEN displays ELSE 0]
        /\ IF displayed THEN UNCHANGED changes ELSE changes < MaxChanges /\ changes' = changes + 1
  BY DEF CollectDisplays
<1>8. /\ scan.phase = "scanned" /\ scan'.phase = "collected" /\ scan'.present = scan.present
      /\ scan'.status = scan.status /\ scan'.read = scan.read /\ scan'.kind = scan.kind
      /\ scan'.launch = scan.launch /\ scan'.looked = scan.looked
      /\ scan'.epoch = displayEpoch /\ scan'.displays \in {displays, 0}
      /\ scan'.complete \in BOOLEAN
  BY <1>2 DEF CollectDisplays
<1>9. changes' \in Nat  BY <1>2 DEF RegistryInv, CountsInv
<1>3. ListedInv' /\ CountsInv'  BY <1>1, <1>8, <1>9 DEF RegistryInv, ListedInv, CountsInv
<1>4. HandlesInv'  BY <1>1 DEF RegistryInv, HandlesInv, Held
<1>5. ReadInv'  BY <1>1, <1>8 DEF RegistryInv, ReadInv, Handed, CountsInv
<1>6. NamesInv'
  <2>1. \A e \in Elements : MayBeRead(e)' <=> MayBeRead(e)  BY <1>1, <1>8 DEF MayBeRead, Handed
  <2>. QED  BY <1>1, <2>1 DEF RegistryInv, NamesInv
<1>7. PublishedInv' /\ LayoutsInv' /\ ClosingInv'
  BY <1>1 DEF RegistryInv, PublishedInv, MatchesAreExclusive, SheetsHaveOwners, LayoutsInv, ClosingInv,
              ClosedIsGone
<1>. QED  BY <1>3, <1>4, <1>5, <1>6, <1>7 DEF RegistryInv


\* A product grows with its first factor.
LEMMA ProductGrows ==
  ASSUME NEW a \in Nat, NEW b \in Nat, NEW c \in Nat, a <= b
  PROVE  a * c <= b * c /\ (a + 1) * c = a * c + c
<1>1. PICK d \in Nat : b = a + d  BY b - a \in Nat
<1>2. b * c = a * c + d * c /\ d * c \in Nat /\ a * c \in Nat  BY <1>1
<1>. QED  BY <1>2

\* The serials of a snapshot: a window that has a name keeps it, the others get new ones.
LEMMA SerialsAre ==
  ASSUME RegistryInv, scan.phase = "collected", NEW published \in SUBSET scan.read,
         NEW serial, serial = Serials(published),
         NEW fresh, fresh = Cardinality({e \in published : ~SameIdentity(e)})
  PROVE  /\ fresh \in Nat /\ nextSerial + fresh <= MaxSerial + 1
         /\ nextSerial + fresh <= (inventoryRevision + 1) * Cardinality(Elements) + 1
         /\ \A e \in published :
              /\ serial[e] \in 1..MaxSerial /\ serial[e] < nextSerial + fresh
              /\ SameIdentity(e) => bearer[serial[e]] = e /\ serial[e] = identities[e].serial
              /\ ~SameIdentity(e) => bearer[serial[e]] = "none"
              /\ named[e] # 0 => serial[e] = named[e]
         /\ \A e, f \in published : serial[e] = serial[f] => e = f
<1>. DEFINE unknown == {e \in published : ~SameIdentity(e)}
            all == Cardinality(Elements)
            order == Numbering(unknown)
<1>1. /\ published \subseteq Elements /\ scan.read \subseteq Elements
      /\ all \in Nat /\ MaxRefreshes \in Nat /\ MaxSerial = MaxRefreshes * all /\ Handed
      /\ IsFiniteSet(Elements) /\ "none" \notin Elements
  BY InventoryHas DEF RegistryInv, ReadInv, Handed, MaxSerial
<1>2. /\ inventoryRevision \in Nat /\ inventoryRevision + 1 <= MaxRefreshes
      /\ nextSerial \in Nat \ {0} /\ nextSerial <= inventoryRevision * all + 1
  BY <1>1 DEF RegistryInv, CountsInv, NamesInv
<1>3. IsFiniteSet(unknown) /\ fresh \in Nat /\ fresh <= all
  <2>1. unknown \in SUBSET Elements /\ fresh = Cardinality(unknown)  BY <1>1
  <2>. HIDE DEF unknown
  <2>2. IsFiniteSet(unknown) /\ Cardinality(unknown) <= all  BY <1>1, <2>1, FS_Subset
  <2>. QED  BY <2>1, <2>2, FS_CardinalityType
<1>. HIDE DEF all
<1>4. /\ nextSerial + fresh <= MaxSerial + 1
      /\ nextSerial + fresh <= (inventoryRevision + 1) * all + 1
  <2>1. /\ (inventoryRevision + 1) * all <= MaxRefreshes * all
        /\ (inventoryRevision + 1) * all = inventoryRevision * all + all
    <3>1. (inventoryRevision + 1) * all <= MaxRefreshes * all  BY <1>1, <1>2, ProductGrows
    <3>2. (inventoryRevision + 1) * all = inventoryRevision * all + all
      BY <1>1, <1>2, ProductGrows
    <3>. QED  BY <3>1, <3>2
  <2>2. inventoryRevision * all \in Nat /\ MaxRefreshes * all \in Nat  BY <1>1, <1>2
  <2>. QED  BY <1>1, <1>2, <1>3, <2>1, <2>2
<1>5. /\ order \in [unknown -> 1..fresh]
      /\ \A a, b \in unknown : order[a] = order[b] => a = b
  <2>1. fresh = Cardinality(unknown)  OBVIOUS
  <2>. HIDE DEF unknown
  <2>. QED  BY <1>3, <2>1, NumberingIs
<1>. HIDE DEF order
<1>6. /\ \A e \in published : SameIdentity(e) => serial[e] = identities[e].serial
      /\ \A e \in published : ~SameIdentity(e) => serial[e] = nextSerial + order[e] - 1
  BY DEF Serials, order, unknown
<1>7. \A e \in published : SameIdentity(e) =>
        /\ serial[e] \in 1..MaxSerial /\ serial[e] < nextSerial
        /\ bearer[serial[e]] = e /\ serial[e] = identities[e].serial
  BY <1>1, <1>6 DEF RegistryInv, NamesInv, SameIdentity
<1>8. \A e \in published : ~SameIdentity(e) =>
        /\ serial[e] \in 1..MaxSerial /\ serial[e] >= nextSerial /\ serial[e] < nextSerial + fresh
        /\ bearer[serial[e]] = "none"
  <2>. SUFFICES ASSUME NEW e \in published, ~SameIdentity(e)
                PROVE  /\ serial[e] \in 1..MaxSerial /\ serial[e] >= nextSerial
                       /\ serial[e] < nextSerial + fresh /\ bearer[serial[e]] = "none"
    OBVIOUS
  <2>1. order[e] \in 1..fresh /\ serial[e] = nextSerial + order[e] - 1  BY <1>5, <1>6
  <2>2. MaxSerial \in Nat  BY InventoryHas
  <2>3. /\ serial[e] \in 1..MaxSerial /\ serial[e] >= nextSerial /\ serial[e] < nextSerial + fresh
    BY <1>2, <1>3, <1>4, <2>1, <2>2
  <2>. QED  BY <2>3 DEF RegistryInv, NamesInv
<1>9. \A e \in published : named[e] # 0 => serial[e] = named[e]
  <2>. SUFFICES ASSUME NEW e \in published, named[e] # 0  PROVE serial[e] = named[e]
    OBVIOUS
  <2>1. e \in Elements /\ MayBeRead(e)  BY <1>1 DEF MayBeRead
  <2>2. /\ identities[e].seen = inventoryRevision /\ identities[e].serial = named[e]
        /\ identities[e].token = handles[e] /\ handles[e] # 0
    BY <2>1 DEF RegistryInv, NamesInv
  <2>. QED  BY <1>6, <2>2 DEF SameIdentity
<1>10. \A e, f \in published : serial[e] = serial[f] => e = f
  <2>. SUFFICES ASSUME NEW e \in published, NEW f \in published, serial[e] = serial[f]
                PROVE  e = f
    OBVIOUS
  <2>1. CASE SameIdentity(e) /\ SameIdentity(f)  BY <1>7, <2>1
  <2>2. CASE ~SameIdentity(e) /\ ~SameIdentity(f)
    <3>1. /\ order[e] \in 1..fresh /\ order[f] \in 1..fresh
          /\ serial[e] = nextSerial + order[e] - 1 /\ serial[f] = nextSerial + order[f] - 1
      BY <1>5, <1>6, <2>2
    <3>2. \A a, b \in Nat : nextSerial + a - 1 = nextSerial + b - 1 => a = b  BY <1>2
    <3>3. order[e] \in Nat /\ order[f] \in Nat  BY <1>3, <3>1
    <3>4. order[e] = order[f]  BY <3>1, <3>2, <3>3
    <3>. QED  BY <1>5, <2>2, <3>4
  <2>3. CASE SameIdentity(e) /\ ~SameIdentity(f)  BY <1>1, <1>7, <1>8, <2>3
  <2>4. CASE ~SameIdentity(e) /\ SameIdentity(f)  BY <1>1, <1>7, <1>8, <2>4
  <2>. QED  BY <2>1, <2>2, <2>3, <2>4
<1>11. \A e \in published : serial[e] \in 1..MaxSerial /\ serial[e] < nextSerial + fresh
  <2>. SUFFICES ASSUME NEW e \in published
                PROVE  serial[e] \in 1..MaxSerial /\ serial[e] < nextSerial + fresh
    OBVIOUS
  <2>1. CASE SameIdentity(e)
    <3>1. serial[e] \in 1..MaxSerial /\ serial[e] < nextSerial  BY <1>7, <2>1
    <3>. QED  BY <1>2, <1>3, <3>1
  <2>2. CASE ~SameIdentity(e)  BY <1>8, <2>2
  <2>. QED  BY <2>1, <2>2
<1>. QED  BY <1>3, <1>4, <1>7, <1>8, <1>9, <1>10, <1>11 DEF all, unknown

\* What a match says: a window of Core Graphics that is matched is near.
LEMMA MatchesAreNear ==
  ASSUME NEW e, NEW near, NEW titled, Correlate(e, near, titled) \in CGWindows
  PROVE  <<e, Correlate(e, near, titled)>> \in near
<1>. DEFINE frames == {c \in CGWindows : <<e, c>> \in near}
            titles == {c \in frames : e \in titled /\ TitleOf[c] = TitleOf[e]}
<1>1. \A S : Cardinality(S) = 1 => S # {}  BY FS_EmptySet
<1>2. Correlate(e, near, titled) =
        IF Cardinality(frames) = 1 THEN CHOOSE c \in frames : TRUE
        ELSE IF Cardinality(titles) = 1 THEN CHOOSE c \in titles : TRUE
        ELSE IF frames # {} THEN "ambiguous" ELSE "unavailable"
  BY DEF Correlate
<1>3. titles \subseteq frames  OBVIOUS
<1>. HIDE DEF frames, titles
<1>4. Correlate(e, near, titled) \in frames  BY <1>1, <1>2, <1>3, InventoryHas
<1>. QED  BY <1>4 DEF frames

\* The pass over the matches leaves no window of Core Graphics to two windows.
LEMMA MatchesAreOfOne ==
  ASSUME NEW windows, NEW near, NEW titled, NEW disputed \in SUBSET windows,
         PassDisputes(windows, disputed, near, titled),
         NEW e \in windows, NEW f \in windows, NEW c \in CGWindows,
         Mapping(windows, disputed, near, titled)[e] = c, Mapping(windows, disputed, near, titled)[f] = c
  PROVE  e = f
<1>. DEFINE before(x) == {w \in disputed : Numbering(windows)[w] < Numbering(windows)[x]}
<1>1. \A x \in windows : x \in disputed <=> Disputed(Mapping(windows, before(x), near, titled), x, near)
  BY DEF PassDisputes
<1>2. \A D : /\ DOMAIN Mapping(windows, D, near, titled) = windows
             /\ \A w \in windows : Mapping(windows, D, near, titled)[w] =
                  IF w \in D THEN "ambiguous" ELSE Correlate(w, near, titled)
  BY DEF Mapping
<1>3. /\ e \notin disputed /\ f \notin disputed
      /\ Correlate(e, near, titled) = c /\ Correlate(f, near, titled) = c
  BY <1>2, InventoryHas
<1>4. <<f, c>> \in near  BY <1>3, MatchesAreNear
<1>. DEFINE sofar == Mapping(windows, before(e), near, titled)
<1>5. sofar[e] = c /\ sofar[f] = c /\ DOMAIN sofar = windows
  <2>1. e \notin before(e) /\ f \notin before(e)  BY <1>3
  <2>. HIDE DEF before
  <2>. QED  BY <1>2, <1>3, <2>1
<1>6. ~Disputed(sofar, e, near)  BY <1>1, <1>3
<1>. HIDE DEF sofar
<1>7. \A x \in DOMAIN sofar \ {e} : <<x, c>> \in near => sofar[x] # c  BY <1>5, <1>6 DEF Disputed
<1>. QED  BY <1>4, <1>5, <1>7

\* What a refresh publishes.
LEMMA RefreshFacts ==
  ASSUME RegistryInv, RefreshPublishes
  PROVE  LET published == {e \in scan.read : Publishable(e)}
             serial == Serials(published) IN
         /\ scan.phase = "collected" /\ scan' = NoScan
         /\ UNCHANGED <<process, born, listed, attached, displays, untold, changes, refreshNumber,
                        displayEpoch, topologyReady, nextToken>>
         /\ inventoryRevision' = inventoryRevision + 1
         /\ inventory'.revision = inventoryRevision + 1 /\ inventory'.windows = published
         /\ inventory'.serial = serial /\ inventory'.contested = {}
         /\ \A e \in published :
              /\ inventory'.token[e] = handles[e] /\ inventory'.owner[e] = scan.owner[e]
              /\ inventory'.kind[e] = scan.kind[e]
         /\ inventory'.layout = inventory.layout + (IF LayoutChanged THEN 1 ELSE 0)
         /\ inventory'.epoch = scan.epoch /\ inventory'.displays = scan.displays
         /\ Identify(published, serial) /\ PruneHandles
         /\ Remember(published, serial) /\ ClassifyClose(TRUE)
<1>. DEFINE published == {e \in scan.read : Publishable(e)}
            windows == OfKind("window")
            serial == Serials(published)
<1>1. PICK near \in SUBSET (windows \X CGWindows), disputed \in SUBSET windows,
           titled \in SUBSET windows :
        /\ PassDisputes(windows, disputed, near, titled)
        /\ inventory' =
             [revision |-> inventoryRevision + 1, windows |-> published,
              kind |-> [e \in published |-> scan.kind[e]], serial |-> serial,
              token |-> [e \in published |-> handles[e]],
              owner |-> [e \in published |-> scan.owner[e]],
              contested |-> {c \in CGWindows : \E e, f \in windows :
                               e # f /\ {Mapping(windows, disputed, near, titled)[e], Mapping(windows, disputed, near, titled)[f]} = {c}},
              layout |-> inventory.layout + (IF LayoutChanged THEN 1 ELSE 0),
              epoch |-> scan.epoch, displays |-> scan.displays]
  BY DEF RefreshPublishes
<1>2. {c \in CGWindows : \E e, f \in windows :
         e # f /\ {Mapping(windows, disputed, near, titled)[e], Mapping(windows, disputed, near, titled)[f]} = {c}} = {}
  <2>. SUFFICES ASSUME NEW c \in CGWindows, NEW e \in windows, NEW f \in windows, e # f,
                       {Mapping(windows, disputed, near, titled)[e], Mapping(windows, disputed, near, titled)[f]} = {c}
                PROVE  FALSE
    OBVIOUS
  <2>1. Mapping(windows, disputed, near, titled)[e] = c /\ Mapping(windows, disputed, near, titled)[f] = c
    OBVIOUS
  <2>. HIDE DEF windows
  <2>. QED  BY <1>1, <2>1, MatchesAreOfOne
<1>3. /\ scan.phase = "collected" /\ scan' = NoScan /\ inventoryRevision' = inventoryRevision + 1
      /\ Identify(published, serial) /\ PruneHandles
      /\ Remember(published, serial) /\ ClassifyClose(TRUE)
  BY DEF RefreshPublishes
<1>4. UNCHANGED <<process, born, listed, attached, displays, untold, changes, refreshNumber,
                  displayEpoch, topologyReady, nextToken>>
  BY DEF RefreshPublishes, PruneHandles, worldVarsOfRegistry
<1>. HIDE DEF published, windows, serial
<1>5. /\ inventory'.revision = inventoryRevision + 1 /\ inventory'.windows = published
      /\ inventory'.serial = serial /\ inventory'.contested = {}
      /\ \A e \in published :
           /\ inventory'.token[e] = handles[e] /\ inventory'.owner[e] = scan.owner[e]
           /\ inventory'.kind[e] = scan.kind[e]
      /\ inventory'.layout = inventory.layout + (IF LayoutChanged THEN 1 ELSE 0)
      /\ inventory'.epoch = scan.epoch /\ inventory'.displays = scan.displays
  BY <1>1, <1>2
<1>. QED  BY <1>3, <1>4, <1>5 DEF published, serial

\* A snapshot is published: windows keep their names, and names their windows.
LEMMA RefreshNames ==
  ASSUME RegistryInv, RefreshPublishes
  PROVE  NamesInv' /\ HandlesInv' /\ PublishedInv'
<1>. DEFINE published == {e \in scan.read : Publishable(e)}
            serial == Serials(published)
            fresh == Cardinality({e \in published : ~SameIdentity(e)})
            answered(e) == scan.present /\ scan.launch = LaunchOf[e] /\ scan.status \in Certain
            missing(e) == scan.complete /\ ~(scan.present /\ scan.launch = LaunchOf[e])
<1>1. /\ scan.phase = "collected" /\ scan' = NoScan
      /\ UNCHANGED <<process, born, listed, attached, displays, untold, changes, refreshNumber,
                     displayEpoch, topologyReady, nextToken>>
      /\ inventoryRevision' = inventoryRevision + 1
      /\ inventory'.revision = inventoryRevision + 1 /\ inventory'.windows = published
      /\ inventory'.serial = serial /\ inventory'.contested = {}
      /\ \A e \in published :
           /\ inventory'.token[e] = handles[e] /\ inventory'.owner[e] = scan.owner[e]
           /\ inventory'.kind[e] = scan.kind[e]
      /\ Identify(published, serial) /\ PruneHandles
      /\ Remember(published, serial)
  BY RefreshFacts
<1>2. /\ Handed /\ published \subseteq scan.read /\ published \subseteq Elements
      /\ scan.read \subseteq Elements
      /\ \A e \in scan.read : handles[e] # 0 /\ LaunchOf[e] = scan.launch
      /\ scan.launch \in 0..born /\ born \in 1..Incarnations
      /\ \A e \in scan.read : scan.kind[e] = "window" => e \notin Sheets
      /\ IsFiniteSet(Elements) /\ "none" \notin Elements
  BY <1>1, InventoryHas DEF RegistryInv, ReadInv, Handed, ListedInv
<1>3. /\ inventoryRevision \in Nat /\ nextSerial \in Nat \ {0} /\ nextToken \in Nat \ {0}
      /\ handles \in [Elements -> 0..nextToken] /\ MaxSerial \in Nat
  BY InventoryHas DEF RegistryInv, CountsInv, HandlesInv, NamesInv
<1>4. /\ fresh \in Nat /\ nextSerial + fresh <= MaxSerial + 1
      /\ nextSerial + fresh <= (inventoryRevision + 1) * Cardinality(Elements) + 1
      /\ \A e \in published :
           /\ serial[e] \in 1..MaxSerial /\ serial[e] < nextSerial + fresh
           /\ SameIdentity(e) => bearer[serial[e]] = e /\ serial[e] = identities[e].serial
           /\ ~SameIdentity(e) => bearer[serial[e]] = "none"
           /\ named[e] # 0 => serial[e] = named[e]
      /\ \A e, f \in published : serial[e] = serial[f] => e = f
  <2>1. published \in SUBSET scan.read  OBVIOUS
  <2>2. serial = Serials(published) /\ fresh = Cardinality({e \in published : ~SameIdentity(e)})
    OBVIOUS
  <2>. HIDE DEF published, serial, fresh
  <2>. QED  BY <1>1, <2>1, <2>2, SerialsAre
<1>5. /\ identities' =
           [e \in Elements |->
              IF e \in published
              THEN [token |-> handles[e], serial |-> serial[e], seen |-> inventoryRevision + 1]
              ELSE IF Uncertain(e) THEN [identities[e] EXCEPT !.seen = inventoryRevision + 1]
              ELSE identities[e]]
      /\ nextSerial' = nextSerial + fresh
  BY <1>1 DEF Identify
<1>6. handles' = [e \in Elements |-> IF e \in scan.read \/ RetainUnseen(e) THEN handles[e] ELSE 0]
  BY <1>1 DEF PruneHandles
<1>7. /\ named' = [e \in Elements |->
           IF e \in published THEN IF named[e] = 0 THEN serial[e] ELSE named[e]
           ELSE IF answered(e) \/ missing(e) THEN 0 ELSE named[e]]
      /\ bearer' = [n \in 1..MaxSerial |->
           IF bearer[n] = "none" /\ \E e \in published : serial[e] = n
           THEN CHOOSE e \in published : serial[e] = n ELSE bearer[n]]
  BY <1>1 DEF Remember
<1>. HIDE DEF published, serial, fresh
<1>8. /\ bearer \in [1..MaxSerial -> Elements \cup {"none"}]
      /\ \A n \in 1..MaxSerial : n >= nextSerial => bearer[n] = "none"
      /\ \A e \in Elements : identities[e].token # 0 =>
            /\ identities[e].serial \in 1..MaxSerial /\ identities[e].serial < nextSerial
            /\ bearer[identities[e].serial] = e
  BY DEF RegistryInv, NamesInv
<1>9. /\ bearer' \in [1..MaxSerial -> Elements \cup {"none"}]
      /\ \A e \in published : bearer'[serial[e]] = e
      /\ \A n \in 1..MaxSerial : bearer[n] # "none" => bearer'[n] = bearer[n]
      /\ \A n \in 1..MaxSerial : n >= nextSerial' => bearer'[n] = "none"
  <2>1. \A n \in 1..MaxSerial : bearer'[n] \in Elements \cup {"none"}  BY <1>2, <1>7, <1>8
  <2>2. \A e \in published : (CHOOSE f \in published : serial[f] = serial[e]) = e  BY <1>4
  <2>3. \A e \in published : bearer'[serial[e]] = e
    <3>. SUFFICES ASSUME NEW e \in published  PROVE bearer'[serial[e]] = e
      OBVIOUS
    <3>1. serial[e] \in 1..MaxSerial  BY <1>4
    <3>2. bearer'[serial[e]] = IF bearer[serial[e]] = "none"
                               THEN CHOOSE f \in published : serial[f] = serial[e]
                               ELSE bearer[serial[e]]
      BY <1>7, <3>1
    <3>3. bearer[serial[e]] = e \/ bearer[serial[e]] = "none"  BY <1>4
    <3>. QED  BY <2>2, <3>2, <3>3
  <2>4. \A n \in 1..MaxSerial : n >= nextSerial + fresh => bearer'[n] = "none"
    <3>. SUFFICES ASSUME NEW n \in 1..MaxSerial, n >= nextSerial + fresh
                  PROVE  bearer'[n] = "none"
      OBVIOUS
    <3>1. n >= nextSerial  BY <1>3, <1>4
    <3>2. ~ \E e \in published : serial[e] = n
      <4>. SUFFICES ASSUME NEW e \in published, serial[e] = n  PROVE FALSE
        OBVIOUS
      <4>. QED  BY <1>3, <1>4
    <3>. QED  BY <1>7, <1>8, <3>1, <3>2
  <2>. QED  BY <1>5, <1>7, <2>1, <2>3, <2>4
<1>10. HandlesInv'
  <2>1. handles' \in [Elements -> 0..nextToken]  BY <1>3, <1>6
  <2>2. Held(handles)' \in SUBSET Held(handles)  BY <1>6 DEF Held
  <2>3. IsFiniteSet(Held(handles))
    <3>1. Held(handles) \in SUBSET Elements  BY DEF Held
    <3>. QED  BY <1>2, <3>1, FS_Subset
  <2>4. IsFiniteSet(Held(handles)') /\ Cardinality(Held(handles)') <= Cardinality(Held(handles))
    BY <2>2, <2>3, FS_Subset
  <2>5. Cardinality(Held(handles)) \in Nat /\ Cardinality(Held(handles)') \in Nat
    BY <2>3, <2>4, FS_CardinalityType
  <2>6. Cardinality(Held(handles)) <= HandleLimit /\ HandleLimit \in Nat
    BY InventoryHas DEF RegistryInv, HandlesInv
  <2>7. Cardinality(Held(handles)') <= HandleLimit  BY <2>4, <2>5, <2>6
  <2>. QED  BY <1>1, <1>3, <2>1, <2>7 DEF HandlesInv
<1>11. \A e \in published :
         /\ named'[e] = serial[e] /\ handles'[e] = handles[e] /\ handles[e] # 0
         /\ handles[e] \in 0..nextToken
         /\ LaunchOf[e] <= born /\ serial[e] \in 1..MaxSerial
  <2>. SUFFICES ASSUME NEW e \in published
                PROVE  /\ named'[e] = serial[e] /\ handles'[e] = handles[e] /\ handles[e] # 0
                       /\ handles[e] \in 0..nextToken
                       /\ LaunchOf[e] <= born /\ serial[e] \in 1..MaxSerial
    OBVIOUS
  <2>1. e \in Elements /\ e \in scan.read  BY <1>2
  <2>2. named'[e] = serial[e] /\ serial[e] \in 1..MaxSerial  BY <1>4, <1>7, <2>1
  <2>3. handles'[e] = handles[e] /\ handles[e] # 0 /\ handles[e] \in 0..nextToken
    BY <1>2, <1>3, <1>6, <2>1
  <2>4. LaunchOf[e] = scan.launch  BY <1>2, <2>1
  <2>. QED  BY <1>2, <2>2, <2>3, <2>4
<1>12. NamesInv'
  <2>1. nextSerial' \in Nat \ {0} /\ nextSerial <= nextSerial'
        /\ nextSerial' <= inventoryRevision' * Cardinality(Elements) + 1
    BY <1>1, <1>3, <1>4, <1>5
  <2>2. named' \in [Elements -> Nat]
    <3>1. \A e \in Elements : named'[e] \in Nat  BY <1>3, <1>4, <1>7 DEF RegistryInv, NamesInv
    <3>. QED  BY <1>7, <3>1
  <2>3. identities' \in [Elements -> [token : 0..nextToken', serial : 0..nextSerial', seen : 0..inventoryRevision']]
    <3>. DEFINE Records == [token : 0..nextToken', serial : 0..nextSerial', seen : 0..inventoryRevision']
    <3>1. \A e \in Elements : identities[e] \in Records
      <4>1. \A e \in Elements : identities[e] \in [token : 0..nextToken, serial : 0..nextSerial, seen : 0..inventoryRevision]
        BY DEF RegistryInv, NamesInv
      <4>. QED  BY <1>1, <1>3, <2>1, <4>1
    <3>2. inventoryRevision + 1 \in 0..inventoryRevision'  BY <1>1, <1>3
    <3>3. \A e \in published : serial[e] \in 0..nextSerial' /\ handles[e] \in 0..nextToken'
      BY <1>1, <1>3, <1>4, <1>5, <1>11
    <3>4. \A e \in Elements : identities'[e] \in Records
      <4>. SUFFICES ASSUME NEW e \in Elements  PROVE identities'[e] \in Records
        OBVIOUS
      <4>1. CASE e \in published  BY <1>5, <3>2, <3>3, <4>1
      <4>2. CASE e \notin published /\ Uncertain(e)
        <5>1. identities'[e] = [identities[e] EXCEPT !.seen = inventoryRevision + 1]
          BY <1>5, <4>2
        <5>. QED  BY <3>1, <3>2, <5>1
      <4>3. CASE e \notin published /\ ~Uncertain(e)
        <5>1. identities'[e] = identities[e]  BY <1>5, <4>3
        <5>. QED  BY <3>1, <5>1
      <4>. QED  BY <4>1, <4>2, <4>3
    <3>. QED  BY <1>5, <3>4
  <2>4. ASSUME NEW e \in Elements
        PROVE  identities'[e].token # 0 =>
                 /\ identities'[e].serial \in 1..MaxSerial /\ identities'[e].serial < nextSerial'
                 /\ bearer'[identities'[e].serial] = e
    <3>1. CASE e \in published
      <4>1. identities'[e].serial = serial[e]  BY <1>5, <3>1
      <4>. QED  BY <1>4, <1>5, <1>9, <3>1, <4>1
    <3>2. CASE e \notin published
      <4>1. identities'[e].token = identities[e].token /\ identities'[e].serial = identities[e].serial
        <5>1. identities[e] \in [token : 0..nextToken, serial : 0..nextSerial, seen : 0..inventoryRevision]
          BY DEF RegistryInv, NamesInv
        <5>. QED  BY <1>5, <3>2, <5>1
      <4>2. identities[e].token # 0 =>
              /\ identities[e].serial \in 1..MaxSerial /\ identities[e].serial < nextSerial
              /\ bearer[identities[e].serial] = e
        BY <1>8
      <4>3. identities[e].token # 0 => bearer'[identities[e].serial] = e
        BY <1>2, <1>9, <4>2
      <4>. QED  BY <1>3, <2>1, <4>1, <4>2, <4>3
    <3>. QED  BY <3>1, <3>2
  <2>5. ASSUME NEW e \in Elements, named'[e] # 0
        PROVE  LaunchOf[e] <= born'
    <3>1. CASE e \in published  BY <1>1, <1>11, <3>1
    <3>2. CASE e \notin published
      <4>1. named[e] # 0  BY <1>7, <2>5, <3>2
      <4>. QED  BY <1>1, <4>1 DEF RegistryInv, NamesInv
    <3>. QED  BY <3>1, <3>2
  <2>6. ASSUME NEW e \in Elements, named'[e] # 0, MayBeRead(e)'
        PROVE  /\ identities'[e].seen = inventoryRevision' /\ identities'[e].serial = named'[e]
               /\ identities'[e].token = handles'[e] /\ handles'[e] # 0
    <3>1. CASE e \in published
      <4>1. identities'[e] = [token |-> handles[e], serial |-> serial[e], seen |-> inventoryRevision + 1]
        BY <1>5, <3>1
      <4>. QED  BY <1>1, <1>11, <3>1, <4>1
    <3>2. CASE e \notin published
      <4>1. LaunchOf[e] = process  BY <1>1, <2>6 DEF MayBeRead, Handed, NoScan
      <4>2. named[e] # 0 /\ named'[e] = named[e] /\ ~answered(e) /\ ~missing(e)
        BY <1>7, <2>6, <3>2
      <4>3. /\ identities[e].seen = inventoryRevision /\ identities[e].serial = named[e]
            /\ identities[e].token = handles[e] /\ handles[e] # 0
        BY <4>1, <4>2 DEF RegistryInv, NamesInv, MayBeRead
      <4>4. Uncertain(e) /\ RetainUnseen(e)
        BY <4>1, <4>2, <4>3 DEF Uncertain, RetainUnseen, Reused
      <4>5. handles'[e] = handles[e]  BY <1>6, <4>4
      <4>6. identities'[e] = [identities[e] EXCEPT !.seen = inventoryRevision + 1]
        BY <1>5, <3>2, <4>4
      <4>7. identities[e] \in [token : 0..nextToken, serial : 0..nextSerial, seen : 0..inventoryRevision]
        BY DEF RegistryInv, NamesInv
      <4>. QED  BY <1>1, <4>2, <4>3, <4>5, <4>6, <4>7
    <3>. QED  BY <3>1, <3>2
  <2>. QED  BY <1>9, <2>1, <2>2, <2>3, <2>4, <2>5, <2>6 DEF NamesInv
<1>13. PublishedInv'
  <2>1. SheetsHaveOwners'
    <3>. SUFFICES ASSUME NEW e \in published, scan.kind[e] = "sheet"
                  PROVE  /\ inventory'.owner[e] \in published
                         /\ inventory'.kind[inventory'.owner[e]] = "window"
      BY <1>1 DEF SheetsHaveOwners
    <3>1. Publishable(e)  BY DEF published
    <3>2. scan.owner[e] \in scan.read /\ scan.kind[scan.owner[e]] = "window"
      BY <3>1 DEF Publishable, ExactOwner, OfKind
    <3>3. Publishable(scan.owner[e])  BY <3>2 DEF Publishable
    <3>4. scan.owner[e] \in published  BY <3>2, <3>3 DEF published
    <3>. QED  BY <1>1, <3>2, <3>4
  <2>2. MatchesAreExclusive'  BY <1>1 DEF MatchesAreExclusive
  <2>. QED  BY <1>1, <1>2, <1>9, <1>11, <2>1, <2>2 DEF PublishedInv
<1>. QED  BY <1>10, <1>12, <1>13

\* A snapshot is published: a layout reference stays with its displays.
LEMMA RefreshLayouts ==
  ASSUME RegistryInv, RefreshPublishes
  PROVE  LayoutsInv'
<1>. DEFINE old == inventory.layout
            new == inventory'.layout
<1>1. /\ scan.phase = "collected" /\ inventoryRevision' = inventoryRevision + 1
      /\ new = old + (IF LayoutChanged THEN 1 ELSE 0)
      /\ inventory'.epoch = scan.epoch /\ inventory'.displays = scan.displays
      /\ layouts' = (IF layouts[new] = <<0, 0>>
                     THEN [layouts EXCEPT ![new] = <<scan.epoch, scan.displays>>]
                     ELSE layouts)
  BY RefreshFacts DEF Remember
<1>2. /\ scan.epoch \in Nat \ {0} /\ scan.displays \in Nat
      /\ inventoryRevision \in Nat /\ MaxRefreshes \in Nat /\ inventoryRevision + 1 <= MaxRefreshes
  BY <1>1, InventoryHas DEF RegistryInv, ReadInv, CountsInv
<1>3. /\ layouts \in [1..MaxRefreshes -> Nat \X Nat]
      /\ old \in 0..inventoryRevision
      /\ old = 0 => inventory.epoch = 0
      /\ old # 0 => layouts[old] = <<inventory.epoch, inventory.displays>>
      /\ \A n \in 1..MaxRefreshes : n > old => layouts[n] = <<0, 0>>
  BY DEF RegistryInv, LayoutsInv
<1>. HIDE DEF old, new
<1>4. SUFFICES /\ layouts' \in [1..MaxRefreshes -> Nat \X Nat]
               /\ new \in 0..inventoryRevision + 1 /\ new # 0
               /\ layouts'[new] = <<scan.epoch, scan.displays>>
               /\ \A n \in 1..MaxRefreshes : n > new => layouts'[n] = <<0, 0>>
  <2>1. /\ inventory'.epoch \in Nat /\ inventory'.displays \in Nat /\ inventory'.epoch # 0
    BY <1>1, <1>2
  <2>. QED  BY <1>1, <1>4, <2>1 DEF LayoutsInv, new
<1>5. CASE LayoutChanged
  <2>1. new = old + 1  BY <1>1, <1>5, <1>2, <1>3
  <2>2. /\ new \in 1..MaxRefreshes /\ new \in 0..inventoryRevision + 1 /\ new > old /\ new # 0
    BY <1>2, <1>3, <2>1
  <2>3. layouts' = [layouts EXCEPT ![new] = <<scan.epoch, scan.displays>>]
    BY <1>1, <1>3, <2>2
  <2>4. \A n \in 1..MaxRefreshes : n > new => n > old /\ n # new  BY <1>2, <1>3, <2>1
  <2>5. \A n \in 1..MaxRefreshes : n > new => layouts'[n] = <<0, 0>>  BY <1>3, <2>3, <2>4
  <2>. QED  BY <1>2, <1>3, <2>2, <2>3, <2>5
<1>6. CASE ~LayoutChanged
  <2>1. inventory.epoch = scan.epoch /\ inventory.displays = scan.displays
    BY <1>6 DEF LayoutChanged
  <2>2. new = old /\ old # 0 /\ old \in 0..inventoryRevision + 1
    BY <1>1, <1>2, <1>3, <1>6, <2>1
  <2>3. layouts[old] = <<scan.epoch, scan.displays>>  BY <1>3, <2>1, <2>2
  <2>4. <<scan.epoch, scan.displays>> # <<0, 0>>  BY <1>2
  <2>5. layouts' = layouts  BY <1>1, <2>2, <2>3, <2>4
  <2>. QED  BY <1>3, <2>2, <2>3, <2>5
<1>. QED  BY <1>5, <1>6

\* A snapshot is published: a window that is reported closed was not listed, or
\* its role was not read.
LEMMA RefreshCloses ==
  ASSUME RegistryInv, RefreshPublishes
  PROVE  ClosingInv'
<1>. DEFINE published == {e \in scan.read : Publishable(e)}
            serial == Serials(published)
            fresh == Cardinality({e \in published : ~SameIdentity(e)})
            asked == closing.element
<1>1. /\ scan.phase = "collected" /\ inventory'.windows = published /\ inventory'.serial = serial
      /\ \A e \in published : inventory'.kind[e] = scan.kind[e]
      /\ ClassifyClose(TRUE)
  BY RefreshFacts
<1>2. /\ Handed /\ scan.read \subseteq Elements /\ scan.looked \subseteq Elements
      /\ \A w \in scan.read \ Sheets : scan.kind[w] \in {"window", "unknown"}
      /\ scan.status \in Certain => scan.looked \ Sheets \subseteq scan.read
  BY <1>1 DEF RegistryInv, ReadInv, Handed
<1>3. \A e \in published : named[e] # 0 => serial[e] = named[e]
  <2>1. published \in SUBSET scan.read  OBVIOUS
  <2>2. serial = Serials(published) /\ fresh = Cardinality({e \in published : ~SameIdentity(e)})
    OBVIOUS
  <2>. HIDE DEF published, serial, fresh
  <2>. QED  BY <1>1, <2>1, <2>2, SerialsAre
<1>4. closing' = NoClose  BY <1>1 DEF ClassifyClose
<1>5. CASE verdict' = Unanswered
  <2>1. ~verdict'.listed /\ verdict'.element = "none"  BY <1>5 DEF Unanswered
  <2>. QED  BY <1>4, <2>1 DEF ClosingInv, ClosedIsGone
<1>6. CASE verdict' # Unanswered
  <2>1. /\ closing # NoClose /\ scan.status \in Certain
        /\ \A e \in published : scan.kind[e] = "window" => serial[e] # closing.serial
        /\ verdict' = [element |-> asked, listed |-> asked \in scan.looked,
                       unread |-> asked \in OfKind("unknown")]
    <3>. HIDE DEF published, serial
    <3>. QED  BY <1>1, <1>6 DEF ClassifyClose
  <2>2. asked \in inventory.windows \ Sheets /\ closing.serial = inventory.serial[asked]
    BY <2>1 DEF RegistryInv, ClosingInv
  <2>3. asked \in Elements /\ closing.serial = named[asked] /\ named[asked] # 0
    BY <2>2, InventoryHas DEF RegistryInv, PublishedInv
  <2>4. ASSUME asked \in scan.looked  PROVE asked \in OfKind("unknown")
    <3>1. asked \in scan.read \ Sheets  BY <1>2, <2>1, <2>2, <2>4
    <3>2. scan.kind[asked] \in {"window", "unknown"}  BY <1>2, <3>1
    <3>3. asked \in published  BY <3>1, <3>2 DEF Publishable
    <3>. HIDE DEF published, serial
    <3>4. scan.kind[asked] # "window"  BY <1>3, <2>1, <2>3, <3>3
    <3>. QED  BY <3>1, <3>2, <3>4 DEF OfKind
  <2>5. /\ verdict'.element = asked /\ verdict'.listed = (asked \in scan.looked)
        /\ verdict'.unread = (asked \in OfKind("unknown"))
    <3>. HIDE DEF asked, OfKind
    <3>. QED  BY <2>1
  <2>6. verdict'.listed => verdict'.unread  BY <2>4, <2>5
  <2>. QED  BY <1>4, <2>3, <2>5, <2>6 DEF ClosingInv, ClosedIsGone
<1>. QED  BY <1>5, <1>6

\* A refresh publishes its snapshot.
LEMMA RegPublishes ==
  ASSUME RegistryInv, RefreshPublishes
  PROVE  RegistryInv'
<1>1. /\ scan.phase = "collected" /\ scan' = NoScan /\ inventoryRevision' = inventoryRevision + 1
      /\ UNCHANGED <<process, born, listed, attached, displays, untold, changes, refreshNumber,
                     displayEpoch, topologyReady>>
  BY RefreshFacts
<1>2. ListedInv'  BY <1>1 DEF RegistryInv, ListedInv
<1>3. CountsInv'  BY <1>1, InventoryHas DEF RegistryInv, CountsInv, NoScan
<1>4. ReadInv'  BY <1>1 DEF ReadInv, Handed, NoScan
<1>. QED  BY <1>2, <1>3, <1>4, RefreshNames, RefreshLayouts, RefreshCloses DEF RegistryInv

\* A refresh fails: the snapshot before it stays.
LEMMA RegFails ==
  ASSUME RegistryInv, RefreshFails
  PROVE  RegistryInv'
<1>1. /\ UNCHANGED <<process, born, listed, attached, displays, untold, changes, handles, nextToken,
                     refreshNumber, displayEpoch, topologyReady, identities, inventoryRevision,
                     nextSerial, inventory, named, bearer, layouts>>
      /\ scan' = NoScan /\ closing' = NoClose /\ verdict' = Unanswered
  BY DEF RefreshFails, ClassifyClose, worldVarsOfRegistry, handleVars, recordVars, historyVars
<1>2. ListedInv' /\ CountsInv' /\ HandlesInv' /\ ReadInv'
  BY <1>1 DEF RegistryInv, ListedInv, CountsInv, HandlesInv, Held, ReadInv, Handed, NoScan
<1>3. NamesInv'
  <2>1. \A e \in Elements : MayBeRead(e)' => MayBeRead(e)  BY <1>1 DEF MayBeRead, Handed, NoScan
  <2>. QED  BY <1>1, <2>1 DEF RegistryInv, NamesInv
<1>4. PublishedInv' /\ LayoutsInv'
  BY <1>1 DEF RegistryInv, PublishedInv, MatchesAreExclusive, SheetsHaveOwners, LayoutsInv
<1>5. ClosingInv'
  <2>1. ~verdict'.listed  BY <1>1 DEF Unanswered
  <2>. QED  BY <1>1, <2>1 DEF ClosingInv, ClosedIsGone, Unanswered
<1>. QED  BY <1>2, <1>3, <1>4, <1>5 DEF RegistryInv

\* A close command begins a refresh of its own.
LEMMA RegCloses ==
  ASSUME RegistryInv, NEW e \in Elements, CloseWindow(e)
  PROVE  RegistryInv'
<1>1. /\ e \in inventory.windows \ Sheets /\ BeginsRefresh /\ verdict' = Unanswered
      /\ closing'.element = e /\ closing'.serial = inventory.serial[e] /\ listed' \subseteq listed
      /\ UNCHANGED <<process, born, attached, displays, untold, changes, handleVars, displayEpoch,
                     topologyReady, recordVars, historyVars>>
  BY DEF CloseWindow, Resolves, RegistryInv, PublishedInv
<1>2. \/ closing' = closing
      \/ /\ closing'.element \in inventory.windows \ Sheets
         /\ closing'.serial = inventory.serial[closing'.element]
  BY <1>1
<1>. QED  BY <1>1, <1>2, RegBegins

\* Every step keeps the invariant.
LEMMA RegistrySteps == RegistryInv /\ [RegistryNext]_registryVars => RegistryInv'
<1>. SUFFICES ASSUME RegistryInv, [RegistryNext]_registryVars  PROVE RegistryInv'
  OBVIOUS
<1>1. CASE RegistryWorld
  BY <1>1, RegWindowsChange, RegProcessChanges, RegDisplaysChange DEF RegistryWorld
<1>2. CASE DisplayTopologyChanged  BY <1>2, RegDisplaysChange
<1>3. CASE RefreshBegins
  <2>1. /\ BeginsRefresh /\ verdict' = Unanswered /\ closing' = closing /\ listed' \subseteq listed
        /\ UNCHANGED <<process, born, attached, displays, untold, changes, handleVars, displayEpoch,
                       topologyReady, recordVars, historyVars>>
    BY <1>3 DEF RefreshBegins, worldVarsOfRegistry
  <2>. QED  BY <2>1, RegBegins
<1>4. CASE ScanApplication  BY <1>4, RegScan
<1>5. CASE CollectDisplays  BY <1>5, RegCollects
<1>6. CASE RefreshPublishes  BY <1>6, RegPublishes
<1>7. CASE RefreshFails  BY <1>7, RegFails
<1>8. CASE \E e \in Elements : CloseWindow(e)  BY <1>8, RegCloses
<1>9. CASE UNCHANGED registryVars
  <2>1. UNCHANGED <<process, born, listed, attached, displays, untold, changes, handles, nextToken,
                    refreshNumber, displayEpoch, topologyReady, scan, identities,
                    inventoryRevision, nextSerial, inventory, closing, verdict, named, bearer,
                    layouts>>
    BY <1>9 DEF registryVars, worldVarsOfRegistry, handleVars, recordVars, historyVars
  <2>2. ListedInv' /\ CountsInv' /\ HandlesInv' /\ ReadInv'
    BY <2>1 DEF RegistryInv, ListedInv, CountsInv, HandlesInv, Held, ReadInv, Handed
  <2>3. NamesInv'  BY <2>1 DEF RegistryInv, NamesInv, MayBeRead, Handed
  <2>4. PublishedInv' /\ LayoutsInv' /\ ClosingInv'
    BY <2>1 DEF RegistryInv, PublishedInv, MatchesAreExclusive, SheetsHaveOwners, LayoutsInv, ClosingInv,
              ClosedIsGone
  <2>. QED  BY <2>2, <2>3, <2>4 DEF RegistryInv
<1>. QED  BY <1>1, <1>2, <1>3, <1>4, <1>5, <1>6, <1>7, <1>8, <1>9 DEF RegistryNext

\* The inventory, its handles, its names and the scan that fills them agree.
THEOREM RegistryIsConsistent == RegistrySpec => []RegistryInv
<1>1. RegistryInit => RegistryInv  BY RegistryStarts
<1>2. RegistryInv /\ [RegistryNext]_registryVars => RegistryInv'  BY RegistrySteps
<1>. QED  BY <1>1, <1>2, PTL DEF RegistrySpec

\* What the invariant says of windows and displays is what the inventory promises.
LEMMA RegistryTells == RegistryInv => InventoryIsTrue
<1>. SUFFICES ASSUME RegistryInv  PROVE InventoryIsTrue
  OBVIOUS
<1>1. RefsNameTheirWindows /\ PublishedWindowsAreHeld /\ MatchesAreExclusive /\ SheetsHaveOwners
  BY DEF RegistryInv, PublishedInv, RefsNameTheirWindows, PublishedWindowsAreHeld
<1>2. LayoutIsOneLayout  BY DEF RegistryInv, LayoutsInv, LayoutIsOneLayout
<1>3. ClosedIsGone  BY DEF RegistryInv, ClosingInv
<1>. QED  BY <1>1, <1>2, <1>3 DEF InventoryIsTrue

\* The registry's variables have their types (RegistryTypeOK).
LEMMA RegistryTypes == RegistryInv => RegistryTypeOK
<1>. SUFFICES ASSUME RegistryInv  PROVE RegistryTypeOK
  OBVIOUS
<1>1. /\ process \in {0, born} /\ born \in 1..Incarnations
      /\ listed \subseteq Elements /\ attached \subseteq SheetPairs
  BY DEF RegistryInv, ListedInv
<1>2. /\ handles \in [Elements -> 0..nextToken]
      /\ Cardinality({e \in Elements : handles[e] # 0}) <= HandleLimit
  BY DEF RegistryInv, HandlesInv, Held
<1>3. identities \in [Elements -> [token : 0..nextToken, serial : 0..nextSerial, seen : 0..inventoryRevision]]
  BY DEF RegistryInv, NamesInv
<1>4. /\ scan.phase \in {"idle", "asking", "scanned", "collected"}
      /\ inventory.windows \subseteq Elements /\ inventory.revision = inventoryRevision
      /\ displayEpoch \in 1..LastEpoch /\ topologyReady \in BOOLEAN
      /\ verdict.element \in Elements \cup {"none"}
  BY DEF RegistryInv, ReadInv, PublishedInv, CountsInv, ClosingInv
<1>. QED  BY <1>1, <1>2, <1>3, <1>4 DEF RegistryTypeOK

-----------------------------------------------------------------------------
(* The helper.                                                             *)

\* The observer's variables have their types (ObserverTypeOK).
LEMMA ObserverKeepsTypes == WatchInv => ObserverTypeOK
<1>. SUFFICES ASSUME WatchInv  PROVE ObserverTypeOK
  OBVIOUS
<1>1. binder \in BinderRecord /\ baseline \in BOOLEAN /\ pushActive \in BOOLEAN /\ gap \in BOOLEAN
  BY DEF WatchInv, ObserverTypes
<1>2. /\ tap \in [Instances -> {"none", "created", "live", "stopped"}]
      /\ sinks \subseteq Instances /\ gapped \subseteq Instances
      /\ recorded \in [Instances -> 0..MaxRecorded]
      /\ Len(history) <= HistoryLimit /\ Len(unsent) <= PushLimit /\ Len(sent) <= MaxRecorded
      /\ lastPushed \in 0..MaxRecorded
      /\ answer \in {"none", "ok", "clean", "unknown"}
  BY DEF WatchInv, ObserverTypes
<1>. QED  BY <1>1, <1>2 DEF ObserverTypeOK, BinderRecord

\* Each component of the helper behaves as it does on its own.
LEMMA HelperRunsEach ==
  HelperSpec => ExecutorSpec /\ RouterSpec /\ ObserverSpec /\ SubscriptionsSpec /\ RegistrySpec
<1>1. HelperInit => ExecutorInit /\ RouterInit /\ ObserverInit /\ SubscriptionsInit /\ RegistryInit
  BY DEF HelperInit
<1>2. ASSUME [HelperNext]_helperVars
      PROVE  /\ [ExecutorNext]_executorVars /\ [RouterNext]_routerVars /\ [ObserverNext]_observerVars
             /\ [SubscriptionsNext]_subscriptionVars /\ [RegistryNext]_registryVars
  BY <1>2 DEF HelperNext, helperVars
<1>. QED
  BY <1>1, <1>2, PTL
  DEF HelperSpec, ExecutorSpec, RouterSpec, ObserverSpec, SubscriptionsSpec, RegistrySpec

\* In the helper, input that is held is on record while it is held (HeldInputIsSafe).
THEOREM HelperHoldsInputSafely == HelperSpec => []HeldInputIsSafe
  BY HelperRunsEach, HeldInputStaysSafe, PTL

\* In the helper, captures are owned and settled, and their receipts stay (CaptureOwnership).
THEOREM HelperOwnsCaptures == HelperSpec => CaptureOwnership
  BY HelperRunsEach, CapturesStayOwned, PTL

\* What the helper's inventory says of windows and displays is true (InventoryIsTrue).
THEOREM InventoryStaysTrue == HelperSpec => []InventoryIsTrue
<1>1. RegistryInv => InventoryIsTrue  BY RegistryTells
<1>. QED  BY <1>1, HelperRunsEach, RegistryIsConsistent, PTL

\* What the helper says of user activity is true (ObservationIsTrue).
THEOREM ObservationStaysTrue == HelperSpec => ObservationIsTrue
<1>1. ASSUME ObserverIsTrue', SubscriptionInv, [SubscriptionsStayTrue]_subscriptionVars, [HelperNext]_helperVars
      PROVE  [/\ component = "observer" => ObserverIsTrue'
              /\ component = "subscriptions" => SubscriptionsStayTrue]_helperVars
  <2>1. CASE UNCHANGED helperVars  BY <2>1
  <2>2. CASE HelperNext
    <3>1. UNCHANGED subscriptionVars => SubscriptionsStayTrue
      BY <1>1 DEF SubscriptionInv, ListenedTo, subscriptionVars, SubscriptionsStayTrue
    <3>2. SubscriptionsStayTrue  BY <1>1, <3>1
    <3>. QED  BY <1>1, <3>2
  <2>. QED  BY <1>1, <2>1, <2>2
<1>. QED
  BY <1>1, HelperRunsEach, ObserverTellsTheTruth, SubscriptionsAreTrue, SubscriptionsAreConsistent, PTL
  DEF HelperSpec, ObservationIsTrue

\* The variables of the helper keep their types, for any constants (HelperTypeOK).
THEOREM HelperKeepsItsTypes == HelperSpec => []HelperTypeOK
<1>. DEFINE Component == component \in {"executor", "router", "observer", "subscriptions", "registry"}
<1>1. HelperInit => Component  BY DEF HelperInit
<1>2. Component /\ [HelperNext]_helperVars => Component'
  BY DEF HelperNext, helperVars
<1>3. Component /\ ExecutorTypeOK /\ RouterInv /\ WatchInv /\ SubscriptionInv /\ RegistryInv => HelperTypeOK
  <2>1. RouterInv => RouterTypeOK  BY DEF RouterInv
  <2>2. SubscriptionInv => SubscriptionsTypeOK  BY DEF SubscriptionInv, SubscriptionTypes
  <2>. QED  BY <2>1, <2>2, ObserverKeepsTypes, RegistryTypes DEF HelperTypeOK
<1>. HIDE DEF Component
<1>. QED
  BY <1>1, <1>2, <1>3, HelperRunsEach, ExecutorKeepsItsTypes, RouterIsConsistent,
     ObserverIsConsistent, SubscriptionsAreConsistent, RegistryIsConsistent, PTL
  DEF HelperSpec
=============================================================================
