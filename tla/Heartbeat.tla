------------------------------- MODULE Heartbeat -------------------------------
(***************************************************************************)
(* The heartbeat the runtime sends the native helper while an operation of  *)
(* its own is in progress (runtime/src/heartbeat.ts, with the host's        *)
(* callbacks in runtime/src/host.ts).  An idle desktop has no heartbeat.    *)
(*                                                                         *)
(* The activity of the core goes up and down at any moment, also twice      *)
(* before a beat has answered; an epoch tells the beats of one activity     *)
(* from those of the next.  A failed beat quarantines the runtime.          *)
(***************************************************************************)
EXTENDS Naturals

CONSTANTS MaxActivities,  \* times the core becomes active or idle
          MaxBeats        \* beats that are sent

ASSUME HeartAssumption == MaxActivities \in Nat \ {0} /\ MaxBeats \in Nat

VARIABLES
  heart,      \* active, epoch, stopped: the closure's flags
  beat,       \* the beat in flight: the epoch it was sent in, and its outcome
  beatTimer,  \* the next beat is scheduled
  kicked,     \* a microtask will kick
  blamed,     \* the epoch and the beat a failure was reported for
  beats       \* beats sent so far

heartVars == <<heart, beat, beatTimer, kicked, blamed, beats>>

NoBeat == [epoch |-> 0, outcome |-> "none"]
Pending == beat # NoBeat

HeartInit ==
  /\ heart = [active |-> FALSE, epoch |-> 1, stopped |-> FALSE]
  /\ beat = NoBeat
  /\ beatTimer = FALSE
  /\ kicked = FALSE
  /\ blamed = NoBeat
  /\ beats = 0

\* One beat at a time; the bound stands for a run long enough.
Kick(h) ==
  IF ~h.stopped /\ h.active /\ ~Pending /\ beats < MaxBeats
  THEN /\ beat' = [epoch |-> h.epoch, outcome |-> "waiting"]
       /\ beats' = beats + 1
  ELSE UNCHANGED <<beat, beats>>

\* The helper acknowledges, refuses, or the deadline passes first.
BeatSettles(outcome) ==
  /\ beat.outcome = "waiting"
  /\ beat' = [beat EXCEPT !.outcome = outcome]
  /\ UNCHANGED <<heart, beatTimer, kicked, blamed, beats>>

AnyError ==  \* mutant
  beat.outcome \in {"refused", "late", "aborted"} /\ ~heart.stopped /\ heart.active
RefusalOnly ==  \* mutant
  beat.outcome = "refused" /\ ~heart.stopped /\ heart.active /\ beat.epoch = heart.epoch
\* An error counts only while the operation it was sent for lasts.
ItsOwnError ==
  /\ beat.outcome \in {"refused", "late", "aborted"}
  /\ ~heart.stopped /\ heart.active /\ beat.epoch = heart.epoch

NeverStale == FALSE  \* mutant
\* A new activity began while the beat of the old one was in flight.
Stale == beat.epoch # heart.epoch

\* The continuation of the beat: report, then arrange the next one.
BeatContinues ==
  /\ beat.outcome \notin {"none", "waiting"}
  /\ heart' = [heart EXCEPT !.stopped = @ \/ ItsOwnError]
  /\ blamed' = IF ItsOwnError THEN beat ELSE blamed
  /\ beat' = NoBeat
  /\ LET again == ~heart'.stopped /\ heart.active
     IN /\ kicked' = (kicked \/ (again /\ Stale))
        /\ beatTimer' = (beatTimer \/ (again /\ beat.epoch = heart.epoch))
  /\ UNCHANGED beats

KickRuns ==
  /\ kicked
  /\ kicked' = FALSE
  /\ UNCHANGED <<heart, beatTimer, blamed>>
  /\ Kick(heart)

BeatTimerFires ==
  /\ beatTimer
  /\ beatTimer' = FALSE
  /\ UNCHANGED <<heart, kicked, blamed>>
  /\ Kick(heart)

AbortBeat ==
  /\ beat' = IF beat.outcome = "waiting"
             THEN [beat EXCEPT !.outcome = "aborted"] ELSE beat
  /\ UNCHANGED beats

\* The core's activity changes: the beat of an ended operation is aborted.
SetActive ==
  /\ ~heart.stopped
  /\ heart.epoch < MaxActivities
  /\ heart' = [heart EXCEPT !.active = ~@, !.epoch = @ + 1]
  /\ beatTimer' = FALSE
  /\ UNCHANGED <<kicked, blamed>>
  /\ IF heart'.active THEN Kick(heart')
     ELSE AbortBeat

HeartStops ==
  /\ ~heart.stopped
  /\ heart' = [heart EXCEPT !.stopped = TRUE]
  /\ beatTimer' = FALSE
  /\ AbortBeat
  /\ UNCHANGED <<kicked, blamed>>

HeartNext ==
  \/ \E outcome \in {"ok", "refused", "late"} : BeatSettles(outcome)
  \/ BeatContinues
  \/ KickRuns
  \/ BeatTimerFires
  \/ SetActive
  \/ HeartStops

\* The deadline settles every beat; the runtime's tasks and timers run.
HeartFairness ==
  /\ WF_heartVars(\E outcome \in {"ok", "refused", "late"} : BeatSettles(outcome))
  /\ WF_heartVars(BeatContinues)
  /\ WF_heartVars(KickRuns)
  /\ WF_heartVars(BeatTimerFires)

HeartSpec == HeartInit /\ [][HeartNext]_heartVars /\ HeartFairness

--------------------------------------------------------------------------------

HeartTypeOK ==
  /\ heart.epoch \in 1..MaxActivities
  /\ beat.outcome \in {"none", "waiting", "ok", "refused", "late", "aborted"}
  /\ beats \in 0..MaxBeats

\* While an operation of the helper is in progress a beat is in flight or will
\* be sent, however often the activity went down and up during the last one:
\* the helper's own watchdog would stop the input of a silent runtime.
ActiveIsWatched ==
  heart.active /\ ~heart.stopped /\ beats < MaxBeats => Pending \/ beatTimer \/ kicked

\* A beat the helper leaves unanswered while its operation lasts
\* ends the heartbeat, and so quarantines the runtime.
SilenceIsNoticed ==
  \A e \in 1..MaxActivities :
    (beat = [epoch |-> e, outcome |-> "late"] /\ heart.active /\ heart.epoch = e)
      ~> (heart.stopped \/ heart.epoch # e)

\* The heartbeat watches what is in progress and blames nothing else: a failure that
\* quarantines the runtime is that of a beat sent for the operation in progress, never
\* the late error of one that has ended.
HeartbeatIsTrue ==
  [][ /\ ActiveIsWatched'
      /\ blamed' # blamed => heart.active /\ blamed'.epoch = heart.epoch ]_heartVars
=============================================================================
