------------------------------ MODULE CaptureTask ------------------------------
(***************************************************************************)
(* One capture task of the native helper (native/src/capture/               *)
(* meta_capture.m): ask the system what can be captured, open a stream,     *)
(* accept one fresh frame, encode it, stop the stream and answer once.      *)
(*                                                                         *)
(* Everything the session does runs on its own serial queue, so a handler   *)
(* is one action; what the system does between two handlers is the          *)
(* environment's.  The system's answers reach the queue in any order, late  *)
(* or never, and two timers stand for the answers that never come.         *)
(***************************************************************************)
EXTENDS Naturals, FiniteSets

CONSTANT MaxShotFaults  \* refusals and errors the system may answer with

ASSUME CaptureAssumption == MaxShotFaults \in Nat

VARIABLES
  shot,         \* the session's own fields
  sckStream,    \* what the system's stream really does
  shotAnswers,  \* answers of the system that wait in the session's queue
  stopsHeard,   \* stop calls the system has answered
  cancelCalls,  \* a caller has asked to cancel; the call waits in the queue
  shotFaults

shotVars == <<shot, sckStream, shotAnswers, stopsHeard, cancelCalls, shotFaults>>

Outcomes == {"none", "succeeded", "failed", "cancelled", "timed-out"}

CaptureInit ==
  /\ shot = [begun |-> FALSE, contentAsked |-> FALSE, stream |-> FALSE,
             started |-> FALSE, stopped |-> FALSE, stopRequested |-> FALSE,
             stopInFlight |-> FALSE, attempts |-> 0, accepted |-> FALSE,
             encoding |-> FALSE, png |-> FALSE, cancelled |-> FALSE,
             retained |-> FALSE, delivered |-> FALSE, outcome |-> "none",
             cleanup |-> "pending", picture |-> FALSE, answers |-> 0,
             timers |-> {}, active |-> TRUE, drained |-> FALSE]
  /\ sckStream = "none"
  /\ shotAnswers = {}
  /\ stopsHeard = {}
  /\ cancelCalls = "unused"
  /\ shotFaults = 0

(***************************************************************************)
(* What a handler does to the session's fields.                            *)
(***************************************************************************)

\* The status other threads read; every handler ends by publishing it.
StopIsEnough(s) == ~s.stream \/ s.stopRequested  \* mutant
SystemResourceStopped(s) == ~s.stream \/ s.stopped
Refreshed(s) ==
  [s EXCEPT !.drained = s.delivered /\ SystemResourceStopped(s) /\ ~s.encoding]

\* A success carries the picture.
DeliverAgain(s, cleanup) ==  \* mutant
  Refreshed([s EXCEPT !.delivered = TRUE, !.cleanup = cleanup, !.answers = s.answers + 1,
                      !.picture = s.png /\ s.outcome = "succeeded",
                      !.timers = s.timers \ {"capture"}])
Deliver(s, cleanup) ==
  IF s.delivered THEN s
  ELSE Refreshed([s EXCEPT !.delivered = TRUE, !.cleanup = cleanup,
                           !.answers = s.answers + 1,
                           !.picture = s.png /\ s.outcome = "succeeded",
                           !.timers = s.timers \ {"capture"}])

FinishWithoutStream(s, outcome) ==
  IF s.delivered THEN s
  ELSE [Deliver([s EXCEPT !.outcome = outcome, !.stopRequested = TRUE,
                          !.stopped = TRUE, !.stopInFlight = FALSE,
                          !.timers = s.timers \ {"capture"}], "complete")
        EXCEPT !.active = FALSE]

\* At most two stop calls: the second one is for a start that came late.
NoStopTimer(s) ==  \* mutant
  IF ~s.stream \/ s.stopped \/ s.stopInFlight \/ s.attempts >= 2 THEN s
  ELSE Refreshed([s EXCEPT !.stopInFlight = TRUE, !.attempts = s.attempts + 1])
RequestStopAttempt(s) ==
  IF ~s.stream \/ s.stopped \/ s.stopInFlight \/ s.attempts >= 2 THEN s
  ELSE Refreshed([s EXCEPT !.stopInFlight = TRUE, !.attempts = s.attempts + 1,
                           !.timers = s.timers \cup {"stop"}])

BeginStop(s) == RequestStopAttempt([s EXCEPT !.stopRequested = TRUE])

FinishCapture(s, outcome) ==
  IF s.delivered \/ s.stopRequested THEN s
  ELSE IF ~s.stream THEN FinishWithoutStream(s, outcome)
  ELSE BeginStop([s EXCEPT !.outcome = outcome, !.timers = s.timers \ {"capture"}])

StoppedOnly(s) == s.stopped  \* mutant
MayFinalize(s) == s.stopped /\ ~s.encoding

FinalizeStoppedResourceIfPossible(s) ==
  IF ~MayFinalize(s) THEN Refreshed(s)
  ELSE [Refreshed([Deliver([s EXCEPT !.timers = s.timers \ {"stop"}], "complete")
                   EXCEPT !.retained = FALSE])
        EXCEPT !.active = FALSE]

CleanupUnknown(s) ==
  Refreshed([Deliver([s EXCEPT !.stopInFlight = FALSE,
                               !.timers = s.timers \ {"stop"}], "unknown")
             EXCEPT !.retained = TRUE])

(***************************************************************************)
(* The handlers.                                                           *)
(***************************************************************************)

SystemIdle == UNCHANGED <<sckStream, shotAnswers, stopsHeard>>
Fails == /\ shotFaults < MaxShotFaults
         /\ shotFaults' = shotFaults + 1

\* The request is checked, then the permission; both end the task at once.
CaptureBegin ==
  /\ ~shot.begun
  /\ UNCHANGED cancelCalls
  /\ SystemIdle
  /\ \/ /\ shot' = [shot EXCEPT !.begun = TRUE, !.contentAsked = TRUE,
                                !.timers = @ \cup {"capture"}]
        /\ UNCHANGED shotFaults
     \/ /\ Fails
        /\ shot' = FinishWithoutStream([shot EXCEPT !.begun = TRUE], "failed")

\* What can be captured is known.  A task that has ended takes no notice; one
\* without its target, or whose stream takes no output, ends here.
ReceivedShareableContent ==
  /\ shot.contentAsked
  /\ UNCHANGED <<cancelCalls, stopsHeard, shotAnswers>>
  /\ LET s == [shot EXCEPT !.contentAsked = FALSE]
     IN \/ /\ shot.delivered \/ shot.stopRequested
           /\ shot' = s
           /\ UNCHANGED <<shotFaults, sckStream>>
        \/ /\ ~shot.delivered /\ ~shot.stopRequested
           /\ \/ /\ Fails
                 /\ shot' = FinishWithoutStream(s, "failed")
                 /\ UNCHANGED sckStream
              \/ /\ shot' = Refreshed([s EXCEPT !.stream = TRUE])
                 /\ sckStream' = "starting"
                 /\ UNCHANGED shotFaults

\* The answer to the start.  A task that gave its answer with the cleanup still
\* unknown listens on: a stream that started late must still be stopped.
StillListens == ~shot.delivered \/ shot.retained
LateStart(s) == IF s.stopRequested /\ ~s.stopped THEN RequestStopAttempt(s) ELSE s
CaptureStarted(ok) ==
  /\ <<IF ok THEN "started" ELSE "start-failed", 0>> \in shotAnswers
  /\ shotAnswers' = shotAnswers \ {<<"started", 0>>, <<"start-failed", 0>>}
  /\ UNCHANGED <<sckStream, stopsHeard, cancelCalls, shotFaults>>
  /\ shot' =
       IF ~StillListens THEN shot
       ELSE IF ok THEN LateStart(Refreshed([shot EXCEPT !.started = TRUE]))
       ELSE FinalizeStoppedResourceIfPossible(
              [shot EXCEPT !.stream = FALSE, !.stopped = TRUE,
                           !.stopInFlight = FALSE, !.stopRequested = TRUE,
                           !.outcome = IF shot.stopRequested THEN @ ELSE "failed"])

\* One frame is accepted; frames that are stale or incomplete change nothing
\* that matters here, one that is too large ends the task.
WantsFrame ==
  ~shot.delivered /\ ~shot.stopRequested /\ ~shot.accepted /\ ~shot.cancelled
ConsiderSampleBuffer ==
  /\ sckStream \in {"running", "stopped"}
  /\ WantsFrame
  /\ SystemIdle
  /\ UNCHANGED cancelCalls
  /\ \/ /\ shot' = Refreshed([shot EXCEPT !.accepted = TRUE, !.encoding = TRUE])
        /\ UNCHANGED shotFaults
     \/ /\ Fails
        /\ shot' = FinishCapture(shot, "failed")

\* The picture is encoded, or could not be, or the window moved meanwhile.
EncodedPng ==
  /\ shot.encoding
  /\ SystemIdle
  /\ UNCHANGED cancelCalls
  /\ LET s == Refreshed([shot EXCEPT !.encoding = FALSE])
     IN \/ /\ s.delivered \/ s.stopRequested \/ s.cancelled
           /\ shot' = FinalizeStoppedResourceIfPossible(s)
           /\ UNCHANGED shotFaults
        \/ /\ ~s.delivered /\ ~s.stopRequested /\ ~s.cancelled
           /\ \/ /\ shot' = FinishCapture([s EXCEPT !.png = TRUE], "succeeded")
                 /\ UNCHANGED shotFaults
              \/ /\ Fails
                 /\ shot' = FinishCapture(s, "failed")

CaptureTimedOut ==
  /\ "capture" \in shot.timers
  /\ SystemIdle
  /\ UNCHANGED <<cancelCalls, shotFaults>>
  /\ shot' = FinishCapture([shot EXCEPT !.timers = @ \ {"capture"}], "timed-out")

StopTimedOut ==
  /\ "stop" \in shot.timers
  /\ SystemIdle
  /\ UNCHANGED <<cancelCalls, shotFaults>>
  /\ shot' = CleanupUnknown(shot)

CaptureCancel ==
  /\ shot.begun
  /\ cancelCalls = "queued"
  /\ cancelCalls' = "done"
  /\ SystemIdle
  /\ UNCHANGED shotFaults
  /\ shot' = IF shot.delivered \/ shot.stopRequested THEN shot
             ELSE FinishCapture([shot EXCEPT !.cancelled = TRUE], "cancelled")

\* The answer to a stop call.
StoppedWithError(a, ok) ==
  /\ <<IF ok THEN "stopped" ELSE "stop-failed", a>> \in shotAnswers
  /\ shotAnswers' = shotAnswers \ {<<"stopped", a>>, <<"stop-failed", a>>}
  /\ UNCHANGED <<sckStream, stopsHeard, cancelCalls, shotFaults>>
  /\ shot' = IF ok
             THEN FinalizeStoppedResourceIfPossible(
                    [shot EXCEPT !.stopInFlight = FALSE, !.stream = FALSE,
                                 !.stopped = TRUE])
             ELSE CleanupUnknown(shot)

\* The system ended the stream by itself.
DidStopWithError ==
  /\ <<"died", 0>> \in shotAnswers
  /\ shotAnswers' = shotAnswers \ {<<"died", 0>>}
  /\ UNCHANGED <<sckStream, stopsHeard, cancelCalls, shotFaults>>
  /\ shot' = FinalizeStoppedResourceIfPossible(
               [shot EXCEPT !.stopInFlight = FALSE, !.stopped = TRUE,
                            !.stopRequested = TRUE, !.stream = FALSE,
                            !.outcome = IF shot.stopRequested THEN @ ELSE "failed"])

(***************************************************************************)
(* The system, which owes no answer, and the caller.                       *)
(***************************************************************************)

SystemAnswers(answer, stream) ==
  /\ shotAnswers' = shotAnswers \cup {answer}
  /\ sckStream' = stream
  /\ UNCHANGED <<shot, cancelCalls>>

SystemStarts ==
  /\ sckStream = "starting"
  /\ UNCHANGED stopsHeard
  /\ \/ SystemAnswers(<<"started", 0>>, "running") /\ UNCHANGED shotFaults
     \/ Fails /\ SystemAnswers(<<"start-failed", 0>>, "failed")

\* A stop may overtake the start: the start then fails.
SystemStops ==
  \E a \in 1..shot.attempts \ stopsHeard :
    /\ stopsHeard' = stopsHeard \cup {a}
    /\ \/ /\ sckStream \in {"running", "stopped"}
          /\ SystemAnswers(<<"stopped", a>>, "stopped")
          /\ UNCHANGED shotFaults
       \/ /\ sckStream \in {"starting", "failed"}
          /\ shotAnswers' = shotAnswers
               \cup {<<"stopped", a>>}
               \cup (IF sckStream = "starting" THEN {<<"start-failed", 0>>} ELSE {})
          /\ sckStream' = "failed"
          /\ UNCHANGED <<shot, cancelCalls, shotFaults>>
       \/ /\ Fails
          /\ SystemAnswers(<<"stop-failed", a>>, sckStream)

SystemEndsStream ==
  /\ sckStream = "running"
  /\ Fails
  /\ UNCHANGED stopsHeard
  /\ SystemAnswers(<<"died", 0>>, "stopped")

AskCancel ==
  /\ cancelCalls = "unused"
  /\ cancelCalls' = "queued"
  /\ UNCHANGED <<shot, sckStream, shotAnswers, stopsHeard, shotFaults>>

CaptureNext ==
  \/ CaptureBegin
  \/ ReceivedShareableContent
  \/ \E ok \in BOOLEAN : CaptureStarted(ok)
  \/ ConsiderSampleBuffer
  \/ EncodedPng
  \/ CaptureTimedOut
  \/ StopTimedOut
  \/ CaptureCancel
  \/ \E a \in 1..2, ok \in BOOLEAN : StoppedWithError(a, ok)
  \/ DidStopWithError
  \/ SystemStarts
  \/ SystemStops
  \/ SystemEndsStream
  \/ AskCancel

\* The session's queue, its encoder and its timers run; the system owes nothing.
CaptureFairness ==
  /\ WF_shotVars(CaptureBegin)
  /\ WF_shotVars(EncodedPng)
  /\ WF_shotVars(CaptureTimedOut)
  /\ WF_shotVars(StopTimedOut)

CaptureSpec == CaptureInit /\ [][CaptureNext]_shotVars /\ CaptureFairness

--------------------------------------------------------------------------------

CaptureTypeOK ==
  /\ shot.outcome \in Outcomes
  /\ shot.attempts \in 0..2 /\ shot.answers \in 0..1
  /\ shot.cleanup \in {"pending", "complete", "unknown"}
  /\ shot.timers \subseteq {"capture", "stop"}
  /\ sckStream \in {"none", "starting", "running", "stopped", "failed"}
  /\ stopsHeard \subseteq 1..2
  /\ cancelCalls \in {"unused", "queued", "done"}
  /\ shotFaults \in 0..MaxShotFaults

\* A task that reports itself drained, or answers that its cleanup is complete,
\* leaves no stream running in the system and no encoder at work: the router
\* frees the task, and a rotation replaces the helper, on that word alone.
StreamMayRun == sckStream \in {"starting", "running"}
DrainedIsStopped ==
  shot.drained \/ shot.cleanup = "complete" => ~StreamMayRun /\ ~shot.encoding

\* A session whose stream may still run, or that still encodes, is kept alive by
\* the set of active sessions, even when its caller has let the task go: nobody
\* else would hear the stream stop.
RunningIsRetained == StreamMayRun \/ shot.encoding => shot.active

\* The caller hears once, a success brings the picture and nothing else does.
AnswersOnce ==
  /\ shot.answers = IF shot.delivered THEN 1 ELSE 0
  /\ shot.delivered => shot.picture = (shot.outcome = "succeeded")
  /\ shot.picture => shot.accepted /\ ~shot.cancelled

\* Whatever the system leaves unanswered, the caller is answered.
CaptureIsAnswered == <>shot.delivered

\* A task that says it is over is over, and its caller hears so once.
CaptureEndsClean == DrainedIsStopped /\ RunningIsRetained /\ AnswersOnce
================================================================================
