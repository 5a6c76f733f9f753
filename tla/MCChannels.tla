----------------------------- MODULE MCChannels -----------------------------
(***************************************************************************)
(* Instances of what stands between the runtime and its helper for TLC:    *)
(* the session and the heartbeat on the runtime's side, the command loop   *)
(* and a capture on the helper's.  They share no state, so one run         *)
(* explores each of them on its own: component says which, and the others  *)
(* rest in their initial states.                                           *)
(***************************************************************************)
EXTENDS NativeSession, NativeCommandLoop, CaptureTask, Heartbeat, TLC

CONSTANTS e1, e2, e3

\* An action, an observer, and a control call of the rotation.
OneOfEach == e1 :> "mutation" @@ e2 :> "prepare" @@ e3 :> "control"

VARIABLE component

channelVars == <<component, sessionVars, loopVars, shotVars, heartVars>>

ChannelsInit ==
  /\ component \in {"session", "loop", "capture", "heartbeat"}
  /\ SessionInit /\ LoopInit /\ CaptureInit /\ HeartInit

ChannelsNext ==
  \/ /\ component = "session" /\ SessionNext
     /\ UNCHANGED <<component, loopVars, shotVars, heartVars>>
  \/ /\ component = "loop" /\ LoopNext
     /\ UNCHANGED <<component, sessionVars, shotVars, heartVars>>
  \/ /\ component = "capture" /\ CaptureNext
     /\ UNCHANGED <<component, sessionVars, loopVars, heartVars>>
  \/ /\ component = "heartbeat" /\ HeartNext
     /\ UNCHANGED <<component, sessionVars, loopVars, shotVars>>

\* SessionFairness, LoopFairness, CaptureFairness and HeartFairness, each while its
\* component is the one that runs: those that rest owe nothing.
ChannelsFairness ==
  /\ \A e \in Exchanges :
       /\ WF_sessionVars(component = "session" /\ GiveUp(e))
       /\ WF_sessionVars(component = "session" /\ Undo(e))
       /\ WF_sessionVars(component = "session" /\ Authorized(e))
       /\ WF_sessionVars(component = "session" /\ AskView(e))
       /\ WF_sessionVars(component = "session" /\ Exchange(e))
  /\ WF_sessionVars(component = "session" /\ ChildCloses)
  /\ WF_loopVars(component = "loop" /\ Control)
  /\ WF_loopVars(component = "loop" /\ ForceExit)
  /\ WF_loopVars(component = "loop" /\ (TakeNext \/ DoNothing \/ PostAfterCheckpoint))
  /\ SF_loopVars(component = "loop" /\ Checkpoint /\ worker'.at = "idle")
  /\ WF_shotVars(component = "capture" /\ CaptureBegin)
  /\ WF_shotVars(component = "capture" /\ EncodedPng)
  /\ WF_shotVars(component = "capture" /\ CaptureTimedOut)
  /\ WF_shotVars(component = "capture" /\ StopTimedOut)
  /\ WF_heartVars(component = "heartbeat" /\ \E outcome \in {"ok", "refused", "late"} : BeatSettles(outcome))
  /\ WF_heartVars(component = "heartbeat" /\ (BeatContinues \/ KickRuns))
  /\ WF_heartVars(component = "heartbeat" /\ BeatTimerFires)

ChannelsSpec == ChannelsInit /\ [][ChannelsNext]_channelVars /\ ChannelsFairness

\* The variables of the component that runs keep their types.  Those that rest stay as
\* they are.
ChannelsTypeOK ==
  CASE component = "session" -> SessionTypeOK
    [] component = "loop" -> LoopTypeOK
    [] component = "capture" -> CaptureTypeOK
    [] component = "heartbeat" -> HeartTypeOK

\* Nobody waits forever for a helper that is silent: an observer nobody wants is
\* undone or goes with its helper, a request is answered or the helper is seen to
\* end, a capture is delivered, a missing beat is noticed.
SilenceEnds ==
  /\ NoOrphanObserver /\ RequestsAreAnswered /\ SilenceIsNoticed
  /\ component = "capture" => CaptureIsAnswered
=============================================================================
