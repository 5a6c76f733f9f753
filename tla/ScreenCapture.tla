----------------------------- MODULE ScreenCapture -----------------------------
(***************************************************************************)
(* One capture of the screen as the runtime sees it: the adapter that runs  *)
(* the operation (screen/src/adapter.ts), the driver and the protocol task  *)
(* under it (screen/src/native-driver.ts, native/src/capture-client.ts) and *)
(* the registry of the permits they need to speak to the helper             *)
(* (runtime/src/continuations.ts).  The helper's task is the environment.   *)
(*                                                                         *)
(* Three parties read the helper's status and none waits for another: the   *)
(* result, asked for at the start and answered when it comes; the adapter,  *)
(* which cancels and asks at its deadline; and whoever settles a capture     *)
(* whose end was not known.  An answer is a picture of the past: between the *)
(* helper's answer and its use the others may have gone on.                 *)
(***************************************************************************)
EXTENDS Naturals

CONSTANTS
  MaxShotLosses,   \* requests or answers lost on the way
  MaxLateChanges   \* status changes of the helper's task after it has drained

ASSUME ScreenAssumption == MaxShotLosses \in Nat /\ MaxLateChanges \in Nat

VARIABLES
  sckTask,     \* the helper's task
  captureCall,        \* the adapter's capture operation
  asks,       \* the protocol's requests: "result" and "status"
  protocolTask,
  permit,      \* the continuation registry's binding of the task
  driver,
  pendingShot, \* the adapter's record of a capture that is not released
  tombstone,
  lease,       \* the capture-stream lease of the operation in the runtime
  settler,     \* whoever settles a capture whose end was not known
  shotLosses

screenVars == <<sckTask, captureCall, asks, protocolTask, permit, driver, pendingShot,
                tombstone, lease, settler, shotLosses>>

Readers == {"result", "status"}
NoAnswer == [rev |-> 0, drained |-> FALSE, frame |-> FALSE]
Silent(at) == [at |-> at, news |-> FALSE, answer |-> NoAnswer]

ScreenInit ==
  /\ sckTask = [at |-> "none", rev |-> 0, frame |-> FALSE, late |-> 0]
  /\ captureCall = [at |-> "ready", start |-> "none", cleanup |-> "none", told |-> "none", ok |-> FALSE]
  /\ asks = [r \in Readers |-> Silent("idle")]
  /\ protocolTask = [known |-> FALSE, rev |-> 0, terminal |-> FALSE, released |-> FALSE]
  /\ permit = [known |-> FALSE, rev |-> 0, terminal |-> FALSE]
  /\ driver = [task |-> FALSE, key |-> "none"]
  /\ pendingShot = [known |-> FALSE, rev |-> 0, terminal |-> FALSE, stage |-> "none"]
  /\ tombstone = FALSE
  /\ lease = "active"
  /\ settler = "idle"
  /\ shotLosses = 0

(***************************************************************************)
(* The helper's task.  It is drained once its answer is given and its       *)
(* stream has stopped; every change is a new revision of its status.        *)
(***************************************************************************)

Drained(t) == t.at \in {"drained", "released"}
Answered(t) == t.at \in {"answered", "drained"}
Lost == shotLosses < MaxShotLosses /\ shotLosses' = shotLosses + 1

TaskGoesOn ==
  /\ UNCHANGED <<captureCall, asks, protocolTask, permit, driver, pendingShot, tombstone, lease,
                 settler, shotLosses>>
  /\ \/ /\ sckTask.at = "running"
        /\ \E at \in {"answered", "drained"}, frame \in BOOLEAN :
             sckTask' = [sckTask EXCEPT !.at = at, !.rev = @ + 1, !.frame = frame]
     \/ /\ sckTask.at = "answered"
        /\ sckTask' = [sckTask EXCEPT !.at = "drained", !.rev = @ + 1]
     \/ /\ sckTask.at = "drained" /\ sckTask.late < MaxLateChanges
        /\ sckTask' = [sckTask EXCEPT !.rev = @ + 1, !.late = @ + 1]

(***************************************************************************)
(* The permits.  A task is known once the helper has accepted it; its       *)
(* revision never goes back and its end is registered once.                 *)
(***************************************************************************)

MayIssue(purpose) ==
  /\ permit.known /\ permit.rev = protocolTask.rev
  /\ IF purpose = "release"
     THEN permit.terminal /\ lease \in {"active", "revoked"}
     ELSE lease \in {"active", "quarantined"}

\* An equal revision says the same; a lower one is refused, and so is a first end
\* that is no news.
MayAdvance(said) == said.rev = permit.rev \/ (said.rev > permit.rev /\ ~permit.terminal)
Advanced(said) == [permit EXCEPT !.rev = said.rev]
MayMark(said) == IF permit.terminal THEN said.rev = permit.rev ELSE said.rev > permit.rev
Marked(said) == [permit EXCEPT !.rev = said.rev, !.terminal = TRUE]

(***************************************************************************)
(* The protocol task: ask, then make the answer known to the registry.      *)
(***************************************************************************)

\* The request is refused without a permit, or when it finds no such task.
Refused(r) == asks' = [asks EXCEPT ![r] = Silent("failed")]
AskHelper(r) ==
  IF ~protocolTask.released /\ MayIssue(r)
  THEN asks' = [asks EXCEPT ![r] = Silent("sent")]
  ELSE Refused(r)

\* The result waits in the helper for the task's end, or for its own deadline;
\* a status is read at once.
HelperAnswers(r) ==
  /\ asks[r].at = "sent"
  /\ UNCHANGED <<sckTask, captureCall, protocolTask, permit, driver, pendingShot, tombstone, lease,
                 settler>>
  /\ \/ /\ r = "status" \/ Answered(sckTask)
        /\ sckTask.at # "released"
        /\ asks' = [asks EXCEPT ![r].at = "answered",
                       ![r].answer = [rev |-> sckTask.rev, drained |-> Drained(sckTask),
                                      frame |-> r = "result" /\ sckTask.frame]]
        /\ UNCHANGED shotLosses
     \/ Lost /\ Refused(r)
     \/ sckTask.at = "released" /\ Refused(r) /\ UNCHANGED shotLosses

\* Whether an end is news is decided when the answer comes in, and the registry
\* hears of it later: both readers may bring the same end.
AnswerComes(r) ==
  /\ asks[r].at = "answered"
  /\ asks' = [asks EXCEPT ![r].at = "coming", ![r].news = ~protocolTask.terminal]
  /\ UNCHANGED <<sckTask, captureCall, protocolTask, permit, driver, pendingShot, tombstone, lease,
                 settler, shotLosses>>

\* The status of a task that has not ended is advanced, except in a result that
\* comes after its end.
AnswerIsHeard(r) ==
  LET said == asks[r].answer
      mark == said.drained /\ asks[r].news
      advance == ~said.drained /\ (r = "status" \/ ~protocolTask.terminal)
      refused == (mark /\ ~MayMark(said)) \/ (advance /\ ~MayAdvance(said))
      heard == ~refused /\ said.rev >= protocolTask.rev
  IN /\ asks[r].at = "coming"
     /\ UNCHANGED <<sckTask, captureCall, driver, pendingShot, tombstone, lease, settler, shotLosses>>
     /\ permit' = IF refused \/ ~(mark \/ advance) THEN permit
                  ELSE IF mark THEN Marked(said) ELSE Advanced(said)
     /\ protocolTask' = [protocolTask EXCEPT !.terminal = @ \/ (mark /\ ~refused),
                                            !.rev = IF heard THEN said.rev ELSE @]
     /\ IF heard THEN asks' = [asks EXCEPT ![r].at = "heard"] ELSE Refused(r)

\* A picture that cannot be fetched or is not the one the answer describes.
PictureIsRefused ==
  /\ asks["result"].at = "heard" /\ asks["result"].answer.frame
  /\ captureCall.at \in {"waiting", "lastWait"}
  /\ Lost
  /\ Refused("result")
  /\ UNCHANGED <<sckTask, captureCall, protocolTask, permit, driver, pendingShot, tombstone, lease,
                 settler>>

(***************************************************************************)
(* Release.  The driver keeps the key of a release that was tried, so that  *)
(* another one can not be made under a new name.  (It would also answer a   *)
(* release it knows; the adapter forgets the task with the answer and never *)
(* asks again.)                                                            *)
(***************************************************************************)

ReleaseIsRefused(key) == driver.key \notin {"none", key}
KeyKept(key) == [driver EXCEPT !.key = key]
HelperReleases == sckTask.at = "drained" /\ protocolTask.rev = sckTask.rev

\* The helper refuses a revision that is not its last, and a repeated release when
\* another operation has raised the fence since.
\* done: what follows when the release is confirmed; failed: when it is not.
ReleaseTask(key, done, failed) ==
  \/ /\ ReleaseIsRefused(key)
     /\ failed
     /\ UNCHANGED <<sckTask, protocolTask, driver, shotLosses>>
  \/ /\ ~ReleaseIsRefused(key)
     /\ ~driver.task \/ protocolTask.released \/ ~MayIssue("release")
     /\ driver' = KeyKept(key)
     /\ failed
     /\ UNCHANGED <<sckTask, protocolTask, shotLosses>>
  \/ /\ ~ReleaseIsRefused(key)
     /\ driver.task /\ ~protocolTask.released /\ MayIssue("release")
     /\ \/ /\ HelperReleases \/ sckTask.at = "released"
           /\ sckTask' = [sckTask EXCEPT !.at = "released"]
           /\ protocolTask' = [protocolTask EXCEPT !.released = TRUE]
           /\ driver' = [task |-> FALSE, key |-> "none"]
           /\ done
           /\ UNCHANGED shotLosses
        \/ /\ HelperReleases          \* the answer is lost
           /\ Lost
           /\ sckTask' = [sckTask EXCEPT !.at = "released"]
           /\ driver' = KeyKept(key)
           /\ failed
           /\ UNCHANGED protocolTask
        \/ /\ \/ Lost                 \* the request is, or the helper refuses it
              \/ ~HelperReleases /\ UNCHANGED shotLosses
           /\ driver' = KeyKept(key)
           /\ failed
           /\ UNCHANGED <<sckTask, protocolTask>>

(***************************************************************************)
(* The adapter's capture.                                                  *)
(***************************************************************************)

\* What the runtime is told of the cleanup.  A release that is not confirmed
\* leaves it unknown, whatever the helper said of the task.
CleanupAsTheHelperSays(released) == "complete"  \* mutant
CleanupAfter(released) == IF released THEN "complete" ELSE "unknown"
CallEnds(cleanup, ok) == captureCall' = [captureCall EXCEPT !.at = "done", !.told = cleanup, !.ok = ok]

CaptureStarts ==
  /\ captureCall.at = "ready"
  /\ \/ CallEnds("complete", FALSE)   \* refused before anything was asked
     \/ captureCall' = [captureCall EXCEPT !.at = "starting", !.start = "sent"]
  /\ UNCHANGED <<sckTask, asks, protocolTask, permit, driver, pendingShot, tombstone, lease,
                 settler, shotLosses>>

\* The helper takes the request, refuses it before the start, or fails in it; the
\* answer of a task that runs may be lost.
HelperStarts ==
  /\ captureCall.start = "sent"
  /\ UNCHANGED <<asks, protocolTask, permit, driver, pendingShot, tombstone, lease, settler>>
  /\ \/ /\ sckTask' = [sckTask EXCEPT !.at = "running", !.rev = 1]
        /\ \/ captureCall' = [captureCall EXCEPT !.start = "accepted"] /\ UNCHANGED shotLosses
           \/ captureCall' = [captureCall EXCEPT !.start = "failed"] /\ Lost
     \/ /\ \E how \in {"refused", "failed"} : captureCall' = [captureCall EXCEPT !.start = how]
        /\ Lost
        /\ UNCHANGED sckTask

\* The task is bound and its result asked for, also when the adapter has given up;
\* only an adapter that still waits records it.
StartIsHeard ==
  /\ captureCall.start = "accepted"
  /\ permit' = [known |-> TRUE, rev |-> 1, terminal |-> FALSE]
  /\ protocolTask' = [protocolTask EXCEPT !.known = TRUE, !.rev = 1]
  /\ driver' = [driver EXCEPT !.task = TRUE]
  /\ asks' = [asks EXCEPT !["result"] = Silent("sent")]
  /\ IF captureCall.at = "starting"
     THEN /\ captureCall' = [captureCall EXCEPT !.start = "over", !.at = "waiting"]
          /\ pendingShot' = [pendingShot EXCEPT !.known = TRUE]
     ELSE /\ captureCall' = [captureCall EXCEPT !.start = "over"]
          /\ UNCHANGED pendingShot
  /\ UNCHANGED <<sckTask, tombstone, lease, settler, shotLosses>>

\* A refusal before the start leaves nothing behind; of any other failure, and of a
\* start that outlasts the deadline, nothing is known.
StartFails ==
  /\ captureCall.at = "starting"
  /\ \/ captureCall.start = "refused" /\ CallEnds("complete", FALSE)
     \/ captureCall.start # "refused" /\ CallEnds("unknown", FALSE)
  /\ UNCHANGED <<sckTask, asks, protocolTask, permit, driver, pendingShot, tombstone, lease,
                 settler, shotLosses>>

\* The deadline, an abort or a failed result cancels the task; the result has one
\* more second to come; then the status is read, for the record only.
GivesUpWaiting ==
  /\ captureCall.at = "waiting"
  /\ captureCall' = [captureCall EXCEPT !.at = "lastWait"]
  /\ UNCHANGED <<sckTask, asks, protocolTask, permit, driver, pendingShot, tombstone, lease,
                 settler, shotLosses>>
ReadsLastStatus ==
  /\ captureCall.at = "lastWait"
  /\ captureCall' = [captureCall EXCEPT !.at = "reading"]
  /\ AskHelper("status")
  /\ UNCHANGED <<sckTask, protocolTask, permit, driver, pendingShot, tombstone, lease,
                 settler, shotLosses>>
StaysUnresolved ==
  /\ captureCall.at = "reading"
  /\ CallEnds("unknown", FALSE)
  /\ UNCHANGED <<sckTask, asks, protocolTask, permit, driver, pendingShot, tombstone, lease,
                 settler, shotLosses>>

\* The picture must be the one that was asked for: its target, clip, size, budget,
\* regions and times are compared with the request and with the authority's map.
Passes(said) == IF said.frame THEN BOOLEAN ELSE {FALSE}

\* Then it is published and its freshness proved; either may be refused.
Published(passed) == IF passed THEN BOOLEAN ELSE {FALSE}

\* A result in time: the record takes its revision.  A task that has not drained is
\* not released.
ResultIsTaken ==
  LET said == asks["result"].answer
  IN /\ captureCall.at \in {"waiting", "lastWait"}
     /\ asks["result"].at = "heard"
     /\ pendingShot' = [pendingShot EXCEPT !.rev = said.rev]
     /\ \E passed \in Passes(said) : \E ok \in Published(passed) :
          IF said.drained
          THEN captureCall' = [captureCall EXCEPT !.at = "releasing", !.ok = ok]
          ELSE CallEnds("unknown", ok)
     /\ UNCHANGED <<sckTask, asks, protocolTask, permit, driver, tombstone, lease, settler,
                    shotLosses>>

\* Release at the end of a success, or on the way out of a failure.
CaptureReleases ==
  /\ captureCall.at = "releasing"
  /\ UNCHANGED <<asks, permit, tombstone, lease, settler>>
  /\ ReleaseTask("task",
       /\ CallEnds(CleanupAfter(TRUE), captureCall.ok)
       /\ pendingShot' = [pendingShot EXCEPT !.known = FALSE],
       /\ CallEnds(CleanupAfter(FALSE), FALSE)
       /\ pendingShot' = [pendingShot EXCEPT !.stage = "unknown"])

\* The runtime ends the lease or keeps it in quarantine.
LeaseFollows ==
  /\ captureCall.at = "done" /\ lease = "active"
  /\ lease' = IF captureCall.told = "complete" THEN "released" ELSE "quarantined"
  /\ UNCHANGED <<sckTask, captureCall, asks, protocolTask, permit, driver, pendingShot, tombstone,
                 settler, shotLosses>>

(***************************************************************************)
(* Settling a capture whose end was not known.                             *)
(***************************************************************************)

ReconcileAsks ==
  /\ lease = "quarantined" /\ pendingShot.known /\ ~pendingShot.terminal
  /\ settler = "idle" /\ asks["status"].at \in {"idle", "heard", "failed"}
  /\ settler' = "asking"
  /\ AskHelper("status")
  /\ UNCHANGED <<sckTask, captureCall, protocolTask, permit, driver, pendingShot, tombstone, lease,
                 shotLosses>>

IsNews(said) == said.rev >= pendingShot.rev /\ (said.drained => said.rev > pendingShot.rev)
ReconcileCapture ==
  LET said == asks["status"].answer
  IN /\ settler = "asking" /\ asks["status"].at \in {"heard", "failed"}
     /\ settler' = "idle"
     /\ IF asks["status"].at = "heard" /\ IsNews(said)
        THEN pendingShot' = [pendingShot EXCEPT !.rev = said.rev, !.terminal = said.drained]
        ELSE UNCHANGED pendingShot
     /\ UNCHANGED <<sckTask, captureCall, asks, protocolTask, permit, driver, tombstone, lease,
                    shotLosses>>

\* The runtime takes the report of a complete cleanup and gives a receipt for it.
LeaseIsReconciled ==
  /\ lease = "quarantined" /\ pendingShot.terminal
  /\ lease' = "revoked"
  /\ UNCHANGED <<sckTask, captureCall, asks, protocolTask, permit, driver, pendingShot, tombstone,
                 settler, shotLosses>>

\* With the receipt the task is released; the same receipt again changes nothing.
AcknowledgeReconciliation ==
  /\ lease = "revoked" /\ ~tombstone /\ pendingShot.known
  /\ UNCHANGED <<captureCall, asks, permit, lease, settler>>
  /\ ReleaseTask("ack",
       /\ tombstone' = TRUE
       /\ pendingShot' = [pendingShot EXCEPT !.known = FALSE],
       /\ pendingShot' = [pendingShot EXCEPT !.stage = "unknown"]
       /\ UNCHANGED tombstone)

ScreenNext ==
  \/ TaskGoesOn \/ CaptureStarts \/ HelperStarts \/ StartIsHeard \/ StartFails
  \/ GivesUpWaiting \/ ReadsLastStatus \/ StaysUnresolved \/ ResultIsTaken
  \/ CaptureReleases \/ LeaseFollows \/ PictureIsRefused
  \/ ReconcileAsks \/ ReconcileCapture \/ LeaseIsReconciled \/ AcknowledgeReconciliation
  \/ \E r \in Readers : HelperAnswers(r) \/ AnswerComes(r) \/ AnswerIsHeard(r)

ScreenSpec == ScreenInit /\ [][ScreenNext]_screenVars

(***************************************************************************)
(* Properties.                                                             *)
(***************************************************************************)

ScreenTypeOK ==
  /\ sckTask.at \in {"none", "running", "answered", "drained", "released"}
  /\ sckTask.rev \in 0..(3 + MaxLateChanges)
  /\ captureCall.at \in {"ready", "starting", "waiting", "lastWait", "reading", "releasing", "done"}
  /\ captureCall.told \in {"none", "complete", "unknown"} /\ captureCall.ok \in BOOLEAN
  /\ \A r \in Readers :
       asks[r].at \in {"idle", "sent", "answered", "coming", "heard", "failed"}
  /\ permit.rev \in Nat /\ protocolTask.rev \in Nat
  /\ driver.key \in {"none", "task", "ack"} /\ driver.task \in BOOLEAN
  /\ lease \in {"active", "quarantined", "revoked", "released"}
  /\ settler \in {"idle", "asking"} /\ tombstone \in BOOLEAN

\* What the runtime believes of a capture is true of the helper: a cleanup told as
\* complete, a lease that is free again and a tombstone are those of a task that was
\* never started or is drained and released; a known end is one the helper reached;
\* nobody knows a later status than the helper's; and a task the runtime knows and
\* whose end it does not can still be settled.
CaptureIsSettled ==
  /\ captureCall.told = "complete" => sckTask.at \in {"none", "released"}
  /\ lease \in {"revoked", "released"} => sckTask.at = "none" \/ Drained(sckTask)
  /\ permit.terminal \/ pendingShot.terminal => Drained(sckTask)
  /\ tombstone => sckTask.at = "released" /\ captureCall.told = "unknown"
  /\ permit.rev <= sckTask.rev /\ protocolTask.rev <= sckTask.rev
  /\ protocolTask.terminal => permit.terminal
  /\ driver.task /\ captureCall.at # "done" => pendingShot.known
  /\ captureCall.told = "unknown" /\ pendingShot.rev > 0 => pendingShot.known \/ tombstone
=============================================================================
