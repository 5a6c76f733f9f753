----------------------------- MODULE HostLifecycle -----------------------------
(***************************************************************************)
(* How a runtime process gives up its helper, its lock and itself          *)
(* (runtime/src/host.ts drain, close, prepareRecoveryRestart,              *)
(* beginBackendPreparation and recoverStartup, rotation.ts,                *)
(* restart-quarantined.ts, server.ts shutdownRuntimeHost).                 *)
(*                                                                         *)
(* A rotation seals admission, drains with a budget of its own, falls back *)
(* on a quarantined restart, closes and exits.  A drain that overruns its  *)
(* budget goes on while the restart and the close run; an administrator or *)
(* a signal may start a drain or a close at any time; the preparation of   *)
(* the observer, which opens admission when it is done, may be under way.  *)
(* So may a recovery of what the dead runtime left: it asks whether the    *)
(* host is draining when it begins, and may open admission when it ends,   *)
(* however much of the runtime has been given up meanwhile.                *)
(* A managed runtime with an owned helper; client grace and permission     *)
(* polling are steps that take time.                                       *)
(***************************************************************************)
EXTENDS Naturals, FiniteSets

CONSTANTS
  HostOps,        \* operations a client may start
  MaxHostFaults   \* bound: failed steps, deadlines, quarantined operations, dead helpers

ASSUME HostAssumption == IsFiniteSet(HostOps) /\ MaxHostFaults \in Nat

VARIABLES
  rotation,      \* status of startRuntimeRotation
  drain,         \* performDrain: its stage, or "idle"
  restart,       \* prepareQuarantinedRestart: its stage, or "idle"
  close,         \* close(): its stage, or "idle"
  admission,     \* "open" or "sealed"
  preparation,   \* backendPreparation: "none" or "running"
  prepAborted,   \* preparationAbort
  draining,      \* the flag of the host: a drain has begun, now or earlier
  recovering,    \* recoverStartup calls that found no drain, and may reopen, are under way
  hostOps,       \* each operation: "new", "active", "done" or "quarantined"
  helper,        \* the owned child: "up", or "exited" and confirmed
  exitRecorded,  \* the actor record says so
  retained,      \* operations whose quarantine the restart retained, or NotRetained
  receipt,       \* the restart receipt is durable
  lockHeld,      \* the host lock
  process,       \* "running" or "exited"
  reopened,      \* history: a recovery opened what a drain, restart or close had sealed
  late,          \* history: operations admitted since
  hostFaults

hostVars == <<rotation, drain, restart, close, admission, preparation, prepAborted, draining, recovering, hostOps, helper,
              exitRecorded, retained, receipt, lockHeld, process, reopened, late, hostFaults>>
runVars == <<drain, restart, close>>
recoveryVars == <<draining, recovering, reopened, late>>
worldVars == <<hostOps, helper, exitRecorded, retained, receipt, lockHeld, process>>
-----------------------------------------------------------------------------
NotRetained == {"nothing"}
HostInit ==
  /\ rotation = "running" /\ drain = "idle" /\ restart = "idle" /\ close = "idle"
  /\ admission \in {"open", "sealed"} /\ preparation = "running" /\ prepAborted = FALSE
  /\ draining = FALSE /\ recovering = FALSE /\ reopened = FALSE /\ late = {}
  /\ hostOps = [o \in HostOps |-> "new"] /\ helper = "up" /\ exitRecorded = FALSE
  /\ retained = NotRetained /\ receipt = FALSE /\ lockHeld = TRUE /\ process = "running" /\ hostFaults = 0

HostTypeOK ==
  /\ rotation \in {"running", "draining", "recovering", "restarting", "blocked", "exited"}
  /\ drain \in {"idle", "recording", "operations", "browsers", "preparing", "observing", "draining", "complete"}
  /\ restart \in {"idle", "retain", "browsers", "stopping", "persist", "done", "failed"}
  /\ close \in {"idle", "started", "preparing", "child", "lock", "done", "failed"}
  /\ admission \in {"open", "sealed"} /\ preparation \in {"none", "running"}
  /\ {prepAborted, draining, recovering, exitRecorded, receipt, lockHeld, reopened} \subseteq BOOLEAN
  /\ late \subseteq HostOps
  /\ hostOps \in [HostOps -> {"new", "active", "done", "quarantined"}]
  /\ helper \in {"up", "exited"} /\ process \in {"running", "exited"}
  /\ retained = NotRetained \/ retained \subseteq HostOps

HostFault == hostFaults < MaxHostFaults /\ hostFaults' = hostFaults + 1
NoHostFault == UNCHANGED hostFaults
Alive == process = "running"
ActiveOps == {o \in HostOps : hostOps[o] = "active"}
QuarantinedOps == {o \in HostOps : hostOps[o] = "quarantined"}
-----------------------------------------------------------------------------
(* Operations and the preparation of the observer.                         *)
StartOp(o) ==
  /\ Alive /\ hostOps[o] = "new" /\ admission = "open" /\ helper = "up"
  /\ hostOps' = [hostOps EXCEPT ![o] = "active"] /\ NoHostFault
  /\ late' = IF reopened THEN late \cup {o} ELSE late
  /\ UNCHANGED <<rotation, runVars, admission, preparation, prepAborted, draining, recovering, reopened, helper,
                exitRecorded, retained, receipt, lockHeld, process>>

EndOp(o) ==
  /\ Alive /\ hostOps[o] = "active"
  /\ \/ hostOps' = [hostOps EXCEPT ![o] = "done"] /\ NoHostFault
     \/ hostOps' = [hostOps EXCEPT ![o] = "quarantined"] /\ HostFault
  /\ UNCHANGED <<recoveryVars, rotation, runVars, admission, preparation, prepAborted, helper, exitRecorded, retained, receipt, lockHeld, process>>

\* core.unsealAdmission refuses while an operation is active or quarantined.
Unsealed == IF ActiveOps \cup QuarantinedOps = {} THEN "open" ELSE admission
BeginPreparation ==
  /\ Alive /\ preparation = "none" /\ ~prepAborted /\ ~draining /\ ActiveOps = {} /\ helper = "up"
  /\ preparation' = "running" /\ HostFault
  /\ UNCHANGED <<recoveryVars, rotation, runVars, admission, prepAborted, worldVars>>

\* preparationSignal.throwIfAborted() comes right before the observer is ready and admission opens.
OpensAnyway == TRUE
MayOpen == ~prepAborted
EndPreparation ==
  /\ Alive /\ preparation = "running" /\ preparation' = "none"
  /\ admission' = IF MayOpen THEN Unsealed ELSE admission
  /\ NoHostFault /\ UNCHANGED <<recoveryVars, rotation, runVars, prepAborted, worldVars>>

\* recoverStartup: whether to reopen is decided as its refresh begins, the refresh awaits
\* receipts and writes, and at its end seals (evidence remains), opens, or leaves admission
\* as it is.  One that found a drain may only seal.
RecoveryBegins ==
  /\ Alive /\ ~draining /\ ~recovering /\ recovering' = TRUE
  /\ NoHostFault /\ UNCHANGED <<rotation, runVars, admission, preparation, prepAborted, draining, reopened, late, worldVars>>

GivenUp == prepAborted
RecoveryEnds ==
  /\ Alive /\ recovering
  /\ recovering' \in BOOLEAN  \* another one may still be under way
  /\ admission' \in {"sealed", admission, Unsealed}
  /\ reopened' = (reopened \/ (GivenUp /\ admission = "sealed" /\ admission' = "open"))
  /\ NoHostFault /\ UNCHANGED <<rotation, runVars, preparation, prepAborted, draining, late, worldVars>>

RecoverySeals ==
  /\ Alive /\ admission' = "sealed"
  /\ NoHostFault /\ UNCHANGED <<recoveryVars, rotation, runVars, preparation, prepAborted, worldVars>>

HelperDies ==
  /\ Alive /\ helper = "up" /\ helper' = "exited" /\ HostFault
  /\ UNCHANGED <<recoveryVars, rotation, runVars, admission, preparation, prepAborted, hostOps, exitRecorded, retained, receipt, lockHeld, process>>
-----------------------------------------------------------------------------
(* drain(): one at a time, shared by whoever asks; a failed one may be     *)
(* started again.                                                          *)
StartDrain ==
  /\ Alive /\ drain = "idle" /\ drain' = "recording" /\ draining' = TRUE
  /\ UNCHANGED <<recovering, reopened, late, rotation, restart, close, admission, preparation, prepAborted, worldVars>>

\* drain-start is on the lifecycle log before admission is sealed.
SealForDrain ==
  /\ Alive /\ drain = "recording" /\ drain' = "operations" /\ admission' = "sealed" /\ prepAborted' = TRUE
  /\ NoHostFault /\ UNCHANGED <<recoveryVars, rotation, restart, close, preparation, worldVars>>

DrainTo(at, next) ==
  /\ Alive /\ drain = at /\ drain' = next /\ NoHostFault
  /\ UNCHANGED <<recoveryVars, rotation, restart, close, admission, preparation, prepAborted, worldVars>>
NoOpsLeft == ActiveOps = {}
DrainOperations == NoOpsLeft /\ QuarantinedOps = {} /\ DrainTo("operations", "browsers")
DrainPreparation == preparation = "none" /\ DrainTo("preparing", "observing")
\* The helper acknowledges the drain; a quarantined or active operation fails it.
DrainNative == helper = "up" /\ ActiveOps \cup QuarantinedOps = {} /\ DrainTo("draining", "complete")
DrainFails ==
  /\ \/ drain = "operations" /\ NoOpsLeft /\ QuarantinedOps # {} /\ NoHostFault
     \/ drain = "draining" /\ (helper # "up" \/ QuarantinedOps # {}) /\ NoHostFault
     \/ drain \in {"browsers", "observing", "draining"} /\ HostFault
  /\ Alive /\ drain' = "idle"
  /\ UNCHANGED <<recoveryVars, rotation, restart, close, admission, preparation, prepAborted, worldVars>>

HostDrain ==
  \/ SealForDrain \/ DrainOperations \/ DrainTo("browsers", "preparing")
  \/ DrainPreparation \/ DrainTo("observing", "draining") \/ DrainNative \/ DrainFails
-----------------------------------------------------------------------------
(* prepareQuarantinedRestart: retain, stop the owned child, persist.       *)
RestartTo(next) == restart' = next
Retain ==
  /\ Alive /\ restart = "retain" /\ NoOpsLeft /\ RestartTo("browsers") /\ retained' = QuarantinedOps
  /\ NoHostFault /\ UNCHANGED <<recoveryVars, rotation, drain, close, admission, preparation, prepAborted, hostOps, helper, exitRecorded, receipt,
                              lockHeld, process>>
RestartBrowsers ==
  /\ Alive /\ restart = "browsers" /\ RestartTo("stopping")
  /\ NoHostFault /\ UNCHANGED <<recoveryVars, rotation, drain, close, admission, preparation, prepAborted, worldVars>>
StopOwnedNative ==
  /\ Alive /\ restart = "stopping" /\ preparation = "none" /\ RestartTo("persist")
  /\ helper' = "exited" /\ exitRecorded' = TRUE /\ NoHostFault
  /\ UNCHANGED <<recoveryVars, rotation, drain, close, admission, preparation, prepAborted, hostOps, retained, receipt, lockHeld, process>>
PersistExit ==
  /\ Alive /\ restart = "persist" /\ RestartTo("done") /\ receipt' = TRUE /\ NoHostFault
  /\ UNCHANGED <<recoveryVars, rotation, drain, close, admission, preparation, prepAborted, hostOps, helper, exitRecorded, retained, lockHeld, process>>
RestartFails ==
  /\ Alive /\ restart \in {"retain", "browsers", "stopping", "persist"} /\ RestartTo("failed") /\ HostFault
  /\ UNCHANGED <<recoveryVars, rotation, drain, close, admission, preparation, prepAborted, worldVars>>
HostRestart == Retain \/ RestartBrowsers \/ StopOwnedNative \/ PersistExit \/ RestartFails
-----------------------------------------------------------------------------
(* close(): once, whatever fails on the way; the lock goes last and only   *)
(* when the exit of the owned child is confirmed.                          *)
StartClose ==
  /\ Alive /\ close = "idle" /\ close' = "started" /\ admission' = "sealed" /\ prepAborted' = TRUE
  /\ UNCHANGED <<recoveryVars, rotation, drain, restart, preparation, worldVars>>

CloseClients ==
  /\ Alive /\ close = "started" /\ close' = "preparing" /\ NoHostFault
  /\ UNCHANGED <<recoveryVars, rotation, drain, restart, admission, preparation, prepAborted, worldVars>>
CloseObserver ==
  /\ Alive /\ close = "preparing" /\ preparation = "none" /\ close' = "child" /\ NoHostFault
  /\ UNCHANGED <<recoveryVars, rotation, drain, restart, admission, preparation, prepAborted, worldVars>>

\* closeNative: end of input, then TERM, then KILL; the exit may stay unconfirmed,
\* and the record of a confirmed one may fail.
CloseChild ==
  /\ Alive /\ close = "child" /\ close' = "lock"
  /\ \/ helper' = "exited" /\ exitRecorded' = TRUE /\ NoHostFault
     \/ helper' = "exited" /\ exitRecorded' = exitRecorded /\ HostFault
     \/ helper' = helper /\ exitRecorded' = exitRecorded /\ HostFault
  /\ UNCHANGED <<recoveryVars, rotation, drain, restart, admission, preparation, prepAborted, hostOps, retained, receipt, lockHeld, process>>

ExitAssumed == TRUE
ExitConfirmed == helper = "exited"
ReleaseLock ==
  /\ Alive /\ close = "lock" /\ lockHeld' = IF ExitConfirmed THEN FALSE ELSE lockHeld
  /\ close' = IF ExitConfirmed /\ exitRecorded THEN "done" ELSE "failed"
  /\ NoHostFault
  /\ UNCHANGED <<recoveryVars, rotation, drain, restart, admission, preparation, prepAborted, hostOps, helper, exitRecorded, retained, receipt, process>>
HostClose == CloseClients \/ CloseObserver \/ CloseChild \/ ReleaseLock
-----------------------------------------------------------------------------
(* startRuntimeRotation                                                    *)
Reason == helper # "up" \/ (ActiveOps = {} /\ QuarantinedOps # {})
RotationMoves(to) == rotation' = to

\* check(): a reason, or a spent budget; stop() of a close in progress ends all checks.
Check ==
  /\ Alive /\ rotation = "running" /\ close = "idle" /\ RotationMoves("draining")
  /\ \/ Reason /\ NoHostFault
     \/ ~Reason /\ HostFault
  /\ drain' = (IF drain = "idle" THEN "recording" ELSE drain) /\ draining' = TRUE
  /\ admission' = "sealed" /\ UNCHANGED <<recovering, reopened, late, restart, close, preparation, prepAborted, worldVars>>

StartClosing == close' = IF close = "idle" THEN "started" ELSE close
Drained ==
  /\ Alive /\ rotation = "draining" /\ drain = "complete" /\ RotationMoves("restarting")
  /\ StartClosing /\ admission' = "sealed" /\ prepAborted' = TRUE /\ NoHostFault
  /\ UNCHANGED <<recoveryVars, drain, restart, preparation, worldVars>>

\* The drain failed, or its phase ran out of time: a late result is ignored.
FallBack ==
  /\ Alive /\ rotation = "draining" /\ RotationMoves("recovering")
  /\ \/ drain = "idle" /\ NoHostFault
     \/ drain # "idle" /\ drain # "complete" /\ HostFault
  /\ restart' = "retain" /\ admission' = "sealed" /\ prepAborted' = TRUE
  /\ UNCHANGED <<recoveryVars, drain, close, preparation, worldVars>>

AnyRestart == restart \in {"done", "failed"}
Receipt == restart = "done"
Recovered ==
  /\ Alive /\ rotation = "recovering" /\ Receipt /\ RotationMoves("restarting") /\ StartClosing
  /\ admission' = "sealed" /\ prepAborted' = TRUE
  /\ NoHostFault /\ UNCHANGED <<recoveryVars, drain, restart, preparation, worldVars>>

Exit ==
  /\ Alive /\ rotation = "restarting" /\ close = "done" /\ RotationMoves("exited") /\ process' = "exited"
  /\ lockHeld' = FALSE /\ NoHostFault
  /\ UNCHANGED <<recoveryVars, runVars, admission, preparation, prepAborted, hostOps, helper, exitRecorded, retained, receipt>>

\* An error of a step, or the deadline of the whole rotation; what runs goes on.
Block ==
  /\ Alive /\ RotationMoves("blocked")
  /\ \/ rotation = "recovering" /\ restart = "failed" /\ NoHostFault
     \/ rotation = "restarting" /\ close = "failed" /\ NoHostFault
     \/ rotation \in {"draining", "recovering", "restarting"} /\ NoHostFault
  /\ UNCHANGED <<recoveryVars, runVars, admission, preparation, prepAborted, worldVars>>
HostRotation == Drained \/ FallBack \/ Recovered \/ Exit \/ Block

\* An administrator drains; a signal drains and closes.
Asked == (StartDrain \/ StartClose) /\ HostFault

HostNext ==
  \/ \E o \in HostOps : StartOp(o) \/ EndOp(o)
  \/ BeginPreparation \/ EndPreparation \/ HelperDies
  \/ RecoveryBegins \/ RecoveryEnds \/ RecoverySeals
  \/ Asked \/ Check \/ HostDrain \/ HostRestart \/ HostClose \/ HostRotation

HostSpec == HostInit /\ [][HostNext]_hostVars
-----------------------------------------------------------------------------
\* A rotation exits only clean or with the restart on record: no operation is
\* active, and every quarantined one is named by the durable receipt
\* (rotation.ts; restart-quarantined.ts).  Operations a recovery let in after the
\* runtime was given up are the exception (host.ts recoverStartup).
RotationExitsSafely ==
  rotation = "exited" => /\ ActiveOps \subseteq late /\ helper = "exited" /\ exitRecorded
                         /\ QuarantinedOps \ late = IF receipt THEN retained \ late ELSE {}

\* While the runtime lives, its lock outlives its helper: nobody takes over while
\* the child of this process may still act, though a close may be started by a
\* rotation and a signal at once (host.ts close).
LockOutlivesHelper == process = "running" /\ ~lockHeld => helper = "exited"

\* A drain that is acknowledged stays true: no operation is active afterwards and
\* none is admitted, though a preparation under way opens admission when it ends
\* (host.ts performDrain, beginBackendPreparation); only a recovery that began before the
\* drain, or under a close, may open admission again, and who is active then came in by it
\* (recoverStartup).
DrainedMeansQuiet ==
  drain = "complete" => ActiveOps \subseteq late /\ (admission = "sealed" \/ reopened)

\* Rotation, drain, close, a preparation and a recovery under way, each under timers of
\* its own, never combine to an exit or a free lock without proof, and admission opens
\* again by nothing but a recovery.
RotationIsSafe == RotationExitsSafely /\ LockOutlivesHelper /\ DrainedMeansQuiet
=============================================================================
