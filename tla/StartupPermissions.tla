-------------------------- MODULE StartupPermissions --------------------------
(***************************************************************************)
(* The permission flow of the runtime's start (runtime/src/                 *)
(* startup-permissions.ts) and the gate it keeps in runtime/src/host.ts:    *)
(* admission stays sealed until the system permissions are there and the    *)
(* backend is prepared, or its preparation failed.                          *)
(*                                                                         *)
(* The flow asks the helper for the status, asks the system once to request *)
(* what is missing, and then only looks.  Every call to system_health may        *)
(* look at the same time, so answers made at different moments arrive in    *)
(* any order; each carries the moment the helper made it.  The user grants  *)
(* permissions, and may take them back, while all this goes on; and an      *)
(* administrator or a client may recover what a dead runtime left, which    *)
(* opens admission without a look at the flow.                              *)
(***************************************************************************)
EXTENDS Naturals, FiniteSets

CONSTANTS Lookers,             \* calls of system_health that look
          MaxLooks,            \* answers the helper makes
          MaxPermissionFaults  \* exchanges that fail, permissions taken back

ASSUME PermissionAssumption == {MaxLooks, MaxPermissionFaults} \subseteq Nat

VARIABLES
  granted,     \* what the system really allows: "missing", "restart" (needed),
               \* "impossible" or "all"
  permission,  \* the flow's state and the flags of the class
  flow,        \* where #run stands, and its answer on the way
  looking,     \* each looker's place, and its answer on the way
  looksMade,   \* answers made: the clock of observedAt
  told,        \* the last of onReady and onBlocked that was called
  requests,    \* times the system was asked to request permissions
  gate,        \* who opened admission, and the preparation of the backend
  everGranted, \* every permission was there at some moment
  permissionFaults

permissionVars == <<granted, permission, flow, looking, looksMade, told, requests,
                    gate, everGranted, permissionFaults>>

NoLookAnswer == [at |-> 0, saw |-> "missing"]
FlowEnded == {"ready", "restart-needed", "failed"}

PermissionInit ==
  /\ granted \in {"missing", "all"}
  /\ everGranted = (granted = "all")
  /\ permission = [state |-> "checking", issued |-> FALSE, notified |-> FALSE,
                   checkedAt |-> 0]
  /\ flow = [at |-> "owner", answer |-> NoLookAnswer]
  /\ looking = [l \in Lookers |-> [at |-> "unused", answer |-> NoLookAnswer]]
  /\ looksMade = 0
  /\ told = "nothing"
  /\ requests = 0
  /\ gate = [opened |-> "nobody", preparing |-> "none"]
  /\ permissionFaults = 0

PermissionFault ==
  /\ permissionFaults < MaxPermissionFaults
  /\ permissionFaults' = permissionFaults + 1

(***************************************************************************)
(* #accept: what one answer does to the state.                             *)
(***************************************************************************)

DropsWorse(answer) ==  \* mutant
  \/ permission.state = "ready" /\ answer.saw # "all"
  \/ permission.state = "restart-needed" /\ answer.saw \in {"missing", "impossible"}
\* An older answer, or a worse one once the flow has ended well, is dropped.
Dropped(answer) ==
  \/ answer.at < permission.checkedAt
  \/ permission.state = "ready" /\ answer.saw # "all"
  \/ permission.state = "restart-needed" /\ answer.saw \in {"missing", "impossible"}

NextPermission(answer, fallback) ==
  CASE answer.saw = "all" -> "ready"
    [] answer.saw = "restart" -> "restart-needed"
    [] answer.saw = "impossible" -> "failed"
    [] OTHER -> fallback

StaysNotified(next) == TRUE  \* mutant
\* A state that is not ready forgets that readiness was announced.
NotifiedAfter(next) == next = "ready"

Accepted(answer, fallback) ==
  LET next == NextPermission(answer, fallback)
  IN IF Dropped(answer) THEN permission
     ELSE [permission EXCEPT !.state = next, !.checkedAt = answer.at,
                             !.notified = NotifiedAfter(next)]

\* What the owner of the flow is told; the host begins its preparation when the
\* permissions are there; when they are not it seals admission and gives up the
\* view guard, so that a later preparation is a new one.
MayPrepare == gate.preparing = "none"
Announce(answer, fallback) ==
  LET next == NextPermission(answer, fallback)
      first == next = "ready" /\ ~permission.notified
  IN IF Dropped(answer) THEN UNCHANGED <<told, gate>>
     ELSE /\ told' = CASE first -> "ready" [] next # "ready" -> "blocked" [] OTHER -> told
          /\ gate' = CASE first /\ MayPrepare -> [gate EXCEPT !.preparing = "asked"]
                       [] next # "ready" ->
                            [opened |-> "nobody",
                             preparing |-> IF gate.preparing = "done" THEN "none"
                                           ELSE gate.preparing]
                       [] OTHER -> gate

AcceptAnswer(answer, fallback) ==
  /\ permission' = Accepted(answer, fallback)
  /\ Announce(answer, fallback)

(***************************************************************************)
(* The flow.                                                               *)
(***************************************************************************)

FlowAt(p) == flow' = [flow EXCEPT !.at = p]

\* The owner of the permissions is verified, then the first status is asked.
VerifyOwner ==
  /\ flow.at = "owner"
  /\ FlowAt("first")
  /\ UNCHANGED <<granted, permission, looking, looksMade, told, requests, gate,
                 everGranted, permissionFaults>>

\* The helper answers an exchange with what it sees at that moment.
HelperLooks(who) ==
  /\ looksMade < MaxLooks
  /\ looksMade' = looksMade + 1
  /\ \/ /\ who = "flow"
        /\ flow.at \in {"first", "request", "status"}
        /\ flow.answer = NoLookAnswer
        /\ flow' = [flow EXCEPT !.answer = [at |-> looksMade + 1, saw |-> granted]]
        /\ requests' = requests + (IF flow.at = "request" THEN 1 ELSE 0)
        /\ UNCHANGED looking
     \/ /\ who \in Lookers
        /\ looking[who].at = "status"
        /\ looking[who].answer = NoLookAnswer
        /\ looking' = [looking EXCEPT ![who].answer =
                         [at |-> looksMade + 1, saw |-> granted]]
        /\ UNCHANGED <<flow, requests>>
  /\ UNCHANGED <<granted, permission, told, gate, everGranted, permissionFaults>>

\* The first answer; what is still missing is requested from the system.
FirstStatus ==
  /\ flow.at = "first" /\ flow.answer # NoLookAnswer
  /\ Announce(flow.answer, "checking")
  /\ LET after == Accepted(flow.answer, "checking")
     IN IF after.state \in FlowEnded
        THEN /\ permission' = after
             /\ flow' = [at |-> "ended", answer |-> NoLookAnswer]
        ELSE /\ permission' = [after EXCEPT !.state = "requesting", !.issued = TRUE]
             /\ flow' = [at |-> "request", answer |-> NoLookAnswer]
  /\ UNCHANGED <<granted, looking, looksMade, requests, everGranted, permissionFaults>>

\* The answer to the request and to every later look: the flow ends, sleeps and
\* looksMade again, or its time is over.
LaterStatus ==
  /\ flow.at \in {"request", "status"} /\ flow.answer # NoLookAnswer
  /\ Announce(flow.answer, "waiting")
  /\ LET after == Accepted(flow.answer, "waiting")
     IN \/ /\ after.state \in FlowEnded
           /\ permission' = after
           /\ flow' = [at |-> "ended", answer |-> NoLookAnswer]
        \/ /\ after.state \notin FlowEnded
           /\ permission' = after
           /\ flow' = [at |-> "sleep", answer |-> NoLookAnswer]
        \/ /\ after.state \notin FlowEnded
           /\ permission' = [after EXCEPT !.state = "timed-out"]
           /\ flow' = [at |-> "ended", answer |-> NoLookAnswer]
  /\ UNCHANGED <<granted, looking, looksMade, requests, everGranted, permissionFaults>>

\* After its sleep the flow looksMade, even if another look has ended it meanwhile.
LookAgain ==
  /\ flow.at = "sleep"
  /\ FlowAt("status")
  /\ UNCHANGED <<granted, permission, looking, looksMade, told, requests, gate,
                 everGranted, permissionFaults>>

\* An exchange that fails ends the flow, whatever the state has become.
FlowFails ==
  /\ flow.at \in {"owner", "first", "request", "status"}
  /\ PermissionFault
  /\ flow' = [at |-> "ended", answer |-> NoLookAnswer]
  /\ permission' = [permission EXCEPT !.state = "failed"]
  /\ UNCHANGED <<granted, looking, looksMade, told, requests, gate, everGranted>>

(***************************************************************************)
(* refreshStatus, called by system_health.                                 *)
(***************************************************************************)

LookerAt(l, p) == looking' = [looking EXCEPT ![l] = [at |-> p, answer |-> NoLookAnswer]]

RefreshStatus(l) ==
  /\ looking[l].at = "unused"
  /\ LookerAt(l, IF permission.state = "ready" THEN "ended" ELSE "status")
  /\ UNCHANGED <<granted, permission, flow, looksMade, told, requests, gate,
                 everGranted, permissionFaults>>

RefreshFallback ==
  IF permission.state \in {"ready", "timed-out"} THEN "waiting" ELSE permission.state
RefreshAnswered(l) ==
  /\ looking[l].at = "status" /\ looking[l].answer # NoLookAnswer
  /\ LookerAt(l, "ended")
  /\ AcceptAnswer(looking[l].answer, RefreshFallback)
  /\ UNCHANGED <<granted, flow, looksMade, requests, everGranted, permissionFaults>>

RefreshFails(l) ==
  /\ looking[l].at = "status"
  /\ PermissionFault
  /\ LookerAt(l, "ended")
  /\ UNCHANGED <<granted, permission, flow, looksMade, told, requests, gate, everGranted>>

(***************************************************************************)
(* The preparation of the backend.  Besides onReady, system_health begins   *)
(* one of its own when there is no observer, whatever the flow says.        *)
(***************************************************************************)

HealthPrepares ==
  /\ MayPrepare
  /\ gate' = [gate EXCEPT !.preparing = "asked"]
  /\ UNCHANGED <<granted, permission, flow, looking, looksMade, told, requests,
                 everGranted, permissionFaults>>

\* Before each attempt the helper must see every permission.
PreparationChecks ==
  /\ gate.preparing = "asked"
  /\ gate' = [gate EXCEPT !.preparing = IF granted = "all" THEN "checked" ELSE "failing"]
  /\ UNCHANGED <<granted, permission, flow, looking, looksMade, told, requests,
                 everGranted, permissionFaults>>

PreparationFaults ==
  /\ gate.preparing \in {"asked", "checked"}
  /\ PermissionFault
  /\ gate' = [gate EXCEPT !.preparing = "failing"]
  /\ UNCHANGED <<granted, permission, flow, looking, looksMade, told, requests, everGranted>>

\* A failed preparation opens what does not need the observer, but only for a
\* flow that has ended well; it may be tried again.
OpensAnyhow == TRUE  \* mutant
OpensWithoutObserver == permission.state = "ready"
\* To open what is open changes nothing.
OpenedBy(who) == IF gate.opened = "nobody" THEN who ELSE gate.opened
PreparationEnds ==
  /\ \/ /\ gate.preparing = "checked"
        /\ gate' = [opened |-> OpenedBy("preparation"), preparing |-> "done"]
     \/ /\ gate.preparing = "failing"
        /\ gate' = [opened |-> IF OpensWithoutObserver THEN OpenedBy("preparation") ELSE gate.opened,
                    preparing |-> "none"]
  /\ UNCHANGED <<granted, permission, flow, looking, looksMade, told, requests,
                 everGranted, permissionFaults>>

\* recoverStartup, asked by an administrator or by recover_startup_input: when all that was
\* left is recovered admission opens, when evidence remains it is sealed; the flow is not asked.
StartupRecovered ==
  /\ \E who \in {OpenedBy("recovery"), "nobody"} : gate' = [gate EXCEPT !.opened = who]
  /\ UNCHANGED <<granted, permission, flow, looking, looksMade, told, requests,
                 everGranted, permissionFaults>>

\* The user grants what is missing, with or without a restart; or takes it back.
UserDecides ==
  \/ /\ granted = "missing"
     /\ \E g \in {"all", "restart", "impossible"} :
          /\ granted' = g
          /\ everGranted' = (everGranted \/ g = "all")
     /\ UNCHANGED <<permission, flow, looking, looksMade, told, requests, gate,
                    permissionFaults>>
  \/ /\ granted = "all"
     /\ PermissionFault
     /\ granted' = "missing"
     /\ UNCHANGED <<permission, flow, looking, looksMade, told, requests, gate, everGranted>>

PermissionNext ==
  \/ VerifyOwner
  \/ \E who \in Lookers \cup {"flow"} : HelperLooks(who)
  \/ FirstStatus
  \/ LaterStatus
  \/ LookAgain
  \/ FlowFails
  \/ \E l \in Lookers : RefreshStatus(l) \/ RefreshAnswered(l) \/ RefreshFails(l)
  \/ HealthPrepares
  \/ PreparationChecks
  \/ PreparationFaults
  \/ PreparationEnds
  \/ StartupRecovered
  \/ UserDecides

PermissionSpec == PermissionInit /\ [][PermissionNext]_permissionVars

--------------------------------------------------------------------------------

PermissionTypeOK ==
  /\ permission.state \in {"checking", "requesting", "waiting", "ready",
                           "restart-needed", "timed-out", "failed"}
  /\ flow.at \in {"owner", "first", "request", "sleep", "status", "ended"}
  /\ told \in {"nothing", "ready", "blocked"}
  /\ gate.opened \in {"nobody", "preparation", "recovery"}
  /\ gate.preparing \in {"none", "asked", "checked", "failing", "done"}
  /\ looksMade \in 0..MaxLooks
  /\ requests \in 0..1

\* A preparation never opens admission before the system has granted every permission at
\* least once, neither the one the flow asked for nor the one that system_health starts
\* while the flow is still waiting.  A recovery of the dead runtime's operations may
\* (host.ts recoverStartup); it opens admission whatever the flow says.
NothingBeforeTheGrant == gate.opened = "preparation" => everGranted

\* The flow says ready only to an owner who was told so, and not told the
\* opposite since: a flow that came back after a refusal announces itself again.
ReadyIsAnnounced == permission.state = "ready" => told = "ready"

\* Admission and the owner hear the truth, whatever order the answers come in: the
\* state the doctor shows is that of the newest answer taken in, and an older answer of
\* a parallel look never replaces it.
GuardsAdmission ==
  /\ NothingBeforeTheGrant' /\ ReadyIsAnnounced'
  /\ permission'.checkedAt >= permission.checkedAt
================================================================================
